------------------------------ MODULE FileSys ------------------------------
(***************************************************************************)
(* How the kernel serves file reads: fs.c keeps the table of open files,   *)
(* ide_read() takes a byte at a time from the direct-mapped sector cache   *)
(* (driver/ide/cache.c), and a miss runs the programmed-I/O protocol of    *)
(* disk.c against the IDE device of NEMU (dev/ide.c).  The wait for the    *)
(* device's interrupt is IrqPath's; here it is over in the step Issue.     *)
(*                                                                         *)
(* Nothing calls ide_write(): fs_write() asserts fd <= 2.  So no line of   *)
(* the cache is ever dirty, cache_writeback() finds nothing to do, and the *)
(* device gets read commands only.                                         *)
(***************************************************************************)
EXTENDS Integers

CONSTANTS NR_FILES, size, disk_offset, disk, NUL, Mod, Lens, Offsets,
  Byte,
  SECTOR,        \* bytes of a sector, 512
  LONG,          \* bytes an in_long() takes from the device, 4
  NR_SEC_CACHE,  \* 128
  NrSectors,     \* sectors of the disk
  LoaderReads    \* from where and how much the loader reads: the program's
                 \* header, at 0, and its segments

DiskSize == NrSectors * SECTOR

VARIABLES files, result,
  cache,         \* struct SectorCache, without dirty
  sector_port,   \* the sector number in the device's ports
  disk_pos,      \* where the next fread() of the device is
  byte_cnt,      \* bytes of the sector the device has delivered
  pc,            \* where the kernel is
  cur, at, n, i, \* ide_read: for which file, from where, how much, how far
  asked,         \* fs_read's temp
  buf            \* what ide_read has put into the caller's buffer

device == <<sector_port, disk_pos, byte_cnt>>
call   == <<cur, at, n, asked>>
vars   == <<files, result, cache, device, pc, call, i, buf>>

Promise == INSTANCE Files
File == Promise!File
UInt == Promise!UInt
Returned(r) == Promise!Returned(r)
EmptyRead == Promise!EmptyRead

Loader == NR_FILES                        \* the caller that is no file
Sector == 0 .. NrSectors - 1
NoSector == NrSectors                     \* data bytes in the ports
Slot   == 0 .. NR_SEC_CACHE - 1
Place  == 0 .. SECTOR - 1                 \* offset & 511

ASSUME FileSysAssumption ==
  /\ NR_FILES \in Nat \ {0} /\ NrSectors \in Nat \ {0} /\ NR_SEC_CACHE \in Nat \ {0}
  /\ SECTOR \in Nat \ {0} /\ LONG \in Nat \ {0} /\ SECTOR % LONG = 0
  /\ Mod \in Nat /\ DiskSize < Mod
  /\ disk \in [0 .. DiskSize - 1 -> Byte]
  /\ size \in [File -> Nat] /\ disk_offset \in [File -> Nat]
  /\ \A f \in File : disk_offset[f] + size[f] <= DiskSize
  /\ Lens \subseteq UInt /\ Offsets \subseteq UInt
  /\ \A r \in LoaderReads : r.from \in Nat /\ r.len \in Nat /\ r.from + r.len <= DiskSize

TypeOK ==
  /\ files \in [File -> [used : BOOLEAN, offset : UInt]]
  /\ cache \in [Slot -> [used : BOOLEAN, sector : Sector, content : [Place -> Byte]]]
  /\ sector_port \in Sector \union {NoSector}
  /\ disk_pos \in 0 .. DiskSize
  /\ byte_cnt \in 0 .. SECTOR
  /\ pc \in {"boot", "user", "read", "prepare", "issue", "transfer"}
  /\ cur \in File \union {Loader}
  /\ at \in Nat /\ n \in Nat /\ asked \in UInt
  /\ i \in 0 .. n
  /\ buf \in [0 .. i - 1 -> Byte]

\* init_ide() of both sides (no content of an unused line is looked at); the
\* loader runs before the first process.
Init ==
  /\ files = [f \in File |-> [used |-> FALSE, offset |-> 0]]
  /\ result = Returned(0)
  /\ cache = [s \in Slot |-> [used |-> FALSE, sector |-> 0, content |-> [o \in Place |-> disk[0]]]]
  /\ sector_port = NoSector /\ disk_pos = 0 /\ byte_cnt = 0
  /\ pc = "boot"
  /\ cur = Loader /\ at = 0 /\ n = 0 /\ i = 0 /\ asked = 0
  /\ buf = <<>>

----------------------------------------------------------------------------
(* The system calls that end at once.  A process that passes a file it has *)
(* not open stops the machine at an assert, and calls nothing any more.    *)

Answers(answer) ==
  /\ result' = answer
  /\ UNCHANGED <<cache, device, pc, call, i, buf>>

Open(f) ==
  /\ pc = "user"
  /\ files' = [files EXCEPT ![f] = [used |-> TRUE, offset |-> 0]]
  /\ Answers(Returned(f + 3))

Close(f) ==
  /\ pc = "user" /\ files[f].used
  /\ files' = [files EXCEPT ![f].used = FALSE]
  /\ Answers(Returned(0))

\* SEEK_SET, SEEK_CUR, SEEK_END.
Lseek(f, offset, whence) ==
  LET from == [set |-> 0, cur |-> files[f].offset, end |-> size[f]]
      o    == (from[whence] + offset) % Mod
  IN  /\ pc = "user" /\ files[f].used
      /\ files' = [files EXCEPT ![f].offset = o]
      /\ Answers(Returned(o))

----------------------------------------------------------------------------
(* fs_read.  The subtraction is unsigned, and wraps when the process has   *)
(* moved past the end.                                                     *)

\* Mutant: a read at the end of the file takes one byte more.
Clamped_OneMore(f, len) ==
  LET room == (size[f] + Mod - files[f].offset) % Mod
  IN  IF room < len THEN room + 1 ELSE len

Clamped(f, len) ==
  LET room == (size[f] + Mod - files[f].offset) % Mod
  IN  IF room < len THEN room ELSE len

Nothing(f, len) == files[f].offset > size[f] \/ Clamped(f, len) = 0

IdeRead(c, from, len) ==
  /\ cur' = c /\ at' = from /\ n' = len /\ i' = 0 /\ buf' = <<>>
  /\ pc' = "read"
  /\ UNCHANGED <<files, result, cache, device>>

Read(f, len) ==
  /\ pc = "user" /\ files[f].used
  /\ \/ Nothing(f, len) /\ UNCHANGED files /\ Answers(EmptyRead)
     \/ /\ ~Nothing(f, len)
        /\ asked' = len
        /\ IdeRead(f, disk_offset[f] + files[f].offset, Clamped(f, len))

ReadReturn ==
  /\ pc = "read" /\ i = n /\ cur # Loader
  /\ pc' = "user"
  /\ files' = [files EXCEPT ![cur].offset = (@ + n) % Mod]
  /\ result' = [ret |-> asked, data |-> buf]
  /\ UNCHANGED <<cache, device, call, i, buf>>

\* The loader reads the program, by the same ide_read(), and jumps to it.
Load(r) ==
  /\ pc = "boot" /\ UNCHANGED asked
  /\ IdeRead(Loader, r.from, r.len)

LoadReturn ==
  /\ pc = "read" /\ i = n /\ cur = Loader
  /\ pc' \in {"boot", "user"}
  /\ UNCHANGED <<files, result, cache, device, call, i, buf>>

----------------------------------------------------------------------------
(* read_byte, cache_fetch.                                                 *)

SectorOf(offset) == offset \div SECTOR
SlotOf(sector)   == sector % NR_SEC_CACHE
Wanted == SectorOf(at + i)

\* Mutant: a line is taken for any sector that maps to it.
Hit_AnySector == cache[SlotOf(Wanted)].used

Hit == cache[SlotOf(Wanted)].used /\ cache[SlotOf(Wanted)].sector = Wanted

\* buf[i] = ptr->content[offset & 511]
Copied == [x \in 0 .. i |-> IF x = i THEN cache[SlotOf(Wanted)].content[(at + i) % SECTOR]
                                     ELSE buf[x]]

ReadByte ==
  /\ pc = "read" /\ i < n /\ Hit
  /\ buf' = Copied
  /\ i' = i + 1
  /\ UNCHANGED <<files, result, cache, device, pc, call>>

ReadMiss ==
  /\ pc = "read" /\ i < n /\ ~Hit
  /\ pc' = "prepare"
  /\ UNCHANGED <<files, result, cache, device, call, i, buf>>

----------------------------------------------------------------------------
(* disk_do_read and the device.                                            *)

Prepare ==
  /\ pc = "prepare" /\ pc' = "issue"
  /\ sector_port' = Wanted
  /\ UNCHANGED <<files, result, cache, disk_pos, byte_cnt, call, i, buf>>

\* Mutant: the device does not seek.
Issue_NoSeek ==
  /\ pc = "issue" /\ pc' = "transfer"
  /\ byte_cnt' = 0
  /\ UNCHANGED <<files, result, cache, sector_port, disk_pos, call, i, buf>>

\* Command 0x20, then its interrupt.
Issue ==
  /\ pc = "issue" /\ pc' = "transfer"
  /\ disk_pos' = sector_port * SECTOR /\ byte_cnt' = 0
  /\ UNCHANGED <<files, result, cache, sector_port, call, i, buf>>

\* Mutant: the loop takes one word too many.
Transfer_OneMore ==
  /\ pc = "transfer" /\ byte_cnt <= SECTOR
  /\ cache' = [cache EXCEPT ![SlotOf(Wanted)].content =
                 [o \in Place |-> IF o - byte_cnt \in 0 .. LONG - 1
                                  THEN disk[disk_pos + (o - byte_cnt)] ELSE @[o]]]
  /\ disk_pos' = disk_pos + LONG /\ byte_cnt' = byte_cnt + LONG
  /\ sector_port' = NoSector
  /\ UNCHANGED <<files, result, pc, call, i, buf>>

\* in_long(): four bytes go through the data port, which covers the first of
\* the ports that hold the sector, into the line whose tag is still the old one.
Transfer ==
  /\ pc = "transfer" /\ byte_cnt < SECTOR
  /\ cache' = [cache EXCEPT ![SlotOf(Wanted)].content =
                 [o \in Place |-> IF o - byte_cnt \in 0 .. LONG - 1
                                  THEN disk[disk_pos + (o - byte_cnt)] ELSE @[o]]]
  /\ disk_pos' = disk_pos + LONG /\ byte_cnt' = byte_cnt + LONG
  /\ sector_port' = NoSector
  /\ UNCHANGED <<files, result, pc, call, i, buf>>

\* The rest of cache_fetch, and the byte read_byte takes from its line.
Fill ==
  /\ pc = "transfer" /\ byte_cnt = SECTOR
  /\ pc' = "read"
  /\ cache' = [cache EXCEPT ![SlotOf(Wanted)].used = TRUE, ![SlotOf(Wanted)].sector = Wanted]
  /\ buf' = Copied /\ i' = i + 1
  /\ UNCHANGED <<files, result, device, call>>

Next ==
  \/ \E f \in File :
       \/ Open(f) \/ Close(f)
       \/ \E len \in Lens : Read(f, len)
       \/ \E o \in Offsets, whence \in {"set", "cur", "end"} : Lseek(f, o, whence)
  \/ \E r \in LoaderReads : Load(r)
  \/ ReadReturn \/ LoadReturn \/ ReadByte \/ ReadMiss
  \/ Prepare \/ Issue \/ Transfer \/ Fill

Spec == Init /\ [][Next]_vars

----------------------------------------------------------------------------
(* Properties.                                                             *)

(* Every line of the sector cache holds the sector its tag names, in the   *)
(* slot of that sector; only the line a transfer is filling may not.       *)
Filling(s) == pc = "transfer" /\ s = SlotOf(Wanted)

CacheHoldsDisk ==
  \A s \in Slot : cache[s].used /\ ~Filling(s) =>
    /\ SlotOf(cache[s].sector) = s
    /\ \A o \in Place : cache[s].content[o] = disk[cache[s].sector * SECTOR + o]

(* A read never leaves its file, whatever was seeked to: the unsigned room *)
(* is compared with len before the offset is compared with the size.       *)
StaysInFile ==
  pc \in {"read", "prepare", "issue", "transfer"} /\ cur # Loader =>
    /\ files[cur].used
    /\ disk_offset[cur] <= at /\ at + n <= disk_offset[cur] + size[cur]

(* The calls do what Files promises: through misses, evictions and the     *)
(* transfers of a sector, the process gets the bytes of its file.          *)
ImplementsFiles == Promise!Spec
=============================================================================
