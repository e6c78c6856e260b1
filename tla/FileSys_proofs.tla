-------------------------- MODULE FileSys_proofs --------------------------
(***************************************************************************)
(* The file system calls deliver the bytes of the file, for every table of *)
(* files, every size of the sector cache and every sequence of calls.      *)
(***************************************************************************)
EXTENDS FileSys, TLAPS

Missing == pc \in {"prepare", "issue", "transfer"}
Serving == pc = "read" \/ Missing

\* What ide_read() is asked for is on the disk, and what it has copied so far
\* is right.
ReadRight ==
  /\ at + n <= DiskSize
  /\ Missing => i < n
  /\ \A x \in 0 .. i - 1 : buf[x] = disk[at + x]

\* The device is where the protocol of disk_do_read() left it.
DeviceRight ==
  /\ byte_cnt % LONG = 0
  /\ pc = "issue" => sector_port = Wanted
  /\ pc = "transfer" =>
       /\ disk_pos = Wanted * SECTOR + byte_cnt
       /\ \A o \in Place : o < byte_cnt =>
            cache[SlotOf(Wanted)].content[o] = disk[Wanted * SECTOR + o]

\* What fs_read() passed to ide_read().
CallRight ==
  Serving /\ cur # Loader =>
    /\ asked \in Lens /\ n > 0
    /\ files[cur].offset <= size[cur]
    /\ n = Promise!Min(asked, size[cur] - files[cur].offset)
    /\ at = disk_offset[cur] + files[cur].offset

IInv == TypeOK /\ CacheHoldsDisk /\ StaysInFile /\ ReadRight /\ DeviceRight /\ CallRight

----------------------------------------------------------------------------
(* Arithmetic.                                                             *)

LEMMA DivMod ==
  ASSUME NEW a \in Nat, NEW b \in Nat \ {0}
  PROVE  a = (a \div b) * b + (a % b) /\ a \div b \in Nat /\ a % b \in 0 .. b - 1
  OBVIOUS

LEMMA SmallMod ==
  ASSUME NEW a \in Nat, NEW b \in Nat \ {0}, a < b
  PROVE  a % b = a
  OBVIOUS

LEMMA LongFits ==
  ASSUME NEW l \in Nat \ {0}, NEW s \in Nat, s % l = 0, NEW c \in Nat, c % l = 0, c < s
  PROVE  c + l <= s /\ (c + l) % l = 0
  <1> DEFINE p == s \div l
             q == c \div l
  <1>1. s = p * l /\ c = q * l /\ p \in Nat /\ q \in Nat
    BY DivMod
  <1> HIDE DEF p, q
  <1>2. q < p
    <2>1. p <= q => p * l <= q * l
      BY <1>1
    <2> QED
      BY <1>1, <2>1
  <1>3. (q + 1) * l <= p * l /\ (q + 1) * l = q * l + l
    BY <1>1, <1>2
  <1>4. c + l = (q + 1) * l
    BY <1>1, <1>3
  <1>5. ((q + 1) * l) % l = 0
    BY <1>1
  <1> QED
    BY <1>1, <1>3, <1>4, <1>5

LEMMA WrapMod ==
  ASSUME NEW a \in Nat, NEW b \in Nat \ {0}, a < b
  PROVE  (a + b) % b = a
  OBVIOUS

\* Multiples of b below m * b.
LEMMA Multiples ==
  ASSUME NEW s \in Nat, NEW m \in Nat, NEW b \in Nat \ {0}, s * b < m * b
  PROVE  s < m /\ s * b + b <= m * b
  <1>1. s < m
    <2>1. s >= m => s * b >= m * b
      OBVIOUS
    <2> QED
      BY <2>1
  <1>2. (s + 1) * b <= m * b /\ (s + 1) * b = s * b + b
    BY <1>1
  <1> QED
    BY <1>1, <1>2

LEMMA Facts ==
  /\ NR_FILES \in Nat \ {0} /\ NrSectors \in Nat \ {0} /\ NR_SEC_CACHE \in Nat \ {0}
  /\ SECTOR \in Nat \ {0} /\ LONG \in Nat \ {0} /\ SECTOR % LONG = 0
  /\ DiskSize \in Nat \ {0} /\ Mod \in Nat \ {0} /\ DiskSize < Mod
  /\ disk \in [0 .. DiskSize - 1 -> Byte]
  /\ size \in [File -> Nat] /\ disk_offset \in [File -> Nat]
  /\ Loader \notin File
  /\ 0 \in UInt
  <1>1. DiskSize \in Nat \ {0}
    BY FileSysAssumption DEF DiskSize
  <1> QED
    BY <1>1, FileSysAssumption DEF Loader, File, Promise!File, UInt, Promise!UInt

\* The position of a byte of the disk in its sector and in the cache.
LEMMA Position ==
  ASSUME NEW a \in Nat, a < DiskSize
  PROVE  /\ SectorOf(a) \in Sector /\ a % SECTOR \in Place
         /\ SlotOf(SectorOf(a)) \in Slot
         /\ SectorOf(a) * SECTOR + (a % SECTOR) = a
         /\ SectorOf(a) * SECTOR \in Nat /\ SectorOf(a) * SECTOR + SECTOR <= DiskSize
  <1> DEFINE s == SectorOf(a)
             p == s * SECTOR
             r == a % SECTOR
  <1>1. a = p + r /\ s \in Nat /\ r \in 0 .. SECTOR - 1
    BY Facts, DivMod DEF SectorOf
  <1>2. p \in Nat
    BY <1>1, Facts
  <1>3. p < NrSectors * SECTOR
    <2> HIDE DEF p, r
    <2> QED
      BY <1>1, <1>2, Facts DEF DiskSize
  <1> HIDE DEF s, r
  <1>4. s < NrSectors /\ p + SECTOR <= NrSectors * SECTOR
    BY <1>1, <1>3, Facts, Multiples
  <1>5. s % NR_SEC_CACHE \in 0 .. NR_SEC_CACHE - 1
    BY <1>1, Facts, DivMod
  <1>6. s \in Sector /\ r \in Place /\ SlotOf(s) \in Slot
    BY <1>1, <1>4, <1>5, Facts DEF Sector, Place, SlotOf, Slot
  <1>7. p + SECTOR <= DiskSize
    BY <1>4 DEF DiskSize
  <1> QED
    BY <1>1, <1>2, <1>6, <1>7 DEF s, r

LEMMA SectorByte ==
  ASSUME NEW s \in Sector, NEW o \in Place
  PROVE  s * SECTOR + o \in 0 .. DiskSize - 1 /\ s * SECTOR \in Nat
  <1>1. (s + 1) * SECTOR <= NrSectors * SECTOR /\ (s + 1) * SECTOR = s * SECTOR + SECTOR
        /\ s * SECTOR \in Nat
    BY Facts DEF Sector
  <1> DEFINE p == s * SECTOR
             t == NrSectors * SECTOR
  <1>2. t = DiskSize
    BY DEF DiskSize
  <1> QED
    BY <1>1, <1>2, Facts DEF Place

----------------------------------------------------------------------------
LEMMA InitIInv == Init => IInv
  <1> SUFFICES ASSUME Init PROVE IInv
    OBVIOUS
  <1>1. disk[0] \in Byte /\ 0 \in Sector
    BY Facts DEF Sector
  <1>2. TypeOK
    <2>1. cache \in [Slot -> [used : BOOLEAN, sector : Sector, content : [Place -> Byte]]]
      BY <1>1 DEF Init
    <2>2. files \in [File -> [used : BOOLEAN, offset : UInt]]
      BY Facts DEF Init
    <2>3. buf \in [0 .. i - 1 -> Byte]
      BY DEF Init
    <2> QED
      BY <2>1, <2>2, <2>3, Facts DEF Init, TypeOK
  <1>3. CacheHoldsDisk /\ StaysInFile /\ CallRight
    BY DEF Init, CacheHoldsDisk, StaysInFile, CallRight, Serving, Missing
  <1>4. ReadRight
    BY Facts DEF Init, ReadRight, Missing
  <1>5. DeviceRight
    BY Facts DEF Init, DeviceRight
  <1> QED
    BY <1>2, <1>3, <1>4, <1>5 DEF IInv

\* The room fs_read() computes is what is left of the file, when it goes on.
LEMMA RoomRight ==
  ASSUME NEW f \in File, NEW len \in Lens, TypeOK, ~Nothing(f, len)
  PROVE  /\ files[f].offset <= size[f] /\ files[f].offset \in Nat
         /\ Clamped(f, len) = Promise!Min(len, size[f] - files[f].offset)
         /\ Clamped(f, len) \in Nat /\ Clamped(f, len) > 0
         /\ files[f].offset + Clamped(f, len) <= size[f]
         /\ disk_offset[f] + size[f] <= DiskSize
  <1> DEFINE o == files[f].offset
             z == size[f]
  <1>1. o \in UInt /\ z \in Nat /\ disk_offset[f] \in Nat
        /\ disk_offset[f] + z <= DiskSize /\ len \in UInt
    BY FileSysAssumption, Facts DEF TypeOK
  <1>2. o <= z /\ Clamped(f, len) # 0
    BY <1>1, Facts DEF Nothing, UInt, Promise!UInt
  <1> HIDE DEF o, z
  <1>3. (z + Mod - o) % Mod = z - o
    <2>1. z - o \in Nat /\ z - o < Mod /\ z + Mod - o = (z - o) + Mod
      BY <1>1, <1>2, Facts DEF UInt, Promise!UInt
    <2> QED
      BY <2>1, WrapMod, Facts
  <1>4. Clamped(f, len) = IF z - o < len THEN z - o ELSE len
    BY <1>3 DEF Clamped, o, z
  <1>5. /\ Clamped(f, len) = Promise!Min(len, z - o)
        /\ Clamped(f, len) \in Nat /\ Clamped(f, len) > 0 /\ o + Clamped(f, len) <= z
    BY <1>1, <1>2, <1>4 DEF Promise!Min, UInt, Promise!UInt
  <1> QED
    BY <1>1, <1>2, <1>5 DEF o, z, UInt, Promise!UInt

----------------------------------------------------------------------------
(* The steps.                                                              *)

LEMMA WantedPlace ==
  ASSUME IInv, i < n
  PROVE  /\ at + i \in Nat /\ at + i < DiskSize
         /\ Wanted \in Sector /\ SlotOf(Wanted) \in Slot /\ (at + i) % SECTOR \in Place
         /\ Wanted * SECTOR + ((at + i) % SECTOR) = at + i
         /\ Wanted * SECTOR \in Nat /\ Wanted * SECTOR + SECTOR <= DiskSize
  <1>1. at + i \in Nat /\ at + i < DiskSize
    BY Facts DEF IInv, TypeOK, ReadRight
  <1> DEFINE a == at + i
  <1> HIDE DEF a
  <1>2. a \in Nat /\ a < DiskSize
    BY <1>1 DEF a
  <1>3. /\ SectorOf(a) \in Sector /\ a % SECTOR \in Place /\ SlotOf(SectorOf(a)) \in Slot
        /\ SectorOf(a) * SECTOR + (a % SECTOR) = a
        /\ SectorOf(a) * SECTOR \in Nat /\ SectorOf(a) * SECTOR + SECTOR <= DiskSize
    BY <1>2, Position
  <1>4. Wanted = SectorOf(a) /\ a = at + i
    BY DEF Wanted, a
  <1> QED
    BY <1>2, <1>3, <1>4

\* A byte taken from a line that holds its sector is the byte of the disk.
LEMMA ByteCopied ==
  ASSUME IInv, i < n,
         \A o \in Place : cache[SlotOf(Wanted)].content[o] = disk[Wanted * SECTOR + o],
         buf' = Copied, i' = i + 1, at' = at, n' = n
  PROVE  /\ i' \in 0 .. n'
         /\ buf' \in [0 .. i' - 1 -> Byte]
         /\ \A x \in 0 .. i' - 1 : buf'[x] = disk[at' + x]
  <1> DEFINE v == cache[SlotOf(Wanted)].content[(at + i) % SECTOR]
  <1>1. v = disk[at + i] /\ v \in Byte
    <2> DEFINE r == (at + i) % SECTOR
    <2>1. r \in Place /\ Wanted * SECTOR + r = at + i /\ at + i \in Nat /\ at + i < DiskSize
      BY WantedPlace
    <2>2. v = cache[SlotOf(Wanted)].content[r]
      OBVIOUS
    <2> HIDE DEF v, r
    <2>3. v = disk[Wanted * SECTOR + r]
      BY <2>1, <2>2
    <2>4. at + i \in 0 .. DiskSize - 1
      BY <2>1, Facts
    <2> QED
      BY <2>1, <2>3, <2>4, Facts
  <1>2. i \in Nat /\ n \in Nat /\ buf \in [0 .. i - 1 -> Byte]
        /\ \A x \in 0 .. i - 1 : buf[x] = disk[at + x]
    BY DEF IInv, TypeOK, ReadRight
  <1>3. buf' = [x \in 0 .. i |-> IF x = i THEN v ELSE buf[x]]
    BY DEF Copied
  <1> HIDE DEF v
  <1>4. 0 .. i' - 1 = 0 .. i
    BY <1>2
  <1>5. \A x \in 0 .. i : x # i => x \in 0 .. i - 1
    BY <1>2
  <1> QED
    BY <1>1, <1>2, <1>3, <1>4, <1>5

\* The calls that end at once, and the steps that only move pc.
LEMMA QuietStep ==
  ASSUME IInv, UNCHANGED <<cache, device, call, i, buf>>,
         pc' \in {"boot", "user", "read"}, pc' = "read" => pc = "read",
         files' \in [File -> [used : BOOLEAN, offset : UInt]],
         pc' = "read" => UNCHANGED files, pc # "transfer"
  PROVE  IInv'
  <1>1. TypeOK'
    BY DEF IInv, TypeOK, device, call
  <1>2. CacheHoldsDisk'
    BY DEF IInv, CacheHoldsDisk, Filling, Wanted, device, call
  <1>3. StaysInFile' /\ CallRight'
    BY DEF IInv, StaysInFile, CallRight, Serving, Missing, call
  <1>4. ReadRight' /\ DeviceRight'
    BY DEF IInv, ReadRight, DeviceRight, Missing, device, call
  <1> QED
    BY <1>1, <1>2, <1>3, <1>4 DEF IInv

LEMMA ModUInt ==
  ASSUME NEW a \in Nat
  PROVE  a % Mod \in UInt
  BY Facts, DivMod DEF UInt, Promise!UInt

LEMMA OffsetNat ==
  ASSUME TypeOK, NEW f \in File
  PROVE  files[f].offset \in Nat
  BY DEF TypeOK, UInt, Promise!UInt

LEMMA UIntNat == UInt \subseteq Nat
  BY DEF UInt, Promise!UInt

LEMMA LseekType ==
  ASSUME IInv, NEW f \in File, NEW o \in Offsets, NEW whence \in {"set", "cur", "end"},
         Lseek(f, o, whence)
  PROVE  IInv'
  <1> DEFINE from == [set |-> 0, cur |-> files[f].offset, end |-> size[f]]
             p == (from[whence] + o) % Mod
  <1>1. from[whence] \in Nat /\ o \in Nat
    BY OffsetNat, Facts, FileSysAssumption, UIntNat DEF IInv
  <1> HIDE DEF from
  <1>2. p \in UInt
    BY <1>1, ModUInt
  <1>3. files' = [files EXCEPT ![f].offset = p]
    BY DEF Lseek, from
  <1> HIDE DEF p
  <1>4. files' \in [File -> [used : BOOLEAN, offset : UInt]]
    BY <1>2, <1>3 DEF IInv, TypeOK
  <1> QED
    BY <1>4, QuietStep DEF Lseek, Answers

LEMMA IdeReadStep ==
  ASSUME IInv, pc \in {"boot", "user"}, NEW c \in File \union {Loader}, NEW from \in Nat,
         NEW len \in Nat, from + len <= DiskSize, IdeRead(c, from, len), asked' \in UInt,
         c \in File =>
           /\ files[c].used /\ asked' \in Lens /\ len > 0
           /\ files[c].offset <= size[c]
           /\ len = Promise!Min(asked', size[c] - files[c].offset)
           /\ from = disk_offset[c] + files[c].offset
           /\ files[c].offset + len <= size[c]
  PROVE  IInv'
  <1>1. TypeOK'
    BY DEF IInv, TypeOK, IdeRead, device
  <1>2. CacheHoldsDisk'
    BY DEF IInv, CacheHoldsDisk, Filling, IdeRead
  <1>3. StaysInFile'
    <2>1. c \in File => disk_offset[c] \in Nat /\ files[c].offset \in Nat /\ size[c] \in Nat
      BY Facts, OffsetNat DEF IInv
    <2>2. c # Loader => c \in File
      OBVIOUS
    <2> DEFINE x == disk_offset[c]
               y == files[c].offset
               z == size[c]
    <2>3. c \in File => x <= from /\ from + len <= x + z
      <3> SUFFICES ASSUME c \in File PROVE x <= from /\ from + len <= x + z
        OBVIOUS
      <3>1. x \in Nat /\ y \in Nat /\ z \in Nat /\ from = x + y /\ y + len <= z
        BY <2>1
      <3> HIDE DEF x, y, z
      <3> QED
        BY <3>1
    <2> QED
      BY <2>2, <2>3 DEF StaysInFile, IdeRead
  <1>4. ReadRight'
    BY DEF ReadRight, IdeRead, Missing
  <1>5. DeviceRight'
    BY DEF IInv, DeviceRight, IdeRead, device
  <1>6. CallRight'
    BY DEF CallRight, IdeRead
  <1> QED
    BY <1>1, <1>2, <1>3, <1>4, <1>5, <1>6 DEF IInv

LEMMA ReadKeeps ==
  ASSUME IInv, NEW f \in File, NEW len \in Lens, Read(f, len)
  PROVE  IInv'
  <1>1. CASE Nothing(f, len) /\ UNCHANGED files /\ Answers(EmptyRead)
    <2>1. pc = "user"
      BY DEF Read
    <2> QED
      BY <1>1, <2>1, QuietStep DEF Answers, IInv, TypeOK
  <1>2. CASE /\ ~Nothing(f, len)
             /\ asked' = len
             /\ IdeRead(f, disk_offset[f] + files[f].offset, Clamped(f, len))
    <2> DEFINE from == disk_offset[f] + files[f].offset
               k == Clamped(f, len)
    <2>1. /\ files[f].offset <= size[f] /\ files[f].offset \in Nat
          /\ k = Promise!Min(len, size[f] - files[f].offset)
          /\ k \in Nat /\ k > 0
          /\ files[f].offset + k <= size[f]
          /\ disk_offset[f] + size[f] <= DiskSize
      BY <1>2, RoomRight DEF IInv
    <2>2. disk_offset[f] \in Nat /\ size[f] \in Nat /\ DiskSize \in Nat
      BY Facts
    <2>3. from \in Nat /\ from + k <= DiskSize
      <3> HIDE DEF k
      <3> QED
        BY <2>1, <2>2
    <2>4. pc = "user" /\ files[f].used
      BY DEF Read
    <2>5. asked' = len /\ len \in UInt
      BY <1>2, FileSysAssumption
    <2>6. IdeRead(f, from, k)
      BY <1>2
    <2> HIDE DEF from, k
    <2>7. from = disk_offset[f] + files[f].offset
      BY DEF from
    <2> QED
      BY <2>1, <2>3, <2>4, <2>5, <2>6, <2>7, IdeReadStep
  <1> QED
    BY <1>1, <1>2 DEF Read

LEMMA LoadKeeps ==
  ASSUME IInv, NEW r \in LoaderReads, Load(r)
  PROVE  IInv'
  <1>1. r.from \in Nat /\ r.len \in Nat /\ r.from + r.len <= DiskSize /\ asked' \in UInt
    BY FileSysAssumption DEF IInv, TypeOK, Load
  <1> QED
    BY <1>1, Facts, IdeReadStep DEF Load

LEMMA ReadReturnKeeps ==
  ASSUME IInv, ReadReturn
  PROVE  IInv'
  <1>1. cur \in File /\ files[cur].offset \in Nat /\ n \in Nat
    BY OffsetNat DEF IInv, TypeOK, ReadReturn
  <1>2. (files[cur].offset + n) % Mod \in UInt
    BY <1>1, ModUInt
  <1>3. files' \in [File -> [used : BOOLEAN, offset : UInt]]
    BY <1>1, <1>2 DEF ReadReturn, IInv, TypeOK
  <1> QED
    BY <1>3, QuietStep DEF ReadReturn

LEMMA ReadByteKeeps ==
  ASSUME IInv, ReadByte
  PROVE  IInv'
  <1>1. pc = "read" /\ i < n /\ Hit /\ pc' = pc
    BY DEF ReadByte
  <1>2. Wanted \in Sector /\ SlotOf(Wanted) \in Slot
    BY <1>1, WantedPlace
  <1>3. \A o \in Place : cache[SlotOf(Wanted)].content[o] = disk[Wanted * SECTOR + o]
    BY <1>1, <1>2 DEF Hit, IInv, CacheHoldsDisk, Filling
  <1>4. /\ i' \in 0 .. n'
        /\ buf' \in [0 .. i' - 1 -> Byte]
        /\ \A x \in 0 .. i' - 1 : buf'[x] = disk[at' + x]
    BY <1>1, <1>3, ByteCopied DEF ReadByte, call
  <1>5. TypeOK'
    BY <1>4 DEF ReadByte, IInv, TypeOK, device, call
  <1>6. CacheHoldsDisk' /\ StaysInFile' /\ CallRight'
    BY <1>1 DEF ReadByte, IInv, CacheHoldsDisk, Filling, StaysInFile, CallRight, Serving, call
  <1>7. ReadRight' /\ DeviceRight'
    BY <1>1, <1>4 DEF ReadByte, IInv, ReadRight, DeviceRight, Missing, call, device
  <1> QED
    BY <1>5, <1>6, <1>7 DEF IInv

LEMMA ReadMissKeeps ==
  ASSUME IInv, ReadMiss
  PROVE  IInv'
  <1>1. TypeOK' /\ CacheHoldsDisk' /\ StaysInFile'
    BY DEF ReadMiss, IInv, TypeOK, CacheHoldsDisk, Filling, StaysInFile, call, device
  <1>2. ReadRight' /\ DeviceRight' /\ CallRight'
    BY DEF ReadMiss, IInv, ReadRight, DeviceRight, CallRight, Serving, Missing, call, device
  <1> QED
    BY <1>1, <1>2 DEF IInv

LEMMA PrepareKeeps ==
  ASSUME IInv, Prepare
  PROVE  IInv'
  <1>1. i < n
    BY DEF Prepare, IInv, ReadRight, Missing
  <1>2. Wanted \in Sector
    BY <1>1, WantedPlace
  <1>3. Wanted' = Wanted
    BY DEF Prepare, Wanted, call
  <1>4. TypeOK' /\ CacheHoldsDisk' /\ StaysInFile'
    BY <1>2 DEF Prepare, IInv, TypeOK, CacheHoldsDisk, Filling, StaysInFile, call
  <1>5. ReadRight' /\ DeviceRight' /\ CallRight'
    BY <1>3 DEF Prepare, IInv, ReadRight, DeviceRight, CallRight, Serving, Missing, call
  <1> QED
    BY <1>4, <1>5 DEF IInv

LEMMA IssueKeeps ==
  ASSUME IInv, Issue
  PROVE  IInv'
  <1>1. i < n /\ sector_port = Wanted /\ pc = "issue" /\ pc' = "transfer"
    BY DEF Issue, IInv, ReadRight, DeviceRight, Missing
  <1>2. Wanted * SECTOR \in Nat /\ Wanted * SECTOR <= DiskSize
    BY <1>1, WantedPlace, Facts
  <1>3. Wanted' = Wanted /\ disk_pos' = Wanted * SECTOR /\ byte_cnt' = 0
    BY <1>1 DEF Issue, Wanted, call
  <1>4. TypeOK'
    BY <1>2, <1>3, Facts DEF Issue, IInv, TypeOK, call
  <1>5. CacheHoldsDisk' /\ StaysInFile'
    BY <1>1, <1>3 DEF Issue, IInv, CacheHoldsDisk, Filling, StaysInFile, call
  <1>6. ReadRight' /\ CallRight'
    BY <1>1 DEF Issue, IInv, ReadRight, CallRight, Serving, Missing, call
  <1>7. DeviceRight'
    <2>1. byte_cnt' % LONG = 0
      BY <1>3, Facts
    <2>2. \A o \in Place : ~(o < byte_cnt')
      BY <1>3, Facts DEF Place
    <2>3. disk_pos' = Wanted' * SECTOR + byte_cnt'
      <3> DEFINE p == Wanted * SECTOR
      <3>1. p \in Nat
        BY <1>2
      <3> HIDE DEF p
      <3>2. p = p + 0
        BY <3>1
      <3> QED
        BY <1>3, <3>2 DEF p
    <2> QED
      BY <1>1, <2>1, <2>2, <2>3 DEF DeviceRight
  <1> QED
    BY <1>4, <1>5, <1>6, <1>7 DEF IInv

\* What a transfer writes into the line it fills.
LEMMA TransferContent ==
  ASSUME IInv, Transfer
  PROVE  /\ cache' \in [Slot -> [used : BOOLEAN, sector : Sector, content : [Place -> Byte]]]
         /\ \A s \in Slot : s # SlotOf(Wanted) => cache'[s] = cache[s]
         /\ \A o \in Place : cache'[SlotOf(Wanted)].content[o]
              = IF o - byte_cnt \in 0 .. LONG - 1 THEN disk[disk_pos + (o - byte_cnt)]
                ELSE cache[SlotOf(Wanted)].content[o]
  <1> DEFINE w == SlotOf(Wanted)
             new == [o \in Place |-> IF o - byte_cnt \in 0 .. LONG - 1
                                     THEN disk[disk_pos + (o - byte_cnt)]
                                     ELSE cache[w].content[o]]
  <1>1. pc = "transfer" /\ i < n /\ byte_cnt < SECTOR /\ byte_cnt \in Nat
        /\ disk_pos = Wanted * SECTOR + byte_cnt
    BY DEF Transfer, IInv, TypeOK, ReadRight, DeviceRight, Missing
  <1>2. w \in Slot /\ Wanted * SECTOR \in Nat /\ Wanted * SECTOR + SECTOR <= DiskSize
    BY <1>1, WantedPlace
  <1>3. cache \in [Slot -> [used : BOOLEAN, sector : Sector, content : [Place -> Byte]]]
    BY DEF IInv, TypeOK
  <1>4. ASSUME NEW o \in Place, o - byte_cnt \in 0 .. LONG - 1
        PROVE  disk[disk_pos + (o - byte_cnt)] \in Byte
    <2> DEFINE p == Wanted * SECTOR
    <2>1. p \in Nat /\ p + SECTOR <= DiskSize /\ disk_pos = p + byte_cnt
      BY <1>1, <1>2
    <2> HIDE DEF p
    <2>2. disk_pos + (o - byte_cnt) \in 0 .. DiskSize - 1
      BY <1>1, <1>4, <2>1, Facts DEF Place
    <2> QED
      BY <2>2, Facts
  <1>5. new \in [Place -> Byte]
    BY <1>2, <1>3, <1>4
  <1>6. cache' = [cache EXCEPT ![w].content = new]
    BY <1>2, <1>3 DEF Transfer
  <1> HIDE DEF w
  <1>7. new = [o \in Place |-> IF o - byte_cnt \in 0 .. LONG - 1
                               THEN disk[disk_pos + (o - byte_cnt)] ELSE cache[w].content[o]]
    OBVIOUS
  <1> HIDE DEF new
  <1>8. cache' \in [Slot -> [used : BOOLEAN, sector : Sector, content : [Place -> Byte]]]
        /\ cache'[w].content = new
    BY <1>2, <1>3, <1>5, <1>6
  <1>9. \A s \in Slot : s # w => cache'[s] = cache[s]
    BY <1>2, <1>3, <1>6
  <1> QED
    BY <1>7, <1>8, <1>9 DEF w

LEMMA TransferKeeps ==
  ASSUME IInv, Transfer
  PROVE  IInv'
  <1>1. pc = "transfer" /\ pc' = pc /\ i < n /\ byte_cnt < SECTOR /\ byte_cnt \in Nat
        /\ disk_pos = Wanted * SECTOR + byte_cnt /\ byte_cnt % LONG = 0
        /\ disk_pos' = disk_pos + LONG /\ byte_cnt' = byte_cnt + LONG
    BY DEF Transfer, IInv, TypeOK, ReadRight, DeviceRight, Missing
  <1>2. Wanted' = Wanted
    BY DEF Transfer, Wanted, call
  <1>3. byte_cnt' \in 0 .. SECTOR /\ byte_cnt' % LONG = 0
    BY <1>1, LongFits, Facts
  <1> DEFINE p == Wanted * SECTOR
  <1>4. p \in Nat /\ p + SECTOR <= DiskSize /\ disk_pos = p + byte_cnt
    BY <1>1, WantedPlace
  <1>5. disk_pos' \in 0 .. DiskSize /\ disk_pos' = p + byte_cnt'
    <2>1. disk_pos' = disk_pos + LONG /\ byte_cnt' = byte_cnt + LONG /\ byte_cnt \in Nat
      BY <1>1
    <2> HIDE DEF p
    <2> QED
      BY <1>3, <1>4, <2>1, Facts
  <1>6. TypeOK'
    BY <1>3, <1>5, TransferContent DEF Transfer, IInv, TypeOK, call
  <1>7. CacheHoldsDisk'
    <2>1. \A s \in Slot : Filling(s)' <=> s = SlotOf(Wanted)
      BY <1>1, <1>2 DEF Filling, SlotOf
    <2> QED
      BY <1>1, <2>1, TransferContent DEF IInv, CacheHoldsDisk, Filling
  <1>8. StaysInFile' /\ ReadRight' /\ CallRight'
    BY <1>1 DEF Transfer, IInv, StaysInFile, ReadRight, CallRight, Serving, Missing, call
  <1>9. DeviceRight'
    <2>1. ASSUME NEW o \in Place, o < byte_cnt'
          PROVE  cache'[SlotOf(Wanted)].content[o] = disk[p + o]
      <3>0. o \in Nat
        BY Facts DEF Place
      <3>1. CASE o < byte_cnt
        <4>1. cache[SlotOf(Wanted)].content[o] = disk[p + o]
          BY <1>1, <3>1 DEF IInv, DeviceRight
        <4>2. ~(o - byte_cnt \in 0 .. LONG - 1)
          BY <1>1, <3>0, <3>1
        <4> QED
          BY <4>1, <4>2, TransferContent
      <3>2. CASE ~(o < byte_cnt)
        <4>1. o - byte_cnt \in 0 .. LONG - 1
          BY <1>1, <2>1, <3>0, <3>2, Facts
        <4>2. disk_pos + (o - byte_cnt) = p + o
          <5> HIDE DEF p
          <5> QED
            BY <1>1, <1>4, <3>0
        <4> QED
          BY <4>1, <4>2, TransferContent
      <3> QED
        BY <3>1, <3>2
    <2>2. SlotOf(Wanted)' = SlotOf(Wanted)
      BY <1>2 DEF SlotOf
    <2>3. pc' # "issue"
      BY <1>1
    <2> QED
      BY <1>2, <1>3, <1>5, <2>1, <2>2, <2>3 DEF DeviceRight
  <1> QED
    BY <1>6, <1>7, <1>8, <1>9 DEF IInv

LEMMA FillKeeps ==
  ASSUME IInv, Fill
  PROVE  IInv'
  <1> DEFINE w == SlotOf(Wanted)
  <1>1. pc = "transfer" /\ pc' = "read" /\ i < n /\ byte_cnt = SECTOR
    BY DEF Fill, IInv, ReadRight, Missing
  <1>2. Wanted \in Sector /\ w \in Slot
    BY <1>1, WantedPlace
  <1>3. \A o \in Place : cache[w].content[o] = disk[Wanted * SECTOR + o]
    BY <1>1, Facts DEF IInv, DeviceRight, Place
  <1>4. /\ i' \in 0 .. n'
        /\ buf' \in [0 .. i' - 1 -> Byte]
        /\ \A x \in 0 .. i' - 1 : buf'[x] = disk[at' + x]
    BY <1>1, <1>3, ByteCopied DEF Fill, call
  <1>5. cache \in [Slot -> [used : BOOLEAN, sector : Sector, content : [Place -> Byte]]]
    BY DEF IInv, TypeOK
  <1>6. cache' = [cache EXCEPT ![w].used = TRUE, ![w].sector = Wanted]
    BY DEF Fill
  <1> HIDE DEF w
  <1>7. /\ cache' \in [Slot -> [used : BOOLEAN, sector : Sector, content : [Place -> Byte]]]
        /\ cache'[w].sector = Wanted /\ cache'[w].content = cache[w].content
        /\ \A s \in Slot : s # w => cache'[s] = cache[s]
    BY <1>2, <1>5, <1>6
  <1>8. TypeOK'
    BY <1>4, <1>7 DEF Fill, IInv, TypeOK, device, call
  <1>9. CacheHoldsDisk'
    <2>1. ASSUME NEW s \in Slot, cache'[s].used
          PROVE  /\ SlotOf(cache'[s].sector) = s
                 /\ \A o \in Place : cache'[s].content[o] = disk[cache'[s].sector * SECTOR + o]
      <3>1. CASE s = w
        BY <1>3, <1>7, <3>1 DEF w
      <3>2. CASE s # w
        <4>1. cache'[s] = cache[s] /\ ~Filling(s)
          BY <1>7, <3>2 DEF Filling, w
        <4> QED
          BY <2>1, <4>1 DEF IInv, CacheHoldsDisk
      <3> QED
        BY <3>1, <3>2
    <2> QED
      BY <2>1 DEF CacheHoldsDisk, SlotOf
  <1>10. StaysInFile' /\ CallRight'
    BY <1>1 DEF Fill, IInv, StaysInFile, CallRight, Serving, Missing, call
  <1>11. ReadRight' /\ DeviceRight'
    BY <1>1, <1>4 DEF Fill, IInv, ReadRight, DeviceRight, Missing, call, device
  <1> QED
    BY <1>8, <1>9, <1>10, <1>11 DEF IInv

LEMMA LoadReturnKeeps ==
  ASSUME IInv, LoadReturn
  PROVE  IInv'
  BY QuietStep DEF LoadReturn, IInv, TypeOK

LEMMA OpenCloseKeep ==
  ASSUME IInv, NEW f \in File, Open(f) \/ Close(f)
  PROVE  IInv'
  <1>1. files' \in [File -> [used : BOOLEAN, offset : UInt]]
    <2>1. files \in [File -> [used : BOOLEAN, offset : UInt]] /\ 0 \in UInt
      BY Facts DEF IInv, TypeOK
    <2>2. CASE Open(f)
      BY <2>1, <2>2 DEF Open
    <2>3. CASE Close(f)
      BY <2>1, <2>3 DEF Close
    <2> QED
      BY <2>2, <2>3
  <1> QED
    BY <1>1, QuietStep DEF Open, Close, Answers

LEMMA Invariance == Spec => []IInv
  <1>1. IInv /\ [Next]_vars => IInv'
    <2> SUFFICES ASSUME IInv, [Next]_vars PROVE IInv'
      OBVIOUS
    <2>1. ASSUME NEW f \in File, Open(f) \/ Close(f) PROVE IInv'
      BY <2>1, OpenCloseKeep
    <2>2. ASSUME NEW f \in File, NEW len \in Lens, Read(f, len) PROVE IInv'
      BY <2>2, ReadKeeps
    <2>3. ASSUME NEW f \in File, NEW o \in Offsets, NEW whence \in {"set", "cur", "end"},
                 Lseek(f, o, whence)
          PROVE  IInv'
      BY <2>3, LseekType
    <2>4. ASSUME NEW r \in LoaderReads, Load(r) PROVE IInv'
      BY <2>4, LoadKeeps
    <2>5. CASE ReadReturn
      BY <2>5, ReadReturnKeeps
    <2>6. CASE LoadReturn
      BY <2>6, LoadReturnKeeps
    <2>7. CASE ReadByte
      BY <2>7, ReadByteKeeps
    <2>8. CASE ReadMiss
      BY <2>8, ReadMissKeeps
    <2>9. CASE Prepare
      BY <2>9, PrepareKeeps
    <2>10. CASE Issue
      BY <2>10, IssueKeeps
    <2>11. CASE Transfer
      BY <2>11, TransferKeeps
    <2>12. CASE Fill
      BY <2>12, FillKeeps
    <2>13. CASE UNCHANGED vars
      BY <2>13 DEF vars, device, call, IInv, TypeOK, CacheHoldsDisk, Filling, StaysInFile,
                   ReadRight, DeviceRight, CallRight, Serving, Missing, Wanted
    <2> QED
      BY <2>1, <2>2, <2>3, <2>4, <2>5, <2>6, <2>7, <2>8, <2>9, <2>10, <2>11, <2>12, <2>13
         DEF Next
  <1> QED
    BY InitIInv, <1>1, PTL DEF Spec

----------------------------------------------------------------------------
(* The theorems.                                                           *)

(* The device never counts past its sector (it asserts byte_cnt <= 512),   *)
(* never stands past the disk, and offsets stay 32-bit numbers.            *)
THEOREM TypeCorrect == Spec => []TypeOK
  <1>1. IInv => TypeOK
    BY DEF IInv
  <1> QED
    BY <1>1, Invariance, PTL

(* Between two system calls, and in every line that no transfer is filling *)
(* during one, the sector cache is a copy of the disk.                     *)
THEOREM SectorCacheCoherent == Spec => []CacheHoldsDisk
  <1>1. IInv => CacheHoldsDisk
    BY DEF IInv
  <1> QED
    BY <1>1, Invariance, PTL

(* fs_read() never lets ide_read() leave the file, whatever the process    *)
(* passed to lseek and read.                                               *)
THEOREM ReadsStayInFile == Spec => []StaysInFile
  <1>1. IInv => StaysInFile
    BY DEF IInv
  <1> QED
    BY <1>1, Invariance, PTL

(* The bytes ide_read() has copied when fs_read() returns.                 *)
LEMMA ReadReturnMaps ==
  ASSUME IInv, ReadReturn
  PROVE  Promise!Read(cur, asked) /\ cur \in File /\ asked \in Lens
  <1>1. pc = "read" /\ i = n /\ cur # Loader
    BY DEF ReadReturn
  <1>2. cur \in File /\ n \in Nat /\ buf \in [0 .. n - 1 -> Byte]
    BY <1>1 DEF IInv, TypeOK
  <1> DEFINE o == files[cur].offset
  <1>3. /\ asked \in Lens /\ n > 0 /\ o <= size[cur]
        /\ n = Promise!Min(asked, size[cur] - o)
        /\ at = disk_offset[cur] + o
    BY <1>1 DEF IInv, CallRight, Serving
  <1>4. files[cur].used /\ \A x \in 0 .. n - 1 : buf[x] = disk[at + x]
    BY <1>1 DEF IInv, StaysInFile, ReadRight
  <1>5. o \in Nat /\ size[cur] \in Nat /\ asked \in Nat /\ disk_offset[cur] \in Nat
        /\ disk_offset[cur] + size[cur] <= DiskSize
    BY <1>2, OffsetNat, Facts, FileSysAssumption, UIntNat DEF IInv, TypeOK
  <1> HIDE DEF o
  <1>6. (o + n) % Mod = o + n
    <2>1. o + n \in Nat /\ o + n <= size[cur]
      BY <1>2, <1>3, <1>5 DEF Promise!Min
    <2>2. o + n < Mod
      BY <1>5, <2>1, Facts
    <2> QED
      BY <2>1, <2>2, SmallMod, Facts
  <1>7. Promise!Left(cur) = size[cur] - o
    BY <1>3 DEF Promise!Left, o
  <1>8. buf = Promise!Bytes(disk_offset[cur] + o, n)
    BY <1>2, <1>3, <1>4 DEF Promise!Bytes
  <1>9. files' = [files EXCEPT ![cur].offset = o + n]
    BY <1>6 DEF ReadReturn, o
  <1>10. result' = [ret |-> asked, data |-> Promise!Bytes(disk_offset[cur] + o, n)]
    BY <1>8 DEF ReadReturn
  <1>11. n = Promise!Min(asked, Promise!Left(cur)) /\ n # 0
    BY <1>2, <1>3, <1>7
  <1>12. files' = [files EXCEPT ![cur].offset = @ + n]
    BY <1>9 DEF o
  <1> QED
    BY <1>2, <1>3, <1>4, <1>10, <1>11, <1>12 DEF Promise!Read, o

(* A read that fs_read() answers at once has nothing to deliver.           *)
LEMMA EmptyReadMaps ==
  ASSUME IInv, NEW f \in File, NEW len \in Lens, pc = "user", files[f].used,
         Nothing(f, len), UNCHANGED files, Answers(EmptyRead)
  PROVE  Promise!Read(f, len)
  <1> DEFINE o == files[f].offset
             z == size[f]
  <1>1. o \in UInt /\ o \in Nat /\ z \in Nat /\ len \in Nat
    BY OffsetNat, Facts, FileSysAssumption, UIntNat DEF IInv, TypeOK
  <1>2. z < Mod
    <2>1. disk_offset[f] \in Nat /\ disk_offset[f] + z <= DiskSize
      BY Facts, FileSysAssumption
    <2> HIDE DEF z
    <2> QED
      BY <1>1, <2>1, Facts
  <1>3. Promise!Min(len, Promise!Left(f)) = 0
    <2>1. CASE o > z
      BY <1>1, <2>1 DEF Promise!Left, Promise!Min
    <2>2. CASE o <= z
      <3>1. Clamped(f, len) = 0
        BY <1>1, <2>2 DEF Nothing
      <3> HIDE DEF o, z
      <3>2. z - o \in Nat /\ z - o < Mod /\ z + Mod - o = (z - o) + Mod
        BY <1>1, <1>2, <2>2, Facts
      <3>3. (z + Mod - o) % Mod = z - o
        BY <3>2, WrapMod, Facts
      <3>4. Clamped(f, len) = IF z - o < len THEN z - o ELSE len
        BY <3>3 DEF Clamped, o, z
      <3>5. Promise!Left(f) = z - o
        BY <2>2 DEF Promise!Left, o, z
      <3> QED
        BY <1>1, <3>1, <3>2, <3>4, <3>5 DEF Promise!Min
    <2> QED
      BY <1>1, <2>1, <2>2
  <1>4. files' = [files EXCEPT ![f].offset = @ + 0]
    <2>1. files' = files /\ files \in [File -> [used : BOOLEAN, offset : UInt]] /\ o + 0 = o
      BY <1>1 DEF IInv, TypeOK
    <2> QED
      BY <2>1
  <1> QED
    BY <1>3, <1>4 DEF Promise!Read, Answers, EmptyRead

(* The kernel's file system, sector cache and disk driver over the IDE     *)
(* device implement the table of files a process is promised.              *)
THEOREM FileSysImplementsFiles == Spec => ImplementsFiles
  <1>1. Init => Promise!Init
    BY DEF Init, Promise!Init, File, Returned
  <1>2. IInv /\ [Next]_vars => [Promise!Next]_<<files, result>>
    <2> SUFFICES ASSUME IInv, [Next]_vars PROVE [Promise!Next]_<<files, result>>
      OBVIOUS
    <2>1. ASSUME NEW f \in File, Open(f) \/ Close(f) PROVE Promise!Next
      <3>1. Promise!Open(f) \/ Promise!Close(f)
        BY <2>1 DEF Open, Close, Answers, Returned, Promise!Open, Promise!Close
      <3> QED
        BY <3>1 DEF Promise!Next, File
    <2>2. ASSUME NEW f \in File, NEW len \in Lens, Read(f, len)
          PROVE  [Promise!Next]_<<files, result>>
      <3>1. CASE Nothing(f, len) /\ UNCHANGED files /\ Answers(EmptyRead)
        BY <2>2, <3>1, EmptyReadMaps DEF Read, Promise!Next, File
      <3>2. CASE ~Nothing(f, len)
        BY <2>2, <3>2 DEF Read, IdeRead
      <3> QED
        BY <2>2, <3>1, <3>2 DEF Read
    <2>3. ASSUME NEW f \in File, NEW o \in Offsets, NEW whence \in {"set", "cur", "end"},
                 Lseek(f, o, whence)
          PROVE  Promise!Next
      <3> DEFINE from == [set |-> 0, cur |-> files[f].offset, end |-> size[f]]
      <3>1. from[whence] \in {0, files[f].offset, size[f]}
        OBVIOUS
      <3>2. Promise!Lseek(f, o, from[whence])
        BY <2>3 DEF Lseek, Answers, Returned, Promise!Lseek
      <3> QED
        BY <3>1, <3>2 DEF Promise!Next, File
    <2>4. CASE ReadReturn
      BY <2>4, ReadReturnMaps DEF Promise!Next, File
    <2>5. CASE \/ \E r \in LoaderReads : Load(r)
               \/ LoadReturn \/ ReadByte \/ ReadMiss
               \/ Prepare \/ Issue \/ Transfer \/ Fill
               \/ UNCHANGED vars
      BY <2>5 DEF Load, IdeRead, LoadReturn, ReadByte, ReadMiss, Prepare, Issue, Transfer,
                  Fill, vars
    <2> QED
      BY <2>1, <2>2, <2>3, <2>4, <2>5 DEF Next
  <1> QED
    BY <1>1, <1>2, Invariance, PTL DEF Spec, ImplementsFiles, Promise!Spec
=============================================================================
