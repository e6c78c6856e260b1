------------------------------- MODULE Files -------------------------------
(***************************************************************************)
(* What the file system calls of the kernel promise a user process: a      *)
(* table of read-only files that lie on the disk one after the other, and  *)
(* a position for each open one.                                           *)
(***************************************************************************)
EXTENDS Integers

CONSTANTS
  NR_FILES, size, disk_offset,  \* file_table
  disk,                         \* the bytes of the disk, never written
  NUL,                          \* the byte '\0'
  Mod,                          \* 2^32, so that size_t and off_t keep their width
  Lens, Offsets                 \* the lengths and offsets the process passes

File == 0 .. NR_FILES - 1
UInt == 0 .. Mod - 1

VARIABLES
  files,    \* Fstate, for the files from the table
  result    \* what the last call returned, and what it stored in the caller's buffer

Returned(r)     == [ret |-> r, data |-> <<>>]
Bytes(at, n)    == [i \in 0 .. n - 1 |-> disk[at + i]]

\* A read with nothing to deliver stores one byte all the same, also when len
\* is 0 and the buffer has no room for any.
EmptyRead       == [ret |-> 0, data |-> [i \in {0} |-> NUL]]

Init == /\ files = [f \in File |-> [used |-> FALSE, offset |-> 0]]
        /\ result = Returned(0)

Open(f) ==
  /\ files' = [files EXCEPT ![f] = [used |-> TRUE, offset |-> 0]]
  /\ result' = Returned(f + 3)

Close(f) ==
  /\ files[f].used
  /\ files' = [files EXCEPT ![f].used = FALSE]
  /\ result' = Returned(0)

Lseek(f, offset, from) ==
  /\ files[f].used
  /\ LET o == (from + offset) % Mod
     IN  /\ files' = [files EXCEPT ![f].offset = o]
         /\ result' = Returned(o)

\* A read delivers what is left of the file, up to len bytes, and says len:
\* the caller cannot tell a short read from a full one.
Left(f)   == IF files[f].offset <= size[f] THEN size[f] - files[f].offset ELSE 0
Min(a, b) == IF a <= b THEN a ELSE b

Read(f, len) ==
  LET n == Min(len, Left(f))
  IN  /\ files[f].used
      /\ files' = [files EXCEPT ![f].offset = @ + n]
      /\ result' = IF n = 0 THEN EmptyRead
                   ELSE [ret |-> len, data |-> Bytes(disk_offset[f] + files[f].offset, n)]

Next == \E f \in File :
          \/ Open(f) \/ Close(f)
          \/ \E len \in Lens : Read(f, len)
          \/ \E o \in Offsets, from \in {0, files[f].offset, size[f]} : Lseek(f, o, from)

Spec == Init /\ [][Next]_<<files, result>>
=============================================================================
