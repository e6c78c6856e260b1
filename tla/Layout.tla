------------------------------- MODULE Layout -------------------------------
(***************************************************************************)
(* Where things are: the linear address space of a process, the physical   *)
(* memory behind it, and the program the loader finds on the disk.  The    *)
(* sizes are constants (4096-byte pages, 1024 entries, 128 MB), so that    *)
(* small ones can be checked.                                              *)
(***************************************************************************)
EXTENDS Integers, Sequences

CONSTANTS
  PAGE_SIZE,
  NR_PTE,        \* entries of a page table
  PhyPages,      \* PHY_MEM / PAGE_SIZE
  KDir,          \* KOFFSET / PT_SIZE: the directory entry of the kernel's addresses
  KMemPages,     \* KMEM / PAGE_SIZE: mm_malloc hands out the frames from here on
  VmemPages,     \* the pages of the video memory
  STACK_SIZE,
  Segments,      \* the PT_LOAD headers: [vaddr, memsz, file], file the bytes
  Byte,          \* what the program writes
  Lens,          \* lengths of accesses: 1, 2, 4
  Starts,        \* addresses the program accesses
  Brks           \* ends of the heap it asks for

PhyTables == PhyPages \div NR_PTE         \* PHY_MEM / PT_SIZE
KPage     == KDir * NR_PTE                \* the page of KOFFSET
KOFFSET   == KPage * PAGE_SIZE
Page(a)   == a \div PAGE_SIZE
BytesOf(p) == p * PAGE_SIZE .. p * PAGE_SIZE + PAGE_SIZE - 1

Frame     == 0 .. PhyPages - 1
PAddr     == 0 .. PhyPages * PAGE_SIZE - 1
UserPage  == 0 .. KPage - 1
UserAddr  == 0 .. KOFFSET - 1
Dir       == 0 .. KDir + PhyTables - 1
LPage     == 0 .. (KDir + PhyTables) * NR_PTE - 1

SegmentBytes(s) == Segments[s].vaddr .. Segments[s].vaddr + Segments[s].memsz - 1
StackBytes == KOFFSET - STACK_SIZE .. KOFFSET - 1
VideoBytes == UNION {BytesOf(p) : p \in VmemPages}
ImageBytes == UNION {SegmentBytes(s) : s \in DOMAIN Segments}

\* The program's symbol `end': the first byte after its last segment.
End == LET s == Segments[Len(Segments)] IN s.vaddr + s.memsz

\* p_filesz bytes come from the file, the rest up to p_memsz is zero.
SegmentByte(s, k) == IF k < Len(Segments[s].file) THEN Segments[s].file[k + 1] ELSE 0

\* The image: zero outside the segments.
Loaded(a) ==
  IF a \in ImageBytes
  THEN LET s == CHOOSE s \in DOMAIN Segments : a \in SegmentBytes(s)
       IN SegmentByte(s, a - Segments[s].vaddr)
  ELSE 0

\* Headers come in the order of their addresses, as ELF demands, and the
\* program stays clear of the directory entry that create_video_mapping()
\* replaces: the game is linked at 8 MB, the test cases at 128 MB.
ASSUME LayoutAssumption ==
  /\ {PAGE_SIZE, NR_PTE, PhyPages, KDir, KMemPages, STACK_SIZE} \subseteq Nat \ {0}
  /\ PhyPages % NR_PTE = 0 /\ KMemPages < PhyPages
  /\ PhyTables < KDir /\ STACK_SIZE < KOFFSET
  /\ VmemPages \subseteq (0 .. NR_PTE - 1) \intersect (0 .. KMemPages - 1)
  /\ VmemPages # {} /\ \A p, q \in VmemPages : p .. q \subseteq VmemPages
  /\ Segments # <<>>
  /\ \A s \in DOMAIN Segments :
       /\ Segments[s].vaddr \in Nat /\ Segments[s].memsz \in Nat \ {0}
       /\ Segments[s].file \in Seq(Nat) /\ Len(Segments[s].file) <= Segments[s].memsz
       /\ Page(Segments[s].vaddr) >= NR_PTE
       /\ s > 1 => Segments[s].vaddr >= Segments[s - 1].vaddr + Segments[s - 1].memsz
  /\ Byte \subseteq Nat
  /\ Lens \subseteq 1 .. PAGE_SIZE /\ Starts \subseteq UserAddr
  /\ Brks \subseteq End .. KOFFSET - STACK_SIZE
  /\ End <= KOFFSET - STACK_SIZE

\* What a program may touch when its break is b.
Given(b) == ImageBytes \union StackBytes \union VideoBytes \union (End .. b - 1)
=============================================================================
