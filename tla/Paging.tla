------------------------------- MODULE Paging -------------------------------
(***************************************************************************)
(* How the kernel builds the address space of a process (kvm.c, mm.c,      *)
(* vmem.c, elf.c, from boot to the program's brk() calls) and how NEMU     *)
(* translates the addresses (memory.c, page.c, tlb.c).  Every load and     *)
(* store of the model goes through the page tables, or through the TLB     *)
(* when it is built in, as they stand at that moment.                      *)
(*                                                                         *)
(* The page tables are variables of their own and not bytes of hw_mem;     *)
(* FramesPrivate says that no store of the program could reach them.       *)
(***************************************************************************)
EXTENDS Layout, FiniteSets

CONSTANTS
  TLB_ENABLED,   \* whether NEMU is built with its TLB
  TlbSize,       \* 64
  KernelFrames   \* where the kernel's code and data are

VARIABLES
  dir,           \* kpdir and updir
  table,         \* the page tables: the kernel's, vptable, mm_malloc's pool
  cr3,           \* the directory in use, NoDir before paging is on
  tlb,
  hw_mem,
  nr_frame, nr_table, \* what mm_malloc has handed out
  pc,            \* where the kernel is, "user" when it is not running
  caller,        \* for whom mm_malloc runs
  seg,           \* loader: the program header it is at
  first, cur, last, \* mm_malloc: the address asked for, the page it is at, the last
  k,             \* the loops over bytes
  brk, new_brk,
  reply          \* what the program's last load delivered

tables == <<dir, table, nr_frame, nr_table>>
loop   == <<caller, seg, first, cur, last, k>>
vars   == <<tables, cr3, tlb, hw_mem, pc, loop, brk, new_brk, reply>>

NoDir == "none"
Absent == -1                              \* present = 0
KTable(t) == t                            \* kptable, one number per page table
VTable == PhyTables                       \* vptable
Pool(t) == PhyTables + 1 + t              \* mm_malloc's own
Table == 0 .. PhyTables + KDir            \* the pool has one per user PDE at most
Slot == 0 .. TlbSize - 1
NoEntry == [page |-> Absent, frame |-> Absent]

\* The addresses under which the loader writes the image are below 16 MB plus
\* its size; no page of the program may be one of those the kernel used there.
ImagePages == {Page(a) : a \in ImageBytes}
MostUserPages == {Page(a) : a \in ImageBytes \union StackBytes \union UNION {End .. b - 1 : b \in Brks}}
TouchedLow == KernelFrames \union KMemPages .. KMemPages + Page(End - 1) - Page(Segments[1].vaddr)

ASSUME PagingAssumption ==
  /\ TLB_ENABLED \in BOOLEAN /\ TlbSize \in Nat \ {0}
  /\ KernelFrames \subseteq Frame
  /\ TLB_ENABLED => TouchedLow \intersect MostUserPages = {}

TypeOK ==
  /\ dir \in [{"kpdir", "updir"} -> [Dir -> Table \union {Absent}]]
  /\ table \in [Table -> [0 .. NR_PTE - 1 -> Frame \union {Absent}]]
  /\ cr3 \in {NoDir, "kpdir", "updir"}
  /\ tlb \in [Slot -> [page : LPage, frame : Frame] \union {NoEntry}]
  /\ hw_mem \in [PAddr -> Nat]
  /\ nr_frame \in KMemPages .. PhyPages /\ nr_table \in 0 .. KDir
  /\ pc \in {"init_page", "init_mm", "write_test", "load", "malloc", "copy", "video",
             "write_cr3", "read_test", "clear", "user", "panic"}
  /\ caller \in {"loader", "stack", "brk"}
  /\ seg \in 1 .. Len(Segments) + 1
  /\ first \in UserAddr /\ cur \in 0 .. KPage /\ last \in UserPage
  /\ k \in Nat
  /\ brk \in 0 .. KOFFSET /\ new_brk \in 0 .. KOFFSET
  /\ reply \in Seq(Nat)

Init ==
  /\ dir = [d \in {"kpdir", "updir"} |-> [i \in Dir |-> Absent]]
  /\ table = [t \in Table |-> [i \in 0 .. NR_PTE - 1 |-> Absent]]
  /\ cr3 = NoDir
  /\ tlb = [i \in Slot |-> NoEntry]
  /\ hw_mem = [a \in PAddr |-> 0]
  /\ nr_frame = KMemPages /\ nr_table = 0
  /\ pc = "init_page" /\ caller = "loader" /\ seg = 1
  /\ first = 0 /\ cur = 0 /\ last = 0 /\ k = 0
  /\ brk = 0 /\ new_brk = 0 /\ reply = <<>>

----------------------------------------------------------------------------
(* Address translation.                                                    *)

\* page_translate() without TLB, and page_walk(): Absent where it asserts.
Walk(d, p) ==
  LET t == dir[d][p \div NR_PTE] IN IF t = Absent THEN Absent ELSE table[t][p % NR_PTE]

\* Mutant: keys are compared without the directory index.
Hits_TableIndex(t, p) == {i \in Slot : t[i].page # Absent /\ t[i].page % NR_PTE = p % NR_PTE}

\* tlb_query() and tlb_fetch(): every outcome of the random victim.
Hits(t, p) == {i \in Slot : t[i].page = p}
Fetch(t, p) ==
  IF TLB_ENABLED
  THEN IF Hits(t, p) # {}
       THEN {[tlb |-> t, frame |-> t[i].frame] :
                 i \in {i \in Hits(t, p) : \A j \in Hits(t, p) : i <= j}}
       ELSE {[tlb |-> IF Walk(cr3, p) = Absent THEN t
                      ELSE [t EXCEPT ![i] = [page |-> p, frame |-> Walk(cr3, p)]],
              frame |-> Walk(cr3, p)] : i \in Slot}
  ELSE {[tlb |-> t, frame |-> Walk(cr3, p)]}

PAddrOf(f, a) == f * PAGE_SIZE + (a % PAGE_SIZE)

\* Mutant: the second page is taken to follow the first one in memory.
Translate_Once(a, len) ==
  {[tlb |-> q.tlb, ok |-> q.frame # Absent,
    at |-> [i \in 1 .. len |-> (PAddrOf(q.frame, a) + i - 1) % (PhyPages * PAGE_SIZE)]] :
      q \in Fetch(tlb, Page(a))}

\* laddr_read() and laddr_write(): the bytes [a, a + len) lie in one page, or
\* the last ex of them at the start of the next, which is translated second.
Translate(a, len) ==
  UNION {{[tlb |-> r.tlb, ok |-> Absent \notin {q.frame, r.frame},
           at |-> [i \in 1 .. len |->
                     PAddrOf(IF Page(a + i - 1) = Page(a) THEN q.frame ELSE r.frame, a + i - 1)]] :
             r \in IF Page(a + len - 1) = Page(a) THEN {q} ELSE Fetch(q.tlb, Page(a + len - 1))} :
           q \in Fetch(tlb, Page(a))}

\* A failed assertion of the MMU stops NEMU: t.ok is FALSE.
Store(data, t) ==
  /\ tlb' = t.tlb
  /\ hw_mem' = IF t.ok
               THEN [x \in PAddr |->
                       IF \E i \in DOMAIN data : t.at[i] = x
                       THEN data[CHOOSE i \in DOMAIN data : t.at[i] = x] ELSE hw_mem[x]]
               ELSE hw_mem

\* Code and data of the kernel, at KOFFSET in both directories, and what it
\* reaches with va_to_pa() while its own directory is in use: here only the
\* translations count.
KernelTouch(p) ==
  /\ cr3 # NoDir /\ pc # "panic"
  /\ p - KPage \in KernelFrames \/ (cr3 = "kpdir" /\ p \in KernelFrames)
  /\ \E t \in Translate(p * PAGE_SIZE, 1) : tlb' = t.tlb /\ pc' = IF t.ok THEN pc ELSE "panic"
  /\ UNCHANGED <<tables, cr3, hw_mem, loop, brk, new_brk, reply>>

----------------------------------------------------------------------------
(* The kernel's own memory.                                                *)

\* The low 128 MB and the same again at KOFFSET, both to the physical memory.
InitPage ==
  /\ pc = "init_page"
  /\ table' = [t \in Table |-> IF t < PhyTables THEN [i \in 0 .. NR_PTE - 1 |-> t * NR_PTE + i]
                               ELSE table[t]]
  /\ dir' = [dir EXCEPT !["kpdir"] = [i \in Dir |-> IF i < PhyTables THEN KTable(i)
                                                    ELSE IF i >= KDir THEN KTable(i - KDir)
                                                    ELSE Absent]]
  /\ cr3' = "kpdir"
  /\ pc' = "init_mm"
  /\ UNCHANGED <<nr_frame, nr_table, tlb, hw_mem, loop, brk, new_brk, reply>>

\* Mutant: the kernel's entries are not copied.
InitMm_Empty ==
  /\ pc = "init_mm"
  /\ dir' = [dir EXCEPT !["updir"] = [i \in Dir |-> Absent]]
  /\ pc' = "write_test"
  /\ k' = 0
  /\ UNCHANGED <<table, nr_frame, nr_table, cr3, tlb, hw_mem,
                 caller, seg, first, cur, last, brk, new_brk, reply>>

\* Mutant: the low half of the kernel's directory is copied too.
InitMm_Whole ==
  /\ pc = "init_mm"
  /\ dir' = [dir EXCEPT !["updir"] = dir["kpdir"]]
  /\ pc' = "write_test"
  /\ k' = 0
  /\ UNCHANGED <<table, nr_frame, nr_table, cr3, tlb, hw_mem,
                 caller, seg, first, cur, last, brk, new_brk, reply>>

\* The process directory begins with the kernel's half.
InitMm ==
  /\ pc = "init_mm"
  /\ dir' = [dir EXCEPT !["updir"] = [i \in Dir |-> IF i >= KDir THEN dir["kpdir"][i] ELSE Absent]]
  /\ pc' = "write_test"
  /\ k' = 0
  /\ UNCHANGED <<table, nr_frame, nr_table, cr3, tlb, hw_mem,
                 caller, seg, first, cur, last, brk, new_brk, reply>>

\* The loops of video_mapping_write_test(), _read_test() and _clear() over the
\* video memory, at its own address in either directory.
VideoSize == PAGE_SIZE * Cardinality(VmemPages)
VideoBase == PAGE_SIZE * (CHOOSE p \in VmemPages : \A q \in VmemPages : p <= q)
TestByte(i) == i + 1

VideoLoop(l, next, ok) ==
  /\ pc' = IF ~ok THEN "panic" ELSE IF k + 1 = VideoSize THEN next ELSE l
  /\ k' = (k + 1) % VideoSize
  /\ UNCHANGED <<tables, cr3, caller, seg, first, cur, last, brk, new_brk, reply>>

WriteTest ==
  /\ pc = "write_test"
  /\ \E t \in Translate(VideoBase + k, 1) :
       Store(<<TestByte(k)>>, t) /\ VideoLoop("write_test", "load", t.ok)

ReadTest ==
  /\ pc = "read_test"
  /\ \E t \in Translate(VideoBase + k, 1) :
       /\ tlb' = t.tlb
       /\ VideoLoop("read_test", "clear", t.ok /\ hw_mem[t.at[1]] = TestByte(k))
  /\ UNCHANGED hw_mem

ClearVideo ==
  /\ pc = "clear"
  /\ \E t \in Translate(VideoBase + k, 1) :
       Store(<<0>>, t) /\ VideoLoop("clear", "user", t.ok)

----------------------------------------------------------------------------
(* mm_malloc(va, len), a page at a time.                                   *)

Malloc(va, len, who) ==
  /\ first' = va /\ cur' = Page(va) /\ last' = Page(va + len - 1)
  /\ caller' = who
  /\ pc' = "malloc"

\* An absent page table comes from the pool, an absent frame from the counter;
\* what is there already is kept.  The last frame ends in an assertion.
MallocPage ==
  /\ pc = "malloc" /\ cur <= last
  /\ LET d    == cur \div NR_PTE
         new  == dir["updir"][d] = Absent
         t    == IF new THEN Pool(nr_table) ELSE dir["updir"][d]
         full == table[t][cur % NR_PTE] = Absent /\ nr_frame = PhyPages
     IN /\ dir' = [dir EXCEPT !["updir"][d] = t]
        /\ nr_table' = IF new THEN nr_table + 1 ELSE nr_table
        /\ IF table[t][cur % NR_PTE] = Absent /\ ~full
           THEN table' = [table EXCEPT ![t][cur % NR_PTE] = nr_frame] /\ nr_frame' = nr_frame + 1
           ELSE UNCHANGED <<table, nr_frame>>
        /\ pc' = IF full THEN "panic" ELSE pc
  /\ cur' = cur + 1
  /\ UNCHANGED <<cr3, tlb, hw_mem, caller, seg, first, last, k, brk, new_brk, reply>>

MallocReturn ==
  /\ pc = "malloc" /\ cur > last
  /\ pc' = CASE caller = "loader" -> "copy" [] caller = "stack" -> "video" [] OTHER -> "user"
  /\ brk' = IF caller = "brk" THEN new_brk ELSE brk
  /\ reply' = <<>>
  /\ UNCHANGED <<tables, cr3, tlb, hw_mem, loop, new_brk>>

----------------------------------------------------------------------------
(* loader().                                                               *)

LoadSegment ==
  /\ pc = "load" /\ seg <= Len(Segments)
  /\ Malloc(Segments[seg].vaddr, Segments[seg].memsz, "loader")
  /\ k' = 0
  /\ UNCHANGED <<tables, cr3, tlb, hw_mem, seg, brk, new_brk, reply>>

\* memcpy() and memset() run over the physical addresses from the one that
\* mm_malloc returned, whatever frames the following pages got.
CopyByte ==
  /\ pc = "copy" /\ k < Segments[seg].memsz
  /\ \E t \in Translate(PAddrOf(Walk("updir", Page(first)), first) + k, 1) :
       /\ Store(<<SegmentByte(seg, k)>>, t)
       /\ pc' = IF t.ok THEN pc ELSE "panic"
  /\ k' = k + 1
  /\ UNCHANGED <<tables, cr3, caller, seg, first, cur, last, brk, new_brk, reply>>

SegmentLoaded ==
  /\ pc = "copy" /\ k = Segments[seg].memsz
  /\ LET end == Segments[seg].vaddr + Segments[seg].memsz - 1
     IN brk' = IF brk < end THEN end ELSE brk
  /\ seg' = seg + 1
  /\ pc' = "load"
  /\ UNCHANGED <<tables, cr3, tlb, hw_mem, caller, first, cur, last, k, new_brk, reply>>

MapStack ==
  /\ pc = "load" /\ seg > Len(Segments)
  /\ Malloc(KOFFSET - STACK_SIZE, STACK_SIZE, "stack")
  /\ UNCHANGED <<tables, cr3, tlb, hw_mem, seg, k, brk, new_brk, reply>>

\* Mutant: the loop's index runs ahead of the page it maps.
CreateVideoMapping_NextPage ==
  /\ pc = "video"
  /\ dir' = [dir EXCEPT !["updir"][0] = VTable]
  /\ table' = [table EXCEPT ![VTable] = [i \in 0 .. NR_PTE - 1 |->
                                           IF i \in VmemPages THEN i + 1 ELSE @[i]]]
  /\ pc' = "write_cr3"
  /\ UNCHANGED <<nr_frame, nr_table, cr3, tlb, hw_mem, loop, brk, new_brk, reply>>

\* The first directory entry is overwritten, not extended.
CreateVideoMapping ==
  /\ pc = "video"
  /\ dir' = [dir EXCEPT !["updir"][0] = VTable]
  /\ table' = [table EXCEPT ![VTable] = [i \in 0 .. NR_PTE - 1 |->
                                           IF i \in VmemPages THEN i ELSE @[i]]]
  /\ pc' = "write_cr3"
  /\ UNCHANGED <<nr_frame, nr_table, cr3, tlb, hw_mem, loop, brk, new_brk, reply>>

\* NEMU assigns the register; no entry of the TLB is invalidated.
WriteCr3 ==
  /\ pc = "write_cr3"
  /\ cr3' = "updir"
  /\ pc' = "read_test"
  /\ k' = 0
  /\ UNCHANGED <<tables, tlb, hw_mem, caller, seg, first, cur, last, brk, new_brk, reply>>

----------------------------------------------------------------------------
(* The program.                                                            *)

UserRead(a, len) ==
  /\ pc = "user" /\ a .. a + len - 1 \subseteq Given(brk)
  /\ \E t \in Translate(a, len) :
       /\ tlb' = t.tlb
       /\ reply' = IF t.ok THEN [i \in 1 .. len |-> hw_mem[t.at[i]]] ELSE reply
       /\ pc' = IF t.ok THEN pc ELSE "panic"
  /\ UNCHANGED <<tables, cr3, hw_mem, loop, brk, new_brk>>

UserWrite(a, data) ==
  /\ pc = "user" /\ a .. a + Len(data) - 1 \subseteq Given(brk)
  /\ \E t \in Translate(a, Len(data)) :
       /\ Store(data, t)
       /\ pc' = IF t.ok THEN pc ELSE "panic"
  /\ reply' = <<>>
  /\ UNCHANGED <<tables, cr3, loop, brk, new_brk>>

\* Mutant: the new break is passed as the length.
UserBrk_Length(b) ==
  /\ pc = "user"
  /\ IF b > brk
     THEN Malloc(brk, b, "brk") /\ new_brk' = b /\ UNCHANGED <<brk, reply>>
     ELSE brk' = b /\ reply' = <<>> /\ UNCHANGED <<pc, caller, first, cur, last, new_brk>>
  /\ UNCHANGED <<tables, cr3, tlb, hw_mem, seg, k>>

\* mm_brk(): the break may also go back, which only moves the number.
UserBrk(b) ==
  /\ pc = "user"
  /\ IF b > brk
     THEN Malloc(brk, b - brk, "brk") /\ new_brk' = b /\ UNCHANGED <<brk, reply>>
     ELSE brk' = b /\ reply' = <<>> /\ UNCHANGED <<pc, caller, first, cur, last, new_brk>>
  /\ UNCHANGED <<tables, cr3, tlb, hw_mem, seg, k>>

Boot == InitPage \/ InitMm \/ WriteTest \/ LoadSegment \/ CopyByte \/ SegmentLoaded
        \/ MapStack \/ CreateVideoMapping \/ WriteCr3 \/ ReadTest \/ ClearVideo

Program ==
  \/ \E a \in Starts, len \in Lens : UserRead(a, len)
                                     \/ \E data \in [1 .. len -> Byte] : UserWrite(a, data)
  \/ \E b \in Brks : UserBrk(b)

Next == Boot \/ MallocPage \/ MallocReturn \/ Program \/ \E p \in LPage : KernelTouch(p)

Spec == Init /\ [][Next]_vars

----------------------------------------------------------------------------
(* What must hold.                                                         *)

UserWalk(p) == Walk("updir", p)

(* No two pages of the program share a frame, and none but the video pages *)
(* reaches below the frames of mm_malloc: no store of the program touches  *)
(* the kernel, its page tables or another page (mm_malloc, init_mm).       *)
FramesPrivate ==
  \A p, q \in UserPage \ VmemPages :
    UserWalk(p) # Absent => /\ UserWalk(p) >= KMemPages
                            /\ p # q => UserWalk(p) # UserWalk(q)

(* A TLB entry for an address the running directory maps agrees with the   *)
(* page tables, although nothing ever flushes the TLB: neither when cr3 is *)
(* loaded nor when the kernel adds a mapping (tlb.c, operand.c).           *)
TlbAgrees ==
  \A i \in Slot : tlb[i] # NoEntry /\ Walk(cr3, tlb[i].page) # Absent
                    => tlb[i].frame = Walk(cr3, tlb[i].page)

(* The machine stops only when the physical memory is used up: no access   *)
(* of the kernel or of a program that stays in what it was given fails a   *)
(* translation, also in the middle of the switch of directories, and the   *)
(* test data written before the switch is read back after it (kernel/src/  *)
(* memory/vmem.c:44).                                                      *)
StopsOnlyWhenFull == pc = "panic" => nr_frame = PhyPages

(* The program sees a flat memory of its own: its image where ELF asks for *)
(* it, zero elsewhere, and what it has written; brk() loses nothing.       *)
Running == pc = "user" \/ caller = "brk"
SeenAt(a) ==
  IF UserWalk(Page(a)) = Absent THEN 0 ELSE hw_mem[PAddrOf(UserWalk(Page(a)), a)]

Promise == INSTANCE UserMemory WITH
  memory <- [a \in UserAddr |-> IF Running THEN SeenAt(a) ELSE Loaded(a)],
  brk    <- IF Running THEN brk ELSE End - 1
ImplementsUserMemory == Promise!Spec
=============================================================================
