---------------------------- MODULE Paging_proofs ----------------------------
(***************************************************************************)
(* The safety properties of Paging hold for every layout of the address    *)
(* space, every program and every size of the TLB.                         *)
(***************************************************************************)
EXTENDS Paging, FiniteSetTheorems, WellFoundedInduction, TLAPS

\* The kernel's calls of mm_malloc and the directories they run in.
PhaseInv ==
  /\ pc = "init_page" <=> cr3 = NoDir
  /\ caller = "loader" => cr3 # "updir"
  /\ pc \in {"init_page", "init_mm", "write_test", "load", "copy"} => caller = "loader"
  /\ pc \in {"video", "write_cr3"} => caller = "stack"
  /\ pc \in {"video", "write_cr3"} \/ (pc = "malloc" /\ caller = "stack") => cr3 = "kpdir"
  /\ pc \in {"read_test", "clear"} => caller = "stack"
  /\ pc = "user" => caller # "loader"
  /\ pc \in {"read_test", "clear", "user"} \/ caller = "brk" => cr3 = "updir"
  /\ caller # "loader" => seg = Len(Segments) + 1

\* The kernel's half, the same in both directories, and its tables.
KernelInv ==
  /\ pc # "init_page" =>
       /\ \A t \in 0 .. PhyTables - 1, i \in 0 .. NR_PTE - 1 : table[t][i] = t * NR_PTE + i
       /\ \A d \in Dir : dir["kpdir"][d] = IF d < PhyTables THEN d
                                           ELSE IF d >= KDir THEN d - KDir ELSE Absent
  /\ pc \notin {"init_page", "init_mm"} => \A d \in Dir : d >= KDir => dir["updir"][d] = d - KDir

\* Page tables of the pool are used once each, in their order; the first
\* directory entry is only ever that of the video memory.
Used == {d \in 1 .. KDir - 1 : dir["updir"][d] # Absent}
TablesInv ==
  /\ pc \in {"init_page", "init_mm"} => \A d \in Dir : dir["updir"][d] = Absent
  /\ dir["updir"][0] \in {Absent, VTable}
  /\ \A d \in Used : dir["updir"][d] \in Pool(0) .. Pool(nr_table - 1)
  /\ \A d, e \in Used : dir["updir"][d] = dir["updir"][e] => d = e
  /\ nr_table = Cardinality(Used)
  /\ \A t \in Pool(nr_table) .. PhyTables + KDir, i \in 0 .. NR_PTE - 1 : table[t][i] = Absent
  /\ \A i \in 0 .. NR_PTE - 1 :
       table[VTable][i] = IF dir["updir"][0] = VTable /\ i \in VmemPages THEN i ELSE Absent
  /\ pc \in {"write_cr3", "read_test", "clear", "user"} \/ caller = "brk" => dir["updir"][0] = VTable

\* A frame of mm_malloc is that of one page, and of one the program needs.
FramesInv ==
  \A p \in NR_PTE .. KPage - 1 :
    UserWalk(p) # Absent =>
      /\ UserWalk(p) \in KMemPages .. nr_frame - 1 /\ p \in MostUserPages
      /\ \A q \in NR_PTE .. KPage - 1 : UserWalk(q) = UserWalk(p) => q = p

\* What mm_malloc was asked for, and what it has done of it.
SegmentEnd(s) == Segments[s].vaddr + Segments[s].memsz - 1
MallocInv ==
  /\ caller = "loader" /\ pc \in {"malloc", "copy"} =>
       /\ seg \in DOMAIN Segments /\ first = Segments[seg].vaddr /\ last = Page(SegmentEnd(seg))
       /\ k \in 0 .. Segments[seg].memsz
       /\ pc = "malloc" => k = 0
  /\ caller = "stack" /\ pc = "malloc" => first = KOFFSET - STACK_SIZE /\ last = Page(KOFFSET - 1)
  /\ caller = "brk" /\ pc = "malloc" =>
       new_brk \in Brks /\ new_brk > brk /\ first = brk /\ last = Page(new_brk - 1)
  /\ pc \in {"malloc", "copy"} =>
       cur \in Page(first) .. last + 1 /\ \A p \in Page(first) .. cur - 1 : UserWalk(p) # Absent
  /\ pc = "copy" => cur = last + 1

\* The end of the heap, and that what the program was given is mapped.
BrkInv ==
  /\ caller = "loader" => brk = IF seg = 1 THEN 0 ELSE SegmentEnd(seg - 1)
  /\ caller = "stack" => brk = End - 1
  /\ caller = "brk" => brk \in End - 1 .. KOFFSET - STACK_SIZE
MappedInv ==
  /\ \A s \in DOMAIN Segments : s < seg => \A a \in SegmentBytes(s) : UserWalk(Page(a)) # Absent
  /\ pc \in {"video", "write_cr3", "read_test", "clear", "user"} \/ caller = "brk" =>
       \A a \in StackBytes : UserWalk(Page(a)) # Absent
  /\ caller = "brk" => \A a \in End .. brk - 1 : UserWalk(Page(a)) # Absent

\* While the image is loaded the frames follow one another as the pages do:
\* the pages lo to hi - 1 have the last frames handed out, and no page from hi
\* on has one.
FirstPage == Page(Segments[1].vaddr)
Free(lo) ==
  /\ \A q \in lo .. KPage - 1 : UserWalk(q) = Absent
  /\ nr_frame <= KMemPages + lo - FirstPage
Run(lo, hi) ==
  /\ \A p \in lo .. hi - 1 : UserWalk(p) = nr_frame - (hi - p)
  /\ Free(hi)
LoadInv ==
  /\ pc \in {"init_page", "init_mm", "write_test"} => seg = 1
  /\ caller = "loader" /\ seg = 1 /\ pc \notin {"malloc", "copy", "panic"} => Free(FirstPage)
  /\ pc = "load" /\ seg > 1 => LET e == Page(SegmentEnd(seg - 1)) IN Run(e, e + 1)
  /\ pc = "malloc" /\ caller = "loader" =>
       IF cur = Page(first) THEN Free(cur) \/ Run(cur, cur + 1) ELSE Run(Page(first), cur)
  /\ pc = "copy" => Run(Page(first), last + 1)

\* The test data in the video memory.
TestInv ==
  /\ pc \in {"write_test", "read_test", "clear"} => k < VideoSize
  /\ \A i \in 0 .. VideoSize - 1 :
       \/ pc = "write_test" /\ i < k
       \/ pc \in {"load", "copy", "video", "write_cr3", "read_test"}
       \/ pc = "malloc" /\ caller # "brk"
       => hw_mem[VideoBase + i] = TestByte(i)

\* Where an entry of the TLB comes from: the kernel's half, the low memory the
\* kernel used, or the directory of the program.
EntryOk(e) ==
  /\ e \in [page : LPage, frame : Frame]
  /\ \/ e.page >= KPage /\ e.frame = e.page - KPage
     \/ e.page \in TouchedLow \union VmemPages /\ e.frame = e.page
     \/ cr3 = "updir" /\ e.frame = UserWalk(e.page)
TlbGood(t) ==
  /\ t \in [Slot -> [page : LPage, frame : Frame] \union {NoEntry}]
  /\ \A i \in Slot : t[i] # NoEntry => TLB_ENABLED /\ cr3 # NoDir /\ EntryOk(t[i])

IInv ==
  /\ TypeOK /\ PhaseInv /\ KernelInv /\ TablesInv /\ FramesInv /\ MallocInv
  /\ BrkInv /\ MappedInv /\ LoadInv /\ TestInv /\ TlbGood(tlb) /\ StopsOnlyWhenFull

----------------------------------------------------------------------------
(* Arithmetic.                                                             *)

\* The least element of a set of natural numbers.
LEMMA LeastNatural ==
  ASSUME NEW T \in SUBSET Nat, T # {}
  PROVE  \E m \in T : \A n \in T : m <= n
<1>. DEFINE R == {ss \in Nat \X Nat : ss[1] < ss[2]}
<1>1. IsWellFoundedOn(R, Nat)
  BY NatLessThanWellFounded DEF OpToRel
<1>2. PICK m \in T : \A n \in T : ~ (<<n, m>> \in R)
  BY <1>1, WFMin
<1>3. ASSUME NEW n \in T  PROVE m <= n
  <2>1. ~(n < m) /\ n \in Nat /\ m \in Nat
    BY <1>2
  <2>. QED  BY <2>1
<1>. QED
  BY <1>3

\* Quotient and remainder.
LEMMA DivMod ==
  ASSUME NEW a \in Nat, NEW b \in Nat \ {0}
  PROVE  /\ a = (a \div b) * b + (a % b) /\ a \div b \in Nat /\ a % b \in 0 .. b - 1
         /\ (a \div b) * b <= a /\ a < (a \div b) * b + b
<1>1. a = (a \div b) * b + (a % b) /\ a \div b \in Nat /\ a % b \in 0 .. b - 1
  OBVIOUS
<1>2. (a \div b) * b \in Nat
  BY <1>1
<1>. QED
  BY <1>1, <1>2

\* A quotient and a remainder in range are the ones of their number.
LEMMA DivUnique ==
  ASSUME NEW q \in Nat, NEW b \in Nat \ {0}, NEW r \in 0 .. b - 1
  PROVE  (q * b + r) \div b = q /\ (q * b + r) % b = r
  OBVIOUS

\* Division keeps the order.
LEMMA DivMonotone ==
  ASSUME NEW a \in Nat, NEW c \in Nat, NEW b \in Nat \ {0}, a <= c
  PROVE  a \div b <= c \div b
  OBVIOUS

\* A bound on the quotient.
LEMMA DivBelow ==
  ASSUME NEW a \in Nat, NEW n \in Nat, NEW b \in Nat \ {0}
  PROVE  a < n * b <=> a \div b < n
  OBVIOUS

\* Quotient and remainder determine a number.
LEMMA DivModSame ==
  ASSUME NEW a \in Nat, NEW c \in Nat, NEW b \in Nat \ {0}, a \div b = c \div b, a % b = c % b
  PROVE  a = c
  BY DivMod

----------------------------------------------------------------------------
(* Sizes and addresses.                                                    *)

\* The sizes are positive, whole page tables cover the physical memory, and the
\* user half is larger than it.
LEMMA Sizes ==
  /\ PAGE_SIZE \in Nat \ {0} /\ NR_PTE \in Nat \ {0} /\ PhyPages \in Nat \ {0}
  /\ KDir \in Nat \ {0} /\ KMemPages \in Nat \ {0} /\ STACK_SIZE \in Nat \ {0}
  /\ PhyTables \in Nat \ {0} /\ PhyPages = PhyTables * NR_PTE /\ PhyTables < KDir
  /\ KMemPages < PhyPages
  /\ KPage \in Nat \ {0} /\ NR_PTE <= PhyPages /\ PhyPages < KPage
  /\ KOFFSET \in Nat \ {0} /\ KOFFSET = KPage * PAGE_SIZE
<1>1. /\ PAGE_SIZE \in Nat \ {0} /\ NR_PTE \in Nat \ {0} /\ PhyPages \in Nat \ {0}
      /\ KDir \in Nat \ {0} /\ KMemPages \in Nat \ {0} /\ STACK_SIZE \in Nat \ {0}
      /\ PhyPages % NR_PTE = 0 /\ PhyTables < KDir /\ KMemPages < PhyPages
  BY LayoutAssumption
<1>2. PhyTables \in Nat /\ PhyPages = PhyTables * NR_PTE
  BY <1>1, DivMod DEF PhyTables
<1>3. PhyTables \in Nat \ {0}
  BY <1>1, <1>2
<1>4. NR_PTE <= PhyPages
  BY <1>1, <1>2, <1>3
<1>5. KPage \in Nat \ {0} /\ PhyPages < KPage
  BY <1>1, <1>2 DEF KPage
<1>6. KOFFSET \in Nat \ {0} /\ KOFFSET = KPage * PAGE_SIZE
  BY <1>1, <1>5 DEF KOFFSET
<1>. QED
  BY <1>1, <1>2, <1>3, <1>4, <1>5, <1>6

\* The page of an address.
LEMMA PageOf ==
  ASSUME NEW a \in Nat
  PROVE  /\ Page(a) \in Nat
         /\ Page(a) * PAGE_SIZE <= a /\ a < Page(a) * PAGE_SIZE + PAGE_SIZE
         /\ a = Page(a) * PAGE_SIZE + (a % PAGE_SIZE) /\ a % PAGE_SIZE \in 0 .. PAGE_SIZE - 1
<1>1. PAGE_SIZE \in Nat \ {0}
  BY Sizes
<1>. QED
  BY <1>1, DivMod, Zenon DEF Page

\* Pages keep the order of addresses.
LEMMA PageMonotone ==
  ASSUME NEW a \in Nat, NEW b \in Nat, a <= b
  PROVE  Page(a) <= Page(b)
  BY Sizes, DivMonotone DEF Page

\* An address is below that of page n when its page is.
LEMMA PageBelow ==
  ASSUME NEW a \in Nat, NEW n \in Nat
  PROVE  a < n * PAGE_SIZE <=> Page(a) < n
  BY Sizes, DivBelow DEF Page

\* Where byte o of page p is.
LEMMA PageIs ==
  ASSUME NEW p \in Nat, NEW o \in 0 .. PAGE_SIZE - 1
  PROVE  p * PAGE_SIZE + o \in Nat /\ Page(p * PAGE_SIZE + o) = p /\ (p * PAGE_SIZE + o) % PAGE_SIZE = o
  BY Sizes, DivUnique DEF Page

\* The pages of the user half.
LEMMA UserPages ==
  ASSUME NEW a \in UserAddr
  PROVE  a \in Nat /\ Page(a) \in UserPage
<1>1. a \in Nat /\ a < KPage * PAGE_SIZE /\ KPage \in Nat
  BY Sizes DEF UserAddr
<1>2. Page(a) \in Nat /\ Page(a) < KPage
  BY <1>1, PageOf, PageBelow
<1>. QED
  BY <1>1, <1>2 DEF UserPage

\* Every page between those of two addresses holds an address between them.
LEMMA PageHasByte ==
  ASSUME NEW a \in Nat, NEW b \in Nat, NEW p \in Page(a) .. Page(b)
  PROVE  a <= b => \E c \in a .. b : Page(c) = p
<1>. SUFFICES ASSUME a <= b PROVE \E c \in a .. b : Page(c) = p
  OBVIOUS
<1>. p \in Nat /\ Page(a) \in Nat /\ Page(b) \in Nat /\ p <= Page(b) /\ Page(a) <= p
  BY PageOf
<1>1. CASE p = Page(a)
  BY <1>1
<1>2. CASE p > Page(a)
  <2>1. p * PAGE_SIZE \in Nat /\ Page(p * PAGE_SIZE) = p
    BY PageIs, Sizes, 0 \in 0 .. PAGE_SIZE - 1, p * PAGE_SIZE + 0 = p * PAGE_SIZE
  <2>2. a <= p * PAGE_SIZE
    BY <1>2, <2>1, PageMonotone
  <2>3. ~(b < p * PAGE_SIZE)
    BY PageBelow
  <2>. QED
    BY <2>1, <2>2, <2>3
<1>. QED
  BY <1>1, <1>2

\* k bytes further, from the same offset in another page f.
LEMMA PagesApart ==
  ASSUME NEW f \in Nat, NEW a \in Nat, NEW i \in Nat
  PROVE  /\ PAddrOf(f, a) + i \in Nat
         /\ Page(PAddrOf(f, a) + i) = f + (Page(a + i) - Page(a))
         /\ (PAddrOf(f, a) + i) % PAGE_SIZE = (a + i) % PAGE_SIZE
<1>0. a % PAGE_SIZE \in 0 .. PAGE_SIZE - 1 /\ a = Page(a) * PAGE_SIZE + (a % PAGE_SIZE) /\ Page(a) \in Nat
  BY PageOf, Zenon
<1>. DEFINE o == a % PAGE_SIZE
            h == Page(o + i)
            r == (o + i) % PAGE_SIZE
<1>1. o \in 0 .. PAGE_SIZE - 1 /\ a = Page(a) * PAGE_SIZE + o /\ Page(a) \in Nat
  BY <1>0, Zenon
<1>. HIDE DEF o
<1>2. o + i \in Nat
  BY <1>1, Sizes
<1>3. h \in Nat /\ r \in 0 .. PAGE_SIZE - 1 /\ o + i = h * PAGE_SIZE + r
  <2>1. ASSUME NEW n \in Nat
        PROVE  /\ Page(n) \in Nat /\ n % PAGE_SIZE \in 0 .. PAGE_SIZE - 1
               /\ n = Page(n) * PAGE_SIZE + (n % PAGE_SIZE)
    BY PageOf, Zenon
  <2>. QED
    BY <1>2, <2>1, Zenon
<1>. HIDE DEF h, r
<1>4. PAGE_SIZE \in Nat
  BY Sizes
<1>5. \A n \in Nat : (n + h) * PAGE_SIZE = n * PAGE_SIZE + h * PAGE_SIZE
  BY <1>3, <1>4
<1>6. \A n \in Nat : n * PAGE_SIZE \in Nat
  BY <1>4
<1>7. \A n \in Nat : n * PAGE_SIZE + o + i = (n + h) * PAGE_SIZE + r /\ n + h \in Nat
  BY <1>1, <1>3, <1>4, <1>5, <1>6
<1>8. a + i = (Page(a) + h) * PAGE_SIZE + r
  BY <1>1, <1>7
<1>9. Page(a + i) = Page(a) + h /\ (a + i) % PAGE_SIZE = r
  BY <1>1, <1>3, <1>8, <1>7, PageIs
<1>10. /\ f * PAGE_SIZE + o + i \in Nat /\ Page(f * PAGE_SIZE + o + i) = f + h
       /\ (f * PAGE_SIZE + o + i) % PAGE_SIZE = r
  BY <1>3, <1>7, PageIs
<1>. QED
  BY <1>1, <1>3, <1>9, <1>10 DEF PAddrOf, o

----------------------------------------------------------------------------
(* Where the segments, the stack, the heap and the video memory are.       *)

\* Segments do not overlap.
LEMMA SegmentOrder ==
  ASSUME NEW s \in DOMAIN Segments, NEW t \in DOMAIN Segments, s < t
  PROVE  Segments[s].vaddr + Segments[s].memsz <= Segments[t].vaddr
<1>. DEFINE Before(u) == Segments[s].vaddr + Segments[s].memsz <= Segments[u].vaddr
            B == {u \in DOMAIN Segments : s < u /\ ~Before(u)}
<1>0. DOMAIN Segments \subseteq Nat \ {0} /\ \A u \in DOMAIN Segments : 1 .. u \subseteq DOMAIN Segments
  <2>1. DOMAIN Segments = 1 .. Len(Segments) /\ Len(Segments) \in Nat
    BY LayoutAssumption
  <2>. QED
    BY <2>1
<1>1. SUFFICES ASSUME ~Before(t) PROVE FALSE
  OBVIOUS
<1>2. B \in SUBSET Nat /\ B # {}
  BY <1>0, <1>1
<1>3. PICK u \in B : \A v \in B : u <= v
  BY <1>2, LeastNatural
<1>4. u - 1 \in DOMAIN Segments /\ u > 1
  BY <1>0, <1>3
<1>5. \A v \in DOMAIN Segments : Segments[v].vaddr \in Nat /\ Segments[v].memsz \in Nat
  BY LayoutAssumption
<1>6. Segments[u].vaddr >= Segments[u - 1].vaddr + Segments[u - 1].memsz
  BY <1>3, <1>4, LayoutAssumption
<1>7. CASE u - 1 = s
  BY <1>3, <1>6, <1>7
<1>8. CASE u - 1 # s
  <2>1. s < u - 1 /\ u - 1 < u /\ u \in Nat
    BY <1>0, <1>3, <1>8
  <2>2. Before(u - 1)
    BY <1>3, <1>4, <2>1
  <2>. HIDE DEF B
  <2>3. Before(u)
    BY <1>3, <1>4, <1>5, <1>6, <2>2 DEF B
  <2>. QED
    BY <1>3, <2>3 DEF B
<1>. QED
  BY <1>7, <1>8

\* Where one segment is.
LEMMA SegmentPlace ==
  ASSUME NEW s \in DOMAIN Segments
  PROVE  /\ Segments[s].vaddr \in Nat /\ Segments[s].memsz \in Nat \ {0}
         /\ SegmentEnd(s) \in Segments[s].vaddr .. End - 1
         /\ SegmentBytes(s) = Segments[s].vaddr .. SegmentEnd(s)
         /\ SegmentBytes(s) \subseteq ImageBytes
         /\ Segments[1].vaddr <= Segments[s].vaddr
         /\ s = Len(Segments) => SegmentEnd(s) = End - 1
         /\ s + 1 \in DOMAIN Segments => SegmentEnd(s) < Segments[s + 1].vaddr
<1>. DEFINE l == Len(Segments)
<1>1. l \in Nat /\ DOMAIN Segments = 1 .. l /\ l \in DOMAIN Segments /\ 1 \in DOMAIN Segments
  <2>1. l \in Nat /\ DOMAIN Segments = 1 .. l /\ l # 0
    BY LayoutAssumption
  <2>. QED
    BY <2>1
<1>2. \A v \in DOMAIN Segments : Segments[v].vaddr \in Nat /\ Segments[v].memsz \in Nat \ {0}
  BY LayoutAssumption
<1>3. SegmentBytes(s) = Segments[s].vaddr .. SegmentEnd(s)
  BY <1>2 DEF SegmentBytes, SegmentEnd
<1>4. SegmentBytes(s) \subseteq ImageBytes
  BY DEF ImageBytes
<1>5. End = Segments[l].vaddr + Segments[l].memsz
  BY DEF End
<1>. HIDE DEF l
<1>6. Segments[s].vaddr + Segments[s].memsz <= End
  <2>1. CASE s = l
    BY <2>1, <1>1, <1>2, <1>5
  <2>2. CASE s # l
    BY <2>2, <1>1, <1>2, <1>5, SegmentOrder
  <2>. QED
    BY <2>1, <2>2
<1>7. SegmentEnd(s) \in Segments[s].vaddr .. End - 1
  BY <1>1, <1>2, <1>5, <1>6 DEF SegmentEnd
<1>8. Segments[1].vaddr <= Segments[s].vaddr
  <2>1. CASE s = 1
    BY <2>1, <1>1, <1>2
  <2>2. CASE s # 1
    BY <2>2, <1>1, <1>2, SegmentOrder
  <2>. QED
    BY <2>1, <2>2
<1>9. s = l => SegmentEnd(s) = End - 1
  BY <1>2, <1>5 DEF SegmentEnd
<1>10. s + 1 \in DOMAIN Segments => SegmentEnd(s) < Segments[s + 1].vaddr
  BY <1>1, <1>2, SegmentOrder DEF SegmentEnd
<1>. QED
  BY <1>2, <1>3, <1>4, <1>7, <1>8, <1>9, <1>10 DEF l

\* Where the image begins and ends.
LEMMA LastSegment ==
  /\ Len(Segments) \in Nat \ {0} /\ DOMAIN Segments = 1 .. Len(Segments)
  /\ End \in Nat \ {0} /\ End - 1 \in Nat /\ End <= KOFFSET - STACK_SIZE
  /\ KOFFSET - STACK_SIZE \in Nat
  /\ FirstPage \in Nat /\ NR_PTE <= FirstPage /\ FirstPage <= Page(End - 1)
  /\ End - 1 \in ImageBytes /\ SegmentEnd(Len(Segments)) = End - 1
<1>. DEFINE l == Len(Segments)
<1>1. l \in Nat \ {0} /\ DOMAIN Segments = 1 .. l
  BY LayoutAssumption
<1>2. l \in DOMAIN Segments /\ 1 \in DOMAIN Segments
  BY <1>1
<1>. HIDE DEF l
<1>3. /\ Segments[l].vaddr \in Nat /\ Segments[1].vaddr \in Nat
      /\ SegmentEnd(l) = End - 1 /\ SegmentEnd(l) \in Segments[l].vaddr .. End - 1
      /\ SegmentEnd(l) \in ImageBytes /\ Segments[1].vaddr <= Segments[l].vaddr
  <2>1. SegmentBytes(l) = Segments[l].vaddr .. SegmentEnd(l) /\ SegmentEnd(l) \in Segments[l].vaddr .. End - 1
    BY <1>2, SegmentPlace
  <2>2. Segments[l].vaddr \in Nat /\ Segments[1].vaddr \in Nat /\ Segments[1].vaddr <= Segments[l].vaddr
    BY <1>2, SegmentPlace
  <2>3. SegmentEnd(l) = End - 1 /\ SegmentBytes(l) \subseteq ImageBytes
    BY <1>2, SegmentPlace DEF l
  <2>. QED
    BY <2>1, <2>2, <2>3
<1>4. End \in Nat \ {0}
  <2>1. Segments[l].memsz \in Nat \ {0}
    BY <1>2, SegmentPlace
  <2>. QED
    BY <1>3, <2>1 DEF End, l
<1>5. End <= KOFFSET - STACK_SIZE /\ KOFFSET - STACK_SIZE \in Nat
  BY <1>4, LayoutAssumption, Sizes
<1>6. NR_PTE <= FirstPage
  BY <1>2, LayoutAssumption DEF FirstPage
<1>7. FirstPage \in Nat /\ FirstPage <= Page(End - 1)
  BY <1>3, <1>4, PageOf, PageMonotone DEF FirstPage
<1>. QED
  BY <1>1, <1>3, <1>4, <1>5, <1>6, <1>7 DEF l

\* No page of the image, the heap or the stack is in the first table.
LEMMA HighPages ==
  ASSUME NEW a \in Nat, a < KOFFSET, Segments[1].vaddr <= a
  PROVE  a \in UserAddr /\ Page(a) \in NR_PTE .. KPage - 1
<1>1. a \in UserAddr
  BY Sizes DEF UserAddr
<1>2. Page(a) \in UserPage
  BY <1>1, UserPages
<1>3. FirstPage <= Page(a) /\ NR_PTE <= FirstPage /\ FirstPage \in Nat
  <2>1. 1 \in DOMAIN Segments
    BY LastSegment
  <2>2. Segments[1].vaddr \in Nat
    BY <2>1, SegmentPlace
  <2>. QED
    BY <2>2, LastSegment, PageMonotone DEF FirstPage
<1>. QED
  BY <1>1, <1>2, <1>3, Sizes DEF UserPage

\* Where the bytes of the image are.
LEMMA ImagePlace ==
  ASSUME NEW a \in ImageBytes
  PROVE  /\ a \in Nat /\ a < End /\ Segments[1].vaddr <= a
         /\ \E s \in DOMAIN Segments : a \in SegmentBytes(s)
<1>1. PICK s \in DOMAIN Segments : a \in SegmentBytes(s)
  BY DEF ImageBytes
<1>2. /\ Segments[s].vaddr \in Nat /\ Segments[1].vaddr \in Nat
      /\ a \in Segments[s].vaddr .. SegmentEnd(s) /\ SegmentEnd(s) \in Segments[s].vaddr .. End - 1
      /\ Segments[1].vaddr <= Segments[s].vaddr
  <2>1. 1 \in DOMAIN Segments
    BY LastSegment
  <2>. QED
    BY <1>1, <2>1, SegmentPlace
<1>3. End \in Nat
  BY LastSegment
<1>. QED
  BY <1>1, <1>2, <1>3

\* What mm_malloc is asked for lies in the program's pages.
LEMMA MallocRange ==
  ASSUME NEW a \in Nat, NEW b \in Nat, a <= b, b < KOFFSET, Segments[1].vaddr <= a,
         \A c \in a .. b : Page(c) \in MostUserPages
  PROVE  /\ Page(a) \in NR_PTE .. KPage - 1 /\ Page(b) \in NR_PTE .. KPage - 1 /\ Page(a) <= Page(b)
         /\ \A p \in Page(a) .. Page(b) : p \in MostUserPages
<1>1. a < KOFFSET /\ Segments[1].vaddr <= b
  <2>1. 1 \in DOMAIN Segments
    BY LastSegment
  <2>2. Segments[1].vaddr \in Nat
    BY <2>1, SegmentPlace
  <2>. QED
    BY <2>2, Sizes
<1>. QED
  BY <1>1, HighPages, PageMonotone, PageHasByte

\* The video memory is a run of pages of the first table, below mm_malloc's frames.
LEMMA VideoPlace ==
  /\ VideoSize \in Nat \ {0} /\ VideoBase \in Nat
  /\ VmemPages \subseteq 0 .. NR_PTE - 1 /\ VmemPages \subseteq 0 .. KMemPages - 1
  /\ VmemPages \subseteq 0 .. PhyPages - 1
  /\ \A i \in 0 .. VideoSize - 1 : VideoBase + i \in Nat /\ Page(VideoBase + i) \in VmemPages
<1>1. /\ VmemPages \subseteq 0 .. NR_PTE - 1 /\ VmemPages \subseteq 0 .. KMemPages - 1
      /\ VmemPages # {} /\ \A p, q \in VmemPages : p .. q \subseteq VmemPages
  BY LayoutAssumption
<1>2. VmemPages \subseteq 0 .. PhyPages - 1
  BY <1>1, Sizes
<1>. DEFINE lo == CHOOSE p \in VmemPages : \A q \in VmemPages : p <= q
            n == Cardinality(VmemPages)
<1>3. VmemPages \in SUBSET Nat
  BY <1>1
<1>4. lo \in VmemPages /\ lo \in Nat /\ \A q \in VmemPages : lo <= q
  <2>1. \E p \in VmemPages : \A q \in VmemPages : p <= q
    BY <1>1, <1>3, LeastNatural
  <2>. QED
    BY <1>3, <2>1
<1>5. IsFiniteSet(VmemPages) /\ n \in Nat /\ n # 0
  <2>1. IsFiniteSet(VmemPages)
    <3>1. IsFiniteSet(0 .. NR_PTE - 1)
      BY Sizes, FS_Interval
    <3>. QED
      BY <1>1, <3>1, FS_Subset
  <2>. QED
    BY <1>1, <2>1, FS_CardinalityType, FS_EmptySet
<1>6. ASSUME NEW j \in 0 .. n - 1  PROVE lo + j \in VmemPages
  <2>1. SUFFICES ASSUME lo + j \notin VmemPages PROVE FALSE
    OBVIOUS
  <2>. HIDE DEF lo
  <2>2. VmemPages \subseteq lo .. lo + j - 1
    BY <1>1, <1>3, <1>4, <2>1
  <2>3. IsFiniteSet(lo .. lo + j - 1) /\ Cardinality(lo .. lo + j - 1) = j
    BY <1>4, FS_Interval
  <2>4. n <= j
    BY <2>2, <2>3, FS_Subset
  <2>. QED
    BY <2>4, <1>5
<1>7. VideoSize = PAGE_SIZE * n /\ VideoBase = PAGE_SIZE * lo
  BY DEF VideoSize, VideoBase
<1>. HIDE DEF lo, n
<1>8. VideoSize \in Nat \ {0} /\ VideoBase \in Nat
  BY <1>4, <1>5, <1>7, Sizes
<1>9. ASSUME NEW i \in 0 .. VideoSize - 1
      PROVE  VideoBase + i \in Nat /\ Page(VideoBase + i) \in VmemPages
  <2>1. i \in Nat /\ i < n * PAGE_SIZE
    BY <1>5, <1>7, <1>8, Sizes
  <2>2. Page(i) \in 0 .. n - 1 /\ i = Page(i) * PAGE_SIZE + (i % PAGE_SIZE) /\ i % PAGE_SIZE \in 0 .. PAGE_SIZE - 1
    BY <1>5, <2>1, PageOf, PageBelow
  <2>3. VideoBase + i = (lo + Page(i)) * PAGE_SIZE + (i % PAGE_SIZE)
    <3>1. (lo + Page(i)) * PAGE_SIZE = PAGE_SIZE * lo + Page(i) * PAGE_SIZE
      BY <1>4, <2>2, Sizes
    <3>. QED
      BY <3>1, <2>1, <2>2, <1>7, <1>4, <1>8, Sizes
  <2>4. Page(VideoBase + i) = lo + Page(i)
    BY <2>2, <2>3, <1>4, PageIs
  <2>. QED
    BY <2>1, <2>2, <2>4, <1>6, <1>8
<1>. QED
  BY <1>1, <1>2, <1>8, <1>9

----------------------------------------------------------------------------
(* Translation.                                                            *)

\* The linear pages: the user half and one copy of the physical memory.
LEMMA LPages ==
  LPage = 0 .. KPage + PhyPages - 1
<1>. DEFINE n == (KDir + PhyTables) * NR_PTE
<1>1. n = KPage + PhyPages
  BY Sizes DEF KPage
<1>2. LPage = 0 .. n - 1
  BY Zenon DEF LPage
<1>. HIDE DEF n
<1>. QED
  BY <1>1, <1>2, Sizes

\* Where a page is in the tables.
LEMMA PagePlace ==
  ASSUME NEW p \in LPage
  PROVE  /\ p \in 0 .. KPage + PhyPages - 1
         /\ p \div NR_PTE \in Dir /\ p % NR_PTE \in 0 .. NR_PTE - 1
         /\ p = (p \div NR_PTE) * NR_PTE + (p % NR_PTE)
         /\ p < NR_PTE <=> p \div NR_PTE = 0
         /\ p < PhyPages <=> p \div NR_PTE < PhyTables
         /\ p < KPage <=> p \div NR_PTE < KDir
<1>1. NR_PTE \in Nat \ {0} /\ PhyTables \in Nat /\ KDir \in Nat /\ KPage = KDir * NR_PTE
      /\ PhyPages = PhyTables * NR_PTE
  BY Sizes DEF KPage
<1>2. (KDir + PhyTables) * NR_PTE = KPage + PhyPages /\ KDir + PhyTables \in Nat /\ KPage + PhyPages \in Nat
  BY <1>1
<1>3. p \in 0 .. KPage + PhyPages - 1
  BY LPages
<1>4. p \in Nat /\ p < (KDir + PhyTables) * NR_PTE
  BY <1>2, <1>3, Sizes
<1>5. p = (p \div NR_PTE) * NR_PTE + (p % NR_PTE) /\ p % NR_PTE \in 0 .. NR_PTE - 1 /\ p \div NR_PTE \in Nat
  BY <1>1, <1>4, DivMod, Zenon
<1>6. p \div NR_PTE < KDir + PhyTables
  BY <1>1, <1>2, <1>4, DivBelow
<1>7. p \div NR_PTE \in Dir
  BY <1>1, <1>5, <1>6 DEF Dir
<1>8. (p < PhyPages <=> p \div NR_PTE < PhyTables) /\ (p < KPage <=> p \div NR_PTE < KDir)
  BY <1>1, <1>4, DivBelow
<1>9. p < NR_PTE <=> p \div NR_PTE = 0
  <2>1. p < 1 * NR_PTE <=> p \div NR_PTE < 1
    BY <1>1, <1>4, DivBelow
  <2>. QED
    BY <1>1, <1>5, <2>1
<1>. QED
  BY <1>3, <1>5, <1>7, <1>8, <1>9

\* The kinds of pages.
LEMMA Pages ==
  /\ UserPage \subseteq LPage /\ Frame \subseteq UserPage
  /\ \A f \in Frame : f + KPage \in LPage
  /\ \A p \in LPage : p < KPage => p \in UserPage
  /\ \A p \in LPage : p >= KPage => p - KPage \in Frame
  /\ \A p \in LPage : p < PhyPages => p \in Frame
  BY LPages, Sizes DEF UserPage, Frame

\* A walk ends in a frame or finds nothing.
LEMMA WalkType ==
  ASSUME TypeOK, NEW p \in LPage, NEW d \in {"kpdir", "updir"}
  PROVE  Walk(d, p) \in Frame \union {Absent}
<1>1. dir[d][p \div NR_PTE] \in Table \union {Absent} /\ p % NR_PTE \in 0 .. NR_PTE - 1
  BY PagePlace DEF TypeOK
<1>2. \A t \in Table, i \in 0 .. NR_PTE - 1 : table[t][i] \in Frame \union {Absent}
  BY DEF TypeOK
<1>. QED
  BY <1>1, <1>2 DEF Walk

\* Frame numbers are never the mark of an absent page.
LEMMA FrameThere ==
  ASSUME NEW f \in Frame
  PROVE  f \in Nat /\ f # Absent /\ f < PhyPages
  BY Sizes DEF Frame, Absent

\* What the kernel's half and its directory translate to.
LEMMA KernelWalk ==
  ASSUME TypeOK, KernelInv, pc # "init_page", NEW p \in LPage
  PROVE  /\ p >= KPage => Walk("kpdir", p) = p - KPage
         /\ p >= KPage /\ pc # "init_mm" => Walk("updir", p) = p - KPage
         /\ p < PhyPages => Walk("kpdir", p) = p
         /\ Walk("kpdir", p) # Absent => p < PhyPages \/ p >= KPage
<1>. DEFINE d == p \div NR_PTE
            i == p % NR_PTE
<1>1. /\ d \in Dir /\ i \in 0 .. NR_PTE - 1 /\ p = d * NR_PTE + i /\ p \in Nat
      /\ p < PhyPages <=> d < PhyTables
      /\ p < KPage <=> d < KDir
  BY PagePlace
<1>2. dir["kpdir"][d] = IF d < PhyTables THEN d ELSE IF d >= KDir THEN d - KDir ELSE Absent
  BY <1>1 DEF KernelInv
<1>3. pc # "init_mm" /\ d >= KDir => dir["updir"][d] = d - KDir
  BY <1>1 DEF KernelInv
<1>4. \A t \in 0 .. PhyTables - 1 : table[t][i] = t * NR_PTE + i
  BY <1>1 DEF KernelInv
<1>5. \A e \in {"kpdir", "updir"} :
        Walk(e, p) = IF dir[e][d] = Absent THEN Absent ELSE table[dir[e][d]][i]
  BY DEF Walk
<1>. HIDE DEF d, i
<1>6. d \in 0 .. KDir + PhyTables - 1 /\ KDir \in Nat /\ PhyTables \in Nat /\ KPage = KDir * NR_PTE /\ NR_PTE \in Nat
  BY <1>1, Sizes DEF Dir, KPage
<1>7. d >= KDir => /\ d - KDir \in 0 .. PhyTables - 1 /\ d - KDir # Absent
                   /\ (d - KDir) * NR_PTE + i = p - KPage
  <2>1. d >= KDir => d - KDir \in 0 .. PhyTables - 1 /\ d - KDir # Absent
    BY <1>6 DEF Absent
  <2>2. (d - KDir) * NR_PTE = d * NR_PTE - KDir * NR_PTE /\ d * NR_PTE \in Nat /\ KDir * NR_PTE \in Nat
    BY <1>6
  <2>. QED
    BY <1>1, <1>6, <2>1, <2>2
<1>8. d < PhyTables => d \in 0 .. PhyTables - 1 /\ d # Absent
  BY <1>6 DEF Absent
<1>9. KDir > PhyTables
  BY Sizes
<1>10. p >= KPage => Walk("kpdir", p) = p - KPage
  <2>1. SUFFICES ASSUME p >= KPage PROVE Walk("kpdir", p) = p - KPage
    OBVIOUS
  <2>2. d >= KDir /\ ~(d < PhyTables)
    BY <2>1, <1>1, <1>6, <1>9
  <2>3. dir["kpdir"][d] = d - KDir
    BY <2>2, <1>2
  <2>. QED
    BY <2>2, <2>3, <1>4, <1>5, <1>7
<1>11. p >= KPage /\ pc # "init_mm" => Walk("updir", p) = p - KPage
  <2>1. SUFFICES ASSUME p >= KPage, pc # "init_mm" PROVE Walk("updir", p) = p - KPage
    OBVIOUS
  <2>2. d >= KDir
    BY <2>1, <1>1, <1>6
  <2>. QED
    BY <2>1, <2>2, <1>3, <1>4, <1>5, <1>7
<1>12. p < PhyPages => Walk("kpdir", p) = p
  BY <1>1, <1>2, <1>4, <1>5, <1>8
<1>13. Walk("kpdir", p) # Absent => p < PhyPages \/ p >= KPage
  BY <1>1, <1>2, <1>5, <1>6, Sizes
<1>. QED
  BY <1>10, <1>11, <1>12, <1>13

\* The first table of the program is the one of the video memory.
LEMMA VideoWalk ==
  ASSUME TypeOK, TablesInv, NEW p \in UserPage, p < NR_PTE
  PROVE  UserWalk(p) = IF dir["updir"][0] = VTable /\ p \in VmemPages THEN p ELSE Absent
<1>1. p \div NR_PTE = 0 /\ p % NR_PTE \in 0 .. NR_PTE - 1 /\ p % NR_PTE = p
  <2>1. p \in LPage
    BY Pages
  <2>2. p \div NR_PTE = 0 /\ p % NR_PTE \in 0 .. NR_PTE - 1 /\ p = (p \div NR_PTE) * NR_PTE + (p % NR_PTE)
    BY <2>1, PagePlace
  <2>. QED
    BY <2>2, Sizes
<1>2. VTable # Absent
  BY Sizes DEF VTable, Absent
<1>. QED
  BY <1>1, <1>2 DEF UserWalk, Walk, TablesInv

\* What the MMU needs to hold of the state.
Tables == TypeOK /\ PhaseInv /\ KernelInv /\ TablesInv /\ FramesInv

\* An entry of the TLB that the directory in use maps agrees with it.
LEMMA EntryRight ==
  ASSUME Tables, cr3 # NoDir, TLB_ENABLED, NEW e, EntryOk(e), Walk(cr3, e.page) # Absent
  PROVE  e.frame = Walk(cr3, e.page)
<1>. DEFINE p == e.page
<1>1. p \in LPage /\ e.frame \in Frame
  BY DEF EntryOk
<1>2. cr3 \in {"kpdir", "updir"} /\ pc # "init_page"
  BY DEF Tables, TypeOK, PhaseInv
<1>3. cr3 = "updir" => pc # "init_mm"
  BY DEF Tables, PhaseInv
<1>4. p \in 0 .. KPage + PhyPages - 1 /\ KPage \in Nat
  BY <1>1, PagePlace, Sizes
<1>. HIDE DEF p
<1>5. CASE p >= KPage /\ e.frame = p - KPage
  BY <1>1, <1>2, <1>3, <1>5, KernelWalk DEF Tables, p
<1>6. CASE p \in TouchedLow \union VmemPages /\ e.frame = p
  <2>1. p \in Frame /\ p < PhyPages /\ p < KPage
    BY <1>1, <1>4, <1>6, FrameThere, Sizes
  <2>2. CASE cr3 = "kpdir"
    BY <2>1, <2>2, <1>1, <1>2, <1>6, KernelWalk DEF Tables, p
  <2>3. CASE cr3 = "updir"
    <3>1. p \in UserPage
      BY <2>1, <1>1, Pages
    <3>2. UserWalk(p) = Walk(cr3, p) /\ UserWalk(p) # Absent
      BY <2>3 DEF UserWalk, p
    <3>3. p < NR_PTE
      <4>1. SUFFICES ASSUME ~(p < NR_PTE) PROVE FALSE
        OBVIOUS
      <4>2. p \in NR_PTE .. KPage - 1
        BY <4>1, <2>1, <1>4, Sizes
      <4>3. p \in MostUserPages
        BY <4>2, <3>2 DEF Tables, FramesInv
      <4>4. p \notin VmemPages
        BY <4>1, <1>4, VideoPlace, Sizes
      <4>. QED
        BY <4>3, <4>4, <1>6, PagingAssumption
    <3>4. UserWalk(p) = p
      BY <3>1, <3>2, <3>3, VideoWalk DEF Tables
    <3>. QED
      BY <3>2, <3>4, <1>6 DEF p
  <2>. QED
    BY <2>2, <2>3, <1>2
<1>7. CASE cr3 = "updir" /\ e.frame = UserWalk(p)
  BY <1>7 DEF UserWalk, p
<1>. QED
  BY <1>5, <1>6, <1>7 DEF EntryOk, p

\* Pages an access may be to: mapped, and in the kernel's directory among
\* those the kernel uses.
Reachable(p) ==
  /\ p \in LPage /\ Walk(cr3, p) # Absent
  /\ p >= KPage \/ p \in TouchedLow \union VmemPages \/ cr3 = "updir"

\* The MMU finds the frame of a reachable page, with or without a TLB.
LEMMA FetchRight ==
  ASSUME Tables, cr3 # NoDir, NEW t, TlbGood(t), NEW p, Reachable(p), NEW q \in Fetch(t, p)
  PROVE  q.frame = Walk(cr3, p) /\ q.frame \in Frame /\ TlbGood(q.tlb)
<1>. DEFINE f == Walk(cr3, p)
<1>1. p \in LPage /\ cr3 \in {"kpdir", "updir"} /\ f \in Frame
  <2>1. cr3 \in {"kpdir", "updir"} /\ TypeOK
    BY DEF Tables, TypeOK
  <2>. QED
    BY <2>1, WalkType DEF Reachable
<1>2. p # Absent
  BY <1>1, LPages, Sizes DEF Absent
<1>3. EntryOk([page |-> p, frame |-> f])
  <2>1. [page |-> p, frame |-> f] \in [page : LPage, frame : Frame]
    BY <1>1
  <2>2. pc # "init_page"
    BY DEF Tables, PhaseInv
  <2>3. \/ p >= KPage /\ f = p - KPage
        \/ p \in TouchedLow \union VmemPages /\ f = p
        \/ cr3 = "updir" /\ f = UserWalk(p)
    <3>1. CASE cr3 = "updir"
      BY <3>1 DEF UserWalk
    <3>2. CASE cr3 = "kpdir" /\ p >= KPage
      BY <3>2, <1>1, <2>2, KernelWalk DEF Tables
    <3>3. CASE cr3 = "kpdir" /\ ~(p >= KPage)
      BY <3>3, <1>1, <2>2, KernelWalk DEF Tables, Reachable
    <3>. QED
      BY <3>1, <3>2, <3>3, <1>1
  <2>. QED
    BY <2>1, <2>3 DEF EntryOk
<1>. HIDE DEF f
<1>4. CASE ~TLB_ENABLED
  <2>1. q = [tlb |-> t, frame |-> f]
    BY <1>4 DEF Fetch, f
  <2>. QED
    BY <2>1, <1>1 DEF f
<1>5. CASE TLB_ENABLED /\ Hits(t, p) # {}
  <2>1. PICK i \in Hits(t, p) : q = [tlb |-> t, frame |-> t[i].frame]
    BY <1>5 DEF Fetch
  <2>2. i \in Slot /\ t[i].page = p
    BY <2>1 DEF Hits
  <2>3. t[i] # NoEntry
    BY <2>2, <1>2 DEF NoEntry
  <2>4. EntryOk(t[i])
    BY <2>2, <2>3 DEF TlbGood
  <2>5. t[i].frame = f
    BY <1>5, <2>2, <2>4, EntryRight DEF Reachable, f
  <2>. QED
    BY <2>1, <2>5, <1>1 DEF f
<1>6. CASE TLB_ENABLED /\ Hits(t, p) = {}
  <2>. DEFINE e == [page |-> p, frame |-> f]
  <2>1. f # Absent
    BY <1>1, FrameThere
  <2>2. PICK i \in Slot : q = [tlb |-> [t EXCEPT ![i] = e], frame |-> f]
    BY <1>6, <2>1 DEF Fetch, f
  <2>3. e \in [page : LPage, frame : Frame]
    BY <1>1
  <2>4. EntryOk(e)
    BY <1>3 DEF f
  <2>. HIDE DEF e
  <2>5. TlbGood([t EXCEPT ![i] = e])
    BY <1>6, <2>3, <2>4 DEF TlbGood
  <2>. QED
    BY <2>2, <2>5, <1>1 DEF f
<1>. QED
  BY <1>4, <1>5, <1>6

\* An address in a frame is one of the physical memory.
LEMMA AddressThere ==
  ASSUME NEW f \in Frame, NEW a \in Nat
  PROVE  PAddrOf(f, a) \in PAddr /\ Page(PAddrOf(f, a)) = f
<1>1. f \in Nat /\ f < PhyPages
  BY FrameThere
<1>2. a % PAGE_SIZE \in 0 .. PAGE_SIZE - 1
  BY PageOf
<1>3. PAddrOf(f, a) \in Nat /\ Page(PAddrOf(f, a)) = f
  BY <1>1, <1>2, PageIs DEF PAddrOf
<1>4. PAddrOf(f, a) < PhyPages * PAGE_SIZE
  BY <1>1, <1>3, PageBelow, Sizes
<1>. QED
  BY <1>3, <1>4, Sizes DEF PAddr

\* An access within reach is translated byte by byte as the tables say.
LEMMA TranslateRight ==
  ASSUME Tables, cr3 # NoDir, TlbGood(tlb), NEW a \in Nat, NEW len \in 1 .. PAGE_SIZE,
         \A i \in 1 .. len : Reachable(Page(a + i - 1)), NEW t \in Translate(a, len)
  PROVE  /\ t.ok = TRUE /\ TlbGood(t.tlb) /\ DOMAIN t.at = 1 .. len
         /\ \A i \in 1 .. len : /\ t.at[i] = PAddrOf(Walk(cr3, Page(a + i - 1)), a + i - 1)
                                /\ t.at[i] \in PAddr
<1>. DEFINE p == Page(a)
            z == Page(a + len - 1)
<1>1. PAGE_SIZE \in Nat \ {0} /\ len \in Nat /\ a + len - 1 \in Nat
  BY Sizes
<1>2. Reachable(p) /\ Reachable(z)
  <2>1. 1 \in 1 .. len /\ len \in 1 .. len /\ a + 1 - 1 = a
    BY <1>1
  <2>. QED
    BY <2>1
<1>3. ASSUME NEW i \in 1 .. len  PROVE a + i - 1 \in Nat /\ Page(a + i - 1) \in {p, z}
  <2>1. a + i - 1 \in Nat /\ a <= a + i - 1 /\ a + i - 1 <= a + len - 1
    BY <1>1
  <2>2. p <= Page(a + i - 1) /\ Page(a + i - 1) <= z
    BY <1>1, <2>1, PageMonotone
  <2>3. p \in Nat /\ z \in Nat /\ Page(a + i - 1) \in Nat
    BY <1>1, <2>1, PageOf
  <2>4. z <= p + 1
    <3>1. a < (p + 1) * PAGE_SIZE
      BY <2>3, PageBelow
    <3>2. a + len - 1 < (p + 2) * PAGE_SIZE
      <4>1. (p + 2) * PAGE_SIZE = (p + 1) * PAGE_SIZE + PAGE_SIZE /\ (p + 1) * PAGE_SIZE \in Nat
        BY <1>1, <2>3
      <4>. QED
        BY <3>1, <4>1, <1>1
    <3>. QED
      BY <3>2, <1>1, <2>3, PageBelow
  <2>. QED
    BY <2>1, <2>2, <2>3, <2>4
<1>. HIDE DEF p, z
<1>4. PICK q \in Fetch(tlb, p) :
        t \in {[tlb |-> r.tlb, ok |-> Absent \notin {q.frame, r.frame},
                at |-> [i \in 1 .. len |->
                          PAddrOf(IF Page(a + i - 1) = p THEN q.frame ELSE r.frame, a + i - 1)]] :
                  r \in IF z = p THEN {q} ELSE Fetch(q.tlb, z)}
  BY DEF Translate, p, z
<1>5. q.frame = Walk(cr3, p) /\ q.frame \in Frame /\ TlbGood(q.tlb)
  BY <1>2, <1>4, FetchRight
<1>6. PICK r \in IF z = p THEN {q} ELSE Fetch(q.tlb, z) :
        t = [tlb |-> r.tlb, ok |-> Absent \notin {q.frame, r.frame},
             at |-> [i \in 1 .. len |->
                       PAddrOf(IF Page(a + i - 1) = p THEN q.frame ELSE r.frame, a + i - 1)]]
  BY <1>4
<1>7. r.frame = Walk(cr3, z) /\ r.frame \in Frame /\ TlbGood(r.tlb)
  BY <1>2, <1>5, <1>6, FetchRight
<1>. DEFINE ok == Absent \notin {q.frame, r.frame}
            at == [i \in 1 .. len |->
                       PAddrOf(IF Page(a + i - 1) = p THEN q.frame ELSE r.frame, a + i - 1)]
<1>8. ok = TRUE
  BY <1>5, <1>7, FrameThere
<1>9. ASSUME NEW i \in 1 .. len
      PROVE  at[i] = PAddrOf(Walk(cr3, Page(a + i - 1)), a + i - 1) /\ at[i] \in PAddr
  <2>. DEFINE f == Walk(cr3, Page(a + i - 1))
  <2>1. f \in Frame /\ at[i] = PAddrOf(f, a + i - 1)
    BY <1>3, <1>5, <1>7
  <2>. QED
    BY <2>1, <1>3, AddressThere
<1>10. DOMAIN at = 1 .. len
  OBVIOUS
<1>. HIDE DEF ok, at
<1>11. t = [tlb |-> r.tlb, ok |-> ok, at |-> at]
  BY <1>6 DEF ok, at
<1>. QED
  BY <1>7, <1>8, <1>9, <1>10, <1>11

----------------------------------------------------------------------------
(* What steps leave alone.                                                 *)

\* The tables decide what is mapped.
LEMMA TablesKept ==
  ASSUME UNCHANGED <<dir, table>>
  PROVE  \A p : UserWalk(p)' = UserWalk(p)
  BY DEF UserWalk, Walk

\* The invariants of the page tables do not depend on the rest.
LEMMA TablesQuiet ==
  ASSUME IInv, UNCHANGED tables, pc \notin {"init_page", "init_mm"}, pc' \notin {"init_page", "init_mm"},
         pc' \in {"write_cr3", "read_test", "clear", "user"} \/ caller' = "brk"
           => pc \in {"write_cr3", "read_test", "clear", "user"} \/ caller = "brk"
  PROVE  KernelInv' /\ TablesInv' /\ FramesInv'
<1>1. KernelInv /\ TablesInv /\ FramesInv
  BY DEF IInv
<1>2. UNCHANGED <<dir, table, nr_frame, nr_table>> /\ \A p : UserWalk(p)' = UserWalk(p)
  BY TablesKept DEF tables
<1>3. KernelInv'
  BY <1>1, <1>2 DEF KernelInv
<1>4. TablesInv'
  <2>1. Used' = Used
    BY <1>2 DEF Used
  <2>. QED
    BY <1>1, <1>2, <2>1 DEF TablesInv
<1>5. FramesInv'
  BY <1>1, <1>2 DEF FramesInv
<1>. QED
  BY <1>3, <1>4, <1>5

\* Entries stay right when mappings are only added.
LEMMA TlbQuiet ==
  ASSUME NEW t, TlbGood(t), tlb' = t, cr3' \in {cr3, "updir"}, cr3' = "updir" => cr3 # NoDir,
         cr3' = cr3 => \A p \in LPage : UserWalk(p) # Absent => UserWalk(p)' = UserWalk(p)
  PROVE  TlbGood(tlb)'
<1>1. NoDir # "updir"
  BY DEF NoDir
<1>2. t \in [Slot -> [page : LPage, frame : Frame] \union {NoEntry}]
  BY DEF TlbGood
<1>3. ASSUME NEW i \in Slot, t[i] # NoEntry
      PROVE  TLB_ENABLED /\ cr3' # NoDir /\ EntryOk(t[i])'
  <2>1. TLB_ENABLED /\ cr3 # NoDir /\ EntryOk(t[i])
    BY <1>3 DEF TlbGood
  <2>2. t[i].frame # Absent
    BY <2>1, FrameThere DEF EntryOk
  <2>3. CASE cr3' = cr3
    BY <2>1, <2>2, <2>3 DEF EntryOk
  <2>4. CASE cr3' = "updir" /\ cr3 # "updir"
    BY <2>1, <2>4, <1>1 DEF EntryOk
  <2>. QED
    BY <2>1, <2>3, <2>4, <1>1
<1>. QED
  BY <1>2, <1>3 DEF TlbGood

\* What the program was given lies in its half of the addresses.
LEMMA ProgramPages ==
  /\ ImageBytes \subseteq UserAddr /\ StackBytes \subseteq UserAddr
  /\ \A b \in 0 .. KOFFSET - STACK_SIZE : End .. b - 1 \subseteq UserAddr
  /\ \A a \in UserAddr : Page(a) \in LPage
<1>1. ImageBytes \subseteq UserAddr
  BY ImagePlace, LastSegment, Sizes DEF UserAddr
<1>2. StackBytes \subseteq UserAddr
  BY LastSegment, Sizes DEF StackBytes, UserAddr
<1>3. \A b \in 0 .. KOFFSET - STACK_SIZE : End .. b - 1 \subseteq UserAddr
  BY LastSegment, Sizes DEF UserAddr
<1>. QED
  BY <1>1, <1>2, <1>3, UserPages, Pages

\* What was mapped stays mapped when mappings are only added.
LEMMA MappedKept ==
  ASSUME IInv, \A p \in LPage : UserWalk(p) # Absent => UserWalk(p)' # Absent,
         UNCHANGED <<seg, caller, brk>>,
         pc' \in {"video", "write_cr3", "read_test", "clear", "user"} =>
           pc \in {"video", "write_cr3", "read_test", "clear", "user"} \/ caller = "brk"
  PROVE  MappedInv'
<1>1. \A s \in DOMAIN Segments : \A a \in SegmentBytes(s) : Page(a) \in LPage
  BY ProgramPages, SegmentPlace
<1>2. \A a \in StackBytes : Page(a) \in LPage
  BY ProgramPages
<1>3. caller = "brk" => \A a \in End .. brk - 1 : Page(a) \in LPage
  <2>1. caller = "brk" => brk \in 0 .. KOFFSET - STACK_SIZE
    BY LastSegment DEF IInv, BrkInv
  <2>. QED
    BY <2>1, ProgramPages
<1>. QED
  BY <1>1, <1>2, <1>3 DEF IInv, MappedInv

\* Only the TLB changes: the kernel touches its own memory.
LEMMA KernelTouchFinds ==
  ASSUME IInv, NEW p \in LPage, KernelTouch(p)
  PROVE  /\ cr3 # NoDir /\ TlbGood(tlb')
         /\ UNCHANGED <<dir, table, nr_frame, nr_table, cr3, hw_mem, pc, caller, seg, first, cur, last, k,
                        brk, new_brk, reply>>
<1>1. cr3 # NoDir /\ pc # "panic" /\ cr3 \in {"kpdir", "updir"} /\ pc # "init_page"
  BY DEF IInv, KernelTouch, TypeOK, PhaseInv
<1>2. PICK t \in Translate(p * PAGE_SIZE, 1) : tlb' = t.tlb /\ pc' = IF t.ok THEN pc ELSE "panic"
  BY DEF KernelTouch
<1>3. Tables /\ TypeOK /\ KernelInv
  BY DEF IInv, Tables
<1>4. Reachable(p)
  <2>1. CASE p - KPage \in KernelFrames
    <3>1. p >= KPage /\ p - KPage \in Frame
      BY <2>1, PagingAssumption, FrameThere, LPages, Sizes
    <3>2. cr3 = "updir" => pc # "init_mm"
      BY DEF IInv, PhaseInv
    <3>3. Walk(cr3, p) = p - KPage
      BY <1>1, <1>3, <3>1, <3>2, KernelWalk
    <3>. QED
      BY <3>1, <3>3, FrameThere DEF Reachable
  <2>2. CASE cr3 = "kpdir" /\ p \in KernelFrames
    <3>1. p \in Frame /\ p < PhyPages
      BY <2>2, PagingAssumption, FrameThere
    <3>2. Walk(cr3, p) = p
      BY <1>1, <1>3, <2>2, <3>1, KernelWalk
    <3>. QED
      BY <2>2, <3>1, <3>2, FrameThere DEF Reachable, TouchedLow
  <2>. QED
    BY <2>1, <2>2 DEF KernelTouch
<1>5. p * PAGE_SIZE \in Nat /\ Page(p * PAGE_SIZE) = p
  <2>1. p \in Nat /\ 0 \in 0 .. PAGE_SIZE - 1 /\ p * PAGE_SIZE + 0 = p * PAGE_SIZE
    BY LPages, Sizes
  <2>. QED
    BY <2>1, PageIs
<1>6. t.ok = TRUE /\ TlbGood(t.tlb)
  <2>1. 1 \in 1 .. PAGE_SIZE /\ TlbGood(tlb)
    BY Sizes DEF IInv
  <2>2. \A i \in 1 .. 1 : p * PAGE_SIZE + i - 1 = p * PAGE_SIZE
    BY <1>5
  <2>3. \A i \in 1 .. 1 : Reachable(Page(p * PAGE_SIZE + i - 1))
    BY <2>2, <1>4, <1>5
  <2>. HIDE DEF Tables
  <2>. QED
    BY <2>1, <2>3, <1>1, <1>2, <1>3, <1>5, TranslateRight
<1>. QED
  BY <1>1, <1>2, <1>6 DEF KernelTouch, tables, loop

\* The kernel's own accesses change only the TLB.
LEMMA KernelTouchStep ==
  ASSUME IInv, NEW p \in LPage, KernelTouch(p)
  PROVE  IInv'
<1>3. TypeOK /\ cr3 # NoDir /\ NoDir # "updir" /\ TlbGood(tlb')
  BY KernelTouchFinds DEF IInv, NoDir
<1>7. UNCHANGED <<dir, table, nr_frame, nr_table, cr3, hw_mem, pc, caller, seg, first, cur, last, k, brk, new_brk, reply>>
  BY KernelTouchFinds
<1>8. \A q : UserWalk(q)' = UserWalk(q)
  BY <1>7, TablesKept
<1>9. TlbGood(tlb)'
  BY <1>3, <1>7, <1>8, TlbQuiet
<1>10. TypeOK'
  BY <1>3, <1>7, <1>9 DEF TypeOK, TlbGood
<1>11. PhaseInv' /\ KernelInv' /\ MallocInv' /\ BrkInv'
  BY <1>7, <1>8 DEF IInv, PhaseInv, KernelInv, MallocInv, BrkInv
<1>12. TablesInv' /\ FramesInv'
  <2>1. Used' = Used
    BY <1>7 DEF Used
  <2>. QED
    BY <1>7, <1>8, <2>1 DEF IInv, TablesInv, FramesInv
<1>13. MappedInv' /\ TestInv' /\ StopsOnlyWhenFull'
  BY <1>7, <1>8 DEF IInv, MappedInv, TestInv, StopsOnlyWhenFull
<1>14. LoadInv'
  BY <1>7, <1>8 DEF IInv, LoadInv, Free, Run
<1>. QED
  BY <1>9, <1>10, <1>11, <1>12, <1>13, <1>14 DEF IInv

----------------------------------------------------------------------------
(* The loops over the video memory.                                        *)

\* The loops over the video memory reach it at its own address.
LEMMA VideoTouch ==
  ASSUME IInv, pc \in {"write_test", "read_test", "clear"}, NEW t \in Translate(VideoBase + k, 1)
  PROVE  /\ t.ok = TRUE /\ TlbGood(t.tlb) /\ t.at[1] = VideoBase + k /\ VideoBase + k \in PAddr
         /\ k \in 0 .. VideoSize - 1
<1>. DEFINE a == VideoBase + k
            p == Page(a)
<1>1. Tables /\ TlbGood(tlb) /\ TypeOK /\ KernelInv /\ TablesInv /\ PhaseInv
  BY DEF IInv, Tables
<1>2. cr3 # NoDir /\ cr3 \in {"kpdir", "updir"}
  BY DEF IInv, TypeOK, PhaseInv
<1>3. k \in 0 .. VideoSize - 1
  BY VideoPlace DEF IInv, TestInv, TypeOK
<1>4. a \in Nat /\ p \in VmemPages /\ p \in LPage /\ p < PhyPages /\ p < NR_PTE /\ p \in UserPage /\ p \in Nat
      /\ p \in Frame
  <2>1. a \in Nat /\ p \in VmemPages
    BY <1>3, VideoPlace
  <2>. HIDE DEF p
  <2>2. p \in 0 .. NR_PTE - 1 /\ p \in 0 .. PhyPages - 1
    BY <2>1, VideoPlace
  <2>3. p \in Frame
    BY <2>2 DEF Frame
  <2>. QED
    BY <2>1, <2>2, <2>3, Pages, Sizes
<1>. HIDE DEF a, p
<1>5. Walk(cr3, p) = p
  <2>1. CASE cr3 = "kpdir"
    <3>1. pc # "init_page"
      OBVIOUS
    <3>. QED
      BY <2>1, <3>1, <1>1, <1>4, KernelWalk
  <2>2. CASE cr3 = "updir"
    <3>1. dir["updir"][0] = VTable
      BY <2>2, <1>1 DEF PhaseInv, TablesInv
    <3>2. UserWalk(p) = p
      BY <3>1, <1>1, <1>4, VideoWalk
    <3>. QED
      BY <2>2, <3>2 DEF UserWalk
  <2>. QED
    BY <1>2, <2>1, <2>2
<1>6. Reachable(p)
  BY <1>4, <1>5, FrameThere DEF Reachable
<1>7. \A i \in 1 .. 1 : a + i - 1 = a
  BY <1>4
<1>8. 1 \in 1 .. PAGE_SIZE
  BY Sizes
<1>9. PAddrOf(p, a) = a
  BY <1>4, PageOf DEF PAddrOf, p
<1>10. \A i \in 1 .. 1 : Reachable(Page(a + i - 1))
  BY <1>6, <1>7 DEF p
<1>11. t \in Translate(a, 1)
  BY DEF a
<1>12. /\ t.ok = TRUE /\ TlbGood(t.tlb)
       /\ \A i \in 1 .. 1 : t.at[i] = PAddrOf(Walk(cr3, Page(a + i - 1)), a + i - 1) /\ t.at[i] \in PAddr
  BY <1>1, <1>2, <1>4, <1>8, <1>10, <1>11, TranslateRight
<1>13. t.at[1] = PAddrOf(Walk(cr3, p), a) /\ t.at[1] \in PAddr
  <2>1. 1 \in 1 .. 1
    OBVIOUS
  <2>. QED
    BY <2>1, <1>7, <1>12 DEF p
<1>. QED
  BY <1>3, <1>5, <1>9, <1>12, <1>13 DEF a

\* A store of one byte.
LEMMA StoreByte ==
  ASSUME TypeOK, NEW t, t.ok = TRUE, NEW v \in Nat, Store(<<v>>, t)
  PROVE  /\ tlb' = t.tlb /\ hw_mem' \in [PAddr -> Nat]
         /\ \A x \in PAddr : hw_mem'[x] = IF x = t.at[1] THEN v ELSE hw_mem[x]
<1>1. /\ tlb' = t.tlb
      /\ hw_mem' = [x \in PAddr |-> IF \E i \in DOMAIN <<v>> : t.at[i] = x
                                    THEN <<v>>[CHOOSE i \in DOMAIN <<v>> : t.at[i] = x] ELSE hw_mem[x]]
  BY DEF Store
<1>2. DOMAIN <<v>> = {1} /\ <<v>>[1] = v
  OBVIOUS
<1>3. ASSUME NEW x \in PAddr  PROVE hw_mem'[x] = IF x = t.at[1] THEN v ELSE hw_mem[x]
  <2>1. CASE x = t.at[1]
    <3>1. (CHOOSE i \in DOMAIN <<v>> : t.at[i] = x) = 1
      BY <1>2, <2>1
    <3>. QED
      BY <1>1, <1>2, <2>1, <3>1
  <2>2. CASE x # t.at[1]
    BY <1>1, <1>2, <2>2
  <2>. QED
    BY <2>1, <2>2
<1>4. hw_mem' \in [PAddr -> Nat]
  <2>1. hw_mem \in [PAddr -> Nat]
    BY DEF TypeOK
  <2>2. \A x \in PAddr : hw_mem'[x] \in Nat
    BY <1>3, <2>1
  <2>. QED
    BY <1>1, <2>2
<1>. QED
  BY <1>1, <1>3, <1>4

\* The test data goes to the video memory, which no other part reads.
LEMMA WriteTestStep ==
  ASSUME IInv, WriteTest
  PROVE  IInv'
<1>1. PICK t \in Translate(VideoBase + k, 1) :
        Store(<<TestByte(k)>>, t) /\ VideoLoop("write_test", "load", t.ok)
  BY DEF WriteTest
<1>2. /\ t.ok = TRUE /\ TlbGood(t.tlb) /\ t.at[1] = VideoBase + k /\ VideoBase + k \in PAddr
      /\ k \in 0 .. VideoSize - 1
  BY <1>1, VideoTouch DEF WriteTest
<1>3. TypeOK /\ TestByte(k) \in Nat
  BY DEF IInv, TypeOK, TestByte
<1>4. /\ tlb' = t.tlb /\ hw_mem' \in [PAddr -> Nat]
      /\ \A x \in PAddr : hw_mem'[x] = IF x = t.at[1] THEN TestByte(k) ELSE hw_mem[x]
  BY <1>1, <1>2, <1>3, StoreByte
<1>5. /\ pc = "write_test" /\ caller = "loader" /\ pc' = IF k + 1 = VideoSize THEN "load" ELSE "write_test"
      /\ k' = (k + 1) % VideoSize
      /\ UNCHANGED <<dir, table, nr_frame, nr_table, cr3, caller, seg, first, cur, last, brk, new_brk, reply>>
      /\ UNCHANGED tables
  BY <1>1, <1>2 DEF WriteTest, VideoLoop, tables, IInv, PhaseInv
<1>6. VideoSize \in Nat \ {0} /\ k' \in 0 .. VideoSize - 1 /\ (k + 1 # VideoSize => k' = k + 1)
  <2>1. VideoSize \in Nat \ {0} /\ k + 1 \in Nat /\ k + 1 <= VideoSize
    BY <1>2, VideoPlace
  <2>2. (k + 1) % VideoSize \in 0 .. VideoSize - 1
    BY <2>1, DivMod
  <2>3. k + 1 # VideoSize => (k + 1) % VideoSize = k + 1
    BY <2>1
  <2>. QED
    BY <2>1, <2>2, <2>3, <1>5
<1>7. \A q : UserWalk(q)' = UserWalk(q)
  BY <1>5, TablesKept
<1>8. TlbGood(tlb)'
  BY <1>2, <1>4, <1>5, <1>7, TlbQuiet DEF IInv, PhaseInv
<1>9. TypeOK'
  BY <1>3, <1>4, <1>5, <1>6, <1>8 DEF TypeOK, TlbGood
<1>10. PhaseInv' /\ MallocInv' /\ BrkInv' /\ StopsOnlyWhenFull'
  BY <1>5, <1>7 DEF IInv, PhaseInv, MallocInv, BrkInv, StopsOnlyWhenFull
<1>11. KernelInv' /\ TablesInv' /\ FramesInv'
  BY <1>5, TablesQuiet
<1>12. MappedInv'
  BY <1>5, <1>7 DEF IInv, MappedInv
<1>13. LoadInv'
  <2>1. seg = 1 /\ Free(FirstPage)
    BY <1>5 DEF IInv, LoadInv
  <2>2. Free(FirstPage)'
    BY <2>1, <1>5, <1>7 DEF Free
  <2>. QED
    BY <2>1, <2>2, <1>5 DEF LoadInv
<1>14. TestInv'
  <2>1. \A i \in 0 .. VideoSize - 1 : i < k \/ i = k => hw_mem'[VideoBase + i] = TestByte(i)
    <3>1. ASSUME NEW i \in 0 .. VideoSize - 1, i < k  PROVE hw_mem'[VideoBase + i] = TestByte(i)
      <4>1. hw_mem[VideoBase + i] = TestByte(i)
        BY <1>5, <3>1 DEF IInv, TestInv
      <4>2. VideoBase + i \in PAddr /\ VideoBase + i # VideoBase + k
        BY <1>2, <3>1, VideoPlace, Sizes DEF PAddr
      <4>. QED
        BY <1>2, <1>4, <4>1, <4>2
    <3>. QED
      BY <1>2, <1>4, <3>1
  <2>2. CASE k + 1 = VideoSize
    <3>1. \A i \in 0 .. VideoSize - 1 : i < k \/ i = k
      BY <1>2, <2>2
    <3>. QED
      BY <1>5, <2>1, <2>2, <3>1 DEF TestInv
  <2>3. CASE k + 1 # VideoSize
    <3>1. k' = k + 1 /\ k' < VideoSize /\ pc' = "write_test"
      BY <1>5, <1>6, <2>3
    <3>2. \A i \in 0 .. VideoSize - 1 : i < k' => i < k \/ i = k
      BY <1>2, <3>1
    <3>. QED
      BY <1>5, <2>1, <3>1, <3>2 DEF TestInv
  <2>. QED
    BY <2>2, <2>3
<1>. QED
  BY <1>8, <1>9, <1>10, <1>11, <1>12, <1>13, <1>14 DEF IInv

\* The test data is read back as it was written: the check cannot fail.
LEMMA ReadTestStep ==
  ASSUME IInv, ReadTest
  PROVE  IInv'
<1>1. PICK t \in Translate(VideoBase + k, 1) :
        /\ tlb' = t.tlb
        /\ VideoLoop("read_test", "clear", t.ok /\ hw_mem[t.at[1]] = TestByte(k))
  BY DEF ReadTest
<1>2. /\ t.ok = TRUE /\ TlbGood(t.tlb) /\ t.at[1] = VideoBase + k /\ VideoBase + k \in PAddr
      /\ k \in 0 .. VideoSize - 1
  BY <1>1, VideoTouch DEF ReadTest
<1>3. hw_mem[t.at[1]] = TestByte(k)
  BY <1>2 DEF IInv, TestInv, ReadTest
<1>5. /\ pc = "read_test" /\ caller = "stack" /\ cr3 = "updir"
      /\ pc' = IF k + 1 = VideoSize THEN "clear" ELSE "read_test"
      /\ k' = (k + 1) % VideoSize
      /\ UNCHANGED <<hw_mem, dir, table, nr_frame, nr_table, cr3, caller, seg, first, cur, last, brk, new_brk, reply>>
      /\ UNCHANGED tables
  BY <1>1, <1>2, <1>3 DEF ReadTest, VideoLoop, tables, IInv, PhaseInv
<1>6. VideoSize \in Nat \ {0} /\ k' \in 0 .. VideoSize - 1
  <2>1. VideoSize \in Nat \ {0} /\ k + 1 \in Nat
    BY <1>2, VideoPlace
  <2>. QED
    BY <2>1, <1>5, DivMod
<1>7. \A q : UserWalk(q)' = UserWalk(q)
  BY <1>5, TablesKept
<1>8. TlbGood(tlb)'
  BY <1>1, <1>2, <1>5, <1>7, TlbQuiet DEF NoDir
<1>9. TypeOK'
  BY <1>5, <1>6, <1>8 DEF IInv, TypeOK, TlbGood
<1>10. PhaseInv' /\ MallocInv' /\ BrkInv' /\ StopsOnlyWhenFull'
  BY <1>5, <1>7 DEF IInv, PhaseInv, MallocInv, BrkInv, StopsOnlyWhenFull
<1>11. KernelInv' /\ TablesInv' /\ FramesInv'
  BY <1>5, TablesQuiet
<1>12. MappedInv'
  BY <1>5, <1>7 DEF IInv, MappedInv
<1>13. LoadInv'
  BY <1>5 DEF LoadInv
<1>14. TestInv'
  BY <1>5, <1>6 DEF IInv, TestInv
<1>. QED
  BY <1>8, <1>9, <1>10, <1>11, <1>12, <1>13, <1>14 DEF IInv

\* The video memory is cleared when the test data is not needed any more.
LEMMA ClearVideoStep ==
  ASSUME IInv, ClearVideo
  PROVE  IInv'
<1>1. PICK t \in Translate(VideoBase + k, 1) : Store(<<0>>, t) /\ VideoLoop("clear", "user", t.ok)
  BY DEF ClearVideo
<1>2. /\ t.ok = TRUE /\ TlbGood(t.tlb) /\ k \in 0 .. VideoSize - 1
  BY <1>1, VideoTouch DEF ClearVideo
<1>3. tlb' = t.tlb /\ hw_mem' \in [PAddr -> Nat]
  BY <1>1, <1>2, StoreByte DEF IInv
<1>5. /\ pc = "clear" /\ caller = "stack" /\ cr3 = "updir"
      /\ pc' = IF k + 1 = VideoSize THEN "user" ELSE "clear"
      /\ k' = (k + 1) % VideoSize
      /\ UNCHANGED <<dir, table, nr_frame, nr_table, cr3, caller, seg, first, cur, last, brk, new_brk, reply>>
      /\ UNCHANGED tables
  BY <1>1, <1>2 DEF ClearVideo, VideoLoop, tables, IInv, PhaseInv
<1>6. VideoSize \in Nat \ {0} /\ k' \in 0 .. VideoSize - 1
  <2>1. VideoSize \in Nat \ {0} /\ k + 1 \in Nat
    BY <1>2, VideoPlace
  <2>. QED
    BY <2>1, <1>5, DivMod
<1>7. \A q : UserWalk(q)' = UserWalk(q)
  BY <1>5, TablesKept
<1>8. TlbGood(tlb)'
  BY <1>2, <1>3, <1>5, <1>7, TlbQuiet DEF NoDir
<1>9. TypeOK'
  BY <1>3, <1>5, <1>6, <1>8 DEF IInv, TypeOK, TlbGood
<1>10. PhaseInv' /\ MallocInv' /\ BrkInv' /\ StopsOnlyWhenFull'
  BY <1>5, <1>7 DEF IInv, PhaseInv, MallocInv, BrkInv, StopsOnlyWhenFull
<1>11. KernelInv' /\ TablesInv' /\ FramesInv'
  BY <1>5, TablesQuiet
<1>12. MappedInv'
  BY <1>5, <1>7 DEF IInv, MappedInv
<1>13. LoadInv'
  BY <1>5 DEF LoadInv
<1>14. TestInv'
  BY <1>5, <1>6 DEF IInv, TestInv
<1>. QED
  BY <1>8, <1>9, <1>10, <1>11, <1>12, <1>13, <1>14 DEF IInv

----------------------------------------------------------------------------
(* The beginning, and the kernel's own tables.                             *)

\* It holds at the start.
LEMMA InitInvariant ==
  ASSUME Init
  PROVE  IInv
<1>1. \A p \in LPage : UserWalk(p) = Absent
  BY PagePlace DEF Init, UserWalk, Walk
<1>2. \A p \in UserPage : UserWalk(p) = Absent
  BY <1>1, Pages
<1>3. TypeOK
  <2>1. /\ dir \in [{"kpdir", "updir"} -> [Dir -> Table \union {Absent}]]
        /\ table \in [Table -> [0 .. NR_PTE - 1 -> Frame \union {Absent}]]
        /\ tlb \in [Slot -> [page : LPage, frame : Frame] \union {NoEntry}]
        /\ hw_mem \in [PAddr -> Nat]
    BY DEF Init
  <2>2. /\ 0 \in UserAddr /\ 0 \in UserPage /\ 0 \in 0 .. KPage /\ 0 \in 0 .. KOFFSET /\ 0 \in 0 .. KDir
        /\ 1 \in 1 .. Len(Segments) + 1 /\ KMemPages \in KMemPages .. PhyPages
    BY Sizes, LastSegment DEF UserAddr, UserPage
  <2>3. << >> \in Seq(Nat)
    OBVIOUS
  <2>. QED
    BY <2>1, <2>2, <2>3 DEF Init, TypeOK
<1>4. PhaseInv /\ KernelInv
  BY DEF Init, PhaseInv, KernelInv, NoDir
<1>5. TablesInv
  <2>1. \A d \in Dir : dir["updir"][d] = Absent
    BY DEF Init
  <2>2. 0 \in Dir /\ 1 .. KDir - 1 \subseteq Dir
    BY Sizes DEF Dir
  <2>3. Used = {}
    BY <2>1, <2>2 DEF Used
  <2>4. Cardinality(Used) = 0
    BY <2>3, FS_EmptySet
  <2>5. \A t \in Table, i \in 0 .. NR_PTE - 1 : table[t][i] = Absent
    BY DEF Init
  <2>6. VTable \in Table /\ VTable # Absent /\ Pool(nr_table) .. PhyTables + KDir \subseteq Table
    BY Sizes DEF Init, VTable, Table, Pool, Absent
  <2>. QED
    BY <2>1, <2>2, <2>3, <2>4, <2>5, <2>6 DEF TablesInv, Init
<1>6. FramesInv
  BY <1>2, Sizes DEF FramesInv, UserPage
<1>7. MallocInv /\ BrkInv /\ TestInv /\ StopsOnlyWhenFull
  BY DEF Init, MallocInv, BrkInv, TestInv, StopsOnlyWhenFull
<1>8. MappedInv
  BY LastSegment DEF Init, MappedInv
<1>9. LoadInv
  <2>1. Free(FirstPage)
    BY <1>2, LastSegment, Sizes DEF Free, Init, UserPage
  <2>. QED
    BY <2>1 DEF LoadInv, Init
<1>10. TlbGood(tlb)
  BY DEF Init, TlbGood
<1>. QED
  BY <1>3, <1>4, <1>5, <1>6, <1>7, <1>8, <1>9, <1>10 DEF IInv

\* The process directory is empty until init_mm().
LEMMA Empty ==
  ASSUME IInv, pc \in {"init_page", "init_mm"}
  PROVE  /\ \A d \in Dir : dir["updir"][d] = Absent
         /\ nr_table = 0 /\ Used = {}
         /\ \A t \in VTable .. PhyTables + KDir, i \in 0 .. NR_PTE - 1 : table[t][i] = Absent
<1>1. \A d \in Dir : dir["updir"][d] = Absent
  BY DEF IInv, TablesInv
<1>2. 0 \in Dir /\ 1 .. KDir - 1 \subseteq Dir
  BY Sizes DEF Dir
<1>3. Used = {}
  BY <1>1, <1>2 DEF Used
<1>4. nr_table = 0
  BY <1>3, FS_EmptySet DEF IInv, TablesInv
<1>5. \A i \in 0 .. NR_PTE - 1 : table[VTable][i] = Absent
  <2>1. dir["updir"][0] # VTable
    BY <1>1, <1>2, Sizes DEF VTable, Absent
  <2>. QED
    BY <2>1 DEF IInv, TablesInv
<1>6. \A t \in Pool(0) .. PhyTables + KDir, i \in 0 .. NR_PTE - 1 : table[t][i] = Absent
  BY <1>4 DEF IInv, TablesInv
<1>7. VTable .. PhyTables + KDir = {VTable} \union Pool(0) .. PhyTables + KDir
  BY Sizes DEF VTable, Pool
<1>. QED
  BY <1>1, <1>3, <1>4, <1>5, <1>6, <1>7

\* The kernel's directory, with the TLB still empty.
LEMMA InitPageStep ==
  ASSUME IInv, InitPage
  PROVE  IInv'
<1>1. pc = "init_page" /\ cr3 = NoDir /\ caller = "loader" /\ seg = 1
  BY DEF IInv, InitPage, PhaseInv, LoadInv
<1>2. /\ \A d \in Dir : dir["updir"][d] = Absent
      /\ nr_table = 0 /\ Used = {}
      /\ \A t \in VTable .. PhyTables + KDir, i \in 0 .. NR_PTE - 1 : table[t][i] = Absent
  BY <1>1, Empty
<1>3. /\ table' = [t \in Table |-> IF t < PhyTables THEN [i \in 0 .. NR_PTE - 1 |-> t * NR_PTE + i]
                                   ELSE table[t]]
      /\ dir' = [dir EXCEPT !["kpdir"] = [i \in Dir |-> IF i < PhyTables THEN i
                                                        ELSE IF i >= KDir THEN i - KDir ELSE Absent]]
      /\ cr3' = "kpdir" /\ pc' = "init_mm"
      /\ UNCHANGED <<nr_frame, nr_table, tlb, hw_mem, caller, seg, first, cur, last, k, brk, new_brk, reply>>
  BY DEF InitPage, loop, KTable
<1>4. TypeOK
  BY DEF IInv
<1>5. /\ dir' \in [{"kpdir", "updir"} -> [Dir -> Table \union {Absent}]]
      /\ dir'["updir"] = dir["updir"]
      /\ \A d \in Dir : dir'["kpdir"][d] = IF d < PhyTables THEN d
                                           ELSE IF d >= KDir THEN d - KDir ELSE Absent
  <2>. DEFINE g == [i \in Dir |-> IF i < PhyTables THEN i ELSE IF i >= KDir THEN i - KDir ELSE Absent]
  <2>1. g \in [Dir -> Table \union {Absent}]
    BY Sizes DEF Dir, Table
  <2>. HIDE DEF g
  <2>2. dir' = [dir EXCEPT !["kpdir"] = g] /\ dir \in [{"kpdir", "updir"} -> [Dir -> Table \union {Absent}]]
    BY <1>3, <1>4 DEF g, TypeOK
  <2>3. dir'["kpdir"] = g /\ dir'["updir"] = dir["updir"]
    BY <2>2
  <2>4. dir' \in [{"kpdir", "updir"} -> [Dir -> Table \union {Absent}]]
    BY <2>1, <2>2
  <2>. QED
    BY <2>3, <2>4 DEF g
<1>6. /\ \A t \in 0 .. PhyTables - 1, i \in 0 .. NR_PTE - 1 :
           table'[t][i] = t * NR_PTE + i /\ table'[t][i] \in Frame
      /\ \A t \in VTable .. PhyTables + KDir : table'[t] = table[t]
      /\ table' \in [Table -> [0 .. NR_PTE - 1 -> Frame \union {Absent}]]
  <2>1. ASSUME NEW t \in 0 .. PhyTables - 1, NEW i \in 0 .. NR_PTE - 1
        PROVE  t * NR_PTE + i \in Frame
    <3>1. t + 1 <= PhyTables /\ t \in Nat /\ PhyTables \in Nat /\ NR_PTE \in Nat
      BY Sizes
    <3>2. (t + 1) * NR_PTE <= PhyTables * NR_PTE /\ (t + 1) * NR_PTE = t * NR_PTE + NR_PTE /\ t * NR_PTE \in Nat
      BY <3>1
    <3>. QED
      BY <3>1, <3>2, Sizes DEF Frame
  <2>2. 0 .. PhyTables - 1 \subseteq Table /\ VTable .. PhyTables + KDir \subseteq Table
    BY Sizes DEF Table, VTable
  <2>3. \A t \in Table : t < PhyTables => t \in 0 .. PhyTables - 1
    BY Sizes DEF Table
  <2>4. \A t \in VTable .. PhyTables + KDir : ~(t < PhyTables)
    BY Sizes DEF VTable
  <2>5. \A t \in Table : table[t] \in [0 .. NR_PTE - 1 -> Frame \union {Absent}]
    BY <1>4 DEF TypeOK
  <2>6. ASSUME NEW t \in 0 .. PhyTables - 1
        PROVE  table'[t] = [i \in 0 .. NR_PTE - 1 |-> t * NR_PTE + i]
    <3>1. t < PhyTables
      BY Sizes
    <3>. QED
      BY <1>3, <2>2, <3>1
  <2>7. \A t \in VTable .. PhyTables + KDir : table'[t] = table[t]
    BY <1>3, <2>2, <2>4
  <2>8. \A t \in 0 .. PhyTables - 1 : table'[t] \in [0 .. NR_PTE - 1 -> Frame \union {Absent}]
    BY <2>1, <2>6
  <2>9. \A t \in Table : table'[t] \in [0 .. NR_PTE - 1 -> Frame \union {Absent}]
    <3>1. ASSUME NEW t \in Table, ~(t < PhyTables)  PROVE table'[t] = table[t]
      BY <1>3, <3>1
    <3>. QED
      BY <3>1, <2>3, <2>5, <2>8
  <2>10. table' \in [Table -> [0 .. NR_PTE - 1 -> Frame \union {Absent}]]
    BY <1>3, <2>9
  <2>. QED
    BY <2>1, <2>6, <2>7, <2>10
<1>7. \A p \in LPage : UserWalk(p)' = Absent
  BY <1>2, <1>5, PagePlace DEF UserWalk, Walk
<1>8. \A p \in UserPage : UserWalk(p)' = Absent
  BY <1>7, Pages
<1>9. TlbGood(tlb)'
  BY <1>1, <1>3 DEF IInv, TlbGood
<1>10. TypeOK'
  BY <1>3, <1>4, <1>5, <1>6 DEF TypeOK
<1>11. PhaseInv' /\ BrkInv' /\ TestInv' /\ StopsOnlyWhenFull'
  BY <1>1, <1>3 DEF IInv, PhaseInv, BrkInv, TestInv, StopsOnlyWhenFull, NoDir
<1>12. KernelInv'
  BY <1>3, <1>5, <1>6 DEF KernelInv
<1>13. TablesInv'
  <2>1. Used' = Used
    BY <1>5 DEF Used
  <2>2. 0 \in Dir /\ 0 .. KDir \subseteq Dir
    BY Sizes DEF Dir
  <2>3. VTable \in VTable .. PhyTables + KDir /\ Pool(0) .. PhyTables + KDir \subseteq VTable .. PhyTables + KDir
        /\ VTable # Absent
    BY Sizes DEF VTable, Pool, Absent
  <2>4. Used' = {} /\ Cardinality(Used') = 0 /\ nr_table' = 0 /\ dir'["updir"][0] = Absent
    BY <1>2, <1>3, <1>5, <2>1, <2>2, FS_EmptySet
  <2>5. \A t \in VTable .. PhyTables + KDir, i \in 0 .. NR_PTE - 1 : table'[t][i] = Absent
    BY <1>2, <1>6
  <2>. QED
    BY <1>1, <1>2, <1>3, <1>5, <2>1, <2>2, <2>3, <2>4, <2>5 DEF TablesInv
<1>14. FramesInv'
  BY <1>8, Sizes DEF FramesInv, UserPage
<1>15. MallocInv' /\ MappedInv'
  BY <1>1, <1>3, LastSegment DEF MallocInv, MappedInv
<1>16. LoadInv'
  <2>1. Free(FirstPage)
    BY <1>1 DEF IInv, LoadInv
  <2>2. Free(FirstPage)'
    BY <2>1, <1>3, <1>8, LastSegment, Sizes DEF Free, UserPage
  <2>. QED
    BY <2>2, <1>1, <1>3 DEF LoadInv
<1>. QED
  BY <1>9, <1>10, <1>11, <1>12, <1>13, <1>14, <1>15, <1>16 DEF IInv

\* The process directory gets the kernel's half and nothing else.
LEMMA InitMmStep ==
  ASSUME IInv, InitMm
  PROVE  IInv'
<1>1. pc = "init_mm" /\ cr3 = "kpdir" /\ caller = "loader" /\ seg = 1
  BY DEF IInv, InitMm, TypeOK, PhaseInv, LoadInv
<1>2. /\ \A d \in Dir : dir["updir"][d] = Absent
      /\ nr_table = 0 /\ Used = {}
      /\ \A t \in VTable .. PhyTables + KDir, i \in 0 .. NR_PTE - 1 : table[t][i] = Absent
  BY <1>1, Empty
<1>3. /\ dir' = [dir EXCEPT !["updir"] = [i \in Dir |-> IF i >= KDir THEN dir["kpdir"][i] ELSE Absent]]
      /\ pc' = "write_test" /\ k' = 0
      /\ UNCHANGED <<table, nr_frame, nr_table, cr3, tlb, hw_mem,
                     caller, seg, first, cur, last, brk, new_brk, reply>>
  BY DEF InitMm
<1>4. TypeOK
  BY DEF IInv
<1>5. /\ dir' \in [{"kpdir", "updir"} -> [Dir -> Table \union {Absent}]]
      /\ dir'["kpdir"] = dir["kpdir"]
      /\ \A d \in Dir : dir'["updir"][d] = IF d >= KDir THEN d - KDir ELSE Absent
  <2>. DEFINE g == [i \in Dir |-> IF i >= KDir THEN dir["kpdir"][i] ELSE Absent]
  <2>1. g \in [Dir -> Table \union {Absent}]
    BY <1>4 DEF TypeOK
  <2>2. \A d \in Dir : g[d] = IF d >= KDir THEN d - KDir ELSE Absent
    <3>1. \A d \in Dir : d >= KDir => dir["kpdir"][d] = d - KDir
      BY <1>1, Sizes DEF IInv, KernelInv, Dir
    <3>. QED
      BY <3>1
  <2>. HIDE DEF g
  <2>3. dir' = [dir EXCEPT !["updir"] = g] /\ dir \in [{"kpdir", "updir"} -> [Dir -> Table \union {Absent}]]
    BY <1>3, <1>4 DEF g, TypeOK
  <2>4. dir'["updir"] = g /\ dir'["kpdir"] = dir["kpdir"]
    BY <2>3
  <2>5. dir' \in [{"kpdir", "updir"} -> [Dir -> Table \union {Absent}]]
    BY <2>1, <2>3
  <2>. QED
    BY <2>2, <2>4, <2>5
<1>6. \A p \in UserPage : UserWalk(p)' = Absent
  <2>1. ASSUME NEW p \in UserPage  PROVE UserWalk(p)' = Absent
    <3>1. p \in LPage /\ p < KPage /\ ~(p \div NR_PTE >= KDir) /\ p \div NR_PTE \in Dir
      <4>1. p \in LPage /\ p < KPage
        BY Pages, Sizes DEF UserPage
      <4>. QED
        BY <4>1, PagePlace, Sizes DEF Dir
    <3>. QED
      BY <3>1, <1>5 DEF UserWalk, Walk
  <2>. QED
    BY <2>1
<1>7. \A p \in LPage : UserWalk(p) = Absent
  BY <1>2, PagePlace DEF UserWalk, Walk
<1>9. TlbGood(tlb)'
  BY <1>1, <1>3, <1>7, TlbQuiet DEF IInv, NoDir
<1>10. TypeOK'
  BY <1>3, <1>4, <1>5 DEF TypeOK
<1>11. PhaseInv' /\ BrkInv' /\ StopsOnlyWhenFull'
  BY <1>1, <1>3 DEF IInv, PhaseInv, BrkInv, StopsOnlyWhenFull, NoDir
<1>12. KernelInv'
  BY <1>1, <1>3, <1>5 DEF IInv, KernelInv
<1>13. TablesInv'
  <2>1. \A d \in 0 .. KDir - 1 : dir'["updir"][d] = Absent
    BY <1>5, Sizes DEF Dir
  <2>2. Used' = {} /\ dir'["updir"][0] = Absent
    BY <2>1, Sizes DEF Used
  <2>3. VTable \in VTable .. PhyTables + KDir /\ Pool(0) .. PhyTables + KDir \subseteq VTable .. PhyTables + KDir
        /\ VTable # Absent
    BY Sizes DEF VTable, Pool, Absent
  <2>. QED
    BY <1>1, <1>2, <1>3, <2>2, <2>3, FS_EmptySet DEF TablesInv
<1>14. FramesInv'
  BY <1>6, Sizes DEF FramesInv, UserPage
<1>15. MallocInv' /\ MappedInv'
  BY <1>1, <1>3, LastSegment DEF MallocInv, MappedInv
<1>16. LoadInv'
  <2>1. Free(FirstPage)
    BY <1>1 DEF IInv, LoadInv
  <2>2. Free(FirstPage)'
    BY <2>1, <1>3, <1>6, LastSegment, Sizes DEF Free, UserPage
  <2>. QED
    BY <2>2, <1>1, <1>3 DEF LoadInv
<1>17. TestInv'
  BY <1>1, <1>3, VideoPlace DEF TestInv
<1>. QED
  BY <1>9, <1>10, <1>11, <1>12, <1>13, <1>14, <1>15, <1>16, <1>17 DEF IInv

----------------------------------------------------------------------------
(* The switch of directories.                                              *)

\* The switch of directories: every TLB entry fits the new one too.
LEMMA WriteCr3Step ==
  ASSUME IInv, WriteCr3
  PROVE  IInv'
<1>1. pc = "write_cr3" /\ cr3 = "kpdir" /\ caller = "stack"
  BY DEF IInv, WriteCr3, PhaseInv
<1>2. /\ cr3' = "updir" /\ pc' = "read_test" /\ k' = 0 /\ UNCHANGED tables
      /\ UNCHANGED <<dir, table, nr_frame, nr_table, tlb, hw_mem,
                     caller, seg, first, cur, last, brk, new_brk, reply>>
  BY DEF WriteCr3, tables
<1>3. \A p : UserWalk(p)' = UserWalk(p)
  BY <1>2, TablesKept
<1>4. TlbGood(tlb)'
  BY <1>1, <1>2, <1>3, TlbQuiet DEF IInv, NoDir
<1>5. TypeOK'
  BY <1>2 DEF IInv, TypeOK
<1>6. PhaseInv' /\ MallocInv' /\ BrkInv' /\ LoadInv' /\ StopsOnlyWhenFull'
  BY <1>1, <1>2 DEF IInv, PhaseInv, MallocInv, BrkInv, LoadInv, StopsOnlyWhenFull, NoDir
<1>7. KernelInv' /\ TablesInv' /\ FramesInv'
  BY <1>1, <1>2, TablesQuiet
<1>8. MappedInv'
  BY <1>1, <1>2, <1>3 DEF IInv, MappedInv
<1>9. TestInv'
  BY <1>1, <1>2, VideoPlace DEF IInv, TestInv
<1>. QED
  BY <1>4, <1>5, <1>6, <1>7, <1>8, <1>9 DEF IInv

\* create_video_mapping() gives the program pages and takes none away.
LEMMA VideoMapped ==
  ASSUME IInv, CreateVideoMapping
  PROVE  /\ TypeOK' /\ KernelInv' /\ TablesInv'
         /\ \A p \in LPage : UserWalk(p) # Absent => UserWalk(p)' = UserWalk(p)
         /\ \A p \in LPage : p >= NR_PTE => UserWalk(p)' = UserWalk(p)
<1>. DEFINE g == [i \in 0 .. NR_PTE - 1 |-> IF i \in VmemPages THEN i ELSE table[VTable][i]]
<1>1. TypeOK /\ PhaseInv /\ KernelInv /\ TablesInv
  BY DEF IInv
<1>2. /\ dir' = [dir EXCEPT !["updir"][0] = VTable] /\ table' = [table EXCEPT ![VTable] = g]
      /\ pc = "video" /\ pc' = "write_cr3" /\ caller = "stack" /\ cr3 = "kpdir"
      /\ UNCHANGED <<nr_frame, nr_table, cr3, tlb, hw_mem, caller, seg, first, cur, last, k, brk, new_brk, reply>>
  BY <1>1 DEF CreateVideoMapping, loop, PhaseInv
<1>3. /\ 0 \in Dir /\ 1 .. KDir - 1 \subseteq Dir /\ VTable \in Table /\ VTable \in Nat /\ VTable # Absent
      /\ VTable = PhyTables /\ \A t \in Int : Pool(t) = VTable + 1 + t
      /\ KDir > 0 /\ KDir \in Nat
  BY Sizes DEF Dir, VTable, Table, Absent, Pool
<1>4. g \in [0 .. NR_PTE - 1 -> Frame \union {Absent}]
  <2>1. table[VTable] \in [0 .. NR_PTE - 1 -> Frame \union {Absent}]
    BY <1>1, <1>3 DEF TypeOK
  <2>2. VmemPages \subseteq Frame
    BY VideoPlace DEF Frame
  <2>. QED
    BY <2>1, <2>2
<1>5. \A i \in 0 .. NR_PTE - 1 : g[i] = IF i \in VmemPages THEN i ELSE Absent
  BY <1>1 DEF TablesInv
<1>. HIDE DEF g
<1>6. /\ table' \in [Table -> [0 .. NR_PTE - 1 -> Frame \union {Absent}]]
      /\ table'[VTable] = g /\ \A t \in Table : t # VTable => table'[t] = table[t]
  BY <1>1, <1>2, <1>3, <1>4 DEF TypeOK
<1>7. /\ dir' \in [{"kpdir", "updir"} -> [Dir -> Table \union {Absent}]]
      /\ dir'["kpdir"] = dir["kpdir"] /\ dir'["updir"][0] = VTable
      /\ \A d \in Dir : d # 0 => dir'["updir"][d] = dir["updir"][d]
  <2>. DEFINE h == [dir["updir"] EXCEPT ![0] = VTable]
  <2>1. dir["updir"] \in [Dir -> Table \union {Absent}] /\ dir \in [{"kpdir", "updir"} -> [Dir -> Table \union {Absent}]]
    BY <1>1 DEF TypeOK
  <2>2. dir' = [dir EXCEPT !["updir"] = h]
    BY <1>2, <2>1
  <2>3. h \in [Dir -> Table \union {Absent}] /\ h[0] = VTable /\ \A d \in Dir : d # 0 => h[d] = dir["updir"][d]
    BY <1>3, <2>1
  <2>. HIDE DEF h
  <2>4. dir' \in [{"kpdir", "updir"} -> [Dir -> Table \union {Absent}]]
    BY <2>1, <2>2, <2>3
  <2>5. dir'["kpdir"] = dir["kpdir"] /\ dir'["updir"] = h
    BY <2>1, <2>2
  <2>. QED
    BY <2>3, <2>4, <2>5
<1>8. TypeOK'
  BY <1>1, <1>2, <1>6, <1>7 DEF TypeOK
<1>9. KernelInv'
  <2>1. 0 .. PhyTables - 1 \subseteq Table /\ \A t \in 0 .. PhyTables - 1 : t # VTable
    BY <1>3, Sizes DEF Table
  <2>2. \A t \in 0 .. PhyTables - 1 : table'[t] = table[t]
    BY <2>1, <1>6
  <2>3. \A d \in Dir : d >= KDir => dir'["updir"][d] = dir["updir"][d]
    BY <1>3, <1>7 DEF Dir
  <2>. QED
    BY <1>1, <1>2, <1>7, <2>2, <2>3 DEF KernelInv
<1>10. TablesInv'
  <2>1. \A d \in 1 .. KDir - 1 : dir'["updir"][d] = dir["updir"][d]
    BY <1>3, <1>7
  <2>2. Used' = Used
    BY <2>1 DEF Used
  <2>3. Used \subseteq 1 .. KDir - 1
    BY DEF Used
  <2>4. \A t \in Pool(nr_table) .. PhyTables + KDir : table'[t] = table[t]
    <3>1. nr_table \in Nat
      BY <1>1, Sizes DEF TypeOK
    <3>2. \A t \in Pool(nr_table) .. PhyTables + KDir : t \in Table /\ t # VTable
      BY <1>3, <3>1, Sizes DEF Table, Pool
    <3>. QED
      BY <3>2, <1>6
  <2>5. \A d \in Used' : dir'["updir"][d] = dir["updir"][d]
    BY <2>1, <2>2, <2>3
  <2>6. \A i \in 0 .. NR_PTE - 1 :
          table'[VTable][i] = IF dir'["updir"][0] = VTable /\ i \in VmemPages THEN i ELSE Absent
    BY <1>5, <1>6, <1>7
  <2>7. \A t \in Pool(nr_table') .. PhyTables + KDir, i \in 0 .. NR_PTE - 1 : table'[t][i] = Absent
    BY <1>1, <1>2, <2>4 DEF TablesInv
  <2>8. /\ \A d \in Used' : dir'["updir"][d] \in Pool(0) .. Pool(nr_table' - 1)
        /\ \A d, e \in Used' : dir'["updir"][d] = dir'["updir"][e] => d = e
        /\ nr_table' = Cardinality(Used')
    BY <1>1, <1>2, <2>2, <2>5 DEF TablesInv
  <2>. QED
    BY <1>2, <1>7, <2>6, <2>7, <2>8 DEF TablesInv
<1>11. ASSUME NEW p \in LPage, p >= NR_PTE  PROVE UserWalk(p)' = UserWalk(p)
  <2>. DEFINE d == p \div NR_PTE
  <2>1. d \in Dir /\ d # 0 /\ d \in Nat
    BY <1>11, PagePlace, Sizes DEF Dir
  <2>. HIDE DEF d
  <2>2. dir'["updir"][d] = dir["updir"][d]
    BY <2>1, <1>7
  <2>3. dir["updir"][d] \in Table \union {Absent} /\ dir["updir"][d] # VTable
    <3>1. dir["updir"][d] \in Table \union {Absent}
      BY <1>1, <2>1 DEF TypeOK
    <3>2. CASE d \in 1 .. KDir - 1 /\ dir["updir"][d] # Absent
      <4>1. d \in Used
        BY <3>2 DEF Used
      <4>2. dir["updir"][d] \in Pool(0) .. Pool(nr_table - 1)
        BY <4>1, <1>1 DEF TablesInv
      <4>3. nr_table \in Nat
        BY <1>1, Sizes DEF TypeOK
      <4>. QED
        BY <3>1, <4>2, <4>3, <1>3
    <3>3. CASE d >= KDir
      <4>1. dir["updir"][d] = d - KDir
        BY <1>1, <1>2, <2>1, <3>3 DEF KernelInv
      <4>2. d - KDir < PhyTables
        BY <2>1, <3>3, Sizes DEF Dir
      <4>. QED
        BY <3>1, <4>1, <4>2, <1>3, <2>1, Sizes
    <3>4. CASE dir["updir"][d] = Absent
      BY <3>1, <3>4, <1>3
    <3>. QED
      BY <3>2, <3>3, <3>4, <2>1, <1>3
  <2>. QED
    BY <2>2, <2>3, <1>6 DEF UserWalk, Walk, d
<1>12. ASSUME NEW p \in LPage, p < NR_PTE, UserWalk(p) # Absent  PROVE UserWalk(p)' = UserWalk(p)
  <2>1. p \in UserPage /\ p \div NR_PTE = 0 /\ p % NR_PTE \in 0 .. NR_PTE - 1 /\ p % NR_PTE = p
    <3>1. p \in Nat /\ p < KPage
      BY <1>12, LPages, Sizes
    <3>2. p \div NR_PTE = 0 /\ p % NR_PTE \in 0 .. NR_PTE - 1 /\ p = (p \div NR_PTE) * NR_PTE + (p % NR_PTE)
      BY <1>12, PagePlace
    <3>. QED
      BY <3>1, <3>2, Pages, Sizes
  <2>2. UserWalk(p) = p /\ p \in VmemPages
    BY <1>1, <1>12, <2>1, VideoWalk
  <2>3. UserWalk(p)' = g[p]
    BY <2>1, <1>3, <1>6, <1>7 DEF UserWalk, Walk
  <2>. QED
    BY <2>1, <2>2, <2>3, <1>5
<1>13. \A p \in LPage : p < NR_PTE \/ p >= NR_PTE
  BY LPages, Sizes
<1>. QED
  BY <1>8, <1>9, <1>10, <1>11, <1>12, <1>13

\* The first directory entry is new, so no page of the program is lost.
LEMMA CreateVideoMappingStep ==
  ASSUME IInv, CreateVideoMapping
  PROVE  IInv'
<1>1. /\ TypeOK' /\ KernelInv' /\ TablesInv'
      /\ \A p \in LPage : UserWalk(p) # Absent => UserWalk(p)' = UserWalk(p)
      /\ \A p \in LPage : p >= NR_PTE => UserWalk(p)' = UserWalk(p)
  BY VideoMapped
<1>2. /\ pc = "video" /\ pc' = "write_cr3" /\ caller = "stack" /\ cr3 = "kpdir"
      /\ UNCHANGED <<nr_frame, nr_table, cr3, tlb, hw_mem, caller, seg, first, cur, last, k, brk, new_brk, reply>>
  BY DEF CreateVideoMapping, loop, IInv, PhaseInv
<1>3. TlbGood(tlb)'
  BY <1>1, <1>2, TlbQuiet DEF IInv, NoDir
<1>4. PhaseInv' /\ MallocInv' /\ BrkInv' /\ LoadInv' /\ StopsOnlyWhenFull'
  BY <1>2 DEF IInv, PhaseInv, MallocInv, BrkInv, LoadInv, StopsOnlyWhenFull, NoDir
<1>5. FramesInv'
  <2>1. \A p \in NR_PTE .. KPage - 1 : UserWalk(p)' = UserWalk(p)
    <3>1. \A p \in NR_PTE .. KPage - 1 : p \in LPage /\ p >= NR_PTE
      BY LPages, Sizes
    <3>. QED
      BY <3>1, <1>1
  <2>. QED
    BY <1>2, <2>1 DEF IInv, FramesInv
<1>6. MappedInv'
  BY <1>1, <1>2, MappedKept
<1>7. TestInv'
  BY <1>2 DEF IInv, TestInv
<1>. QED
  BY <1>1, <1>3, <1>4, <1>5, <1>6, <1>7 DEF IInv

----------------------------------------------------------------------------
(* mm_malloc.                                                              *)

\* mm_malloc is asked for pages that the program needs.
LEMMA MallocAsk ==
  ASSUME IInv, pc \in {"malloc", "copy"}
  PROVE  /\ first \in Nat /\ Page(first) \in NR_PTE .. KPage - 1 /\ last \in NR_PTE .. KPage - 1
         /\ Page(first) <= last
         /\ \A p \in Page(first) .. last : p \in MostUserPages
<1>1. \A a \in ImageBytes : Page(a) \in MostUserPages
  BY DEF MostUserPages
<1>2. \A a \in StackBytes : Page(a) \in MostUserPages
  BY DEF MostUserPages
<1>3. \A b \in Brks : \A a \in End .. b - 1 : Page(a) \in MostUserPages
  BY DEF MostUserPages
<1>4. 1 \in DOMAIN Segments /\ Segments[1].vaddr \in Nat
  <2>1. 1 \in DOMAIN Segments
    BY LastSegment
  <2>. QED
    BY <2>1, SegmentPlace
<1>5. Segments[1].vaddr <= End - 1 /\ End - 1 \in Nat /\ End \in Nat /\ End <= KOFFSET - STACK_SIZE
      /\ KOFFSET - STACK_SIZE \in Nat /\ STACK_SIZE \in Nat \ {0} /\ KOFFSET \in Nat
  BY LastSegment, ImagePlace, Sizes
<1>6. CASE caller = "loader"
  <2>1. seg \in DOMAIN Segments /\ first = Segments[seg].vaddr /\ last = Page(SegmentEnd(seg))
    BY <1>6 DEF IInv, MallocInv
  <2>2. /\ Segments[seg].vaddr \in Nat
        /\ SegmentEnd(seg) \in Segments[seg].vaddr .. End - 1
        /\ SegmentBytes(seg) = Segments[seg].vaddr .. SegmentEnd(seg) /\ SegmentBytes(seg) \subseteq ImageBytes
        /\ Segments[1].vaddr <= Segments[seg].vaddr
    BY <2>1, SegmentPlace
  <2>. DEFINE a == Segments[seg].vaddr
              z == SegmentEnd(seg)
  <2>. HIDE DEF a, z
  <2>3. a \in Nat /\ z \in Nat /\ a <= z /\ z < KOFFSET /\ Segments[1].vaddr <= a
        /\ \A c \in a .. z : Page(c) \in MostUserPages
    BY <2>2, <1>1, <1>5 DEF a, z
  <2>4. Page(a) \in NR_PTE .. KPage - 1 /\ Page(z) \in NR_PTE .. KPage - 1 /\ Page(a) <= Page(z)
         /\ \A p \in Page(a) .. Page(z) : p \in MostUserPages
    BY <2>3, MallocRange
  <2>. QED
    BY <2>1, <2>3, <2>4 DEF a, z
<1>7. CASE caller = "stack"
  <2>1. pc = "malloc"
    BY <1>7 DEF IInv, PhaseInv
  <2>2. first = KOFFSET - STACK_SIZE /\ last = Page(KOFFSET - 1)
    BY <1>7, <2>1 DEF IInv, MallocInv
  <2>. DEFINE a == KOFFSET - STACK_SIZE
              z == KOFFSET - 1
  <2>3. a \in Nat /\ z \in Nat /\ a <= z /\ z < KOFFSET /\ Segments[1].vaddr <= a
        /\ \A c \in a .. z : Page(c) \in MostUserPages
    BY <1>2, <1>4, <1>5 DEF StackBytes
  <2>. HIDE DEF a, z
  <2>4. Page(a) \in NR_PTE .. KPage - 1 /\ Page(z) \in NR_PTE .. KPage - 1 /\ Page(a) <= Page(z)
         /\ \A p \in Page(a) .. Page(z) : p \in MostUserPages
    BY <2>3, MallocRange
  <2>. QED
    BY <2>2, <2>3, <2>4 DEF a, z
<1>8. CASE caller = "brk"
  <2>1. pc = "malloc"
    BY <1>8 DEF IInv, PhaseInv
  <2>2. new_brk \in Brks /\ new_brk > brk /\ first = brk /\ last = Page(new_brk - 1)
        /\ brk \in End - 1 .. KOFFSET - STACK_SIZE
    BY <1>8, <2>1 DEF IInv, MallocInv, BrkInv
  <2>3. new_brk \in End .. KOFFSET - STACK_SIZE
    BY <2>2, LayoutAssumption
  <2>. DEFINE a == brk
              z == new_brk - 1
  <2>4. ASSUME NEW c \in a .. z  PROVE Page(c) \in MostUserPages
    <3>1. CASE c = End - 1
      BY <3>1, <1>1, LastSegment
    <3>2. CASE c # End - 1
      <4>1. c \in End .. new_brk - 1
        BY <2>2, <2>3, <3>2, <1>5
      <4>. QED
        BY <4>1, <1>3, <2>2
    <3>. QED
      BY <3>1, <3>2
  <2>5. a \in Nat /\ z \in Nat /\ a <= z /\ z < KOFFSET /\ Segments[1].vaddr <= a
    BY <2>2, <2>3, <1>4, <1>5
  <2>. HIDE DEF a, z
  <2>6. Page(a) \in NR_PTE .. KPage - 1 /\ Page(z) \in NR_PTE .. KPage - 1 /\ Page(a) <= Page(z)
         /\ \A p \in Page(a) .. Page(z) : p \in MostUserPages
    BY <2>4, <2>5, MallocRange
  <2>. QED
    BY <2>2, <2>5, <2>6 DEF a, z
<1>. QED
  BY <1>6, <1>7, <1>8 DEF IInv, TypeOK

\* A later part of the pool of page tables.
LEMMA PoolRange ==
  ASSUME NEW n \in Nat, NEW m \in Nat, n <= m, NEW s \in Pool(m) .. PhyTables + KDir
  PROVE  s \in Table /\ s \in Pool(n) .. PhyTables + KDir
  BY Sizes DEF Pool, Table

\* A page of mm_malloc: only the page it is at changes, and only if it had no
\* frame.
LEMMA MallocWalk ==
  ASSUME IInv, MallocPage
  PROVE  /\ dir' \in [{"kpdir", "updir"} -> [Dir -> Table \union {Absent}]]
         /\ table' \in [Table -> [0 .. NR_PTE - 1 -> Frame \union {Absent}]]
         /\ KernelInv' /\ TablesInv' /\ nr_table' \in 0 .. KDir /\ nr_frame' \in KMemPages .. PhyPages
         /\ \A p \in LPage : p # cur => UserWalk(p)' = UserWalk(p)
         /\ \A p \in LPage : p = cur =>
              UserWalk(p)' = IF UserWalk(p) = Absent /\ nr_frame # PhyPages THEN nr_frame ELSE UserWalk(p)
         /\ nr_frame' = IF UserWalk(cur) = Absent /\ nr_frame # PhyPages THEN nr_frame + 1 ELSE nr_frame
         /\ pc' = IF UserWalk(cur) = Absent /\ nr_frame = PhyPages THEN "panic" ELSE "malloc"
<1>1. TypeOK /\ PhaseInv /\ KernelInv /\ TablesInv
  BY DEF IInv
<1>2. pc = "malloc" /\ cur <= last /\ cur \in NR_PTE .. KPage - 1
  <2>1. pc = "malloc" /\ cur <= last
    BY DEF MallocPage
  <2>2. cur \in Page(first) .. last + 1
    BY <2>1 DEF IInv, MallocInv
  <2>3. Page(first) \in NR_PTE .. KPage - 1 /\ last \in NR_PTE .. KPage - 1
    BY <2>1, MallocAsk
  <2>. QED
    BY <2>1, <2>2, <2>3, Sizes
<1>. DEFINE d    == cur \div NR_PTE
            i    == cur % NR_PTE
            new  == dir["updir"][d] = Absent
            t    == IF new THEN Pool(nr_table) ELSE dir["updir"][d]
            none == table[t][i] = Absent
            full == none /\ nr_frame = PhyPages
<1>3. /\ dir' = [dir EXCEPT !["updir"][d] = t]
      /\ nr_table' = IF new THEN nr_table + 1 ELSE nr_table
      /\ IF none /\ ~full
         THEN table' = [table EXCEPT ![t][i] = nr_frame] /\ nr_frame' = nr_frame + 1
         ELSE UNCHANGED <<table, nr_frame>>
      /\ pc' = IF full THEN "panic" ELSE pc
      /\ UNCHANGED caller
  BY DEF MallocPage
<1>4. cur \in LPage /\ cur < KPage /\ ~(cur < NR_PTE)
  BY <1>2, LPages, Sizes
<1>5. /\ d \in Dir /\ i \in 0 .. NR_PTE - 1 /\ cur = d * NR_PTE + i /\ d # 0 /\ d < KDir
  BY <1>4, PagePlace
<1>6. UserWalk(cur) = IF new THEN Absent ELSE table[dir["updir"][d]][i]
  BY DEF UserWalk, Walk
<1>. HIDE DEF d, i
<1>7. d \in 1 .. KDir - 1 /\ KDir \in Nat /\ PhyTables \in Nat
  BY <1>5, Sizes DEF Dir
<1>8. /\ VTable = PhyTables /\ \A n \in Int : Pool(n) = PhyTables + 1 + n
      /\ Table = 0 .. PhyTables + KDir /\ VTable # Absent
  BY Sizes DEF VTable, Pool, Table, Absent
<1>9. nr_table \in Nat /\ nr_table <= KDir - 1 /\ nr_frame \in KMemPages .. PhyPages
      /\ (new => nr_table < KDir - 1) /\ IsFiniteSet(Used)
      /\ nr_table = Cardinality(Used)
      /\ (new => Cardinality(Used \union {d}) = nr_table + 1)
      /\ (~new => d \in Used)
  <2>1. IsFiniteSet(1 .. KDir - 1) /\ Cardinality(1 .. KDir - 1) = KDir - 1
    BY <1>7, FS_Interval
  <2>2. Used \subseteq 1 .. KDir - 1 /\ nr_table = Cardinality(Used)
    BY <1>1 DEF Used, TablesInv
  <2>3. IsFiniteSet(Used) /\ Cardinality(Used) <= KDir - 1
    BY <2>1, <2>2, FS_Subset
  <2>4. nr_table \in Nat /\ nr_frame \in KMemPages .. PhyPages
    BY <1>1, Sizes DEF TypeOK
  <2>5. new => d \notin Used
    BY DEF Used
  <2>6. new => Cardinality(Used \union {d}) = Cardinality(Used) + 1
    BY <2>3, <2>5, FS_AddElement
  <2>7. Used \union {d} \subseteq 1 .. KDir - 1
    BY <2>2, <1>7
  <2>8. Cardinality(Used \union {d}) <= KDir - 1
    BY <2>1, <2>7, FS_Subset
  <2>9. ~new => d \in Used
    BY <1>7 DEF Used
  <2>. QED
    BY <2>2, <2>3, <2>4, <2>6, <2>8, <2>9, <1>7
<1>10. /\ t \in Table /\ t # Absent /\ t # VTable /\ ~(t < PhyTables)
       /\ t \in Pool(0) .. Pool(nr_table' - 1)
       /\ t \notin Pool(nr_table') .. PhyTables + KDir
       /\ nr_table' \in Nat /\ nr_table <= nr_table'
       /\ \A e \in Used : e # d => dir["updir"][e] # t
  <2>1. CASE new
    <3>1. t = Pool(nr_table) /\ nr_table' = nr_table + 1
      BY <1>3, <2>1
    <3>2. \A e \in Used : dir["updir"][e] \in Pool(0) .. Pool(nr_table - 1)
      BY <1>1 DEF TablesInv
    <3>. HIDE DEF t, new
    <3>3. t = PhyTables + 1 + nr_table
      BY <3>1, <1>8, <1>9
    <3>. QED
      BY <3>1, <3>2, <3>3, <2>1, <1>7, <1>8, <1>9 DEF Absent, Pool
  <2>2. CASE ~new
    <3>1. t = dir["updir"][d] /\ nr_table' = nr_table
      BY <1>3, <2>2
    <3>2. t \in Pool(0) .. Pool(nr_table - 1) /\ \A e \in Used : dir["updir"][e] = t => e = d
      BY <1>1, <1>9, <2>2, <3>1 DEF TablesInv
    <3>. HIDE DEF t, new
    <3>3. \A e \in Used : e # d => dir["updir"][e] # t
      BY <3>2
    <3>4. t \in PhyTables + 1 .. PhyTables + nr_table
      BY <3>2, <1>7, <1>8, <1>9 DEF Pool
    <3>5. /\ t \in Table /\ t # Absent /\ t # VTable /\ ~(t < PhyTables)
      <4>1. nr_table \in Nat /\ nr_table <= KDir - 1
        BY <1>9
      <4>2. t \in 0 .. PhyTables + KDir /\ t > PhyTables
        BY <3>4, <4>1, <1>7
      <4>. QED
        BY <4>2, <1>7, <1>8 DEF Absent
    <3>6. /\ t \in Pool(0) .. Pool(nr_table - 1)
          /\ t \notin Pool(nr_table) .. PhyTables + KDir
      BY <3>4, <1>7, <1>9 DEF Pool
    <3>. QED
      BY <3>1, <3>3, <3>5, <3>6, <1>9
  <2>. QED
    BY <2>1, <2>2
<1>11. none <=> UserWalk(cur) = Absent
  <2>1. CASE new
    <3>1. t = Pool(nr_table) /\ t \in Pool(nr_table) .. PhyTables + KDir
      BY <2>1, <1>7, <1>8, <1>9 DEF Pool
    <3>2. table[t][i] = Absent
      BY <3>1, <1>1, <1>5 DEF TablesInv
    <3>. QED
      BY <3>2, <2>1, <1>6
  <2>2. CASE ~new
    BY <2>2, <1>6
  <2>. QED
    BY <2>1, <2>2
<1>. HIDE DEF t
<1>12. /\ dir' \in [{"kpdir", "updir"} -> [Dir -> Table \union {Absent}]]
       /\ dir'["kpdir"] = dir["kpdir"] /\ dir'["updir"][d] = t
       /\ \A e \in Dir : e # d => dir'["updir"][e] = dir["updir"][e]
  <2>. DEFINE h == [dir["updir"] EXCEPT ![d] = t]
  <2>1. dir["updir"] \in [Dir -> Table \union {Absent}] /\ dir \in [{"kpdir", "updir"} -> [Dir -> Table \union {Absent}]]
    BY <1>1 DEF TypeOK
  <2>2. dir' = [dir EXCEPT !["updir"] = h]
    BY <1>3, <2>1
  <2>3. h \in [Dir -> Table \union {Absent}] /\ h[d] = t /\ \A e \in Dir : e # d => h[e] = dir["updir"][e]
    BY <1>5, <1>10, <2>1
  <2>. HIDE DEF h
  <2>4. dir' \in [{"kpdir", "updir"} -> [Dir -> Table \union {Absent}]]
    BY <2>1, <2>2, <2>3
  <2>5. dir'["kpdir"] = dir["kpdir"] /\ dir'["updir"] = h
    BY <2>1, <2>2
  <2>. QED
    BY <2>3, <2>4, <2>5
<1>13. /\ table' \in [Table -> [0 .. NR_PTE - 1 -> Frame \union {Absent}]]
       /\ table'[t][i] = IF none /\ ~full THEN nr_frame ELSE table[t][i]
       /\ \A s \in Table, j \in 0 .. NR_PTE - 1 : s # t \/ j # i => table'[s][j] = table[s][j]
       /\ nr_frame' = IF none /\ ~full THEN nr_frame + 1 ELSE nr_frame
       /\ nr_frame' \in KMemPages .. PhyPages
  <2>1. table \in [Table -> [0 .. NR_PTE - 1 -> Frame \union {Absent}]]
    BY <1>1 DEF TypeOK
  <2>2. CASE none /\ ~full
    <3>. DEFINE h == [table[t] EXCEPT ![i] = nr_frame]
    <3>1. nr_frame \in Frame /\ nr_frame + 1 \in KMemPages .. PhyPages
      BY <2>2, <1>9, Sizes DEF Frame
    <3>2. table' = [table EXCEPT ![t] = h] /\ nr_frame' = nr_frame + 1
      BY <2>2, <1>3, <1>10, <2>1
    <3>3. h \in [0 .. NR_PTE - 1 -> Frame \union {Absent}] /\ h[i] = nr_frame
          /\ \A j \in 0 .. NR_PTE - 1 : j # i => h[j] = table[t][j]
      BY <1>5, <1>10, <2>1, <3>1
    <3>. HIDE DEF h
    <3>4. table' \in [Table -> [0 .. NR_PTE - 1 -> Frame \union {Absent}]]
      BY <2>1, <3>2, <3>3
    <3>5. table'[t] = h /\ \A s \in Table : s # t => table'[s] = table[s]
      BY <2>1, <3>2, <1>10
    <3>. HIDE DEF none, full
    <3>. QED
      BY <2>2, <3>1, <3>2, <3>3, <3>4, <3>5
  <2>3. CASE ~(none /\ ~full)
    <3>1. table' = table /\ nr_frame' = nr_frame
      BY <1>3, <2>3
    <3>. HIDE DEF none, full
    <3>. QED
      BY <3>1, <2>1, <2>3, <1>9
  <2>. QED
    BY <2>2, <2>3
<1>14. KernelInv'
  <2>1. \A s \in 0 .. PhyTables - 1 : s \in Table /\ s # t
    BY <1>7, <1>8, <1>10
  <2>2. \A s \in 0 .. PhyTables - 1, j \in 0 .. NR_PTE - 1 : table'[s][j] = table[s][j]
    BY <2>1, <1>13
  <2>3. \A e \in Dir : e >= KDir => dir'["updir"][e] = dir["updir"][e]
    BY <1>7, <1>12 DEF Dir
  <2>. QED
    BY <1>1, <1>2, <1>12, <2>2, <2>3 DEF KernelInv
<1>15. pc' \in {"malloc", "panic"} /\ caller' = caller
  BY <1>2, <1>3
<1>16. TablesInv'
  <2>1. 0 \in Dir /\ 1 .. KDir - 1 \subseteq Dir
    BY Sizes DEF Dir
  <2>2. \A e \in 1 .. KDir - 1 : dir'["updir"][e] = IF e = d THEN t ELSE dir["updir"][e]
    BY <2>1, <1>12
  <2>3. dir'["updir"][0] = dir["updir"][0]
    BY <2>1, <1>5, <1>12
  <2>4. Used' = Used \union {d}
    BY <2>2, <1>7, <1>10 DEF Used
  <2>5. nr_table' = Cardinality(Used')
    <3>1. CASE new
      BY <3>1, <2>4, <1>3, <1>9
    <3>2. CASE ~new
      <4>1. Used \union {d} = Used
        BY <3>2, <1>9
      <4>. QED
        BY <3>2, <4>1, <2>4, <1>3, <1>9
    <3>. QED
      BY <3>1, <3>2
  <2>6. Used \subseteq 1 .. KDir - 1
    BY DEF Used
  <2>7. \A e \in Used' : dir'["updir"][e] \in Pool(0) .. Pool(nr_table' - 1)
    <3>1. \A e \in Used : dir["updir"][e] \in Pool(0) .. Pool(nr_table - 1)
      BY <1>1 DEF TablesInv
    <3>2. Pool(0) .. Pool(nr_table - 1) \subseteq Pool(0) .. Pool(nr_table' - 1)
      BY <1>7, <1>8, <1>9, <1>10 DEF Pool
    <3>. QED
      BY <2>2, <2>4, <2>6, <3>1, <3>2, <1>7, <1>10
  <2>8. \A e, f \in Used' : dir'["updir"][e] = dir'["updir"][f] => e = f
    <3>1. \A e, f \in Used : dir["updir"][e] = dir["updir"][f] => e = f
      BY <1>1 DEF TablesInv
    <3>2. ASSUME NEW e \in Used', NEW f \in Used', dir'["updir"][e] = dir'["updir"][f]
          PROVE  e = f
      <4>1. e \in Used \union {d} /\ f \in Used \union {d} /\ e \in 1 .. KDir - 1 /\ f \in 1 .. KDir - 1
        BY <2>4, <2>6, <1>7
      <4>2. /\ dir'["updir"][e] = IF e = d THEN t ELSE dir["updir"][e]
            /\ dir'["updir"][f] = IF f = d THEN t ELSE dir["updir"][f]
        BY <2>2, <4>1
      <4>3. CASE e = d \/ f = d
        BY <3>2, <4>1, <4>2, <4>3, <1>10
      <4>4. CASE e # d /\ f # d
        BY <3>1, <3>2, <4>1, <4>2, <4>4
      <4>. QED
        BY <4>3, <4>4
    <3>. QED
      BY <3>2
  <2>9. \A s \in Pool(nr_table') .. PhyTables + KDir, j \in 0 .. NR_PTE - 1 : table'[s][j] = Absent
    <3>1. ASSUME NEW s, s \in Pool(nr_table') .. PhyTables + KDir, NEW j \in 0 .. NR_PTE - 1
          PROVE  table'[s][j] = Absent
      <4>0. s # t
        BY <1>10, <3>1
      <4>1. s \in Table /\ s # t /\ s \in Pool(nr_table) .. PhyTables + KDir
        <5>1. nr_table \in Nat /\ nr_table' \in Nat /\ nr_table <= nr_table'
          BY <1>9, <1>10
        <5>. QED
          BY <3>1, <4>0, <5>1, PoolRange
      <4>2. table[s][j] = Absent
        BY <4>1, <1>1 DEF TablesInv
      <4>. QED
        BY <4>1, <4>2, <1>13
    <3>. QED
      BY <3>1
  <2>10. \A j \in 0 .. NR_PTE - 1 : table'[VTable][j] = table[VTable][j]
    <3>1. VTable \in Table /\ VTable # t
      BY <1>7, <1>8, <1>10
    <3>. QED
      BY <3>1, <1>13
  <2>11. pc' \in {"write_cr3", "read_test", "clear", "user"} \/ caller' = "brk" => dir'["updir"][0] = VTable
    BY <1>1, <1>15, <2>3 DEF TablesInv
  <2>12. /\ dir'["updir"][0] \in {Absent, VTable}
         /\ \A j \in 0 .. NR_PTE - 1 :
              table'[VTable][j] = IF dir'["updir"][0] = VTable /\ j \in VmemPages THEN j ELSE Absent
    BY <1>1, <2>3, <2>10 DEF TablesInv
  <2>. QED
    BY <1>15, <2>5, <2>7, <2>8, <2>9, <2>11, <2>12 DEF TablesInv
<1>17. ASSUME NEW p \in LPage, p # cur  PROVE UserWalk(p)' = UserWalk(p)
  <2>. DEFINE e == p \div NR_PTE
              j == p % NR_PTE
  <2>1. e \in Dir /\ j \in 0 .. NR_PTE - 1 /\ p = e * NR_PTE + j
    BY PagePlace, Sizes
  <2>2. /\ UserWalk(p) = IF dir["updir"][e] = Absent THEN Absent ELSE table[dir["updir"][e]][j]
        /\ UserWalk(p)' = IF dir'["updir"][e] = Absent THEN Absent ELSE table'[dir'["updir"][e]][j]
    BY DEF UserWalk, Walk
  <2>. HIDE DEF e, j
  <2>3. CASE e = d
    <3>1. j # i
      BY <1>5, <1>17, <2>1, <2>3
    <3>2. UserWalk(p)' = table[t][j]
      BY <2>1, <2>2, <2>3, <3>1, <1>10, <1>12, <1>13
    <3>3. CASE new
      <4>1. t = Pool(nr_table) /\ t \in Pool(nr_table) .. PhyTables + KDir
        BY <3>3, <1>7, <1>8, <1>9 DEF t, Pool
      <4>2. table[t][j] = Absent
        BY <4>1, <1>1, <2>1 DEF TablesInv
      <4>. QED
        BY <4>2, <3>2, <3>3, <2>2, <2>3
    <3>4. CASE ~new
      <4>1. t = dir["updir"][d]
        BY <3>4 DEF t
      <4>. QED
        BY <4>1, <3>2, <3>4, <2>2, <2>3
    <3>. QED
      BY <3>3, <3>4
  <2>4. CASE e # d
    <3>1. dir'["updir"][e] = dir["updir"][e]
      BY <2>1, <2>4, <1>12
    <3>2. CASE dir["updir"][e] = Absent
      BY <3>1, <3>2, <2>2
    <3>3. CASE dir["updir"][e] # Absent
      <4>1. dir["updir"][e] \in Table
        BY <1>1, <2>1, <3>3 DEF TypeOK
      <4>2. dir["updir"][e] # t
        <5>1. CASE e = 0
          BY <5>1, <3>3, <1>1, <1>10 DEF TablesInv
        <5>2. CASE e \in 1 .. KDir - 1
          <6>1. e \in Used
            BY <5>2, <3>3 DEF Used
          <6>. QED
            BY <6>1, <2>4, <1>10
        <5>3. CASE e >= KDir
          <6>1. dir["updir"][e] = e - KDir
            BY <5>3, <1>1, <1>2, <2>1 DEF KernelInv
          <6>2. e - KDir < PhyTables
            BY <2>1, <1>7 DEF Dir
          <6>. QED
            BY <6>1, <6>2, <1>10
        <5>. QED
          BY <5>1, <5>2, <5>3, <2>1, <1>7 DEF Dir
      <4>. QED
        BY <4>1, <4>2, <3>1, <2>1, <2>2, <1>13
    <3>. QED
      BY <3>2, <3>3
  <2>. QED
    BY <2>3, <2>4
<1>18. ASSUME NEW p \in LPage, p = cur
       PROVE  UserWalk(p)' = IF UserWalk(p) = Absent /\ nr_frame # PhyPages THEN nr_frame ELSE UserWalk(p)
  <2>1. p \div NR_PTE = d /\ p % NR_PTE = i
    BY <1>18 DEF d, i
  <2>2. /\ UserWalk(p) = IF dir["updir"][d] = Absent THEN Absent ELSE table[dir["updir"][d]][i]
        /\ UserWalk(p)' = IF dir'["updir"][d] = Absent THEN Absent ELSE table'[dir'["updir"][d]][i]
    BY <2>1 DEF UserWalk, Walk
  <2>3. UserWalk(p)' = IF none /\ ~full THEN nr_frame ELSE table[t][i]
    BY <2>2, <1>10, <1>12, <1>13
  <2>4. none <=> UserWalk(p) = Absent
    BY <1>11, <1>18
  <2>5. ~none => table[t][i] = UserWalk(p)
    <3>1. CASE new
      BY <3>1, <2>2, <2>4
    <3>2. CASE ~new
      BY <3>2, <2>2 DEF t
    <3>. QED
      BY <3>1, <3>2
  <2>. QED
    BY <2>3, <2>4, <2>5
<1>19. full <=> UserWalk(cur) = Absent /\ nr_frame = PhyPages
  BY <1>11
<1>20. nr_frame' = IF UserWalk(cur) = Absent /\ nr_frame # PhyPages THEN nr_frame + 1 ELSE nr_frame
  BY <1>11, <1>13
<1>21. pc' = IF UserWalk(cur) = Absent /\ nr_frame = PhyPages THEN "panic" ELSE "malloc"
  <2>1. pc' = IF full THEN "panic" ELSE "malloc"
    BY <1>2, <1>3
  <2>. HIDE DEF full
  <2>. QED
    BY <2>1, <1>19
<1>22. nr_table' \in 0 .. KDir
  BY <1>3, <1>7, <1>9
<1>. QED
  BY <1>12, <1>13, <1>14, <1>16, <1>17, <1>18, <1>20, <1>21, <1>22

\* One more page: its frame is the next one and nobody else's.
LEMMA MallocPageStep ==
  ASSUME IInv, MallocPage
  PROVE  IInv'
<1>1. TypeOK /\ PhaseInv /\ FramesInv /\ MallocInv /\ LoadInv /\ TestInv
  BY DEF IInv
<1>2. /\ pc = "malloc" /\ cur <= last /\ cur' = cur + 1
      /\ UNCHANGED <<cr3, tlb, hw_mem, caller, seg, first, last, k, brk, new_brk, reply>>
  BY DEF MallocPage
<1>3. /\ dir' \in [{"kpdir", "updir"} -> [Dir -> Table \union {Absent}]]
      /\ table' \in [Table -> [0 .. NR_PTE - 1 -> Frame \union {Absent}]]
      /\ KernelInv' /\ TablesInv' /\ nr_table' \in 0 .. KDir /\ nr_frame' \in KMemPages .. PhyPages
      /\ \A p \in LPage : p # cur => UserWalk(p)' = UserWalk(p)
      /\ \A p \in LPage : p = cur =>
              UserWalk(p)' = IF UserWalk(p) = Absent /\ nr_frame # PhyPages THEN nr_frame ELSE UserWalk(p)
      /\ nr_frame' = IF UserWalk(cur) = Absent /\ nr_frame # PhyPages THEN nr_frame + 1 ELSE nr_frame
      /\ pc' = IF UserWalk(cur) = Absent /\ nr_frame = PhyPages THEN "panic" ELSE "malloc"
  BY MallocWalk
<1>4. /\ first \in Nat /\ Page(first) \in NR_PTE .. KPage - 1 /\ last \in NR_PTE .. KPage - 1
      /\ cur \in Page(first) .. last + 1
      /\ \A p \in Page(first) .. last : p \in MostUserPages
  BY <1>1, <1>2, MallocAsk DEF MallocInv
<1>5. NR_PTE .. KPage - 1 \subseteq LPage /\ NR_PTE \in Nat /\ KPage \in Nat /\ KMemPages \in Nat \ {0}
      /\ PhyPages \in Nat
  BY LPages, Sizes
<1>6. cur \in NR_PTE .. KPage - 1 /\ cur \in MostUserPages /\ cur \in LPage /\ Page(first) \in Nat
      /\ last \in Nat /\ cur \in Nat
  BY <1>2, <1>4, <1>5
<1>7. nr_frame \in KMemPages .. PhyPages /\ nr_frame \in Nat /\ nr_frame # Absent
  BY <1>1, <1>5 DEF TypeOK, Absent
<1>8. \A p \in LPage : UserWalk(p) # Absent => UserWalk(p)' = UserWalk(p)
  BY <1>3
<1>9. TlbGood(tlb)'
  BY <1>1, <1>2, <1>8, TlbQuiet DEF IInv, PhaseInv
<1>10. TypeOK'
  <2>1. cur' \in 0 .. KPage
    BY <1>2, <1>4, <1>5, <1>6
  <2>. QED
    BY <1>1, <1>2, <1>3, <2>1 DEF TypeOK
<1>11. PhaseInv' /\ BrkInv' /\ StopsOnlyWhenFull'
  BY <1>2, <1>3, <1>7 DEF IInv, PhaseInv, BrkInv, StopsOnlyWhenFull
<1>12. FramesInv'
  <2>. DEFINE H == NR_PTE .. KPage - 1
  <2>1. CASE UserWalk(cur) = Absent /\ nr_frame # PhyPages
    <3>1. \A p \in H : UserWalk(p)' = IF p = cur THEN nr_frame ELSE UserWalk(p)
      BY <1>3, <1>5, <2>1
    <3>2. nr_frame' = nr_frame + 1
      BY <1>3, <2>1
    <3>3. \A p \in H : UserWalk(p) # Absent => UserWalk(p) \in KMemPages .. nr_frame - 1 /\ p \in MostUserPages
      BY <1>1 DEF FramesInv
    <3>4. \A p \in H : UserWalk(p) # nr_frame
      BY <3>3, <1>5, <1>7
    <3>5. \A p \in H : UserWalk(p)' # Absent =>
             UserWalk(p)' \in KMemPages .. nr_frame' - 1 /\ p \in MostUserPages
      <4>1. nr_frame \in KMemPages .. nr_frame' - 1 /\ KMemPages .. nr_frame - 1 \subseteq KMemPages .. nr_frame' - 1
        BY <1>5, <1>7, <3>2
      <4>. QED
        BY <3>1, <3>3, <4>1, <1>6
    <3>6. \A p, q \in H : UserWalk(p)' # Absent /\ UserWalk(q)' = UserWalk(p)' => q = p
      <4>1. \A p, q \in H : UserWalk(p) # Absent /\ UserWalk(q) = UserWalk(p) => q = p
        BY <1>1 DEF FramesInv
      <4>. QED
        BY <3>1, <3>4, <4>1
    <3>. QED
      BY <3>5, <3>6 DEF FramesInv
  <2>2. CASE ~(UserWalk(cur) = Absent /\ nr_frame # PhyPages)
    <3>1. \A p \in H : UserWalk(p)' = UserWalk(p)
      BY <1>3, <1>5, <2>2
    <3>2. nr_frame' = nr_frame
      BY <1>3, <2>2
    <3>. QED
      BY <3>1, <3>2, <1>1 DEF FramesInv
  <2>. QED
    BY <2>1, <2>2
<1>13. MappedInv'
  BY <1>2, <1>3, <1>8, MappedKept
<1>14. pc' = "malloc" => UserWalk(cur) # Absent \/ nr_frame # PhyPages
  BY <1>3
<1>15. \A p \in LPage : pc' = "malloc" /\ p = cur => UserWalk(p)' # Absent
  BY <1>3, <1>7, <1>14
<1>16. MallocInv'
  <2>1. pc' = "malloc" => cur' \in Page(first) .. last + 1
    BY <1>2, <1>4, <1>5, <1>6
  <2>2. \A p \in Page(first) .. cur : p \in LPage
    BY <1>4, <1>5, <1>6
  <2>3. \A p \in Page(first) .. cur - 1 : UserWalk(p) # Absent
    BY <1>1, <1>2 DEF MallocInv
  <2>4. \A p \in Page(first) .. cur : p \in Page(first) .. cur - 1 \/ p = cur
    BY <1>6
  <2>5. pc' = "malloc" => \A p \in Page(first) .. cur : UserWalk(p)' # Absent
    BY <2>2, <2>3, <2>4, <1>8, <1>15
  <2>6. cur' - 1 = cur
    BY <1>2, <1>6
  <2>7. pc' = "malloc" => \A p \in Page(first') .. cur' - 1 : UserWalk(p)' # Absent
    BY <2>5, <2>6, <1>2
  <2>8. pc' = "malloc" => cur' \in Page(first') .. last' + 1
    BY <2>1, <1>2
  <2>. QED
    BY <1>1, <1>2, <1>3, <2>7, <2>8 DEF MallocInv
<1>17. TestInv'
  BY <1>1, <1>2, <1>3 DEF TestInv
<1>18. LoadInv'
  <2>. DEFINE f == Page(first)
  <2>1. SUFFICES ASSUME pc' = "malloc", caller = "loader"
        PROVE  /\ \A p \in f .. cur : UserWalk(p)' = nr_frame' - (cur + 1 - p)
               /\ \A q \in cur + 1 .. KPage - 1 : UserWalk(q)' = Absent
               /\ nr_frame' <= KMemPages + (cur + 1) - FirstPage
    <3>1. pc' \in {"malloc", "panic"}
      BY <1>3
    <3>2. cur' # Page(first')
      BY <1>2, <1>4, <1>5, <1>6
    <3>3. Page(first') = f /\ cur' = cur + 1 /\ cur' - 1 = cur
      BY <1>2, <1>6
    <3>. HIDE DEF f
    <3>. QED
      BY <1>2, <3>1, <3>2, <3>3 DEF LoadInv, Run, Free
  <2>2. IF cur = f THEN Free(cur) \/ Run(cur, cur + 1) ELSE Run(f, cur)
    BY <1>1, <1>2, <2>1 DEF LoadInv
  <2>3. f \in Nat /\ cur \in f .. KPage - 1 /\ FirstPage \in Nat
    BY <1>4, <1>5, <1>6, LastSegment
  <2>4. \A q \in cur + 1 .. KPage - 1 : q \in LPage /\ q # cur
    BY <1>5, <1>6
  <2>5. \A p \in f .. cur - 1 : p \in LPage /\ p # cur
    BY <1>4, <1>5, <1>6
  <2>. HIDE DEF f
  <2>6. CASE UserWalk(cur) = Absent
    <3>1. nr_frame' = nr_frame + 1 /\ \A p \in LPage : p = cur => UserWalk(p)' = nr_frame
      BY <1>3, <2>1, <2>6
    <3>2. ~Run(cur, cur + 1)
      <4>1. Run(cur, cur + 1) => UserWalk(cur) = nr_frame - 1
        BY <1>6, <1>7 DEF Run
      <4>. QED
        BY <4>1, <2>6, <1>5, <1>7 DEF Absent
    <3>3. Free(cur) /\ (cur # f => Run(f, cur))
      BY <2>2, <3>2 DEF Run
    <3>4. \A q \in cur .. KPage - 1 : UserWalk(q) = Absent
      BY <3>3 DEF Free
    <3>5. nr_frame <= KMemPages + cur - FirstPage
      BY <3>3 DEF Free
    <3>6. \A p \in f .. cur - 1 : UserWalk(p) = nr_frame - (cur - p)
      <4>1. CASE cur = f
        BY <4>1, <2>3
      <4>2. CASE cur # f
        BY <4>2, <3>3 DEF Run
      <4>. QED
        BY <4>1, <4>2
    <3>7. \A p \in f .. cur - 1 : UserWalk(p)' = nr_frame - (cur - p)
      BY <3>6, <2>5, <1>3
    <3>8. \A p \in f .. cur : UserWalk(p)' = (nr_frame + 1) - (cur + 1 - p)
      <4>1. ASSUME NEW p \in f .. cur  PROVE UserWalk(p)' = (nr_frame + 1) - (cur + 1 - p)
        <5>1. p \in Nat /\ (nr_frame + 1) - (cur + 1 - p) = nr_frame - (cur - p)
          BY <2>3, <1>6, <1>7
        <5>2. CASE p = cur
          <6>1. nr_frame - (cur - p) = nr_frame
            BY <5>2, <1>6, <1>7
          <6>. QED
            BY <5>1, <5>2, <6>1, <3>1, <1>6
        <5>3. CASE p # cur
          <6>1. p \in f .. cur - 1
            BY <5>3, <2>3, <1>6
          <6>. QED
            BY <6>1, <5>1, <3>7
        <5>. QED
          BY <5>2, <5>3
      <4>. QED
        BY <4>1
    <3>9. \A q \in cur + 1 .. KPage - 1 : UserWalk(q)' = Absent
      <4>1. \A q \in cur + 1 .. KPage - 1 : q \in cur .. KPage - 1
        BY <1>6
      <4>. QED
        BY <4>1, <3>4, <2>4, <1>3
    <3>10. nr_frame + 1 <= KMemPages + (cur + 1) - FirstPage
      BY <3>5, <1>5, <1>6, <1>7, <2>3
    <3>. DEFINE n == nr_frame + 1
    <3>11. nr_frame' = n
      BY <3>1
    <3>12. n <= KMemPages + (cur + 1) - FirstPage
      BY <3>10
    <3>13. \A p \in f .. cur : UserWalk(p)' = n - (cur + 1 - p)
      BY <3>8
    <3>. HIDE DEF n
    <3>. QED
      BY <3>9, <3>11, <3>12, <3>13
  <2>7. CASE UserWalk(cur) # Absent
    <3>1. nr_frame' = nr_frame
      BY <1>3, <2>7
    <3>2. cur = f /\ Run(cur, cur + 1)
      <4>1. ~Free(cur)
        BY <2>3, <2>7, <1>6 DEF Free
      <4>2. ~Run(f, cur)
        BY <4>1 DEF Run
      <4>. QED
        BY <4>1, <4>2, <2>2
    <3>3. UserWalk(cur) = nr_frame - 1 /\ nr_frame <= KMemPages + (cur + 1) - FirstPage
          /\ \A q \in cur + 1 .. KPage - 1 : UserWalk(q) = Absent
      BY <3>2, <1>6, <1>7 DEF Run, Free
    <3>4. \A q \in cur + 1 .. KPage - 1 : UserWalk(q)' = Absent
      BY <3>3, <2>4, <1>3
    <3>5. \A p \in f .. cur : p = cur /\ cur + 1 - p = 1
      BY <3>2, <1>6
    <3>6. \A p \in f .. cur : UserWalk(p)' = nr_frame - (cur + 1 - p)
      BY <3>3, <3>5, <1>3, <1>6, <2>7
    <3>. QED
      BY <3>1, <3>3, <3>4, <3>6
  <2>. QED
    BY <2>6, <2>7
<1>. QED
  BY <1>3, <1>9, <1>10, <1>11, <1>12, <1>13, <1>16, <1>17, <1>18 DEF IInv

\* What a malloc that has run to its end leaves.
LEMMA MallocDone ==
  ASSUME IInv, pc = "malloc", cur > last
  PROVE  /\ cur = last + 1 /\ cur - 1 = last /\ cur # Page(first)
         /\ \A p \in Page(first) .. last : UserWalk(p) # Absent
<1>1. cur \in Page(first) .. last + 1 /\ \A p \in Page(first) .. cur - 1 : UserWalk(p) # Absent
  BY DEF IInv, MallocInv
<1>2. /\ Page(first) \in NR_PTE .. KPage - 1 /\ last \in NR_PTE .. KPage - 1 /\ Page(first) <= last
  BY MallocAsk
<1>3. cur = last + 1 /\ cur - 1 = last /\ cur # Page(first)
  BY <1>1, <1>2, Sizes
<1>. QED
  BY <1>1, <1>3

\* All pages asked for are mapped when mm_malloc returns.
LEMMA MallocReturnStep ==
  ASSUME IInv, MallocReturn
  PROVE  IInv'
<1>1. /\ pc = "malloc" /\ cur > last
      /\ pc' = CASE caller = "loader" -> "copy" [] caller = "stack" -> "video" [] OTHER -> "user"
      /\ brk' = IF caller = "brk" THEN new_brk ELSE brk
      /\ reply' = <<>> /\ UNCHANGED tables
      /\ UNCHANGED <<dir, table, nr_frame, nr_table, cr3, tlb, hw_mem, caller, seg, first, cur, last, k, new_brk>>
  BY DEF MallocReturn, tables, loop
<1>2. /\ cur = last + 1 /\ cur - 1 = last /\ cur # Page(first)
      /\ \A p \in Page(first) .. last : UserWalk(p) # Absent
  BY <1>1, MallocDone
<1>3. caller \in {"loader", "stack", "brk"}
  BY DEF IInv, TypeOK
<1>4. /\ caller = "loader" => pc' = "copy"
      /\ caller = "stack" => pc' = "video"
      /\ caller = "brk" => pc' = "user"
  BY <1>1
<1>5. \A p : UserWalk(p)' = UserWalk(p)
  BY <1>1, TablesKept
<1>6. TlbGood(tlb)'
  BY <1>1, <1>5, TlbQuiet DEF IInv, PhaseInv
<1>7. TypeOK'
  <2>1. << >> \in Seq(Nat)
    OBVIOUS
  <2>. QED
    BY <1>1, <1>3, <1>4, <2>1 DEF IInv, TypeOK
<1>8. PhaseInv'
  BY <1>1, <1>3, <1>4 DEF IInv, PhaseInv
<1>9. KernelInv' /\ TablesInv' /\ FramesInv'
  BY <1>1, <1>3, <1>4, TablesQuiet
<1>10. MallocInv'
  BY <1>1, <1>2, <1>3, <1>4, <1>5 DEF IInv, MallocInv
<1>11. caller = "brk" => /\ new_brk \in Brks /\ new_brk > brk /\ first = brk /\ last = Page(new_brk - 1)
                         /\ brk \in End - 1 .. KOFFSET - STACK_SIZE
                         /\ new_brk \in End .. KOFFSET - STACK_SIZE
  BY <1>1, LayoutAssumption DEF IInv, MallocInv, BrkInv
<1>12. BrkInv'
  BY <1>1, <1>3, <1>11, LastSegment DEF IInv, BrkInv
<1>13. MappedInv'
  <2>1. \A s \in DOMAIN Segments : s < seg => \A a \in SegmentBytes(s) : UserWalk(Page(a)) # Absent
    BY DEF IInv, MappedInv
  <2>2. CASE caller = "loader"
    BY <2>1, <2>2, <1>1, <1>4, <1>5 DEF MappedInv
  <2>3. CASE caller = "stack"
    <3>1. first = KOFFSET - STACK_SIZE /\ last = Page(KOFFSET - 1)
      BY <2>3, <1>1 DEF IInv, MallocInv
    <3>2. ASSUME NEW a \in StackBytes  PROVE UserWalk(Page(a)) # Absent
      <4>1. a \in Nat /\ KOFFSET - STACK_SIZE \in Nat /\ KOFFSET - 1 \in Nat
            /\ KOFFSET - STACK_SIZE <= a /\ a <= KOFFSET - 1
        BY <3>2, LastSegment, Sizes DEF StackBytes
      <4>2. Page(first) <= Page(a) /\ Page(a) <= last
        BY <4>1, <3>1, PageMonotone
      <4>3. Page(a) \in Nat /\ Page(first) \in Nat /\ last \in Nat
        BY <4>1, <3>1, PageOf
      <4>4. Page(a) \in Page(first) .. last
        BY <4>2, <4>3
      <4>. QED
        BY <4>4, <1>2
    <3>. QED
      BY <2>1, <2>3, <3>2, <1>1, <1>5 DEF MappedInv
  <2>4. CASE caller = "brk"
    <3>1. \A a \in StackBytes : UserWalk(Page(a)) # Absent
      BY <2>4 DEF IInv, MappedInv
    <3>2. ASSUME NEW a \in End .. new_brk - 1  PROVE UserWalk(Page(a)) # Absent
      <4>1. brk \in Nat /\ new_brk \in Nat /\ a \in Nat /\ a <= new_brk - 1 /\ new_brk - 1 \in Nat /\ End \in Nat
        BY <1>11, <2>4, <3>2, LastSegment
      <4>2. CASE a < brk
        <5>1. a \in End .. brk - 1
          BY <4>1, <4>2, <3>2
        <5>. QED
          BY <2>4, <5>1 DEF IInv, MappedInv
      <4>3. CASE ~(a < brk)
        <5>1. Page(first) <= Page(a) /\ Page(a) <= last
          BY <4>1, <4>3, <1>11, <2>4, PageMonotone
        <5>2. Page(a) \in Nat /\ Page(first) \in Nat /\ last \in Nat
          BY <4>1, <1>11, <2>4, PageOf
        <5>3. Page(a) \in Page(first) .. last
          BY <5>1, <5>2
        <5>. QED
          BY <5>3, <1>2
      <4>. QED
        BY <4>2, <4>3
    <3>3. \A a \in End .. brk' - 1 : UserWalk(Page(a)) # Absent
      BY <2>4, <3>2, <1>1
    <3>. QED
      BY <2>1, <2>4, <3>1, <3>3, <1>1, <1>5 DEF MappedInv
  <2>. QED
    BY <1>3, <2>2, <2>3, <2>4
<1>14. LoadInv'
  <2>1. CASE caller = "loader"
    <3>1. Run(Page(first), cur)
      BY <2>1, <1>1, <1>2 DEF IInv, LoadInv
    <3>2. Run(Page(first), last + 1)
      BY <3>1, <1>2
    <3>3. Run(Page(first), last + 1)'
      BY <3>2, <1>1, <1>5 DEF Run, Free
    <3>. QED
      BY <3>3, <2>1, <1>1, <1>4 DEF LoadInv
  <2>2. CASE caller # "loader"
    BY <2>2, <1>1, <1>3, <1>4 DEF LoadInv
  <2>. QED
    BY <2>1, <2>2
<1>15. TestInv'
  BY <1>1, <1>3, <1>4 DEF IInv, TestInv
<1>16. StopsOnlyWhenFull'
  BY <1>3, <1>4 DEF StopsOnlyWhenFull
<1>. QED
  BY <1>6, <1>7, <1>8, <1>9, <1>10, <1>12, <1>13, <1>14, <1>15, <1>16 DEF IInv

----------------------------------------------------------------------------
(* The loader.                                                             *)

\* The next segment begins on a new page or on the last one mapped.
LEMMA LoadSegmentStep ==
  ASSUME IInv, LoadSegment
  PROVE  IInv'
<1>1. /\ pc = "load" /\ seg <= Len(Segments) /\ caller = "loader"
      /\ first' = Segments[seg].vaddr /\ cur' = Page(Segments[seg].vaddr)
      /\ last' = Page(Segments[seg].vaddr + Segments[seg].memsz - 1)
      /\ caller' = "loader" /\ pc' = "malloc" /\ k' = 0 /\ UNCHANGED tables
      /\ UNCHANGED <<dir, table, nr_frame, nr_table, cr3, tlb, hw_mem, seg, brk, new_brk, reply>>
  BY DEF LoadSegment, Malloc, tables, IInv, PhaseInv
<1>2. seg \in DOMAIN Segments /\ seg \in Nat
  BY <1>1, LastSegment DEF IInv, TypeOK
<1>. DEFINE a == Segments[seg].vaddr
            z == SegmentEnd(seg)
<1>3. a \in Nat /\ z \in Nat /\ a <= z /\ z \in a .. End - 1
  BY <1>2, SegmentPlace, LastSegment
<1>4. first' = a /\ cur' = Page(a) /\ last' = Page(z)
  BY <1>1 DEF SegmentEnd
<1>5. a \in UserAddr /\ z \in UserAddr
  <2>. HIDE DEF a, z
  <2>1. KOFFSET \in Nat /\ STACK_SIZE \in Nat /\ End \in Nat /\ End <= KOFFSET - STACK_SIZE
    BY LastSegment, Sizes
  <2>. QED
    BY <1>3, <2>1 DEF UserAddr
<1>6. Page(a) \in UserPage /\ Page(z) \in UserPage /\ Page(a) <= Page(z) /\ Page(a) \in Nat /\ Page(z) \in Nat
  BY <1>3, <1>5, UserPages, PageMonotone, PageOf
<1>7. \A p : UserWalk(p)' = UserWalk(p)
  BY <1>1, TablesKept
<1>8. TlbGood(tlb)'
  BY <1>1, <1>7, TlbQuiet DEF IInv, PhaseInv
<1>9. TypeOK'
  <2>1. Page(a) \in 0 .. KPage
    BY <1>6, Sizes DEF UserPage
  <2>. HIDE DEF a, z
  <2>. QED
    BY <1>1, <1>4, <1>5, <1>6, <2>1 DEF IInv, TypeOK
<1>10. PhaseInv' /\ BrkInv' /\ TestInv' /\ StopsOnlyWhenFull'
  BY <1>1 DEF IInv, PhaseInv, BrkInv, TestInv, StopsOnlyWhenFull
<1>11. KernelInv' /\ TablesInv' /\ FramesInv'
  BY <1>1, TablesQuiet
<1>12. MappedInv'
  BY <1>1, <1>7, MappedKept
<1>13. MallocInv'
  <2>1. Page(a) \in Page(a) .. Page(z) + 1 /\ Page(a) .. Page(a) - 1 = {}
    BY <1>6
  <2>2. 0 \in 0 .. Segments[seg].memsz
    BY <1>2, SegmentPlace
  <2>3. cur' \in Page(first') .. last' + 1 /\ Page(first') .. cur' - 1 = {}
    BY <1>4, <2>1
  <2>. QED
    BY <1>1, <1>2, <1>4, <2>2, <2>3 DEF MallocInv
<1>14. LoadInv'
  <2>1. cur' = Page(first') /\ cur' = Page(a)
    BY <1>4
  <2>2. Free(Page(a)) \/ Run(Page(a), Page(a) + 1)
    <3>1. CASE seg = 1
      <4>1. Free(FirstPage)
        BY <3>1, <1>1 DEF IInv, LoadInv
      <4>. QED
        BY <4>1, <3>1 DEF FirstPage
    <3>2. CASE seg # 1
      <4>. DEFINE e == Page(SegmentEnd(seg - 1))
      <4>1. seg - 1 \in DOMAIN Segments /\ seg - 1 + 1 = seg /\ seg > 1
        BY <1>2, <3>2, LastSegment
      <4>2. Run(e, e + 1)
        BY <4>1, <1>1 DEF IInv, LoadInv
      <4>3. SegmentEnd(seg - 1) \in Nat /\ SegmentEnd(seg - 1) < a
        BY <4>1, <1>2, SegmentPlace, LastSegment
      <4>4. e \in Nat /\ e <= Page(a)
        BY <4>3, <1>3, PageOf, PageMonotone
      <4>. HIDE DEF e, a
      <4>5. CASE e = Page(a)
        BY <4>2, <4>5
      <4>6. CASE e # Page(a)
        <5>1. Free(e + 1)
          BY <4>2 DEF Run
        <5>2. e + 1 <= Page(a)
          BY <4>4, <4>6, <1>6
        <5>3. Page(a) .. KPage - 1 \subseteq e + 1 .. KPage - 1
          BY <5>2, <4>4, <1>6, Sizes
        <5>4. nr_frame \in Nat /\ FirstPage \in Nat /\ KMemPages \in Nat
          BY LastSegment, Sizes DEF IInv, TypeOK
        <5>5. nr_frame <= KMemPages + Page(a) - FirstPage
          BY <5>1, <5>2, <5>4, <4>4, <1>6 DEF Free
        <5>. QED
          BY <5>1, <5>3, <5>5 DEF Free
      <4>. QED
        BY <4>5, <4>6
    <3>. QED
      BY <3>1, <3>2
  <2>. HIDE DEF a
  <2>3. Free(cur)' \/ Run(cur, cur + 1)'
    BY <2>1, <2>2, <1>1, <1>7 DEF Free, Run
  <2>. QED
    BY <2>1, <2>3, <1>1 DEF LoadInv
<1>. QED
  BY <1>8, <1>9, <1>10, <1>11, <1>12, <1>13, <1>14 DEF IInv

\* A segment that is copied is mapped, and the break is at its end.
LEMMA SegmentLoadedStep ==
  ASSUME IInv, SegmentLoaded
  PROVE  IInv'
<1>. DEFINE a == Segments[seg].vaddr
            z == SegmentEnd(seg)
<1>1. /\ pc = "copy" /\ caller = "loader" /\ cur = last + 1
      /\ seg' = seg + 1 /\ pc' = "load" /\ UNCHANGED tables
      /\ brk' = IF brk < z THEN z ELSE brk
      /\ UNCHANGED <<dir, table, nr_frame, nr_table, cr3, tlb, hw_mem, caller, first, cur, last, k, new_brk, reply>>
  BY DEF SegmentLoaded, SegmentEnd, tables, IInv, PhaseInv, MallocInv
<1>2. seg \in DOMAIN Segments /\ first = a /\ last = Page(z) /\ seg \in Nat
  BY <1>1, LastSegment DEF IInv, MallocInv
<1>3. a \in Nat /\ z \in Nat /\ a <= z /\ z \in a .. End - 1 /\ SegmentBytes(seg) = a .. z
  BY <1>2, SegmentPlace, LastSegment
<1>4. Page(a) \in Nat /\ Page(z) \in Nat /\ Page(a) <= Page(z)
  BY <1>3, PageMonotone, PageOf
<1>5. seg + 1 \in 1 .. Len(Segments) + 1 /\ seg + 1 # 1 /\ (seg + 1) - 1 = seg
  BY <1>2, LastSegment
<1>6. brk' = z
  <2>1. CASE seg = 1
    <3>1. brk = 0
      BY <2>1, <1>1 DEF IInv, BrkInv
    <3>. HIDE DEF z
    <3>. QED
      BY <3>1, <1>1, <1>3
  <2>2. CASE seg # 1
    <3>1. brk = SegmentEnd(seg - 1)
      BY <2>2, <1>1 DEF IInv, BrkInv
    <3>2. seg - 1 \in DOMAIN Segments /\ seg - 1 + 1 = seg
      BY <2>2, <1>2, LastSegment
    <3>3. SegmentEnd(seg - 1) \in Nat /\ SegmentEnd(seg - 1) < a
      BY <3>2, <1>2, SegmentPlace, LastSegment
    <3>. HIDE DEF z, a
    <3>4. brk \in Nat /\ brk < a
      BY <3>1, <3>3
    <3>. QED
      BY <3>4, <1>1, <1>3
  <2>. QED
    BY <2>1, <2>2
<1>7. \A p : UserWalk(p)' = UserWalk(p)
  BY <1>1, TablesKept
<1>8. TlbGood(tlb)'
  BY <1>1, <1>7, TlbQuiet DEF IInv, PhaseInv
<1>9. TypeOK'
  <2>. HIDE DEF a, z
  <2>1. KOFFSET \in Nat /\ STACK_SIZE \in Nat /\ End \in Nat /\ End <= KOFFSET - STACK_SIZE
    BY LastSegment, Sizes
  <2>2. z \in 0 .. KOFFSET
    BY <1>3, <2>1
  <2>. QED
    BY <1>1, <1>5, <1>6, <2>2 DEF IInv, TypeOK
<1>10. PhaseInv' /\ TestInv' /\ StopsOnlyWhenFull'
  BY <1>1 DEF IInv, PhaseInv, TestInv, StopsOnlyWhenFull
<1>11. BrkInv'
  BY <1>1, <1>5, <1>6 DEF BrkInv
<1>12. KernelInv' /\ TablesInv' /\ FramesInv'
  BY <1>1, TablesQuiet
<1>13. MallocInv'
  BY <1>1 DEF MallocInv
<1>14. MappedInv'
  <2>1. \A s \in DOMAIN Segments : s < seg + 1 => s < seg \/ s = seg
    BY <1>2, LastSegment
  <2>2. \A p \in Page(first) .. last : UserWalk(p) # Absent
    <3>1. \A p \in Page(first) .. cur - 1 : UserWalk(p) # Absent
      BY <1>1 DEF IInv, MallocInv
    <3>2. cur - 1 = last
      BY <1>1, <1>2, <1>4
    <3>. QED
      BY <3>1, <3>2
  <2>3. ASSUME NEW c \in SegmentBytes(seg)  PROVE UserWalk(Page(c)) # Absent
    <3>1. c \in Nat /\ a <= c /\ c <= z
      BY <1>3, <2>3
    <3>. HIDE DEF a, z
    <3>2. Page(a) <= Page(c) /\ Page(c) <= Page(z) /\ Page(c) \in Nat
      BY <3>1, <1>3, PageMonotone, PageOf
    <3>. QED
      BY <3>2, <1>2, <1>4, <2>2
  <2>4. \A s \in DOMAIN Segments : s < seg => \A c \in SegmentBytes(s) : UserWalk(Page(c)) # Absent
    BY DEF IInv, MappedInv
  <2>5. \A s \in DOMAIN Segments : s < seg' => \A c \in SegmentBytes(s) : UserWalk(Page(c))' # Absent
    BY <2>1, <2>3, <2>4, <1>1, <1>7
  <2>. QED
    BY <2>5, <1>1 DEF MappedInv
<1>15. LoadInv'
  <2>1. Run(Page(first), last + 1)
    BY <1>1 DEF IInv, LoadInv
  <2>2. last \in Page(first) .. last + 1 - 1 /\ (last + 1) - last = 1
    BY <1>2, <1>4
  <2>3. UserWalk(last) = nr_frame - ((last + 1) - last) /\ Free(last + 1)
    BY <2>1, <2>2 DEF Run
  <2>. DEFINE e == Page(SegmentEnd(seg' - 1))
  <2>4. e = last
    BY <1>1, <1>2, <1>5
  <2>. HIDE DEF e
  <2>5. \A p \in last .. (last + 1) - 1 : p = last
    BY <1>2, <1>4
  <2>9. \A p \in last .. (last + 1) - 1 : UserWalk(p) = nr_frame - ((last + 1) - p)
    BY <2>3, <2>5, Zenon
  <2>6. Run(last, last + 1)
    BY <2>3, <2>9, Zenon DEF Run
  <2>7. Run(last, last + 1)'
    BY <2>6, <1>1, <1>7 DEF Run, Free
  <2>8. (LET g == Page(SegmentEnd(seg - 1)) IN Run(g, g + 1))'
    <3>1. last' = e /\ e = Page(SegmentEnd(seg' - 1))
      BY <2>4, <1>1 DEF e
    <3>. QED
      BY <2>7, <3>1 DEF Run, Free
  <2>. QED
    BY <2>8, <1>1, <1>5 DEF LoadInv
<1>. QED
  BY <1>8, <1>9, <1>10, <1>11, <1>12, <1>13, <1>14, <1>15 DEF IInv

\* The stack is asked for when all segments are there.
LEMMA MapStackStep ==
  ASSUME IInv, MapStack
  PROVE  IInv'
<1>1. /\ pc = "load" /\ seg > Len(Segments) /\ caller = "loader"
      /\ first' = KOFFSET - STACK_SIZE /\ cur' = Page(KOFFSET - STACK_SIZE)
      /\ last' = Page(KOFFSET - STACK_SIZE + STACK_SIZE - 1)
      /\ caller' = "stack" /\ pc' = "malloc" /\ UNCHANGED tables
      /\ UNCHANGED <<dir, table, nr_frame, nr_table, cr3, tlb, hw_mem, seg, k, brk, new_brk, reply>>
  BY DEF MapStack, Malloc, tables, IInv, PhaseInv
<1>2. cr3 = "kpdir"
  BY <1>1 DEF IInv, PhaseInv, TypeOK
<1>3. seg = Len(Segments) + 1 /\ seg # 1 /\ seg - 1 = Len(Segments)
  BY <1>1, LastSegment DEF IInv, TypeOK
<1>4. brk = End - 1
  BY <1>1, <1>3, LastSegment DEF IInv, BrkInv
<1>. DEFINE a == KOFFSET - STACK_SIZE
            z == KOFFSET - 1
<1>5. a \in Nat /\ z \in Nat /\ a <= z /\ a \in UserAddr /\ z \in UserAddr
      /\ KOFFSET - STACK_SIZE + STACK_SIZE - 1 = z
  BY LastSegment, Sizes DEF UserAddr
<1>. HIDE DEF z
<1>6. first' = a /\ cur' = Page(a) /\ last' = Page(z)
  BY <1>1, <1>5
<1>. HIDE DEF a
<1>7. Page(a) \in UserPage /\ Page(z) \in UserPage /\ Page(a) <= Page(z) /\ Page(a) \in Nat /\ Page(z) \in Nat
  BY <1>5, UserPages, PageMonotone, PageOf
<1>8. \A p : UserWalk(p)' = UserWalk(p)
  BY <1>1, TablesKept
<1>9. TlbGood(tlb)'
  BY <1>1, <1>8, TlbQuiet DEF IInv, PhaseInv
<1>10. TypeOK'
  <2>1. Page(a) \in 0 .. KPage
    BY <1>7, Sizes DEF UserPage
  <2>. QED
    BY <1>1, <1>5, <1>6, <1>7, <2>1 DEF IInv, TypeOK
<1>11. PhaseInv'
  BY <1>1, <1>2, <1>3 DEF IInv, PhaseInv
<1>12. BrkInv' /\ LoadInv' /\ StopsOnlyWhenFull'
  BY <1>1, <1>4 DEF BrkInv, LoadInv, StopsOnlyWhenFull
<1>13. TestInv'
  BY <1>1 DEF IInv, TestInv
<1>14. KernelInv' /\ TablesInv' /\ FramesInv'
  BY <1>1, TablesQuiet
<1>15. MappedInv'
  BY <1>1, <1>8 DEF IInv, MappedInv
<1>16. MallocInv'
  <2>1. Page(a) \in Page(a) .. Page(z) + 1 /\ Page(a) .. Page(a) - 1 = {}
    BY <1>7
  <2>2. cur' \in Page(first') .. last' + 1 /\ Page(first') .. cur' - 1 = {}
    BY <1>6, <2>1
  <2>3. first' = KOFFSET - STACK_SIZE /\ last' = Page(KOFFSET - 1)
    BY <1>6 DEF a, z
  <2>. QED
    BY <1>1, <2>2, <2>3 DEF MallocInv
<1>. QED
  BY <1>9, <1>10, <1>11, <1>12, <1>13, <1>14, <1>15, <1>16 DEF IInv

\* The byte that the loader writes next goes to the program's page of that
\* address, because the frames of a segment follow one another.
LEMMA CopyPlace ==
  ASSUME IInv, pc = "copy", k < Segments[seg].memsz,
         NEW t \in Translate(PAddrOf(Walk("updir", Page(first)), first) + k, 1)
  PROVE  /\ t.ok = TRUE /\ TlbGood(t.tlb) /\ t.at[1] \in PAddr
         /\ t.at[1] = PAddrOf(UserWalk(Page(first + k)), first + k)
         /\ Page(t.at[1]) >= KMemPages
         /\ seg \in DOMAIN Segments /\ k \in 0 .. Segments[seg].memsz - 1 /\ first = Segments[seg].vaddr
<1>. DEFINE f  == UserWalk(Page(first))
            fk == UserWalk(Page(first + k))
            x  == PAddrOf(f, first) + k
<1>1. caller = "loader" /\ cr3 = "kpdir" /\ cr3 # NoDir
  BY DEF IInv, PhaseInv, TypeOK
<1>2. /\ seg \in DOMAIN Segments /\ first = Segments[seg].vaddr /\ last = Page(SegmentEnd(seg))
      /\ k \in 0 .. Segments[seg].memsz /\ cur = last + 1
      /\ \A p \in Page(first) .. cur - 1 : UserWalk(p) # Absent
  BY <1>1 DEF IInv, MallocInv
<1>3. /\ Segments[seg].vaddr \in Nat /\ Segments[seg].memsz \in Nat \ {0}
      /\ SegmentEnd(seg) \in Segments[seg].vaddr .. End - 1
  BY <1>2, SegmentPlace
<1>4. first \in Nat /\ k \in Nat /\ k \in 0 .. Segments[seg].memsz - 1 /\ first + k \in Nat
      /\ first + k <= SegmentEnd(seg) /\ SegmentEnd(seg) \in Nat /\ first <= first + k
      /\ SegmentEnd(seg) <= End - 1
  BY <1>2, <1>3 DEF SegmentEnd
<1>5. Page(first) \in Nat /\ Page(first + k) \in Nat /\ last \in Nat /\ Page(first) <= Page(first + k)
      /\ Page(first + k) <= last /\ last <= Page(End - 1) /\ Page(End - 1) \in Nat
  BY <1>2, <1>4, LastSegment, PageOf, PageMonotone
<1>6. Run(Page(first), last + 1)
  BY DEF IInv, LoadInv
<1>7. \A p \in Page(first) .. last : UserWalk(p) = nr_frame - (last + 1 - p) /\ UserWalk(p) # Absent
  BY <1>2, <1>5, <1>6 DEF Run
<1>8. f = nr_frame - (last + 1 - Page(first)) /\ fk = nr_frame - (last + 1 - Page(first + k))
      /\ f # Absent /\ fk # Absent
  BY <1>5, <1>7
<1>9. nr_frame \in Nat /\ nr_frame <= KMemPages + (last + 1) - FirstPage /\ KMemPages \in Nat /\ FirstPage \in Nat
  BY <1>6, LastSegment, Sizes DEF Run, Free, IInv, TypeOK
<1>10. Page(first) \in NR_PTE .. KPage - 1 /\ Page(first + k) \in NR_PTE .. KPage - 1
  <2>1. Page(first) \in NR_PTE .. KPage - 1 /\ last \in NR_PTE .. KPage - 1
    BY MallocAsk
  <2>. QED
    BY <2>1, <1>5, Sizes
<1>11. f \in KMemPages .. nr_frame - 1 /\ fk \in KMemPages .. nr_frame - 1
  BY <1>8, <1>10 DEF IInv, FramesInv
<1>12. f \in Nat /\ fk \in Nat /\ fk = f + (Page(first + k) - Page(first))
  BY <1>5, <1>8, <1>9, <1>11
<1>. HIDE DEF f, fk
<1>13. x \in Nat /\ Page(x) = fk /\ x % PAGE_SIZE = (first + k) % PAGE_SIZE
  BY <1>4, <1>12, PagesApart
<1>. HIDE DEF x
<1>14. PAddrOf(fk, first + k) = x
  <2>1. x = Page(x) * PAGE_SIZE + (x % PAGE_SIZE)
    BY <1>13, PageOf
  <2>. QED
    BY <2>1, <1>13, Zenon DEF PAddrOf
<1>15. fk \in TouchedLow /\ fk < PhyPages /\ fk \in LPage
  <2>1. fk \in KMemPages .. KMemPages + last - FirstPage
    BY <1>5, <1>9, <1>11
  <2>2. fk \in KMemPages .. KMemPages + Page(End - 1) - FirstPage
    BY <2>1, <1>5, <1>9
  <2>3. fk < PhyPages
    BY <1>9, <1>11, Sizes DEF IInv, TypeOK
  <2>. QED
    BY <2>2, <2>3, <1>12, LPages, Sizes DEF TouchedLow, FirstPage
<1>16. Walk(cr3, fk) = fk
  BY <1>1, <1>15, KernelWalk DEF IInv
<1>17. Reachable(fk)
  BY <1>12, <1>15, <1>16 DEF Reachable, Absent
<1>18. /\ t.ok = TRUE /\ TlbGood(t.tlb)
       /\ \A i \in 1 .. 1 : t.at[i] = PAddrOf(Walk(cr3, Page(x + i - 1)), x + i - 1) /\ t.at[i] \in PAddr
  <2>1. \A i \in 1 .. 1 : x + i - 1 = x
    BY <1>13
  <2>2. \A i \in 1 .. 1 : Reachable(Page(x + i - 1))
    BY <2>1, <1>13, <1>17
  <2>3. t \in Translate(x, 1) /\ 1 \in 1 .. PAGE_SIZE
    BY Sizes DEF x, f, UserWalk
  <2>4. Tables /\ TlbGood(tlb)
    BY DEF IInv, Tables
  <2>. QED
    BY <2>2, <2>3, <2>4, <1>1, <1>13, TranslateRight
<1>19. t.at[1] = PAddrOf(fk, x) /\ t.at[1] \in PAddr
  <2>1. x + 1 - 1 = x /\ 1 \in 1 .. 1
    BY <1>13
  <2>. QED
    BY <2>1, <1>13, <1>16, <1>18
<1>20. PAddrOf(fk, x) = x
  BY <1>13, <1>14, Zenon DEF PAddrOf
<1>21. fk >= KMemPages
  BY <1>9, <1>11
<1>. QED
  BY <1>2, <1>4, <1>13, <1>14, <1>18, <1>19, <1>20, <1>21 DEF fk

\* The frames of a segment follow one another, so the copy stays in them.
LEMMA CopyByteStep ==
  ASSUME IInv, CopyByte
  PROVE  IInv'
<1>1. PICK t \in Translate(PAddrOf(Walk("updir", Page(first)), first) + k, 1) :
        Store(<<SegmentByte(seg, k)>>, t) /\ pc' = IF t.ok THEN pc ELSE "panic"
  BY DEF CopyByte
<1>2. /\ t.ok = TRUE /\ TlbGood(t.tlb) /\ t.at[1] \in PAddr /\ Page(t.at[1]) >= KMemPages
      /\ seg \in DOMAIN Segments /\ k \in 0 .. Segments[seg].memsz - 1
  BY <1>1, CopyPlace DEF CopyByte
<1>3. SegmentByte(seg, k) \in Nat
  <2>1. Segments[seg].file \in Seq(Nat)
    BY <1>2, LayoutAssumption
  <2>2. CASE k < Len(Segments[seg].file)
    <3>1. k + 1 \in 1 .. Len(Segments[seg].file) /\ Segments[seg].memsz \in Nat
      BY <1>2, <2>1, <2>2, SegmentPlace
    <3>. QED
      BY <2>1, <2>2, <3>1 DEF SegmentByte
  <2>. QED
    BY <2>2 DEF SegmentByte
<1>4. /\ tlb' = t.tlb /\ hw_mem' \in [PAddr -> Nat]
      /\ \A x \in PAddr : hw_mem'[x] = IF x = t.at[1] THEN SegmentByte(seg, k) ELSE hw_mem[x]
  BY <1>1, <1>2, <1>3, StoreByte DEF IInv
<1>5. /\ pc = "copy" /\ caller = "loader" /\ cr3 # NoDir /\ pc' = "copy" /\ k' = k + 1 /\ UNCHANGED tables
      /\ UNCHANGED <<dir, table, nr_frame, nr_table, cr3, caller, seg, first, cur, last, brk, new_brk, reply>>
  BY <1>1, <1>2 DEF CopyByte, tables, IInv, PhaseInv
<1>6. \A p : UserWalk(p)' = UserWalk(p)
  BY <1>5, TablesKept
<1>7. TlbGood(tlb)'
  BY <1>2, <1>4, <1>5, <1>6, TlbQuiet
<1>8. k' \in Nat /\ k' \in 0 .. Segments[seg].memsz
  <2>1. Segments[seg].memsz \in Nat \ {0}
    BY <1>2, SegmentPlace
  <2>. QED
    BY <2>1, <1>2, <1>5
<1>9. TypeOK'
  BY <1>4, <1>5, <1>7, <1>8 DEF IInv, TypeOK, TlbGood
<1>10. PhaseInv' /\ BrkInv' /\ StopsOnlyWhenFull'
  BY <1>5 DEF IInv, PhaseInv, BrkInv, StopsOnlyWhenFull
<1>11. KernelInv' /\ TablesInv' /\ FramesInv'
  BY <1>5, TablesQuiet
<1>12. MallocInv'
  BY <1>5, <1>6, <1>8 DEF IInv, MallocInv
<1>13. MappedInv'
  BY <1>5, <1>6, MappedKept
<1>14. LoadInv'
  <2>1. Run(Page(first), last + 1)
    BY <1>5 DEF IInv, LoadInv
  <2>2. Run(Page(first), last + 1)'
    BY <2>1, <1>5, <1>6 DEF Run, Free
  <2>. QED
    BY <2>2, <1>5 DEF LoadInv
<1>15. TestInv'
  <2>1. ASSUME NEW i \in 0 .. VideoSize - 1  PROVE hw_mem'[VideoBase + i] = TestByte(i)
    <3>1. VideoBase + i \in Nat /\ Page(VideoBase + i) \in VmemPages
      BY VideoPlace
    <3>2. Page(VideoBase + i) \in Nat /\ Page(VideoBase + i) < KMemPages /\ Page(VideoBase + i) < PhyPages
      <4>1. \A p \in VmemPages : p \in Nat /\ p < KMemPages /\ p < PhyPages
        BY VideoPlace, Sizes
      <4>. QED
        BY <3>1, <4>1, Zenon
    <3>3. VideoBase + i \in PAddr
      BY <3>1, <3>2, PageBelow, Sizes DEF PAddr
    <3>4. VideoBase + i # t.at[1]
      BY <3>2, <1>2, Sizes
    <3>5. hw_mem[VideoBase + i] = TestByte(i)
      BY <1>5 DEF IInv, TestInv
    <3>. QED
      BY <3>3, <3>4, <3>5, <1>4
  <2>. QED
    BY <2>1, <1>5 DEF TestInv
<1>. QED
  BY <1>7, <1>9, <1>10, <1>11, <1>12, <1>13, <1>14, <1>15 DEF IInv

----------------------------------------------------------------------------
(* The program.                                                            *)

\* What the program was given is mapped.
LEMMA UserMapped ==
  ASSUME IInv, pc = "user", NEW c \in Given(brk)
  PROVE  c \in UserAddr /\ Page(c) \in LPage /\ UserWalk(Page(c)) # Absent
<1>1. caller \in {"stack", "brk"} /\ seg = Len(Segments) + 1 /\ TypeOK /\ TablesInv
  BY DEF IInv, TypeOK, PhaseInv
<1>2. CASE c \in ImageBytes
  <2>1. PICK s \in DOMAIN Segments : c \in SegmentBytes(s)
    BY <1>2, ImagePlace
  <2>2. s < seg
    BY <1>1, LastSegment
  <2>3. UserWalk(Page(c)) # Absent
    BY <2>1, <2>2 DEF IInv, MappedInv
  <2>. QED
    BY <2>3, <1>2, ProgramPages
<1>3. CASE c \in StackBytes
  <2>1. UserWalk(Page(c)) # Absent
    BY <1>3 DEF IInv, MappedInv
  <2>. QED
    BY <2>1, <1>3, ProgramPages
<1>4. CASE c \in VideoBytes
  <2>1. PICK p \in VmemPages : c \in BytesOf(p)
    BY <1>4 DEF VideoBytes
  <2>2. p \in 0 .. NR_PTE - 1 /\ p \in 0 .. PhyPages - 1
    BY VideoPlace
  <2>3. p \in Nat /\ p < NR_PTE /\ p < KPage /\ p \in UserPage /\ p \in LPage
    BY <2>2, Sizes, Pages DEF UserPage
  <2>4. c \in Nat /\ Page(c) = p
    <3>. DEFINE b == p * PAGE_SIZE
    <3>1. b \in Nat /\ PAGE_SIZE \in Nat
      BY <2>3, Sizes
    <3>2. c \in b .. b + PAGE_SIZE - 1
      BY <2>1 DEF BytesOf
    <3>. HIDE DEF b
    <3>3. c - b \in 0 .. PAGE_SIZE - 1 /\ c = b + (c - b)
      BY <3>1, <3>2
    <3>4. c = p * PAGE_SIZE + (c - b)
      BY <3>3 DEF b
    <3>5. \A o \in 0 .. PAGE_SIZE - 1 : p * PAGE_SIZE + o \in Nat /\ Page(p * PAGE_SIZE + o) = p
      BY <2>3, PageIs, Zenon
    <3>6. p * PAGE_SIZE + (c - b) \in Nat /\ Page(p * PAGE_SIZE + (c - b)) = p
      BY <3>3, <3>5, Zenon
    <3>. QED
      BY <3>4, <3>6, Zenon
  <2>5. c \in UserAddr
    <3>1. c < KPage * PAGE_SIZE
      BY <2>3, <2>4, PageBelow, Sizes
    <3>. QED
      BY <2>4, <3>1, Sizes DEF UserAddr
  <2>6. dir["updir"][0] = VTable
    BY <1>1 DEF TablesInv
  <2>7. UserWalk(p) = p
    BY <1>1, <2>3, <2>6, VideoWalk
  <2>8. p # Absent
    BY <2>3 DEF Absent
  <2>. QED
    BY <2>3, <2>4, <2>5, <2>7, <2>8
<1>5. CASE c \in End .. brk - 1
  <2>1. caller = "brk"
    BY <1>1, <1>5, LastSegment DEF IInv, BrkInv
  <2>2. UserWalk(Page(c)) # Absent
    BY <2>1, <1>5 DEF IInv, MappedInv
  <2>3. brk \in 0 .. KOFFSET - STACK_SIZE
    BY <2>1, LastSegment DEF IInv, BrkInv
  <2>. QED
    BY <2>2, <2>3, <1>5, ProgramPages
<1>. QED
  BY <1>2, <1>3, <1>4, <1>5 DEF Given

\* No access of a program that stays in what it was given fails, and each byte
\* is the one the program's directory names.
LEMMA UserTouch ==
  ASSUME IInv, pc = "user", NEW a \in Starts, NEW len \in Lens,
         a .. a + len - 1 \subseteq Given(brk), NEW t \in Translate(a, len)
  PROVE  /\ t.ok = TRUE /\ TlbGood(t.tlb) /\ len \in Nat /\ a \in Nat
         /\ \A i \in 1 .. len : /\ t.at[i] \in PAddr
                                /\ t.at[i] = PAddrOf(UserWalk(Page(a + i - 1)), a + i - 1)
                                /\ a + i - 1 \in UserAddr /\ UserWalk(Page(a + i - 1)) # Absent
<1>1. a \in Nat /\ len \in 1 .. PAGE_SIZE /\ len \in Nat
  BY LayoutAssumption, Sizes DEF UserAddr
<1>2. Tables /\ TlbGood(tlb) /\ cr3 = "updir" /\ cr3 # NoDir
  BY DEF IInv, Tables, PhaseInv, NoDir
<1>3. ASSUME NEW i \in 1 .. len
      PROVE  /\ Reachable(Page(a + i - 1))
             /\ a + i - 1 \in UserAddr /\ UserWalk(Page(a + i - 1)) # Absent
  <2>1. a + i - 1 \in a .. a + len - 1
    BY <1>1
  <2>2. a + i - 1 \in UserAddr /\ Page(a + i - 1) \in LPage /\ UserWalk(Page(a + i - 1)) # Absent
    BY <2>1, UserMapped
  <2>. QED
    BY <2>2, <1>2 DEF Reachable, UserWalk
<1>4. /\ t.ok = TRUE /\ TlbGood(t.tlb)
      /\ \A i \in 1 .. len : /\ t.at[i] = PAddrOf(Walk(cr3, Page(a + i - 1)), a + i - 1)
                             /\ t.at[i] \in PAddr
  BY <1>1, <1>2, <1>3, TranslateRight
<1>. QED
  BY <1>1, <1>2, <1>3, <1>4 DEF UserWalk

\* What the program's loads and stores leave alone.
LEMMA UserQuiet ==
  ASSUME IInv, pc = "user", pc' = pc, UNCHANGED <<tables, cr3, loop, brk, new_brk>>,
         NEW t, TlbGood(t), tlb' = t, hw_mem' \in [PAddr -> Nat], reply' \in Seq(Nat)
  PROVE  IInv'
<1>1. /\ caller # "loader" /\ cr3 = "updir" /\ cr3 # NoDir
      /\ UNCHANGED <<dir, table, nr_frame, nr_table, cr3, caller, seg, first, cur, last, k, brk, new_brk, pc>>
      /\ UNCHANGED tables
  BY DEF IInv, PhaseInv, tables, loop, NoDir
<1>2. \A p : UserWalk(p)' = UserWalk(p)
  BY <1>1, TablesKept
<1>3. TlbGood(tlb)'
  BY <1>1, <1>2, TlbQuiet
<1>4. TypeOK'
  BY <1>1, <1>3 DEF IInv, TypeOK, TlbGood
<1>5. PhaseInv' /\ MallocInv' /\ BrkInv' /\ StopsOnlyWhenFull'
  BY <1>1, <1>2 DEF IInv, PhaseInv, MallocInv, BrkInv, StopsOnlyWhenFull
<1>6. KernelInv' /\ TablesInv' /\ FramesInv'
  BY <1>1, TablesQuiet
<1>7. MappedInv'
  BY <1>1, <1>2 DEF IInv, MappedInv
<1>8. LoadInv' /\ TestInv'
  BY <1>1 DEF LoadInv, TestInv
<1>. QED
  BY <1>3, <1>4, <1>5, <1>6, <1>7, <1>8 DEF IInv

\* A load of the program finds its page.
LEMMA UserReadStep ==
  ASSUME IInv, NEW a \in Starts, NEW len \in Lens, UserRead(a, len)
  PROVE  IInv'
<1>1. pc = "user" /\ a .. a + len - 1 \subseteq Given(brk)
      /\ UNCHANGED <<tables, cr3, hw_mem, loop, brk, new_brk>>
  BY DEF UserRead
<1>2. PICK t \in Translate(a, len) :
        /\ tlb' = t.tlb
        /\ reply' = IF t.ok THEN [i \in 1 .. len |-> hw_mem[t.at[i]]] ELSE reply
        /\ pc' = IF t.ok THEN pc ELSE "panic"
  BY DEF UserRead
<1>3. t.ok = TRUE /\ TlbGood(t.tlb) /\ (\A i \in 1 .. len : t.at[i] \in PAddr) /\ len \in Nat
  BY <1>1, <1>2, UserTouch
<1>4. hw_mem \in [PAddr -> Nat] /\ hw_mem' \in [PAddr -> Nat]
  BY <1>1 DEF IInv, TypeOK
<1>5. reply' \in Seq(Nat)
  <2>. DEFINE r == [i \in 1 .. len |-> hw_mem[t.at[i]]]
  <2>1. r \in [1 .. len -> Nat]
    BY <1>3, <1>4
  <2>2. reply' = r
    BY <1>2, <1>3
  <2>. HIDE DEF r
  <2>. QED
    BY <2>1, <2>2, <1>3
<1>6. pc' = pc /\ UNCHANGED <<tables, cr3, loop, brk, new_brk>>
  BY <1>1, <1>2, <1>3
<1>. QED
  BY <1>1, <1>2, <1>3, <1>4, <1>5, <1>6, UserQuiet

\* A store of the program reaches the program's own frames only.
LEMMA UserWriteStep ==
  ASSUME IInv, NEW a \in Starts, NEW len \in Lens, NEW data \in [1 .. len -> Byte], UserWrite(a, data)
  PROVE  IInv'
<1>1. len \in Nat /\ Len(data) = len /\ DOMAIN data = 1 .. len
  BY LayoutAssumption, Sizes
<1>2. pc = "user" /\ a .. a + len - 1 \subseteq Given(brk) /\ reply' = <<>>
      /\ UNCHANGED <<tables, cr3, loop, brk, new_brk>>
  BY <1>1 DEF UserWrite
<1>3. PICK t \in Translate(a, len) : Store(data, t) /\ pc' = IF t.ok THEN pc ELSE "panic"
  BY <1>1 DEF UserWrite
<1>4. t.ok = TRUE /\ TlbGood(t.tlb)
  BY <1>2, <1>3, UserTouch
<1>5. hw_mem' \in [PAddr -> Nat] /\ tlb' = t.tlb
  <2>1. /\ tlb' = t.tlb
        /\ hw_mem' = [x \in PAddr |->
                        IF \E i \in DOMAIN data : t.at[i] = x
                        THEN data[CHOOSE i \in DOMAIN data : t.at[i] = x] ELSE hw_mem[x]]
    BY <1>3, <1>4 DEF Store
  <2>2. hw_mem \in [PAddr -> Nat] /\ \A i \in DOMAIN data : data[i] \in Nat
    BY LayoutAssumption DEF IInv, TypeOK
  <2>3. ASSUME NEW x \in PAddr
        PROVE  (IF \E i \in DOMAIN data : t.at[i] = x
                THEN data[CHOOSE i \in DOMAIN data : t.at[i] = x] ELSE hw_mem[x]) \in Nat
    <3>1. (\E i \in DOMAIN data : t.at[i] = x) =>
             (CHOOSE i \in DOMAIN data : t.at[i] = x) \in DOMAIN data
      OBVIOUS
    <3>. QED
      BY <3>1, <2>2
  <2>. QED
    BY <2>1, <2>3
<1>6. pc' = pc /\ reply' \in Seq(Nat)
  BY <1>2, <1>3, <1>4
<1>. QED
  BY <1>2, <1>4, <1>5, <1>6, UserQuiet

\* The break moves back at once, forwards when mm_malloc is done.
LEMMA UserBrkStep ==
  ASSUME IInv, NEW b \in Brks, UserBrk(b)
  PROVE  IInv'
<1>1. /\ pc = "user" /\ caller \in {"stack", "brk"} /\ cr3 = "updir" /\ seg = Len(Segments) + 1
      /\ UNCHANGED tables
      /\ UNCHANGED <<dir, table, nr_frame, nr_table, cr3, tlb, hw_mem, seg, k>>
  BY DEF UserBrk, IInv, TypeOK, PhaseInv, tables
<1>2. /\ b \in End .. KOFFSET - STACK_SIZE /\ brk \in End - 1 .. KOFFSET - STACK_SIZE
      /\ caller = "stack" => brk = End - 1
      /\ End \in Nat /\ End - 1 \in Nat /\ KOFFSET - STACK_SIZE \in Nat /\ STACK_SIZE \in Nat \ {0}
      /\ KOFFSET \in Nat /\ End <= KOFFSET - STACK_SIZE
  BY <1>1, LayoutAssumption, LastSegment, Sizes DEF IInv, BrkInv
<1>3. brk \in Nat /\ b \in Nat /\ b - 1 \in Nat /\ b < KOFFSET
  BY <1>2
<1>4. \A p : UserWalk(p)' = UserWalk(p)
  BY <1>1, TablesKept
<1>5. TlbGood(tlb)'
  BY <1>1, <1>4, TlbQuiet DEF IInv, NoDir
<1>6. KernelInv' /\ TablesInv' /\ FramesInv'
  <2>1. pc' \in {"user", "malloc"}
    BY <1>1 DEF UserBrk, Malloc
  <2>. QED
    BY <2>1, <1>1, TablesQuiet
<1>7. \A s \in DOMAIN Segments : s < seg => \A c \in SegmentBytes(s) : UserWalk(Page(c)) # Absent
  BY DEF IInv, MappedInv
<1>8. \A c \in StackBytes : UserWalk(Page(c)) # Absent
  BY <1>1 DEF IInv, MappedInv
<1>9. \A c \in End .. brk - 1 : UserWalk(Page(c)) # Absent
  <2>1. CASE caller = "stack"
    BY <2>1, <1>2
  <2>2. CASE caller = "brk"
    BY <2>2 DEF IInv, MappedInv
  <2>. QED
    BY <2>1, <2>2, <1>1
<1>10. CASE b > brk
  <2>1. /\ first' = brk /\ cur' = Page(brk) /\ last' = Page(brk + (b - brk) - 1)
        /\ caller' = "brk" /\ pc' = "malloc" /\ new_brk' = b /\ UNCHANGED <<brk, reply>>
    BY <1>10 DEF UserBrk, Malloc
  <2>2. last' = Page(b - 1)
    <3>1. brk + (b - brk) - 1 = b - 1
      BY <1>3
    <3>. QED
      BY <2>1, <3>1
  <2>3. brk \in UserAddr /\ b - 1 \in UserAddr /\ brk <= b - 1
    BY <1>2, <1>3, <1>10 DEF UserAddr
  <2>4. /\ Page(brk) \in UserPage /\ Page(b - 1) \in UserPage /\ Page(brk) <= Page(b - 1)
        /\ Page(brk) \in Nat /\ Page(b - 1) \in Nat
    BY <2>3, <1>3, UserPages, PageMonotone, PageOf
  <2>5. TypeOK'
    <3>1. Page(brk) \in 0 .. KPage
      BY <2>4, Sizes DEF UserPage
    <3>2. b \in 0 .. KOFFSET
      BY <1>2, <1>3
    <3>. QED
      BY <1>1, <2>1, <2>2, <2>3, <2>4, <3>1, <3>2 DEF IInv, TypeOK
  <2>6. PhaseInv'
    BY <1>1, <2>1 DEF PhaseInv, NoDir
  <2>7. MallocInv'
    <3>1. Page(brk) \in Page(brk) .. Page(b - 1) + 1 /\ Page(brk) .. Page(brk) - 1 = {}
      BY <2>4
    <3>. QED
      BY <1>10, <2>1, <2>2, <3>1 DEF MallocInv
  <2>8. BrkInv'
    BY <1>2, <2>1 DEF BrkInv
  <2>9. MappedInv'
    BY <1>1, <1>4, <1>7, <1>8, <1>9, <2>1 DEF MappedInv
  <2>10. LoadInv' /\ TestInv' /\ StopsOnlyWhenFull'
    BY <2>1 DEF LoadInv, TestInv, StopsOnlyWhenFull
  <2>. QED
    BY <1>5, <1>6, <2>5, <2>6, <2>7, <2>8, <2>9, <2>10 DEF IInv
<1>11. CASE ~(b > brk)
  <2>1. /\ brk' = b /\ reply' = <<>> /\ UNCHANGED <<pc, caller, first, cur, last, new_brk>>
    BY <1>11 DEF UserBrk
  <2>2. caller = "brk"
    BY <1>1, <1>2, <1>11
  <2>3. TypeOK'
    <3>1. << >> \in Seq(Nat) /\ b \in 0 .. KOFFSET
      BY <1>2, <1>3
    <3>. QED
      BY <1>1, <2>1, <3>1 DEF IInv, TypeOK
  <2>4. PhaseInv' /\ MallocInv' /\ StopsOnlyWhenFull'
    BY <1>1, <1>4, <2>1 DEF IInv, PhaseInv, MallocInv, StopsOnlyWhenFull
  <2>5. BrkInv'
    BY <1>2, <2>1, <2>2 DEF BrkInv
  <2>6. MappedInv'
    <3>1. \A c \in End .. b - 1 : UserWalk(Page(c)) # Absent
      <4>1. \A c \in End .. b - 1 : c \in End .. brk - 1
        BY <1>2, <1>11
      <4>. QED
        BY <4>1, <1>9
    <3>. QED
      BY <1>1, <1>4, <1>7, <1>8, <2>1, <3>1 DEF MappedInv
  <2>7. LoadInv' /\ TestInv'
    BY <1>1, <2>1, <2>2 DEF LoadInv, TestInv
  <2>. QED
    BY <1>5, <1>6, <2>3, <2>4, <2>5, <2>6, <2>7 DEF IInv
<1>. QED
  BY <1>10, <1>11

----------------------------------------------------------------------------
(* The theorems.                                                           *)

\* Every step preserves the invariant.
LEMMA StepInvariant ==
  ASSUME IInv, [Next]_vars
  PROVE  IInv'
<1>1. CASE Boot
  BY <1>1, InitPageStep, InitMmStep, WriteTestStep, LoadSegmentStep, CopyByteStep, SegmentLoadedStep,
     MapStackStep, CreateVideoMappingStep, WriteCr3Step, ReadTestStep, ClearVideoStep DEF Boot
<1>2. CASE MallocPage
  BY <1>2, MallocPageStep
<1>3. CASE MallocReturn
  BY <1>3, MallocReturnStep
<1>4. CASE Program
  BY <1>4, UserReadStep, UserWriteStep, UserBrkStep DEF Program
<1>5. CASE \E p \in LPage : KernelTouch(p)
  BY <1>5, KernelTouchStep
<1>6. CASE UNCHANGED vars
  <2>1. UNCHANGED <<dir, table, nr_frame, nr_table, cr3, tlb, hw_mem, pc,
                    caller, seg, first, cur, last, k, brk, new_brk, reply>>
    BY <1>6 DEF vars, tables, loop
  <2>2. \A p : UserWalk(p)' = UserWalk(p)
    BY <2>1, TablesKept
  <2>3. TypeOK' /\ PhaseInv' /\ KernelInv' /\ MallocInv' /\ BrkInv' /\ MappedInv'
    BY <2>1, <2>2 DEF IInv, TypeOK, PhaseInv, KernelInv, MallocInv, BrkInv, MappedInv
  <2>4. TablesInv' /\ FramesInv'
    <3>1. Used' = Used
      BY <2>1 DEF Used
    <3>. QED
      BY <2>1, <2>2, <3>1 DEF IInv, TablesInv, FramesInv
  <2>5. LoadInv' /\ TestInv' /\ StopsOnlyWhenFull'
    BY <2>1, <2>2 DEF IInv, LoadInv, Run, Free, TestInv, StopsOnlyWhenFull
  <2>6. TlbGood(tlb)'
    BY <2>1, <2>2 DEF IInv, TlbGood, EntryOk
  <2>. QED
    BY <2>3, <2>4, <2>5, <2>6 DEF IInv
<1>. QED
  BY <1>1, <1>2, <1>3, <1>4, <1>5, <1>6 DEF Next

\* Every reachable state of the kernel, the MMU and the program satisfies the
\* inductive invariant.
THEOREM Invariance == Spec => []IInv
<1>1. Init => IInv
  BY InitInvariant
<1>2. IInv /\ [Next]_vars => IInv'
  BY StepInvariant
<1>. QED
  BY <1>1, <1>2, PTL DEF Spec

\* The page tables, the TLB, the memory and mm_malloc's counters keep their
\* types: no table of the pool and no frame beyond the memory is handed out.
THEOREM TypeCorrect == Spec => []TypeOK
<1>1. IInv => TypeOK
  BY DEF IInv
<1>. QED
  BY <1>1, Invariance, PTL

\* Pages of the program share no frame and reach none of the kernel's, but for
\* the video memory (mm_malloc, init_mm, create_video_mapping).
THEOREM PrivateFrames == Spec => []FramesPrivate
<1>1. ASSUME IInv, NEW p \in UserPage \ VmemPages, NEW q \in UserPage \ VmemPages, UserWalk(p) # Absent
      PROVE  /\ UserWalk(p) >= KMemPages
             /\ p # q => UserWalk(p) # UserWalk(q)
  <2>1. \A r \in UserPage \ VmemPages : UserWalk(r) # Absent => r \in NR_PTE .. KPage - 1
    <3>1. ASSUME NEW r \in UserPage \ VmemPages, UserWalk(r) # Absent  PROVE ~(r < NR_PTE)
      BY <1>1, <3>1, VideoWalk DEF IInv
    <3>. QED
      BY <3>1, Sizes DEF UserPage
  <2>2. p \in NR_PTE .. KPage - 1
    BY <1>1, <2>1
  <2>3. UserWalk(p) \in KMemPages .. nr_frame - 1 /\ \A r \in NR_PTE .. KPage - 1 : UserWalk(r) = UserWalk(p) => r = p
    BY <1>1, <2>2 DEF IInv, FramesInv
  <2>4. UserWalk(p) >= KMemPages
    BY <2>3
  <2>5. p # q => UserWalk(p) # UserWalk(q)
    BY <1>1, <2>1, <2>3
  <2>. QED
    BY <2>4, <2>5
<1>2. IInv => FramesPrivate
  BY <1>1 DEF FramesPrivate
<1>. QED
  BY <1>2, Invariance, PTL

\* No address translation fails and the test data survives the switch of the
\* directories: the machine stops only when mm_malloc is out of frames.
THEOREM StopsWhenFull == Spec => []StopsOnlyWhenFull
<1>1. IInv => StopsOnlyWhenFull
  BY DEF IInv
<1>. QED
  BY <1>1, Invariance, PTL

\* The TLB, which nothing ever flushes, agrees with the page tables on every
\* page that the directory in use maps.
THEOREM TlbStaysRight == Spec => []TlbAgrees
<1>1. ASSUME IInv, NEW i \in Slot, tlb[i] # NoEntry, Walk(cr3, tlb[i].page) # Absent
      PROVE  tlb[i].frame = Walk(cr3, tlb[i].page)
  <2>1. Tables /\ TLB_ENABLED /\ cr3 # NoDir /\ EntryOk(tlb[i])
    BY <1>1 DEF IInv, Tables, TlbGood
  <2>. HIDE DEF Tables
  <2>. QED
    BY <1>1, <2>1, EntryRight
<1>2. IInv => TlbAgrees
  BY <1>1 DEF TlbAgrees
<1>. QED
  BY <1>2, Invariance, PTL

----------------------------------------------------------------------------
(* What is in the memory.                                                  *)

\* The image as far as the loader has copied it.
Copied(a) ==
  \/ \E s \in DOMAIN Segments : s < seg /\ a \in SegmentBytes(s)
  \/ pc = "copy" /\ a \in first .. first + k - 1
Content(a) == IF Copied(a) THEN Loaded(a) ELSE 0

\* Frames that mm_malloc still has are zero; the program's pages hold the
\* image as far as it is loaded; the test data is cleared in the end.
FreshInv == \A x \in PAddr : Page(x) >= nr_frame => hw_mem[x] = 0
ImageInv ==
  ~Running => \A a \in UserAddr :
    Page(a) >= NR_PTE /\ UserWalk(Page(a)) # Absent => hw_mem[PAddrOf(UserWalk(Page(a)), a)] = Content(a)
ClearInv == pc = "clear" => \A i \in 0 .. k - 1 : hw_mem[VideoBase + i] = 0
ReplyInv == ~Running => reply = <<>>
MemoryInv == FreshInv /\ ImageInv /\ ClearInv /\ ReplyInv

\* What the program sees of the state.
Memory == [a \in UserAddr |-> IF Running THEN SeenAt(a) ELSE Loaded(a)]
Break  == IF Running THEN brk ELSE End - 1

\* Where a mapped byte of the program is in the physical memory.
LEMMA BytePlace ==
  ASSUME IInv, NEW a \in UserAddr, UserWalk(Page(a)) # Absent
  PROVE  /\ PAddrOf(UserWalk(Page(a)), a) \in PAddr
         /\ Page(PAddrOf(UserWalk(Page(a)), a)) = UserWalk(Page(a))
         /\ PAddrOf(UserWalk(Page(a)), a) % PAGE_SIZE = a % PAGE_SIZE
         /\ UserWalk(Page(a)) \in Nat
         /\ Page(a) < NR_PTE => /\ UserWalk(Page(a)) = Page(a) /\ Page(a) \in VmemPages
                                /\ PAddrOf(UserWalk(Page(a)), a) = a
         /\ Page(a) >= NR_PTE => UserWalk(Page(a)) \in KMemPages .. nr_frame - 1
<1>. DEFINE p == Page(a)
            f == UserWalk(p)
<1>1. a \in Nat /\ p \in UserPage /\ p \in LPage /\ p \in Nat
  BY UserPages, PageOf, Pages
<1>2. f \in Frame /\ f \in Nat
  BY <1>1, WalkType, FrameThere DEF IInv, UserWalk
<1>3. PAddrOf(f, a) \in PAddr /\ Page(PAddrOf(f, a)) = f
  BY <1>1, <1>2, AddressThere
<1>4. PAddrOf(f, a) % PAGE_SIZE = a % PAGE_SIZE
  <2>1. a % PAGE_SIZE \in 0 .. PAGE_SIZE - 1
    BY <1>1, PageOf, Zenon
  <2>. QED
    BY <1>2, <2>1, PageIs, Zenon DEF PAddrOf
<1>5. p < NR_PTE => f = p /\ p \in VmemPages
  BY <1>1, VideoWalk DEF IInv
<1>6. f = p => PAddrOf(f, a) = a
  <2>1. a = p * PAGE_SIZE + (a % PAGE_SIZE)
    BY <1>1, PageOf, Zenon
  <2>. QED
    BY <2>1, Zenon DEF PAddrOf
<1>7. p >= NR_PTE => f \in KMemPages .. nr_frame - 1
  <2>1. p >= NR_PTE => p \in NR_PTE .. KPage - 1
    BY <1>1, Sizes DEF UserPage
  <2>. QED
    BY <2>1 DEF IInv, FramesInv
<1>. QED
  BY <1>2, <1>3, <1>4, <1>5, <1>6, <1>7

\* Two bytes of the program are never the same byte of the memory.
LEMMA BytesDiffer ==
  ASSUME IInv, NEW a \in UserAddr, NEW b \in UserAddr,
         UserWalk(Page(a)) # Absent, UserWalk(Page(b)) # Absent,
         PAddrOf(UserWalk(Page(a)), a) = PAddrOf(UserWalk(Page(b)), b)
  PROVE  a = b
<1>. DEFINE p == Page(a)
            q == Page(b)
<1>1. /\ a \in Nat /\ b \in Nat /\ p \in Nat /\ q \in Nat /\ p \in UserPage /\ q \in UserPage
  BY UserPages, PageOf
<1>2. /\ UserWalk(p) = UserWalk(q) /\ a % PAGE_SIZE = b % PAGE_SIZE
      /\ p < NR_PTE => UserWalk(p) = p /\ p \in VmemPages
      /\ q < NR_PTE => UserWalk(q) = q /\ q \in VmemPages
      /\ p >= NR_PTE => UserWalk(p) \in KMemPages .. nr_frame - 1
      /\ q >= NR_PTE => UserWalk(q) \in KMemPages .. nr_frame - 1
  BY BytePlace
<1>3. \A r \in VmemPages : r < KMemPages
  BY VideoPlace, Sizes
<1>4. p = q
  <2>1. CASE p < NR_PTE /\ q < NR_PTE
    BY <2>1, <1>2
  <2>2. CASE p >= NR_PTE /\ q >= NR_PTE
    <3>1. p \in NR_PTE .. KPage - 1 /\ q \in NR_PTE .. KPage - 1
      BY <2>2, <1>1, Sizes DEF UserPage
    <3>2. UserWalk(q) = UserWalk(p) /\ UserWalk(p) # Absent
      BY <1>2
    <3>. QED
      BY <3>1, <3>2 DEF IInv, FramesInv
  <2>3. CASE p < NR_PTE /\ q >= NR_PTE
    BY <2>3, <1>2, <1>3, Sizes
  <2>4. CASE p >= NR_PTE /\ q < NR_PTE
    BY <2>4, <1>2, <1>3, Sizes
  <2>. QED
    BY <2>1, <2>2, <2>3, <2>4, <1>1, Sizes
<1>. QED
  BY <1>1, <1>2, <1>4, DivModSame, Sizes DEF Page

\* The byte of the image at an address is that of its only segment.
LEMMA LoadedByte ==
  ASSUME NEW s \in DOMAIN Segments, NEW j \in 0 .. Segments[s].memsz - 1
  PROVE  /\ Segments[s].vaddr + j \in SegmentBytes(s)
         /\ Segments[s].vaddr + j \in ImageBytes
         /\ Loaded(Segments[s].vaddr + j) = SegmentByte(s, j)
<1>. DEFINE v == Segments[s].vaddr
            a == v + j
<1>1. \A u \in DOMAIN Segments : Segments[u].vaddr \in Nat /\ Segments[u].memsz \in Nat \ {0}
  BY SegmentPlace
<1>2. a \in SegmentBytes(s) /\ a \in Nat /\ v \in Nat /\ j \in Nat
  BY <1>1 DEF SegmentBytes
<1>3. a \in ImageBytes
  BY <1>2, SegmentPlace
<1>4. ASSUME NEW u \in DOMAIN Segments, a \in SegmentBytes(u)  PROVE u = s
  <2>1. Segments[u].vaddr <= a /\ a <= Segments[u].vaddr + Segments[u].memsz - 1
    BY <1>1, <1>4 DEF SegmentBytes
  <2>2. Segments[s].vaddr <= a /\ a <= Segments[s].vaddr + Segments[s].memsz - 1
    BY <1>1, <1>2 DEF SegmentBytes
  <2>. HIDE DEF a
  <2>3. u \in Nat /\ s \in Nat
    BY LastSegment
  <2>4. u < s => Segments[u].vaddr + Segments[u].memsz <= Segments[s].vaddr
    BY SegmentOrder
  <2>5. s < u => Segments[s].vaddr + Segments[s].memsz <= Segments[u].vaddr
    BY SegmentOrder
  <2>6. a \in Nat
    BY <1>2 DEF a
  <2>. QED
    BY <2>1, <2>2, <2>3, <2>4, <2>5, <2>6, <1>1
<1>5. (CHOOSE u \in DOMAIN Segments : a \in SegmentBytes(u)) = s
  BY <1>2, <1>4
<1>6. a - v = j
  BY <1>2
<1>7. Loaded(a) = SegmentByte(s, a - v)
  BY <1>3, <1>5 DEF Loaded
<1>. QED
  BY <1>2, <1>3, <1>6, <1>7

\* Nothing of the image below the second page table, nothing but zeros outside.
LEMMA LoadedZero ==
  ASSUME NEW a \in UserAddr, a \notin ImageBytes
  PROVE  Loaded(a) = 0
  BY DEF Loaded

\* The video pages follow one another.
LEMMA VideoByte ==
  ASSUME NEW a \in UserAddr, Page(a) \in VmemPages
  PROVE  \E i \in 0 .. VideoSize - 1 : a = VideoBase + i
<1>. DEFINE lo == CHOOSE p \in VmemPages : \A q \in VmemPages : p <= q
            n == Cardinality(VmemPages)
            g == Page(a)
<1>1. /\ VmemPages \subseteq 0 .. NR_PTE - 1
      /\ VmemPages # {} /\ \A p, q \in VmemPages : p .. q \subseteq VmemPages
  BY LayoutAssumption
<1>2. VmemPages \in SUBSET Nat
  BY <1>1
<1>3. lo \in VmemPages /\ lo \in Nat /\ \A q \in VmemPages : lo <= q
  <2>1. \E p \in VmemPages : \A q \in VmemPages : p <= q
    BY <1>1, <1>2, LeastNatural
  <2>. QED
    BY <1>2, <2>1
<1>4. IsFiniteSet(VmemPages) /\ n \in Nat
  <2>1. IsFiniteSet(0 .. NR_PTE - 1)
    BY Sizes, FS_Interval
  <2>2. IsFiniteSet(VmemPages)
    BY <1>1, <2>1, FS_Subset
  <2>. QED
    BY <2>2, FS_CardinalityType
<1>5. VideoSize = PAGE_SIZE * n /\ VideoBase = PAGE_SIZE * lo
  BY DEF VideoSize, VideoBase
<1>6. g \in Nat /\ lo <= g /\ a \in Nat
  <2>1. a \in Nat
    BY UserPages
  <2>. QED
    BY <2>1, <1>3, PageOf
<1>. HIDE DEF lo, g
<1>7. g < lo + n
  <2>1. lo .. g \subseteq VmemPages
    BY <1>1, <1>3 DEF g
  <2>2. Cardinality(lo .. g) = g - lo + 1 /\ IsFiniteSet(lo .. g)
    BY <1>3, <1>6, FS_Interval
  <2>3. Cardinality(lo .. g) <= n
    BY <1>4, <2>1, FS_Subset
  <2>. HIDE DEF n
  <2>. QED
    BY <2>2, <2>3, <1>3, <1>4, <1>6
<1>. HIDE DEF n
<1>8. PAGE_SIZE \in Nat \ {0}
  BY Sizes
<1>9. lo * PAGE_SIZE <= a
  <2>1. g * PAGE_SIZE <= a /\ g * PAGE_SIZE \in Nat
    <3>1. g * PAGE_SIZE <= a
      BY <1>6, PageOf, Zenon DEF g
    <3>. QED
      BY <3>1, <1>6, <1>8
  <2>2. lo * PAGE_SIZE <= g * PAGE_SIZE /\ lo * PAGE_SIZE \in Nat
    BY <1>3, <1>6, <1>8
  <2>. QED
    BY <2>1, <2>2, <1>6
<1>10. a < (lo + n) * PAGE_SIZE
  <2>1. lo + n \in Nat
    BY <1>3, <1>4
  <2>. QED
    BY <2>1, <1>6, <1>7, PageBelow DEF g
<1>11. (lo + n) * PAGE_SIZE = VideoBase + VideoSize
  BY <1>3, <1>4, <1>5, <1>8
<1>12. VideoBase = lo * PAGE_SIZE /\ VideoBase \in Nat /\ VideoSize \in Nat
  BY <1>3, <1>5, <1>8, VideoPlace
<1>13. a - VideoBase \in 0 .. VideoSize - 1 /\ a = VideoBase + (a - VideoBase)
  BY <1>6, <1>9, <1>10, <1>11, <1>12
<1>. QED
  BY <1>13

\* A step that moves no byte of the program and copies none.
LEMMA MemoryKept ==
  ASSUME IInv, MemoryInv, ~Running, ~Running', nr_frame' = nr_frame, reply' = reply,
         \A x \in PAddr : Page(x) >= KMemPages => hw_mem'[x] = hw_mem[x],
         \A p \in UserPage : p >= NR_PTE => UserWalk(p)' = UserWalk(p),
         \A a \in UserAddr : Copied(a)' = Copied(a)
  PROVE  FreshInv' /\ ImageInv' /\ ReplyInv' /\ UNCHANGED <<Memory, Break, reply>>
<1>1. FreshInv'
  <2>1. ASSUME NEW x \in PAddr, Page(x) >= nr_frame  PROVE hw_mem'[x] = 0
    <3>1. x \in Nat /\ nr_frame \in KMemPages .. PhyPages
      BY Sizes DEF PAddr, IInv, TypeOK
    <3>2. Page(x) >= KMemPages
      BY <2>1, <3>1, PageOf, Sizes
    <3>. QED
      BY <2>1, <3>2 DEF MemoryInv, FreshInv
  <2>. QED
    BY <2>1 DEF FreshInv
<1>2. ImageInv'
  <2>1. ASSUME NEW a \in UserAddr, Page(a) >= NR_PTE, UserWalk(Page(a))' # Absent
        PROVE  hw_mem'[PAddrOf(UserWalk(Page(a)), a)'] = Content(a)'
    <3>1. Page(a) \in UserPage
      BY UserPages
    <3>2. UserWalk(Page(a))' = UserWalk(Page(a))
      BY <2>1, <3>1
    <3>. DEFINE x == PAddrOf(UserWalk(Page(a)), a)
    <3>3. x' = x
      BY <3>2 DEF PAddrOf
    <3>4. x \in PAddr /\ Page(x) >= KMemPages
      BY <2>1, <3>2, BytePlace, Sizes
    <3>5. hw_mem[x] = Content(a)
      BY <2>1, <3>2 DEF MemoryInv, ImageInv
    <3>6. Content(a)' = Content(a)
      BY DEF Content
    <3>. HIDE DEF x
    <3>. QED
      BY <3>3, <3>4, <3>5, <3>6 DEF x
  <2>. QED
    BY <2>1 DEF ImageInv
<1>3. ReplyInv'
  BY DEF MemoryInv, ReplyInv
<1>. QED
  BY <1>1, <1>2, <1>3 DEF Memory, Break

\* A step that leaves the memory alone while the program runs.
LEMMA RunningKept ==
  ASSUME IInv, IInv', MemoryInv, Running, Running', UNCHANGED <<hw_mem, nr_frame>>,
         \A p \in LPage : UserWalk(p)' = UserWalk(p)
  PROVE  MemoryInv' /\ UNCHANGED Memory
<1>1. FreshInv'
  BY DEF MemoryInv, FreshInv
<1>2. pc' # "clear"
  BY DEF IInv, PhaseInv, Running
<1>3. ASSUME NEW a \in UserAddr  PROVE SeenAt(a)' = SeenAt(a)
  <2>1. UserWalk(Page(a))' = UserWalk(Page(a))
    BY ProgramPages
  <2>. QED
    BY <2>1 DEF SeenAt, PAddrOf
<1>. QED
  BY <1>1, <1>2, <1>3 DEF MemoryInv, ImageInv, ClearInv, ReplyInv, Memory

\* What mm_malloc adds was zero and not to be seen before.
LEMMA MallocMemory ==
  ASSUME IInv, IInv', MemoryInv, MallocPage
  PROVE  MemoryInv' /\ UNCHANGED <<Memory, Break, reply>>
<1>1. /\ \A p \in LPage : p # cur => UserWalk(p)' = UserWalk(p)
      /\ \A p \in LPage : p = cur =>
           UserWalk(p)' = IF UserWalk(p) = Absent /\ nr_frame # PhyPages THEN nr_frame ELSE UserWalk(p)
      /\ nr_frame' = IF UserWalk(cur) = Absent /\ nr_frame # PhyPages THEN nr_frame + 1 ELSE nr_frame
      /\ pc' = IF UserWalk(cur) = Absent /\ nr_frame = PhyPages THEN "panic" ELSE "malloc"
  BY MallocWalk
<1>2. pc = "malloc" /\ UNCHANGED <<hw_mem, caller, seg, first, k, brk, reply>>
  BY DEF MallocPage
<1>3. nr_frame \in Nat /\ KMemPages <= nr_frame /\ nr_frame <= nr_frame'
  BY <1>1, Sizes DEF IInv, TypeOK
<1>4. Running' = Running
  BY <1>1, <1>2 DEF Running
<1>5. FreshInv'
  <2>1. ASSUME NEW x \in PAddr, Page(x) >= nr_frame'  PROVE hw_mem'[x] = 0
    <3>1. Page(x) \in Nat
      BY PageOf, Sizes DEF PAddr
    <3>2. Page(x) >= nr_frame
      BY <2>1, <3>1, <1>1, <1>3
    <3>. QED
      BY <3>2, <1>2 DEF MemoryInv, FreshInv
  <2>. QED
    BY <2>1 DEF FreshInv
\* A page of the program keeps its frame, or had none and gets a zero one.
<1>6. ASSUME NEW a \in UserAddr, UserWalk(Page(a))' # UserWalk(Page(a))
      PROVE  /\ UserWalk(Page(a)) = Absent
             /\ hw_mem'[PAddrOf(UserWalk(Page(a))', a)] = 0
  <2>1. Page(a) \in LPage
    BY ProgramPages
  <2>2. UserWalk(Page(a)) = Absent /\ nr_frame # PhyPages /\ UserWalk(Page(a))' = nr_frame
    BY <2>1, <1>1, <1>6
  <2>3. nr_frame \in Frame
    BY <2>2, <1>3, Sizes DEF IInv, TypeOK, Frame
  <2>4. PAddrOf(nr_frame, a) \in PAddr /\ Page(PAddrOf(nr_frame, a)) = nr_frame
    BY <2>3, UserPages, AddressThere
  <2>. DEFINE x == PAddrOf(nr_frame, a)
  <2>5. hw_mem[x] = 0
    BY <2>4, <1>3 DEF MemoryInv, FreshInv
  <2>. QED
    BY <2>2, <2>5, <1>2
<1>7. ImageInv'
  <2>1. ASSUME ~Running', NEW a \in UserAddr, Page(a) >= NR_PTE, UserWalk(Page(a))' # Absent
        PROVE  hw_mem'[PAddrOf(UserWalk(Page(a))', a)] = Content(a)'
    <3>1. Copied(a)' = (\E s \in DOMAIN Segments : s < seg /\ a \in SegmentBytes(s))
      BY <1>1, <1>2 DEF Copied
    <3>2. Copied(a) = Copied(a)'
      BY <3>1, <1>2 DEF Copied
    <3>3. CASE UserWalk(Page(a))' = UserWalk(Page(a))
      <4>1. hw_mem[PAddrOf(UserWalk(Page(a)), a)] = Content(a)
        BY <2>1, <3>3, <1>4 DEF MemoryInv, ImageInv
      <4>. QED
        BY <4>1, <3>2, <3>3, <1>2 DEF Content
    <3>4. CASE UserWalk(Page(a))' # UserWalk(Page(a))
      <4>1. ~Copied(a)'
        BY <3>1, <3>4, <1>6 DEF IInv, MappedInv
      <4>. QED
        BY <3>4, <4>1, <1>6 DEF Content
    <3>. QED
      BY <3>3, <3>4
  <2>. QED
    BY <2>1 DEF ImageInv, PAddrOf
<1>8. ClearInv' /\ ReplyInv'
  BY <1>1, <1>2, <1>4 DEF MemoryInv, ClearInv, ReplyInv
<1>9. ASSUME NEW a \in UserAddr  PROVE SeenAt(a)' = SeenAt(a)
  <2>1. CASE UserWalk(Page(a))' = UserWalk(Page(a))
    BY <2>1, <1>2 DEF SeenAt, PAddrOf
  <2>2. CASE UserWalk(Page(a))' # UserWalk(Page(a))
    BY <2>2, <1>6 DEF SeenAt, PAddrOf
  <2>. QED
    BY <2>1, <2>2
<1>. QED
  BY <1>2, <1>4, <1>5, <1>7, <1>8, <1>9 DEF MemoryInv, Memory, Break

\* The loader's byte arrives at its address, and nowhere else.
LEMMA CopyMemory ==
  ASSUME IInv, MemoryInv, CopyByte
  PROVE  MemoryInv' /\ UNCHANGED <<Memory, Break, reply>>
<1>1. PICK t \in Translate(PAddrOf(Walk("updir", Page(first)), first) + k, 1) :
        Store(<<SegmentByte(seg, k)>>, t) /\ pc' = IF t.ok THEN pc ELSE "panic"
  BY DEF CopyByte
<1>. DEFINE b == first + k
<1>2. /\ t.ok = TRUE /\ t.at[1] = PAddrOf(UserWalk(Page(b)), b) /\ t.at[1] \in PAddr
      /\ seg \in DOMAIN Segments /\ k \in 0 .. Segments[seg].memsz - 1 /\ first = Segments[seg].vaddr
      /\ Page(t.at[1]) >= KMemPages
  BY <1>1, CopyPlace DEF CopyByte
<1>3. /\ pc = "copy" /\ pc' = "copy" /\ caller = "loader" /\ k' = k + 1 /\ k \in Nat
      /\ UNCHANGED <<dir, table, nr_frame, caller, seg, first, brk, reply>>
  BY <1>1, <1>2 DEF CopyByte, tables, IInv, PhaseInv, TypeOK
<1>4. b \in ImageBytes /\ Loaded(b) = SegmentByte(seg, k) /\ b \in UserAddr /\ first \in Nat
  BY <1>2, LoadedByte, ProgramPages, SegmentPlace
<1>5. SegmentByte(seg, k) \in Nat
  <2>1. Segments[seg].file \in Seq(Nat)
    BY <1>2, LayoutAssumption
  <2>2. CASE k < Len(Segments[seg].file)
    <3>1. k + 1 \in 1 .. Len(Segments[seg].file)
      BY <1>3, <2>1, <2>2
    <3>. QED
      BY <2>1, <2>2, <3>1 DEF SegmentByte
  <2>. QED
    BY <2>2 DEF SegmentByte
<1>6. \A x \in PAddr : hw_mem'[x] = IF x = t.at[1] THEN Loaded(b) ELSE hw_mem[x]
  BY <1>1, <1>2, <1>4, <1>5, StoreByte DEF IInv
<1>7. \A p : UserWalk(p)' = UserWalk(p)
  BY <1>3, TablesKept
<1>8. UserWalk(Page(b)) # Absent /\ Page(b) >= NR_PTE
  <2>1. Page(b) \in Page(first) .. last
    <3>1. last = Page(SegmentEnd(seg))
      BY <1>3 DEF IInv, MallocInv
    <3>2. SegmentEnd(seg) \in Nat /\ b \in Nat /\ first <= b /\ b <= SegmentEnd(seg)
      <4>1. Segments[seg].memsz \in Nat \ {0} /\ Segments[seg].vaddr \in Nat
        BY <1>2, SegmentPlace
      <4>. QED
        BY <4>1, <1>2 DEF SegmentEnd
    <3>. HIDE DEF b
    <3>3. Page(first) <= Page(b) /\ Page(b) <= last /\ Page(b) \in Nat
      BY <3>1, <3>2, <1>4, PageMonotone, PageOf
    <3>4. Page(first) \in Nat /\ last \in Nat
      BY <3>1, <3>2, <1>4, PageOf
    <3>. QED
      BY <3>3, <3>4
  <2>2. /\ \A p \in Page(first) .. cur - 1 : UserWalk(p) # Absent /\ cur = last + 1
        /\ Page(first) \in NR_PTE .. KPage - 1 /\ last \in NR_PTE .. KPage - 1
    BY <1>3, MallocAsk DEF IInv, MallocInv
  <2>3. cur = last + 1 /\ cur - 1 = last
    BY <1>3, <2>2, Sizes DEF IInv, MallocInv
  <2>. QED
    BY <2>1, <2>2, <2>3, Sizes
<1>. HIDE DEF b
<1>9. FreshInv'
  <2>1. Page(t.at[1]) = UserWalk(Page(b)) /\ UserWalk(Page(b)) \in KMemPages .. nr_frame - 1
    BY <1>2, <1>4, <1>8, BytePlace
  <2>2. \A x \in PAddr : Page(x) >= nr_frame => x # t.at[1]
    BY <2>1, Sizes DEF IInv, TypeOK
  <2>. QED
    BY <2>2, <1>3, <1>6 DEF MemoryInv, FreshInv
<1>10. ASSUME NEW a \in UserAddr  PROVE Copied(a)' <=> Copied(a) \/ a = b
  <2>1. a \in first .. first + k' - 1 <=> a \in first .. first + k - 1 \/ a = b
    <3>1. a \in Nat
      BY UserPages
    <3>. QED
      BY <3>1, <1>3, <1>4 DEF b
  <2>. QED
    BY <2>1, <1>3 DEF Copied
<1>11. ImageInv'
  <2>1. ASSUME NEW a \in UserAddr, Page(a) >= NR_PTE, UserWalk(Page(a)) # Absent
        PROVE  hw_mem'[PAddrOf(UserWalk(Page(a)), a)] = Content(a)'
    <3>. DEFINE x == PAddrOf(UserWalk(Page(a)), a)
    <3>1. x \in PAddr
      BY <2>1, BytePlace
    <3>2. CASE a = b
      BY <3>1, <3>2, <1>2, <1>6, <1>10 DEF Content
    <3>3. CASE a # b
      <4>1. x # t.at[1]
        BY <2>1, <3>3, <1>2, <1>4, <1>8, BytesDiffer
      <4>2. hw_mem[x] = Content(a)
        BY <2>1, <1>3 DEF MemoryInv, ImageInv, Running
      <4>3. Content(a)' = Content(a)
        BY <3>3, <1>10 DEF Content
      <4>. QED
        BY <3>1, <4>1, <4>2, <4>3, <1>6
    <3>. QED
      BY <3>2, <3>3
  <2>. QED
    BY <2>1, <1>7 DEF ImageInv, PAddrOf
<1>12. ~Running /\ ~Running' /\ ClearInv' /\ ReplyInv'
  BY <1>3 DEF Running, ClearInv, ReplyInv, MemoryInv
<1>. QED
  BY <1>3, <1>9, <1>11, <1>12 DEF MemoryInv, Memory, Break

\* A store to the video memory reaches no frame of mm_malloc.
LEMMA VideoStore ==
  ASSUME IInv, pc \in {"write_test", "clear"}, NEW t \in Translate(VideoBase + k, 1),
         NEW v \in Nat, Store(<<v>>, t)
  PROVE  /\ t.ok = TRUE /\ k \in 0 .. VideoSize - 1 /\ VideoBase + k \in PAddr
         /\ \A x \in PAddr : hw_mem'[x] = IF x = VideoBase + k THEN v ELSE hw_mem[x]
         /\ \A x \in PAddr : Page(x) >= KMemPages => hw_mem'[x] = hw_mem[x]
<1>1. t.ok = TRUE /\ t.at[1] = VideoBase + k /\ k \in 0 .. VideoSize - 1 /\ VideoBase + k \in PAddr
  BY VideoTouch
<1>2. \A x \in PAddr : hw_mem'[x] = IF x = VideoBase + k THEN v ELSE hw_mem[x]
  <2>1. TypeOK
    BY DEF IInv
  <2>2. \A x \in PAddr : hw_mem'[x] = IF x = t.at[1] THEN v ELSE hw_mem[x]
    BY <1>1, <2>1, StoreByte
  <2>. QED
    BY <1>1, <2>2
<1>3. Page(VideoBase + k) \in VmemPages /\ \A p \in VmemPages : ~(p >= KMemPages)
  BY <1>1, VideoPlace, Sizes
<1>. QED
  BY <1>1, <1>2, <1>3

\* The test data is not the program's to see.
LEMMA WriteTestMemory ==
  ASSUME IInv, MemoryInv, WriteTest
  PROVE  MemoryInv' /\ UNCHANGED <<Memory, Break, reply>>
<1>1. PICK t \in Translate(VideoBase + k, 1) :
        Store(<<TestByte(k)>>, t) /\ VideoLoop("write_test", "load", t.ok)
  BY DEF WriteTest
<1>2. TestByte(k) \in Nat
  BY DEF IInv, TypeOK, TestByte
<1>3. t.ok = TRUE /\ \A x \in PAddr : Page(x) >= KMemPages => hw_mem'[x] = hw_mem[x]
  BY <1>1, <1>2, VideoStore DEF WriteTest
<1>4. /\ pc = "write_test" /\ pc' \in {"write_test", "load"} /\ caller = "loader"
      /\ UNCHANGED <<dir, table, nr_frame, caller, seg, first, brk, reply>>
  BY <1>1, <1>3 DEF WriteTest, VideoLoop, tables, IInv, PhaseInv
<1>5. \A p : UserWalk(p)' = UserWalk(p)
  BY <1>4, TablesKept
<1>6. \A a \in UserAddr : Copied(a)' = Copied(a)
  BY <1>4 DEF Copied
<1>7. ~Running /\ ~Running' /\ ClearInv'
  BY <1>4 DEF Running, ClearInv
<1>. QED
  BY <1>3, <1>4, <1>5, <1>6, <1>7, MemoryKept DEF MemoryInv

\* With the last byte of the video memory cleared the program finds its image.
LEMMA ProgramStarts ==
  ASSUME IInv, MemoryInv, pc = "clear",
         \A i \in 0 .. VideoSize - 1 : hw_mem'[VideoBase + i] = 0,
         \A x \in PAddr : Page(x) >= KMemPages => hw_mem'[x] = hw_mem[x],
         UNCHANGED <<dir, table, brk>>, pc' = "user"
  PROVE  UNCHANGED <<Memory, Break>>
<1>1. /\ caller = "stack" /\ seg = Len(Segments) + 1 /\ ~Running /\ Running' /\ brk = End - 1
  BY DEF IInv, PhaseInv, BrkInv, Running
<1>2. \A p : UserWalk(p)' = UserWalk(p)
  BY TablesKept
<1>3. ASSUME NEW a \in UserAddr  PROVE SeenAt(a)' = Loaded(a)
  <2>1. Page(a) \in UserPage /\ Page(a) \in Nat
    BY UserPages, PageOf
  <2>2. SeenAt(a)' = IF UserWalk(Page(a)) = Absent THEN 0 ELSE hw_mem'[PAddrOf(UserWalk(Page(a)), a)]
    BY <1>2 DEF SeenAt, PAddrOf
  <2>3. a \in ImageBytes => Copied(a) /\ UserWalk(Page(a)) # Absent /\ Page(a) >= NR_PTE
    <3>1. SUFFICES ASSUME a \in ImageBytes
                   PROVE  Copied(a) /\ UserWalk(Page(a)) # Absent /\ Page(a) >= NR_PTE
      OBVIOUS
    <3>2. PICK s \in DOMAIN Segments : a \in SegmentBytes(s)
      BY <3>1, ImagePlace
    <3>3. s < seg
      BY <1>1, LastSegment
    <3>4. Page(a) >= NR_PTE
      <4>1. a \in Nat /\ a < KOFFSET /\ Segments[1].vaddr <= a
        BY <3>1, ImagePlace, LastSegment, Sizes
      <4>2. Page(a) \in NR_PTE .. KPage - 1
        BY <4>1, HighPages
      <4>. QED
        BY <4>2, Sizes
    <3>. QED
      BY <3>2, <3>3, <3>4 DEF Copied, IInv, MappedInv
  <2>4. CASE UserWalk(Page(a)) = Absent
    BY <2>2, <2>3, <2>4, LoadedZero
  <2>5. CASE UserWalk(Page(a)) # Absent /\ Page(a) < NR_PTE
    <3>1. Page(a) \in VmemPages /\ PAddrOf(UserWalk(Page(a)), a) = a
      BY <2>5, BytePlace
    <3>2. hw_mem'[a] = 0
      BY <3>1, VideoByte
    <3>3. a \notin ImageBytes
      BY <2>1, <2>3, <2>5, Sizes
    <3>. QED
      BY <2>2, <2>5, <3>1, <3>2, <3>3, LoadedZero
  <2>6. CASE UserWalk(Page(a)) # Absent /\ Page(a) >= NR_PTE
    <3>. DEFINE x == PAddrOf(UserWalk(Page(a)), a)
    <3>1. x \in PAddr /\ Page(x) >= KMemPages
      BY <2>6, BytePlace, Sizes
    <3>2. hw_mem[x] = Content(a)
      BY <2>6, <1>1 DEF MemoryInv, ImageInv
    <3>3. Content(a) = Loaded(a)
      <4>1. CASE a \in ImageBytes
        BY <4>1, <2>3 DEF Content
      <4>2. CASE a \notin ImageBytes
        BY <4>2, LoadedZero DEF Content
      <4>. QED
        BY <4>1, <4>2
    <3>. QED
      BY <2>2, <2>6, <3>1, <3>2, <3>3
  <2>. QED
    BY <2>1, <2>4, <2>5, <2>6, Sizes
<1>. QED
  BY <1>1, <1>3 DEF Memory, Break

\* The last byte cleared is the one that makes the program's memory appear.
LEMMA ClearMemory ==
  ASSUME IInv, MemoryInv, ClearVideo
  PROVE  MemoryInv' /\ UNCHANGED <<Memory, Break, reply>>
<1>1. PICK t \in Translate(VideoBase + k, 1) : Store(<<0>>, t) /\ VideoLoop("clear", "user", t.ok)
  BY DEF ClearVideo
<1>2. /\ t.ok = TRUE /\ k \in 0 .. VideoSize - 1 /\ VideoBase + k \in PAddr
      /\ \A x \in PAddr : hw_mem'[x] = IF x = VideoBase + k THEN 0 ELSE hw_mem[x]
      /\ \A x \in PAddr : Page(x) >= KMemPages => hw_mem'[x] = hw_mem[x]
  BY <1>1, VideoStore DEF ClearVideo
<1>3. /\ pc = "clear" /\ caller = "stack"
      /\ pc' = IF k + 1 = VideoSize THEN "user" ELSE "clear"
      /\ k' = (k + 1) % VideoSize
      /\ UNCHANGED <<dir, table, nr_frame, caller, seg, first, brk, reply>>
  BY <1>1, <1>2 DEF ClearVideo, VideoLoop, tables, IInv, PhaseInv
<1>4. ASSUME NEW i \in 0 .. k  PROVE hw_mem'[VideoBase + i] = 0
  <2>1. VideoBase + i \in PAddr /\ VideoBase \in Nat
    BY <1>2, VideoPlace, Sizes DEF PAddr
  <2>2. CASE i = k
    BY <2>1, <2>2, <1>2
  <2>3. CASE i # k
    <3>1. i \in 0 .. k - 1
      BY <2>3, <1>2
    <3>2. hw_mem[VideoBase + i] = 0
      BY <3>1, <1>3 DEF MemoryInv, ClearInv
    <3>3. VideoBase + i # VideoBase + k
      BY <3>1, <2>1, <1>2
    <3>. QED
      BY <2>1, <3>2, <3>3, <1>2
  <2>. QED
    BY <2>2, <2>3
<1>5. \A p : UserWalk(p)' = UserWalk(p)
  BY <1>3, TablesKept
<1>6. \A a \in UserAddr : Copied(a)' = Copied(a)
  BY <1>3 DEF Copied
<1>7. CASE k + 1 = VideoSize
  <2>1. pc' = "user" /\ Running'
    BY <1>3, <1>7 DEF Running
  <2>2. \A i \in 0 .. VideoSize - 1 : hw_mem'[VideoBase + i] = 0
    BY <1>2, <1>4, <1>7
  <2>3. UNCHANGED <<Memory, Break>>
    BY <2>1, <2>2, <1>2, <1>3, ProgramStarts
  <2>4. FreshInv'
    <3>1. \A x \in PAddr : Page(x) >= nr_frame => Page(x) >= KMemPages
      <4>1. \A x \in PAddr : Page(x) \in Nat
        <5>1. \A x \in PAddr : x \in Nat
          BY Sizes DEF PAddr
        <5>. QED
          BY <5>1, PageOf
      <4>. QED
        BY <4>1, Sizes DEF IInv, TypeOK
    <3>. QED
      BY <3>1, <1>2, <1>3 DEF MemoryInv, FreshInv
  <2>. QED
    BY <2>1, <2>3, <2>4, <1>3 DEF MemoryInv, ImageInv, ClearInv, ReplyInv
<1>8. CASE k + 1 # VideoSize
  <2>1. ~Running /\ ~Running' /\ pc' = "clear"
    BY <1>3, <1>8 DEF Running
  <2>2. k' = k + 1
    <3>1. k + 1 \in 0 .. VideoSize - 1 /\ VideoSize \in Nat \ {0}
      BY <1>2, <1>8, VideoPlace
    <3>2. (k + 1) % VideoSize = k + 1
      BY <3>1
    <3>. QED
      BY <3>2, <1>3
  <2>3. \A i \in 0 .. k' - 1 : i \in 0 .. k
    BY <2>2, <1>2
  <2>4. ClearInv'
    BY <2>3, <1>4 DEF ClearInv, VideoBase
  <2>. QED
    BY <2>1, <2>4, <1>2, <1>3, <1>5, <1>6, MemoryKept DEF MemoryInv
<1>. QED
  BY <1>7, <1>8

\* A step in which only the kernel's place in its loops and the TLB change.
LEMMA PlaceMoves ==
  ASSUME IInv, MemoryInv, ~Running, ~Running', UNCHANGED <<dir, table, nr_frame, hw_mem, reply>>,
         \A a \in UserAddr : Copied(a)' = Copied(a)
  PROVE  FreshInv' /\ ImageInv' /\ ReplyInv' /\ UNCHANGED <<Memory, Break, reply>>
<1>1. \A p : UserWalk(p)' = UserWalk(p)
  BY TablesKept
<1>. QED
  BY <1>1, MemoryKept

\* A step that changes nothing but the TLB.
LEMMA StateKept ==
  ASSUME IInv, MemoryInv,
         UNCHANGED <<dir, table, nr_frame, hw_mem, pc, caller, seg, first, k, brk, reply>>
  PROVE  MemoryInv' /\ UNCHANGED <<Memory, Break, reply>>
<1>1. \A p : UserWalk(p)' = UserWalk(p)
  BY TablesKept
<1>2. Running' = Running
  BY DEF Running
<1>3. \A a : SeenAt(a)' = SeenAt(a) /\ Content(a)' = Content(a)
  BY <1>1 DEF SeenAt, PAddrOf, Content, Copied
<1>4. FreshInv' /\ ClearInv' /\ ReplyInv'
  BY <1>2 DEF MemoryInv, FreshInv, ClearInv, ReplyInv, VideoBase
<1>5. ImageInv'
  BY <1>1, <1>2, <1>3 DEF MemoryInv, ImageInv, PAddrOf
<1>. QED
  BY <1>2, <1>3, <1>4, <1>5 DEF MemoryInv, Memory, Break

\* Before the process directory has a page of the program's, nothing is seen.
LEMMA DirectoriesMemory ==
  ASSUME IInv, MemoryInv, InitPage \/ InitMm
  PROVE  MemoryInv' /\ UNCHANGED <<Memory, Break, reply>>
<1>1. /\ pc \in {"init_page", "init_mm"} /\ pc' \in {"init_mm", "write_test"} /\ caller = "loader"
      /\ UNCHANGED <<nr_frame, hw_mem, caller, seg, first, brk, reply>>
  BY DEF InitPage, InitMm, loop, IInv, PhaseInv
<1>2. \A d \in Dir : dir["updir"][d] = Absent
  BY <1>1, Empty
<1>3. dir \in [{"kpdir", "updir"} -> [Dir -> Table \union {Absent}]]
  BY DEF IInv, TypeOK
<1>4. ASSUME NEW d \in Dir, d < KDir  PROVE dir'["updir"][d] = Absent
  <2>1. CASE InitPage
    <3>1. dir'["updir"] = dir["updir"]
      BY <2>1, <1>3 DEF InitPage
    <3>. QED
      BY <3>1, <1>2
  <2>2. CASE InitMm
    <3>1. dir'["updir"] = [i \in Dir |-> IF i >= KDir THEN dir["kpdir"][i] ELSE Absent]
      BY <2>2, <1>3 DEF InitMm
    <3>2. ~(d >= KDir)
      BY <1>4, Sizes DEF Dir
    <3>. QED
      BY <3>1, <3>2
  <2>. QED
    BY <2>1, <2>2
<1>5. ASSUME NEW p \in UserPage  PROVE UserWalk(p)' = UserWalk(p)
  <2>1. p \in LPage /\ p < KPage
    BY Pages, Sizes DEF UserPage
  <2>2. p \div NR_PTE \in Dir /\ p \div NR_PTE < KDir
    BY <2>1, PagePlace
  <2>. HIDE DEF KTable
  <2>3. dir["updir"][p \div NR_PTE] = Absent /\ dir'["updir"][p \div NR_PTE] = Absent
    BY <2>2, <1>2, <1>4
  <2>. QED
    BY <2>3 DEF UserWalk, Walk
<1>6. \A a \in UserAddr : Copied(a)' = Copied(a)
  BY <1>1 DEF Copied
<1>7. ~Running /\ ~Running' /\ ClearInv'
  BY <1>1 DEF Running, ClearInv
<1>. QED
  BY <1>1, <1>5, <1>6, <1>7, MemoryKept DEF MemoryInv

\* The loader's steps from one segment to the next, and to the stack.
LEMMA LoaderMemory ==
  ASSUME IInv, MemoryInv, LoadSegment \/ SegmentLoaded \/ MapStack
  PROVE  MemoryInv' /\ UNCHANGED <<Memory, Break, reply>>
<1>1. /\ pc \in {"load", "copy"} /\ pc' \in {"malloc", "load"} /\ caller = "loader"
      /\ caller' \in {"loader", "stack"} /\ UNCHANGED <<dir, table, nr_frame, hw_mem, reply>>
  BY DEF LoadSegment, SegmentLoaded, MapStack, Malloc, tables, IInv, PhaseInv
<1>2. ASSUME NEW a \in UserAddr  PROVE Copied(a)' <=> Copied(a)
  <2>1. CASE LoadSegment \/ MapStack
    BY <2>1 DEF LoadSegment, MapStack, Malloc, Copied
  <2>2. CASE SegmentLoaded
    <3>1. /\ pc = "copy" /\ pc' = "load" /\ seg' = seg + 1 /\ seg \in DOMAIN Segments /\ seg \in Nat
          /\ first = Segments[seg].vaddr /\ k = Segments[seg].memsz
      BY <1>1, <2>2, LastSegment DEF SegmentLoaded, IInv, MallocInv
    <3>2. a \in first .. first + k - 1 <=> a \in SegmentBytes(seg)
      BY <3>1 DEF SegmentBytes
    <3>3. \A s \in DOMAIN Segments : s < seg' <=> s < seg \/ s = seg
      BY <3>1, LastSegment
    <3>. QED
      BY <3>1, <3>2, <3>3 DEF Copied
  <2>. QED
    BY <2>1, <2>2
<1>3. ~Running /\ ~Running' /\ ClearInv'
  BY <1>1 DEF Running, ClearInv
<1>4. \A a \in UserAddr : Copied(a)' = Copied(a)
  BY <1>2 DEF Copied
<1>. QED
  BY <1>1, <1>3, <1>4, PlaceMoves DEF MemoryInv

\* The steps from the mapped stack to the program's directory.
LEMMA SwitchMemory ==
  ASSUME IInv, MemoryInv, CreateVideoMapping \/ WriteCr3 \/ ReadTest
  PROVE  MemoryInv' /\ UNCHANGED <<Memory, Break, reply>>
<1>1. /\ pc \in {"video", "write_cr3", "read_test"} /\ caller = "stack"
      /\ UNCHANGED <<nr_frame, hw_mem, caller, seg, first, brk, reply>>
  BY DEF CreateVideoMapping, WriteCr3, ReadTest, VideoLoop, tables, loop, IInv, PhaseInv
<1>2. CASE CreateVideoMapping \/ WriteCr3
  <2>1. pc' \in {"write_cr3", "read_test"}
    BY <1>2 DEF CreateVideoMapping, WriteCr3
  <2>2. \A p \in UserPage : p >= NR_PTE => UserWalk(p)' = UserWalk(p)
    <3>1. CASE CreateVideoMapping
      BY <3>1, VideoMapped, Pages
    <3>2. CASE WriteCr3
      BY <3>2, TablesKept DEF WriteCr3, tables
    <3>. QED
      BY <1>2, <3>1, <3>2
  <2>3. \A a \in UserAddr : Copied(a)' = Copied(a)
    BY <1>1, <2>1 DEF Copied
  <2>4. ~Running /\ ~Running' /\ ClearInv'
    BY <1>1, <2>1 DEF Running, ClearInv
  <2>. QED
    BY <1>1, <2>2, <2>3, <2>4, MemoryKept DEF MemoryInv
<1>3. CASE ReadTest
  <2>1. PICK t \in Translate(VideoBase + k, 1) :
          VideoLoop("read_test", "clear", t.ok /\ hw_mem[t.at[1]] = TestByte(k))
    BY <1>3 DEF ReadTest
  <2>2. pc = "read_test" /\ t.ok = TRUE /\ t.at[1] = VideoBase + k /\ k \in 0 .. VideoSize - 1
    BY <1>3, <2>1, VideoTouch DEF ReadTest
  <2>3. hw_mem[t.at[1]] = TestByte(k)
    BY <2>2 DEF IInv, TestInv
  <2>4. /\ pc' = IF k + 1 = VideoSize THEN "clear" ELSE "read_test"
        /\ k' = (k + 1) % VideoSize /\ UNCHANGED <<dir, table>>
    BY <2>1, <2>2, <2>3 DEF VideoLoop, tables
  <2>5. \A a \in UserAddr : Copied(a)' = Copied(a)
    BY <1>1, <2>2, <2>4 DEF Copied
  <2>6. ~Running /\ ~Running'
    BY <1>1, <2>4 DEF Running
  <2>7. ClearInv'
    <3>1. pc' = "clear" => k' = 0
      <4>1. VideoSize \in Nat \ {0}
        BY VideoPlace
      <4>2. VideoSize % VideoSize = 0
        BY <4>1
      <4>. QED
        BY <4>2, <2>4
    <3>2. 0 .. 0 - 1 = {}
      OBVIOUS
    <3>. QED
      BY <3>1, <3>2 DEF ClearInv
  <2>. QED
    BY <1>1, <2>4, <2>5, <2>6, <2>7, PlaceMoves DEF MemoryInv
<1>. QED
  BY <1>2, <1>3

\* mm_malloc returns to the loader.
LEMMA LoaderReturn ==
  ASSUME IInv, MemoryInv, MallocReturn, caller # "brk"
  PROVE  MemoryInv' /\ UNCHANGED <<Memory, Break, reply>>
<1>1. /\ pc = "malloc" /\ pc' \in {"copy", "video"} /\ (pc' = "copy" => caller = "loader")
      /\ reply' = <<>>
      /\ UNCHANGED <<dir, table, nr_frame, hw_mem, caller, seg, first, k, brk>>
  BY DEF MallocReturn, tables, loop, IInv, TypeOK
<1>2. ~Running /\ ~Running' /\ ClearInv'
  BY <1>1 DEF Running, ClearInv
<1>3. UNCHANGED reply
  BY <1>1, <1>2 DEF MemoryInv, ReplyInv
<1>4. \A a \in UserAddr : Copied(a)' = Copied(a)
  <2>1. pc' = "copy" => k = 0 /\ first \in Nat /\ first .. first + k - 1 = {}
    BY <1>1, MallocAsk DEF IInv, MallocInv
  <2>. QED
    BY <1>1, <2>1 DEF Copied
<1>. QED
  BY <1>1, <1>2, <1>3, <1>4, PlaceMoves DEF MemoryInv

\* The words of the promise mean what they mean here.
LEMMA SameWords ==
  /\ Promise!UserAddr = UserAddr /\ Promise!End = End
  /\ \A b : Promise!Given(b) = Given(b)
  /\ \A a : Promise!Loaded(a) = Loaded(a)
<1>1. Promise!UserAddr = UserAddr
  BY DEF Promise!UserAddr, UserAddr, Promise!KOFFSET, KOFFSET, Promise!KPage, KPage
<1>2. \A s : Promise!SegmentBytes(s) = SegmentBytes(s)
  BY DEF Promise!SegmentBytes, SegmentBytes
<1>3. Promise!ImageBytes = ImageBytes
  BY <1>2 DEF Promise!ImageBytes, ImageBytes
<1>4. Promise!End = End
  BY DEF Promise!End, End
<1>5. \A b : Promise!Given(b) = Given(b)
  BY <1>3, <1>4 DEF Promise!Given, Given, Promise!StackBytes, StackBytes, Promise!VideoBytes, VideoBytes,
     Promise!BytesOf, BytesOf, Promise!KOFFSET, KOFFSET, Promise!KPage, KPage
<1>6. ASSUME NEW a  PROVE Promise!Loaded(a) = Loaded(a)
  BY DEF Promise!Loaded, Loaded, Promise!ImageBytes, ImageBytes, Promise!SegmentBytes, SegmentBytes,
         Promise!SegmentByte, SegmentByte
<1>. QED
  BY <1>1, <1>4, <1>5, <1>6

\* A load of the program delivers what the promise says.
LEMMA ReadMemory ==
  ASSUME IInv, IInv', MemoryInv, NEW a \in Starts, NEW len \in Lens, UserRead(a, len)
  PROVE  MemoryInv' /\ Promise!Read(a, len)
<1>1. PICK t \in Translate(a, len) :
        /\ reply' = IF t.ok THEN [i \in 1 .. len |-> hw_mem[t.at[i]]] ELSE reply
        /\ pc' = IF t.ok THEN pc ELSE "panic"
  BY DEF UserRead
<1>2. /\ pc = "user" /\ a .. a + len - 1 \subseteq Given(brk)
      /\ UNCHANGED <<dir, table, nr_frame, hw_mem, caller, brk>>
  BY DEF UserRead, tables, loop
<1>3. /\ t.ok = TRUE /\ len \in Nat /\ a \in Nat
      /\ \A i \in 1 .. len : /\ t.at[i] \in PAddr
                             /\ t.at[i] = PAddrOf(UserWalk(Page(a + i - 1)), a + i - 1)
                             /\ a + i - 1 \in UserAddr /\ UserWalk(Page(a + i - 1)) # Absent
  BY <1>2, UserTouch
<1>4. Running /\ Running' /\ pc' = pc
  BY <1>1, <1>2, <1>3 DEF Running
<1>5. \A p : UserWalk(p)' = UserWalk(p)
  BY <1>2, TablesKept
<1>6. MemoryInv' /\ UNCHANGED Memory
  BY <1>2, <1>4, <1>5, RunningKept
<1>7. UNCHANGED Break
  BY <1>2, <1>4 DEF Break
<1>8. reply' = [i \in 1 .. len |-> Memory[a + i - 1]]
  <2>1. \A i \in 1 .. len : hw_mem[t.at[i]] = Memory[a + i - 1]
    BY <1>3, <1>4 DEF Memory, SeenAt
  <2>. QED
    BY <1>1, <1>3, <2>1
<1>9. a .. a + len - 1 \subseteq Promise!Given(Break)
  BY <1>2, <1>4, SameWords DEF Break
<1>. QED
  BY <1>6, <1>7, <1>8, <1>9 DEF Promise!Read, Promise!Range, Memory, Break

\* A store of the program changes the bytes it is meant for and no others.
LEMMA WriteMemory ==
  ASSUME IInv, IInv', MemoryInv, NEW a \in Starts, NEW len \in Lens, NEW data \in [1 .. len -> Byte],
         UserWrite(a, data)
  PROVE  MemoryInv' /\ Promise!Write(a, data)
<1>1. Len(data) = len /\ DOMAIN data = 1 .. len /\ \A i \in 1 .. len : data[i] \in Byte
  <2>1. len \in Nat
    BY LayoutAssumption
  <2>. QED
    BY <2>1
<1>2. PICK t \in Translate(a, len) : Store(data, t) /\ pc' = IF t.ok THEN pc ELSE "panic"
  BY <1>1 DEF UserWrite
<1>3. /\ pc = "user" /\ a .. a + len - 1 \subseteq Given(brk) /\ reply' = <<>>
      /\ UNCHANGED <<dir, table, nr_frame, caller, brk>>
  BY <1>1 DEF UserWrite, tables, loop
<1>4. /\ t.ok = TRUE /\ len \in Nat /\ a \in Nat
      /\ \A i \in 1 .. len : /\ t.at[i] \in PAddr
                             /\ t.at[i] = PAddrOf(UserWalk(Page(a + i - 1)), a + i - 1)
                             /\ a + i - 1 \in UserAddr /\ UserWalk(Page(a + i - 1)) # Absent
  BY <1>3, UserTouch
<1>5. Running /\ Running' /\ pc' = pc
  BY <1>2, <1>3, <1>4 DEF Running
<1>6. \A p : UserWalk(p)' = UserWalk(p)
  BY <1>3, TablesKept
<1>7. hw_mem' = [x \in PAddr |->
                   IF \E i \in 1 .. len : t.at[i] = x
                   THEN data[CHOOSE i \in 1 .. len : t.at[i] = x] ELSE hw_mem[x]]
  BY <1>1, <1>2, <1>4 DEF Store
\* The stored bytes are in the order of their addresses.
<1>8. ASSUME NEW x \in UserAddr, UserWalk(Page(x)) # Absent
      PROVE  hw_mem'[PAddrOf(UserWalk(Page(x)), x)] =
               IF x \in a .. a + len - 1 THEN data[x - a + 1] ELSE hw_mem[PAddrOf(UserWalk(Page(x)), x)]
  <2>. DEFINE y == PAddrOf(UserWalk(Page(x)), x)
  <2>1. y \in PAddr /\ x \in Nat
    BY <1>8, BytePlace, UserPages
  <2>2. ASSUME NEW i \in 1 .. len  PROVE t.at[i] = y <=> i = x - a + 1
    <3>1. t.at[i] = y => a + i - 1 = x
      BY <1>4, <1>8, BytesDiffer
    <3>2. a + i - 1 = x <=> i = x - a + 1
      BY <1>4, <2>1
    <3>3. a + i - 1 = x => t.at[i] = y
      BY <1>4
    <3>. QED
      BY <3>1, <3>2, <3>3
  <2>3. x \in a .. a + len - 1 <=> x - a + 1 \in 1 .. len
    BY <1>4, <2>1
  <2>. HIDE DEF y
  <2>4. CASE x \in a .. a + len - 1
    <3>1. \E i \in 1 .. len : t.at[i] = y
      BY <2>2, <2>3, <2>4
    <3>2. (CHOOSE i \in 1 .. len : t.at[i] = y) = x - a + 1
      BY <3>1, <2>2
    <3>3. hw_mem'[y] = data[CHOOSE i \in 1 .. len : t.at[i] = y]
      BY <3>1, <2>1, <1>7
    <3>. QED
      BY <3>2, <3>3, <2>4 DEF y
  <2>5. CASE x \notin a .. a + len - 1
    <3>1. ~\E i \in 1 .. len : t.at[i] = y
      BY <2>2, <2>3, <2>5
    <3>2. hw_mem'[y] = hw_mem[y]
      BY <3>1, <2>1, <1>7
    <3>. QED
      BY <3>2, <2>5 DEF y
  <2>. QED
    BY <2>4, <2>5
<1>9. FreshInv'
  <2>1. ASSUME NEW i \in 1 .. len  PROVE ~(Page(t.at[i]) >= nr_frame)
    <3>. DEFINE x == a + i - 1
                f == UserWalk(Page(x))
    <3>1. /\ Page(t.at[i]) = f /\ f \in Nat
          /\ Page(x) < NR_PTE => f = Page(x) /\ Page(x) \in VmemPages
          /\ Page(x) >= NR_PTE => f \in KMemPages .. nr_frame - 1
      BY <1>4, BytePlace
    <3>2. Page(x) \in Nat
      BY <1>4, UserPages, PageOf
    <3>3. \A p \in VmemPages : p < KMemPages /\ p \in Nat
      BY VideoPlace, Sizes
    <3>4. nr_frame \in Nat /\ KMemPages <= nr_frame
      BY Sizes DEF IInv, TypeOK
    <3>. HIDE DEF x, f
    <3>. QED
      BY <3>1, <3>2, <3>3, <3>4, Sizes
  <2>2. ASSUME NEW x \in PAddr, Page(x) >= nr_frame  PROVE hw_mem'[x] = 0
    <3>1. ~\E i \in 1 .. len : t.at[i] = x
      BY <2>1, <2>2
    <3>2. hw_mem[x] = 0
      BY <2>2 DEF MemoryInv, FreshInv
    <3>. QED
      BY <3>1, <3>2, <1>7
  <2>. QED
    BY <2>2, <1>3 DEF FreshInv
<1>10. MemoryInv'
  BY <1>3, <1>5, <1>9 DEF MemoryInv, ImageInv, ClearInv, ReplyInv
<1>11. ASSUME NEW x \in UserAddr
       PROVE  SeenAt(x)' = IF x \in a .. a + len - 1 THEN data[x - a + 1] ELSE SeenAt(x)
  <2>1. UserWalk(Page(x))' = UserWalk(Page(x))
    BY <1>6
  <2>2. CASE UserWalk(Page(x)) # Absent
    BY <2>1, <2>2, <1>8 DEF SeenAt, PAddrOf
  <2>3. CASE UserWalk(Page(x)) = Absent
    <3>1. x \notin a .. a + len - 1
      <4>1. x \in a .. a + len - 1 => x - a + 1 \in 1 .. len /\ a + (x - a + 1) - 1 = x
        BY <1>4, UserPages
      <4>. QED
        BY <4>1, <2>3, <1>4
    <3>. QED
      BY <3>1, <2>1, <2>3 DEF SeenAt
  <2>. QED
    BY <2>2, <2>3
<1>12. Memory' = [x \in UserAddr |-> IF x \in a .. a + len - 1 THEN data[x - a + 1] ELSE Memory[x]]
  BY <1>5, <1>11 DEF Memory
<1>13. UNCHANGED Break
  BY <1>3, <1>5 DEF Break
<1>14. a .. a + len - 1 \subseteq Promise!Given(Break)
  BY <1>3, <1>5, SameWords DEF Break
<1>. QED
  BY <1>1, <1>3, <1>10, <1>12, <1>13, <1>14, SameWords DEF Promise!Write, Promise!Range, Memory, Break

\* brk(): backwards at once, forwards when mm_malloc returns.
LEMMA BrkMemory ==
  ASSUME IInv, IInv', MemoryInv, NEW b \in Brks, UserBrk(b)
  PROVE  MemoryInv' /\ (Promise!Brk(b) \/ UNCHANGED <<Memory, Break, reply>>)
<1>1. pc = "user" /\ UNCHANGED <<dir, table, nr_frame, hw_mem>>
  BY DEF UserBrk, tables
<1>2. Running /\ Running'
  BY <1>1 DEF UserBrk, Malloc, Running
<1>3. \A p : UserWalk(p)' = UserWalk(p)
  BY <1>1, TablesKept
<1>4. MemoryInv' /\ UNCHANGED Memory
  BY <1>1, <1>2, <1>3, RunningKept
<1>5. CASE b > brk
  BY <1>2, <1>4, <1>5 DEF UserBrk, Break
<1>6. CASE ~(b > brk)
  <2>1. Break' = b /\ reply' = <<>>
    BY <1>2, <1>6 DEF UserBrk, Break
  <2>. QED
    BY <1>4, <2>1 DEF Promise!Brk, Memory, Break
<1>. QED
  BY <1>4, <1>5, <1>6

\* What mm_brk added is the program's when mm_malloc returns.
LEMMA BrkReturn ==
  ASSUME IInv, IInv', MemoryInv, MallocReturn, caller = "brk"
  PROVE  MemoryInv' /\ new_brk \in Brks /\ Promise!Brk(new_brk)
<1>1. /\ pc = "malloc" /\ pc' = "user" /\ brk' = new_brk /\ reply' = <<>>
      /\ UNCHANGED <<dir, table, nr_frame, hw_mem>>
  BY DEF MallocReturn, tables
<1>2. Running /\ Running'
  BY <1>1 DEF Running
<1>3. \A p : UserWalk(p)' = UserWalk(p)
  BY <1>1, TablesKept
<1>4. MemoryInv' /\ UNCHANGED Memory
  BY <1>1, <1>2, <1>3, RunningKept
<1>5. new_brk \in Brks
  BY <1>1 DEF IInv, MallocInv
<1>6. Break' = new_brk
  BY <1>1, <1>2 DEF Break
<1>. QED
  BY <1>1, <1>4, <1>5, <1>6 DEF Promise!Brk, Memory, Break

\* It begins with the image.
LEMMA MemoryInit ==
  ASSUME Init
  PROVE  MemoryInv /\ Promise!Init
<1>1. pc = "init_page" /\ caller = "loader" /\ reply = <<>> /\ hw_mem = [a \in PAddr |-> 0]
      /\ ~Running
  BY DEF Init, Running
<1>2. ASSUME NEW a \in UserAddr  PROVE UserWalk(Page(a)) = Absent
  <2>1. Page(a) \in LPage
    BY ProgramPages
  <2>2. Page(a) \div NR_PTE \in Dir
    BY <2>1, PagePlace
  <2>. QED
    BY <2>2 DEF Init, UserWalk, Walk
<1>3. MemoryInv
  BY <1>1, <1>2 DEF MemoryInv, FreshInv, ImageInv, ClearInv, ReplyInv
<1>. QED
  BY <1>1, <1>3, SameWords DEF Promise!Init

\* Every step is one of the promise or cannot be seen.
LEMMA MemoryStep ==
  ASSUME IInv, IInv', MemoryInv, [Next]_vars
  PROVE  MemoryInv' /\ (Promise!Next \/ UNCHANGED <<Memory, Break, reply>>)
<1>1. CASE InitPage \/ InitMm
  BY <1>1, DirectoriesMemory
<1>2. CASE LoadSegment \/ SegmentLoaded \/ MapStack
  BY <1>2, LoaderMemory
<1>3. CASE CreateVideoMapping \/ WriteCr3 \/ ReadTest
  BY <1>3, SwitchMemory
<1>4. CASE WriteTest
  BY <1>4, WriteTestMemory
<1>5. CASE CopyByte
  BY <1>5, CopyMemory
<1>6. CASE ClearVideo
  BY <1>6, ClearMemory
<1>7. CASE MallocPage
  BY <1>7, MallocMemory
<1>8. CASE MallocReturn
  <2>1. CASE caller = "brk"
    BY <1>8, <2>1, BrkReturn DEF Promise!Next
  <2>. QED
    BY <1>8, <2>1, LoaderReturn
<1>9. ASSUME NEW a \in Starts, NEW len \in Lens, UserRead(a, len)
      PROVE  MemoryInv' /\ Promise!Next
  BY <1>9, ReadMemory DEF Promise!Next
<1>10. ASSUME NEW a \in Starts, NEW len \in Lens, NEW data \in [1 .. len -> Byte], UserWrite(a, data)
       PROVE  MemoryInv' /\ Promise!Next
  BY <1>10, WriteMemory DEF Promise!Next
<1>11. ASSUME NEW b \in Brks, UserBrk(b)
       PROVE  MemoryInv' /\ (Promise!Next \/ UNCHANGED <<Memory, Break, reply>>)
  BY <1>11, BrkMemory DEF Promise!Next
<1>12. ASSUME NEW p \in LPage, KernelTouch(p)
       PROVE  MemoryInv' /\ UNCHANGED <<Memory, Break, reply>>
  <2>1. UNCHANGED <<dir, table, nr_frame, hw_mem, pc, caller, seg, first, k, brk, reply>>
    BY <1>12, KernelTouchFinds
  <2>. QED
    BY <2>1, StateKept
<1>13. CASE UNCHANGED vars
  <2>1. UNCHANGED <<dir, table, nr_frame, hw_mem, pc, caller, seg, first, k, brk, reply>>
    BY <1>13 DEF vars, tables, loop
  <2>. QED
    BY <2>1, StateKept
<1>. QED
  BY <1>1, <1>2, <1>3, <1>4, <1>5, <1>6, <1>7, <1>8, <1>9, <1>10, <1>11, <1>12, <1>13
  DEF Next, Boot, Program

(* The kernel's page tables, its allocator and the MMU give every program  *)
(* the flat memory of UserMemory: its image, zero elsewhere, and what it   *)
(* wrote, whatever frames it got and whatever the TLB holds; brk() loses   *)
(* nothing (mm_malloc, loader, page_translate, tlb_query, mm_brk).         *)
THEOREM ProgramsOwnMemory == Spec => ImplementsUserMemory
<1>1. Init => IInv /\ MemoryInv /\ Promise!Init
  BY InitInvariant, MemoryInit
<1>2. IInv /\ MemoryInv /\ [Next]_vars =>
        IInv' /\ MemoryInv'
        /\ [Promise!Next]_<<[a \in UserAddr |-> IF Running THEN SeenAt(a) ELSE Loaded(a)],
                            IF Running THEN brk ELSE End - 1, reply>>
  <2>1. IInv /\ [Next]_vars => IInv'
    BY StepInvariant
  <2>. QED
    BY <2>1, MemoryStep DEF Memory, Break
<1>. QED
  BY <1>1, <1>2, PTL DEF Spec, ImplementsUserMemory, Promise!Spec
=============================================================================
