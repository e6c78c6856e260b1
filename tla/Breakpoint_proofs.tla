------------------------- MODULE Breakpoint_proofs -------------------------
(***************************************************************************)
(* The monitor for any size of the pool, any program and any commands: no  *)
(* entry of bp_list is lost or shared between its two lists, and a single  *)
(* breakpoint that is run into with "c" works.                             *)
(***************************************************************************)
EXTENDS Breakpoint, SequenceTheorems, WellFoundedInduction, TLAPS

Distinct(s) == \A i, j \in 1 .. Len(s) : s[i] = s[j] => i = j

PoolInv ==
  /\ head \in Seq(NO) /\ free_ \in Seq(NO)
  /\ Distinct(head) /\ Distinct(free_)
  /\ PoolPartitioned

----------------------------------------------------------------------------
(* Sequences without duplicates.                                           *)

LEMMA ListedConcat ==
  ASSUME NEW S, NEW s \in Seq(S), NEW t \in Seq(S)
  PROVE  Listed(s \o t) = Listed(s) \union Listed(t)
  <1> DEFINE u == s \o t
  <1>1. /\ Len(s) \in Nat /\ Len(t) \in Nat /\ Len(u) = Len(s) + Len(t)
        /\ \A i \in 1 .. Len(s) + Len(t) : u[i] = IF i <= Len(s) THEN s[i] ELSE t[i - Len(s)]
    BY ConcatProperties, LenProperties
  <1> HIDE DEF u
  <1>2. ASSUME NEW i \in 1 .. Len(s) PROVE s[i] \in Listed(u)
    <2>1. i \in 1 .. Len(u) /\ u[i] = s[i]
      BY <1>1
    <2> QED
      BY <2>1 DEF Listed
  <1>3. ASSUME NEW i \in 1 .. Len(t) PROVE t[i] \in Listed(u)
    <2>1. i + Len(s) \in 1 .. Len(u) /\ u[i + Len(s)] = t[i]
      BY <1>1
    <2> QED
      BY <2>1 DEF Listed
  <1>4. ASSUME NEW i \in 1 .. Len(u) PROVE u[i] \in Listed(s) \union Listed(t)
    <2>1. CASE i <= Len(s)
      BY <1>1, <2>1 DEF Listed
    <2>2. CASE i > Len(s)
      <3>1. i - Len(s) \in 1 .. Len(t) /\ u[i] = t[i - Len(s)]
        BY <1>1, <2>2
      <3> QED
        BY <3>1 DEF Listed
    <2> QED
      BY <1>1, <2>1, <2>2
  <1> QED
    BY <1>2, <1>3, <1>4 DEF Listed, u

LEMMA DistinctConcat ==
  ASSUME NEW S, NEW s \in Seq(S), NEW t \in Seq(S), Distinct(s), Distinct(t),
         Listed(s) \cap Listed(t) = {}
  PROVE  Distinct(s \o t)
  <1> DEFINE u == s \o t
  <1>1. /\ Len(s) \in Nat /\ Len(t) \in Nat /\ Len(u) = Len(s) + Len(t)
        /\ \A i \in 1 .. Len(s) + Len(t) : u[i] = IF i <= Len(s) THEN s[i] ELSE t[i - Len(s)]
    BY ConcatProperties, LenProperties
  <1> HIDE DEF u
  <1> SUFFICES ASSUME NEW i \in 1 .. Len(u), NEW j \in 1 .. Len(u), u[i] = u[j] PROVE i = j
    BY DEF Distinct, u
  <1>2. CASE i <= Len(s) /\ j <= Len(s)
    BY <1>1, <1>2 DEF Distinct
  <1>3. CASE i > Len(s) /\ j > Len(s)
    <2>1. /\ i - Len(s) \in 1 .. Len(t) /\ j - Len(s) \in 1 .. Len(t)
          /\ t[i - Len(s)] = t[j - Len(s)]
      BY <1>1, <1>3
    <2>2. i - Len(s) = j - Len(s)
      BY <2>1 DEF Distinct
    <2> QED
      BY <1>1, <2>2
  <1>4. ASSUME NEW k \in 1 .. Len(u), NEW m \in 1 .. Len(u), k <= Len(s), m > Len(s), u[k] = u[m]
        PROVE  FALSE
    <2>1. k \in 1 .. Len(s) /\ m - Len(s) \in 1 .. Len(t) /\ s[k] = t[m - Len(s)]
      BY <1>1, <1>4
    <2> QED
      BY <2>1 DEF Listed
  <1> QED
    BY <1>1, <1>2, <1>3, <1>4

LEMMA TailFacts ==
  ASSUME NEW S, NEW s \in Seq(S), s # <<>>, Distinct(s)
  PROVE  /\ Head(s) \in Listed(s) /\ Tail(s) \in Seq(S) /\ Len(Tail(s)) = Len(s) - 1
         /\ Distinct(Tail(s)) /\ Listed(Tail(s)) = Listed(s) \ {Head(s)}
  <1> DEFINE t == Tail(s)
  <1>1. /\ Len(s) \in Nat \ {0} /\ Head(s) = s[1] /\ t \in Seq(S) /\ Len(t) = Len(s) - 1
        /\ \A i \in 1 .. Len(t) : t[i] = s[i + 1]
    BY HeadTailProperties, EmptySeq
  <1> HIDE DEF t
  <1>2. Distinct(t)
    <2> SUFFICES ASSUME NEW i \in 1 .. Len(t), NEW j \in 1 .. Len(t), t[i] = t[j] PROVE i = j
      BY DEF Distinct
    <2>1. i + 1 \in 1 .. Len(s) /\ j + 1 \in 1 .. Len(s) /\ s[i + 1] = s[j + 1]
      BY <1>1
    <2>2. i + 1 = j + 1
      BY <2>1 DEF Distinct
    <2> QED
      BY <1>1, <2>2
  <1>3. ASSUME NEW i \in 1 .. Len(t) PROVE t[i] \in Listed(s) \ {s[1]}
    <2>1. i + 1 \in 1 .. Len(s) /\ 1 \in 1 .. Len(s) /\ i + 1 # 1 /\ t[i] = s[i + 1]
      BY <1>1
    <2> QED
      BY <2>1 DEF Listed, Distinct
  <1>4. ASSUME NEW i \in 1 .. Len(s), s[i] # s[1] PROVE s[i] \in Listed(t)
    <2>1. i - 1 \in 1 .. Len(t) /\ t[i - 1] = s[i]
      BY <1>1, <1>4
    <2> QED
      BY <2>1 DEF Listed
  <1>5. Listed(t) = Listed(s) \ {s[1]}
    BY <1>3, <1>4 DEF Listed
  <1>6. s[1] \in Listed(s)
    BY <1>1 DEF Listed
  <1> QED
    BY <1>1, <1>2, <1>5, <1>6 DEF t

LEMMA PushFacts ==
  ASSUME NEW S, NEW x \in S, NEW s \in Seq(S), Distinct(s), x \notin Listed(s)
  PROVE  /\ <<x>> \o s \in Seq(S) /\ Len(<<x>> \o s) = 1 + Len(s)
         /\ Distinct(<<x>> \o s) /\ Listed(<<x>> \o s) = {x} \union Listed(s)
  <1> DEFINE t == <<x>>
  <1>1. t \in Seq(S) /\ Len(t) = 1 /\ Listed(t) = {x} /\ Distinct(t)
    BY DEF Listed, Distinct
  <1> HIDE DEF t
  <1>2. Listed(t) \cap Listed(s) = {}
    BY <1>1
  <1>3. Distinct(t \o s)
    BY <1>1, <1>2, DistinctConcat
  <1>4. Listed(t \o s) = {x} \union Listed(s)
    BY <1>1, ListedConcat
  <1>5. t \o s \in Seq(S) /\ Len(t \o s) = 1 + Len(s)
    BY <1>1, ConcatProperties
  <1> QED
    BY <1>3, <1>4, <1>5 DEF t

LEMMA WithoutFacts ==
  ASSUME NEW S, NEW s \in Seq(S), NEW i \in 1 .. Len(s), Distinct(s)
  PROVE  /\ Without(s, i) \in Seq(S) /\ Len(Without(s, i)) = Len(s) - 1
         /\ Distinct(Without(s, i)) /\ Listed(Without(s, i)) = Listed(s) \ {s[i]}
  <1> DEFINE a == SubSeq(s, 1, i - 1)
             b == SubSeq(s, i + 1, Len(s))
  <1>1. Len(s) \in Nat /\ \A j \in 1 .. Len(s) : s[j] \in S
    BY LenProperties, ElementOfSeq
  <1>2. /\ a \in Seq(S) /\ Len(a) = i - 1
        /\ \A j \in 1 .. i - 1 : a[j] = s[j]
    <2>1. 1 \in Int /\ i - 1 \in Int /\ \A j \in 1 .. i - 1 : s[j] \in S
      BY <1>1
    <2> DEFINE m == i - 1
    <2>2. m \in Nat
      BY <1>1
    <2> HIDE DEF m
    <2>3. Len(SubSeq(s, 1, m)) = IF 1 <= m THEN m - 1 + 1 ELSE 0
      BY <2>1, SubSeqProperties DEF m
    <2>4. Len(a) = i - 1
      BY <2>2, <2>3 DEF m
    <2>5. a \in Seq(S)
      BY <2>1, SubSeqProperties
    <2>6. \A j \in 1 .. i - 1 : a[j] = s[j]
      BY <1>1
    <2> QED
      BY <2>4, <2>5, <2>6
  <1>3. /\ b \in Seq(S) /\ Len(b) = Len(s) - i
        /\ \A j \in 1 .. Len(s) - i : b[j] = s[i + j]
    <2>1. i + 1 \in Int /\ Len(s) \in Int /\ \A j \in i + 1 .. Len(s) : s[j] \in S
      BY <1>1
    <2> DEFINE m == i + 1
               k == Len(s)
    <2> HIDE DEF m, k
    <2>3. Len(SubSeq(s, m, k)) = IF m <= k THEN k - m + 1 ELSE 0
      BY <2>1, SubSeqProperties DEF m, k
    <2>4. Len(b) = Len(s) - i
      BY <1>1, <2>3 DEF m, k
    <2>5. b \in Seq(S)
      BY <2>1, SubSeqProperties
    <2>6. \A j \in 1 .. Len(s) - i : b[j] = s[i + j]
      BY <1>1
    <2> QED
      BY <2>4, <2>5, <2>6
  <1> HIDE DEF a, b
  <1>4. Distinct(a)
    BY <1>1, <1>2 DEF Distinct
  <1>5. Distinct(b)
    <2> SUFFICES ASSUME NEW j \in 1 .. Len(b), NEW k \in 1 .. Len(b), b[j] = b[k] PROVE j = k
      BY DEF Distinct
    <2>1. i + j \in 1 .. Len(s) /\ i + k \in 1 .. Len(s) /\ s[i + j] = s[i + k]
      BY <1>1, <1>3
    <2>2. i + j = i + k
      BY <2>1 DEF Distinct
    <2> QED
      BY <1>1, <1>3, <2>2
  <1>6. ASSUME NEW j \in 1 .. Len(a) PROVE j \in 1 .. Len(s) /\ j < i /\ a[j] = s[j]
    BY <1>1, <1>2
  <1>7. ASSUME NEW j \in 1 .. Len(b) PROVE i + j \in 1 .. Len(s) /\ i + j > i /\ b[j] = s[i + j]
    BY <1>1, <1>3
  <1>8. Listed(a) \cap Listed(b) = {}
    <2> SUFFICES ASSUME NEW j \in 1 .. Len(a), NEW k \in 1 .. Len(b), a[j] = b[k] PROVE FALSE
      BY DEF Listed
    <2>1. j = i + k
      BY <1>6, <1>7 DEF Distinct
    <2> QED
      BY <1>6, <1>7, <2>1
  <1>9. Listed(a) \union Listed(b) = Listed(s) \ {s[i]}
    <2>1. ASSUME NEW j \in 1 .. Len(a) PROVE a[j] \in Listed(s) \ {s[i]}
      BY <1>6 DEF Distinct, Listed
    <2>2. ASSUME NEW j \in 1 .. Len(b) PROVE b[j] \in Listed(s) \ {s[i]}
      BY <1>7 DEF Distinct, Listed
    <2>3. ASSUME NEW j \in 1 .. Len(s), s[j] # s[i] PROVE s[j] \in Listed(a) \union Listed(b)
      <3>1. CASE j < i
        <4>1. j \in 1 .. Len(a) /\ a[j] = s[j]
          BY <1>1, <1>2, <3>1
        <4> QED
          BY <4>1 DEF Listed
      <3>2. CASE j > i
        <4>1. j - i \in 1 .. Len(b) /\ b[j - i] = s[j]
          BY <1>1, <1>3, <3>2
        <4> QED
          BY <4>1 DEF Listed
      <3> QED
        BY <2>3, <3>1, <3>2
    <2> QED
      BY <2>1, <2>2, <2>3 DEF Listed
  <1>10. Without(s, i) = a \o b
    BY DEF Without, a, b
  <1>11. a \o b \in Seq(S) /\ Len(a \o b) = Len(s) - 1
    BY <1>1, <1>2, <1>3, ConcatProperties
  <1> QED
    BY <1>2, <1>3, <1>4, <1>5, <1>8, <1>9, <1>10, <1>11, ListedConcat, DistinctConcat

----------------------------------------------------------------------------
(* The two lists.                                                          *)

LEMMA PoolInit == Init => PoolInv
  <1> SUFFICES ASSUME Init PROVE PoolInv
    OBVIOUS
  <1> USE NRAssumption
  <1>1. head = <<>> /\ in_use = {} /\ free_ = [i \in 1 .. NR_BP |-> i - 1]
    BY DEF Init
  <1>2. head \in Seq(NO) /\ Len(head) = 0 /\ Listed(head) = {} /\ Distinct(head)
    BY <1>1 DEF Listed, Distinct
  <1>3. free_ \in Seq(NO) /\ Len(free_) = NR_BP
    BY <1>1 DEF NO
  <1>4. \A i \in 1 .. NR_BP : free_[i] = i - 1
    BY <1>1
  <1>5. Distinct(free_)
    BY <1>3, <1>4 DEF Distinct
  <1>6. Listed(free_) = NO
    <2>1. \A k \in NO : k + 1 \in 1 .. NR_BP /\ free_[k + 1] = k
      BY <1>4 DEF NO
    <2>2. \A i \in 1 .. NR_BP : free_[i] \in NO
      BY <1>4 DEF NO
    <2> QED
      BY <1>3, <2>1, <2>2 DEF Listed
  <1> QED
    BY <1>1, <1>2, <1>3, <1>5, <1>6 DEF PoolInv, PoolPartitioned

\* new_BP() and the insertion move the first free entry to the head.
LEMMA NewKeepsPool ==
  ASSUME PoolInv, free_ # <<>>, NEW e, NewBP(e)
  PROVE  PoolInv'
  <1> DEFINE p == Head(free_)
  <1>1. /\ free_' = Tail(free_) /\ in_use' = in_use \union {p} /\ head' = <<p>> \o head
        /\ head \in Seq(NO) /\ free_ \in Seq(NO)
        /\ Distinct(head) /\ Distinct(free_)
        /\ Listed(head) = in_use /\ Listed(free_) = NO \ in_use
        /\ Len(head) + Len(free_) = NR_BP
    BY DEF NewBP, PoolInv, PoolPartitioned
  <1>2. /\ p \in Listed(free_) /\ free_' \in Seq(NO) /\ Len(free_') = Len(free_) - 1
        /\ Distinct(free_') /\ Listed(free_') = Listed(free_) \ {p}
    BY <1>1, TailFacts
  <1>3. p \in NO /\ p \notin Listed(head)
    BY <1>1, <1>2
  <1> HIDE DEF p
  <1>5. /\ head' \in Seq(NO) /\ Len(head') = 1 + Len(head)
        /\ Distinct(head') /\ Listed(head') = {p} \union Listed(head)
    BY <1>1, <1>3, PushFacts
  <1>6. Len(head) \in Nat /\ Len(free_) \in Nat
    BY <1>1, LenProperties
  <1>7. Len(head') + Len(free_') = NR_BP
    BY <1>1, <1>2, <1>5, <1>6
  <1> QED
    BY <1>1, <1>2, <1>5, <1>7 DEF PoolInv, PoolPartitioned

\* delete_breakpoint() moves an entry back, delete_all_breakpoint() all.
LEMMA DeleteKeepsPool ==
  ASSUME PoolInv, NEW i \in 1 .. Len(head), DeleteBreakpoint(i)
  PROVE  PoolInv'
  <1> DEFINE p == head[i]
  <1>1. /\ head' = Without(head, i) /\ in_use' = in_use \ {p} /\ free_' = <<p>> \o free_
        /\ head \in Seq(NO) /\ free_ \in Seq(NO)
        /\ Distinct(head) /\ Distinct(free_)
        /\ Listed(head) = in_use /\ Listed(free_) = NO \ in_use
        /\ Len(head) + Len(free_) = NR_BP
    BY DEF DeleteBreakpoint, PoolInv, PoolPartitioned
  <1>2. /\ head' \in Seq(NO) /\ Len(head') = Len(head) - 1
        /\ Distinct(head') /\ Listed(head') = Listed(head) \ {p}
    BY <1>1, WithoutFacts
  <1>3. p \in NO /\ p \in in_use
    BY <1>1, ElementOfSeq DEF Listed
  <1> HIDE DEF p
  <1>5. p \notin Listed(free_)
    BY <1>1, <1>3
  <1>6. /\ free_' \in Seq(NO) /\ Len(free_') = 1 + Len(free_)
        /\ Distinct(free_') /\ Listed(free_') = {p} \union Listed(free_)
    BY <1>1, <1>3, <1>5, PushFacts
  <1>7. Len(head) \in Nat /\ Len(free_) \in Nat
    BY <1>1, LenProperties
  <1>8. Len(head') + Len(free_') = NR_BP
    BY <1>1, <1>2, <1>6, <1>7
  <1>9. {p} \union (NO \ in_use) = NO \ (in_use \ {p})
    BY <1>3
  <1> QED
    BY <1>1, <1>2, <1>6, <1>8, <1>9 DEF PoolInv, PoolPartitioned

LEMMA DeleteAllKeepsPool ==
  ASSUME PoolInv, DeleteAll
  PROVE  PoolInv'
  <1>1. /\ head' = <<>> /\ in_use' = in_use \ Listed(head) /\ free_' = head \o free_
        /\ head \in Seq(NO) /\ free_ \in Seq(NO)
        /\ Distinct(head) /\ Distinct(free_)
        /\ Listed(head) = in_use /\ Listed(free_) = NO \ in_use
        /\ Len(head) + Len(free_) = NR_BP
    BY DEF DeleteAll, PoolInv, PoolPartitioned
  <1>2. head' \in Seq(NO) /\ Len(head') = 0 /\ Listed(head') = {} /\ Distinct(head') /\ in_use' = {}
    BY <1>1 DEF Listed, Distinct
  <1>3. in_use \subseteq NO
    <2>1. \A i \in 1 .. Len(head) : head[i] \in NO
      BY <1>1, ElementOfSeq
    <2> QED
      BY <1>1, <2>1 DEF Listed
  <1>4. /\ free_' \in Seq(NO) /\ Len(free_') = Len(head) + Len(free_)
        /\ Distinct(free_') /\ Listed(free_') = Listed(head) \union Listed(free_)
    BY <1>1, ConcatProperties, ListedConcat, DistinctConcat
  <1>5. Listed(free_') = NO
    BY <1>1, <1>3, <1>4
  <1>6. Len(head') + Len(free_') = NR_BP
    BY <1>1, <1>2, <1>4, NRAssumption
  <1> QED
    BY <1>1, <1>2, <1>4, <1>5, <1>6 DEF PoolInv, PoolPartitioned

LEMMA SameKeepsPool ==
  ASSUME PoolInv, UNCHANGED <<head, free_, in_use>>
  PROVE  PoolInv'
  BY DEF PoolInv, PoolPartitioned, Listed, Distinct

LEMMA PoolNext == PoolInv /\ [Next]_vars => PoolInv'
  <1> SUFFICES ASSUME PoolInv, [Next]_vars PROVE PoolInv'
    OBVIOUS
  <1>1. CASE PoolExhausted
    BY <1>1, SameKeepsPool DEF PoolExhausted, lists
  <1>2. ASSUME NEW a \in Addr, CmdB(a), ~PoolExhausted PROVE PoolInv'
    BY <1>2, NewKeepsPool DEF CmdB, SetBreakpoint
  <1>3. CASE CmdW /\ ~PoolExhausted
    BY <1>3, NewKeepsPool DEF CmdW, SetWatchpoint
  <1>4. ASSUME NEW i \in 1 .. NR_BP, CmdD(i) PROVE PoolInv'
    BY <1>4, DeleteKeepsPool DEF CmdD
  <1>5. CASE CmdDAll
    BY <1>5, DeleteAllKeepsPool DEF CmdDAll
  <1>6. CASE CmdC \/ (\E k \in 1 .. MaxSi : CmdSi(k)) \/ Iterate \/ ExecReturn \/ UNCHANGED vars
    <2>1. UNCHANGED <<head, free_, in_use>>
      BY <1>6 DEF CmdC, CmdSi, StartExec, Iterate, ExecReturn, lists, vars
    <2> QED
      BY <2>1, SameKeepsPool
  <1> QED
    BY <1>1, <1>2, <1>3, <1>4, <1>5, <1>6 DEF Next

(* Every entry of bp_list is on one of the two lists, once, and in_use     *)
(* says which: no sequence of b, w, d, c and si loses an entry or lists    *)
(* one twice.                                                              *)
THEOREM PoolNeverLeaks == Spec => []PoolPartitioned
  <1>1. PoolInv => PoolPartitioned
    BY DEF PoolInv
  <1> QED
    BY <1>1, PoolInit, PoolNext, PTL DEF Spec

----------------------------------------------------------------------------
(* Types.                                                                  *)

\* A set of positions has a first one.
LEMMA FirstOf ==
  ASSUME NEW S \in SUBSET Nat, S # {}
  PROVE  First(S) \in S
  <1> DEFINE R == {ss \in Nat \X Nat : ss[1] < ss[2]}
  <1>1. IsWellFoundedOn(R, Nat)
    BY NatLessThanWellFounded DEF OpToRel
  <1>2. PICK m \in S : \A i \in S : ~ (<<i, m>> \in R)
    BY <1>1, WFMin
  <1>3. ASSUME NEW i \in S  PROVE m <= i
    <2>1. ~(i < m) /\ i \in Nat /\ m \in Nat
      BY <1>2
    <2> QED
      BY <2>1
  <1> QED
    BY <1>3 DEF First

\* What find_breakpoint() returns is an entry of the list.
LEMMA FoundEntry ==
  ASSUME TypeOK, NEW a, At(a) # {}
  PROVE  First(At(a)) \in 1 .. Len(head) /\ First(At(a)) \in At(a)
  <1>1. At(a) \subseteq 1 .. Len(head) /\ At(a) \in SUBSET Nat
    BY LenProperties DEF At, TypeOK
  <1> QED
    BY <1>1, FirstOf

\* Entries keep their fields whatever resume_breakpoints() reads.
LEMMA ResumedTypes ==
  ASSUME TypeOK
  PROVE  /\ Entries \in [NO -> Entry] /\ Memory \in [Addr -> Bytes]
         /\ \A i \in 1 .. Len(head) : head[i] \in NO /\ bp_list[head[i]] \in Entry
  <1>1. bp_list \in [NO -> Entry] /\ mem \in [Addr -> Bytes] /\ head \in Seq(NO)
    BY DEF TypeOK
  <1>2. \A i \in 1 .. Len(head) : head[i] \in NO /\ bp_list[head[i]] \in Entry
    BY <1>1, ElementOfSeq
  <1>3. \A i \in 1 .. Len(head) : ResumedByte(i) \in Bytes
    BY <1>1, <1>2 DEF ResumedByte, Entry, Bytes
  <1>4. Resumed \in [NO -> Entry]
    <2>1. ASSUME NEW p \in NO  PROVE Resumed[p] \in Entry
      <3>1. CASE \E i \in 1 .. Len(head) : head[i] = p /\ IsBreakpoint(i)
        <4> DEFINE j == CHOOSE i \in 1 .. Len(head) : head[i] = p
        <4>1. j \in 1 .. Len(head)
          BY <3>1
        <4>2. ResumedByte(j) \in Bytes
          BY <4>1, <1>3
        <4>3. Resumed[p] = [bp_list[p] EXCEPT !.ori_byte = ResumedByte(j)]
          BY <3>1 DEF Resumed
        <4> HIDE DEF j
        <4>4. bp_list[p] \in Entry
          BY <1>1
        <4> QED
          BY <4>2, <4>3, <4>4 DEF Entry
      <3>2. CASE ~\E i \in 1 .. Len(head) : head[i] = p /\ IsBreakpoint(i)
        BY <3>2, <1>1 DEF Resumed
      <3> QED
        BY <3>1, <3>2
    <2> QED
      BY <2>1 DEF Resumed
  <1>5. ResumedMem \in [Addr -> Bytes]
    BY <1>1 DEF ResumedMem, Bytes
  <1> QED
    BY <1>1, <1>2, <1>4, <1>5 DEF Entries, Memory

\* new_BP() fills the entry with what it is given.
LEMMA NewTypes ==
  ASSUME TypeOK, PoolInv, PoolInv', free_ # <<>>, NEW e \in Entry, NewBP(e)
  PROVE  bp_list' \in [NO -> Entry] /\ in_use' \subseteq NO /\ head' \in Seq(NO) /\ free_' \in Seq(NO)
  <1>1. Head(free_) \in NO
    BY DEF TypeOK
  <1>2. bp_list' \in [NO -> Entry]
    BY <1>1 DEF NewBP, TypeOK
  <1> QED
    BY <1>1, <1>2 DEF NewBP, TypeOK, PoolInv

\* One round of the loop of exec().
LEMMA IterateTypes ==
  ASSUME TypeOK, Iterate
  PROVE  TypeOK'
  <1>1. PICK state \in {"RUN", "STOP", "BREAK"}, next \in 0 .. NAddr, v \in Values :
          /\ value' = v
          /\ mem' = Restored(state)
          /\ n' = Decremented(n)
          /\ LET stop == IF Found(state) THEN eip ELSE next
             IN  IF Changed(v) # {}
                 THEN LET p == head[First(Changed(v))]
                      IN  /\ bp_list' = [Entries EXCEPT ![p].old_val = v]
                          /\ eip' = stop
                          /\ nemu_state' = "READY"
                          /\ cpu_pc' = "ui"
                 ELSE /\ bp_list' = Entries
                      /\ eip' \in {stop, NAddr}
                      /\ nemu_state' = state
                      /\ UNCHANGED cpu_pc
    BY DEF Iterate
  <1>2. /\ Entries \in [NO -> Entry] /\ Memory \in [Addr -> Bytes]
        /\ \A i \in 1 .. Len(head) : head[i] \in NO
    BY ResumedTypes
  <1>3. mem' \in [Addr -> Bytes]
    <2>1. CASE Found(state)
      <3>1. First(At(eip)) \in 1 .. Len(head)
        BY <2>1, FoundEntry DEF Found
      <3>2. Entries[head[First(At(eip))]].ori_byte \in Bytes
        BY <3>1, <1>2 DEF Entry
      <3> QED
        BY <1>1, <1>2, <2>1, <3>2 DEF Restored
    <2>2. CASE ~Found(state)
      BY <1>1, <1>2, <2>2 DEF Restored
    <2> QED
      BY <2>1, <2>2
  <1>4. bp_list' \in [NO -> Entry]
    <2>1. CASE Changed(v) # {}
      <3>1. Changed(v) \subseteq 1 .. Len(head) /\ Changed(v) \in SUBSET Nat
        BY LenProperties DEF Changed, TypeOK
      <3>2. head[First(Changed(v))] \in NO
        BY <2>1, <3>1, <1>2, FirstOf
      <3>3. bp_list' = [Entries EXCEPT ![head[First(Changed(v))]].old_val = v]
        BY <1>1, <2>1
      <3> HIDE DEF Entries
      <3>4. [Entries[head[First(Changed(v))]] EXCEPT !.old_val = v] \in Entry
        BY <1>2, <3>2 DEF Entry
      <3> QED
        BY <1>2, <3>2, <3>3, <3>4
    <2>2. CASE ~(Changed(v) # {})
      BY <1>1, <1>2, <2>2
    <2> QED
      BY <2>1, <2>2
  <1>5. n' \in 0 .. MaxSi \union {Forever}
    BY <1>1, MaxSiAssumption DEF TypeOK, Iterate, Decremented, Forever
  <1>6. eip' \in 0 .. NAddr /\ nemu_state' \in {"STOP", "RUN", "READY", "BREAK"}
        /\ cpu_pc' \in {"ui", "exec", "quit", "abort"}
    <2>1. (IF Found(state) THEN eip ELSE next) \in 0 .. NAddr
      BY DEF TypeOK
    <2>2. NAddr \in 0 .. NAddr
      BY NAddrAssumption
    <2> QED
      BY <1>1, <2>1, <2>2 DEF TypeOK
  <1> QED
    BY <1>1, <1>3, <1>4, <1>5, <1>6 DEF TypeOK, Iterate

LEMMA TypeInit == Init => TypeOK
  <1> SUFFICES ASSUME Init PROVE TypeOK
    OBVIOUS
  <1>1. head \in Seq(NO) /\ free_ \in Seq(NO)
    BY PoolInit DEF PoolInv
  <1>2. 0 \in Addr /\ 0 \in 0 .. NAddr /\ 0 \in 0 .. MaxSi
    BY NAddrAssumption, MaxSiAssumption DEF Addr
  <1>3. bp_list \in [NO -> Entry]
    <2>1. (CHOOSE v \in Values : TRUE) \in Values
      BY ValuesAssumption
    <2>2. [type |-> "BREAKPOINT", addr |-> 0, ori_byte |-> "ORIG",
           old_val |-> CHOOSE v \in Values : TRUE] \in Entry
      BY <1>2, <2>1 DEF Entry, Bytes
    <2> QED
      BY <2>2 DEF Init
  <1>4. mem \in [Addr -> Bytes]
    BY DEF Init, Bytes
  <1> QED
    BY <1>1, <1>2, <1>3, <1>4 DEF Init, TypeOK

LEMMA TypeNext == TypeOK /\ PoolInv /\ PoolInv' /\ [Next]_vars => TypeOK'
  <1> SUFFICES ASSUME TypeOK, PoolInv, PoolInv', [Next]_vars PROVE TypeOK'
    OBVIOUS
  <1>1. ASSUME NEW c \in {"c", "si", "b", "w", "d"}, Command(c)
        PROVE  cmd' \in {"c", "si", "b", "w", "d"}
    BY <1>1 DEF Command
  <1>2. head' \in Seq(NO) /\ free_' \in Seq(NO)
    BY DEF PoolInv
  <1>3. ASSUME Command("b") \/ Command("w"), PoolExhausted, UNCHANGED <<eip, value>>  PROVE TypeOK'
    BY <1>1, <1>3 DEF PoolExhausted, lists, TypeOK
  <1>4. ASSUME NEW a \in Addr, CmdB(a), ~PoolExhausted  PROVE TypeOK'
    <2> DEFINE e == [bp_list[Head(free_)] EXCEPT !.type = "BREAKPOINT", !.addr = a, !.ori_byte = mem[a]]
    <2>1. /\ free_ # <<>> /\ NewBP(e) /\ mem' = [mem EXCEPT ![a] = "INT3_CODE"]
          /\ UNCHANGED <<nemu_state, n, hit_break_rerun, cpu_pc, eip, value>>
      BY <1>4 DEF CmdB, SetBreakpoint, loop
    <2>2. bp_list[Head(free_)] \in Entry /\ mem[a] \in Bytes
      BY <2>1 DEF TypeOK
    <2>3. e \in Entry
      BY <2>2 DEF Entry
    <2> HIDE DEF e
    <2>4. bp_list' \in [NO -> Entry] /\ in_use' \subseteq NO
      BY <2>1, <2>3, NewTypes
    <2>5. mem' \in [Addr -> Bytes]
      BY <2>1 DEF TypeOK, Bytes
    <2> QED
      BY <1>1, <1>2, <1>4, <2>1, <2>4, <2>5 DEF TypeOK, CmdB
  <1>5. ASSUME CmdW, ~PoolExhausted  PROVE TypeOK'
    <2> DEFINE e == [bp_list[Head(free_)] EXCEPT !.type = "WATCHPOINT", !.old_val = value]
    <2>1. /\ free_ # <<>> /\ NewBP(e)
          /\ UNCHANGED <<mem, nemu_state, n, hit_break_rerun, cpu_pc, eip, value>>
      BY <1>5 DEF CmdW, SetWatchpoint, loop
    <2>2. bp_list[Head(free_)] \in Entry /\ value \in Values
      BY <2>1 DEF TypeOK
    <2>3. e \in Entry
      BY <2>2 DEF Entry
    <2> HIDE DEF e
    <2>4. bp_list' \in [NO -> Entry] /\ in_use' \subseteq NO
      BY <2>1, <2>3, NewTypes
    <2> QED
      BY <1>1, <1>2, <1>5, <2>1, <2>4 DEF TypeOK, CmdW
  <1>6. CASE CmdDAll \/ \E i \in 1 .. NR_BP : CmdD(i)
    BY <1>1, <1>2, <1>6 DEF CmdDAll, CmdD, DeleteAll, DeleteBreakpoint, guest, loop, TypeOK
  <1>7. CASE CmdC \/ \E k \in 1 .. MaxSi : CmdSi(k)
    <2>1. /\ n' \in 0 .. MaxSi \union {Forever} /\ nemu_state' = "RUN" /\ cpu_pc' = "exec"
          /\ hit_break_rerun' = (nemu_state = "BREAK")
          /\ UNCHANGED <<mem, eip, value, bp_list, in_use>>
      BY <1>7, MaxSiAssumption DEF CmdC, CmdSi, StartExec, guest, lists
    <2> QED
      BY <1>1, <1>2, <1>7, <2>1 DEF TypeOK, CmdC, CmdSi
  <1>8. CASE Iterate
    BY <1>8, IterateTypes
  <1>9. CASE ExecReturn
    BY <1>9 DEF ExecReturn, guest, lists, TypeOK
  <1>10. CASE UNCHANGED vars
    BY <1>10 DEF vars, guest, loop, lists, TypeOK
  <1> QED
    BY <1>3, <1>4, <1>5, <1>6, <1>7, <1>8, <1>9, <1>10 DEF Next, CmdB, CmdW, SetBreakpoint, SetWatchpoint

(* Entries, bytes and the counter of exec() keep their types: whatever is  *)
(* stopped at, resumed or deleted, the monitor writes ORIG or INT3_CODE    *)
(* and reads entries that are there.                                       *)
THEOREM TypeCorrect == Spec => []TypeOK
  BY TypeInit, TypeNext, PoolInit, PoolNext, PTL DEF Spec

----------------------------------------------------------------------------
(* One breakpoint and "c".                                                 *)

\* Between the stop and the instruction after the next "c" the byte of the
\* breakpoint is the original one, at all other times it is INT3_CODE.
Disarmed == nemu_state = "BREAK" \/ hit_break_rerun
SoloInv ==
  /\ \A i \in 1 .. Len(head) :
       /\ IsBreakpoint(i) /\ bp_list[head[i]].ori_byte = "ORIG"
       /\ mem[bp_list[head[i]].addr] = IF Disarmed THEN "ORIG" ELSE "INT3_CODE"
  /\ \A a \in Addr : Armed(a) => At(a) # {}
  /\ Disarmed => Len(head) = 1
  /\ hit_break_rerun => cpu_pc = "exec" /\ nemu_state = "RUN"
  /\ cpu_pc = "exec" => n = Forever

LEMMA SoloInit == Init => SoloInv
  BY LenProperties DEF Init, SoloInv, Disarmed, Armed

\* The first breakpoint saves the original byte.
LEMMA SoloSet ==
  ASSUME TypeOK, PoolInv, SoloInv, SoloUse', NEW a \in Addr, CmdB(a)
  PROVE  SoloInv'
  <1>1. CASE PoolExhausted
    <2>1. UNCHANGED <<mem, bp_list, head, nemu_state, hit_break_rerun, n>> /\ cpu_pc' = "abort" /\ cpu_pc = "ui"
      BY <1>1 DEF CmdB, Command, PoolExhausted, lists
    <2> QED
      BY <2>1 DEF SoloInv, Disarmed, IsBreakpoint, Armed, At
  <1>2. CASE ~PoolExhausted
    <2> DEFINE p == Head(free_)
               e == [bp_list[p] EXCEPT !.type = "BREAKPOINT", !.addr = a, !.ori_byte = mem[a]]
    <2>1. /\ free_ # <<>> /\ head' = <<p>> \o head /\ bp_list' = [bp_list EXCEPT ![p] = e]
          /\ mem' = [mem EXCEPT ![a] = "INT3_CODE"] /\ cpu_pc = "ui"
          /\ UNCHANGED <<nemu_state, hit_break_rerun, n, cpu_pc>>
      BY <1>2 DEF CmdB, Command, SetBreakpoint, NewBP, loop
    <2>2. p \in NO /\ bp_list[p] \in Entry /\ head \in Seq(NO)
      BY <2>1 DEF TypeOK
    <2> HIDE DEF p
    <2>3. Len(head') <= 1 /\ Len(head') = Len(head) + 1 /\ Len(head) \in Nat
      BY <2>1, <2>2 DEF SoloUse
    <2>4. Len(head) = 0 /\ head' = <<p>> /\ Len(head') = 1 /\ head'[1] = p
      <3>1. Len(head) = 0
        BY <2>3
      <3>2. head = <<>>
        BY <2>2, <3>1, EmptySeq
      <3>3. head' = <<p>>
        BY <2>1, <3>2
      <3> QED
        BY <3>1, <3>3
    <2>5. ~Disarmed /\ ~Disarmed'
      BY <2>1, <2>4 DEF SoloInv, Disarmed
    <2>6. \A b \in Addr : mem[b] = "ORIG"
      <3>1. \A b \in Addr : At(b) = {}
        BY <2>4 DEF At
      <3> QED
        BY <3>1 DEF SoloInv, Armed, TypeOK, Bytes
    <2>7. bp_list'[p] = e /\ e.type = "BREAKPOINT" /\ e.addr = a /\ e.ori_byte = "ORIG"
      BY <2>1, <2>2, <2>6 DEF TypeOK, Entry
    <2> HIDE DEF e
    <2>8. \A b \in Addr : mem'[b] = IF b = a THEN "INT3_CODE" ELSE "ORIG"
      BY <2>1, <2>6 DEF TypeOK
    <2>9. \A b \in Addr : Armed(b)' => At(b)' # {}
      <3>1. \A b \in Addr : Armed(b)' => b = a
        BY <2>8 DEF Armed
      <3>2. 1 \in At(a)'
        BY <2>4, <2>7 DEF At, IsBreakpoint
      <3> QED
        BY <3>1, <3>2
    <2>10. \A i \in 1 .. Len(head') : i = 1
      BY <2>4
    <2> QED
      BY <2>1, <2>4, <2>5, <2>7, <2>8, <2>9, <2>10 DEF SoloInv, IsBreakpoint, Disarmed
  <1> QED
    BY <1>1, <1>2

\* A round of the loop: the breakpoint is hit, or armed again.
LEMMA SoloIterate ==
  ASSUME TypeOK, PoolInv, SoloInv, SoloUse, Iterate
  PROVE  SoloInv'
  <1>1. Changed(value') = {}
    BY DEF Changed, SoloInv
  <1>2. PICK state \in {"RUN", "STOP", "BREAK"}, next \in 0 .. NAddr :
          /\ ExecInst(state, next, value')
          /\ mem' = Restored(state)
          /\ bp_list' = Entries /\ nemu_state' = state
    BY <1>1 DEF Iterate
  <1>3. /\ hit_break_rerun' = FALSE /\ nemu_state = "RUN" /\ cpu_pc = "exec" /\ n = Forever
        /\ n' = Forever /\ cpu_pc' = "exec" /\ UNCHANGED head
    BY <1>1 DEF Iterate, SoloInv, Decremented
  <1>4. /\ bp_list \in [NO -> Entry] /\ mem \in [Addr -> Bytes] /\ head \in Seq(NO)
        /\ Len(head) \in {0, 1}
    <2>1. Len(head) \in Nat /\ Len(head) <= 1
      BY LenProperties DEF TypeOK, SoloUse
    <2>2. \A x \in Nat : x <= 1 => x \in {0, 1}
      OBVIOUS
    <2>3. Len(head) \in {0, 1}
      BY <2>1, <2>2, Zenon
    <2> QED
      BY <2>3 DEF TypeOK
  <1>5. \A a \in Addr, i \in 1 .. Len(head) :
          i \in At(a) <=> bp_list[head[i]].addr = a
    BY DEF At, SoloInv
  <1>6. CASE Len(head) = 0
    <2>1. \A a \in Addr : mem[a] # "INT3_CODE"
      BY <1>6 DEF SoloInv, Armed, At
    <2>2. ~hit_break_rerun
      BY <1>6 DEF SoloInv, Disarmed
    <2>3. state # "BREAK"
      BY <1>2, <2>1 DEF ExecInst, Armed
    <2>4. mem' = mem
      BY <1>2, <2>2, <2>3 DEF Restored, Found, Memory
    <2> QED
      BY <1>2, <1>3, <1>6, <2>1, <2>3, <2>4 DEF SoloInv, Disarmed, Armed
  <1>7. CASE Len(head) = 1
    <2> DEFINE p == head[1]
               b == bp_list[p].addr
    <2>1. p \in NO /\ b \in Addr /\ bp_list[p] \in Entry
      <3>1. 1 \in 1 .. Len(head)
        BY <1>7
      <3>2. p \in NO
        BY <1>4, <3>1, ElementOfSeq
      <3> QED
        BY <1>4, <3>2 DEF Entry
    <2>2. \A i : i \in 1 .. Len(head) <=> i = 1
      BY <1>7
    <2>3. \A a \in Addr : At(a) = IF a = b THEN {1} ELSE {}
      BY <2>2 DEF At, SoloInv
    <2>4. First({1}) = 1
      BY DEF First
    <2>5. /\ bp_list[p].ori_byte = "ORIG" /\ bp_list[p].type = "BREAKPOINT"
          /\ mem[b] = IF hit_break_rerun THEN "ORIG" ELSE "INT3_CODE"
          /\ \A a \in Addr : a # b => mem[a] # "INT3_CODE"
      BY <1>3, <2>2, <2>3 DEF SoloInv, Disarmed, IsBreakpoint, Armed
    <2>6. Memory = [a \in Addr |-> IF a = b THEN "INT3_CODE" ELSE mem[a]]
      <3>1. CASE hit_break_rerun
        BY <3>1, <2>3 DEF Memory, ResumedMem
      <3>2. CASE ~hit_break_rerun
        BY <3>2, <1>4, <2>5 DEF Memory
      <3> QED
        BY <3>1, <3>2
    <2>7. /\ Entries[p].ori_byte = "ORIG" /\ Entries[p].type = "BREAKPOINT" /\ Entries[p].addr = b
      <3>1. CASE hit_break_rerun
        <4>1. (CHOOSE i \in 1 .. Len(head) : head[i] = p) = 1
          BY <2>2
        <4>2. ResumedByte(1) = "ORIG"
          BY <2>1, <2>3, <2>4, <2>5, <3>1 DEF ResumedByte
        <4>3. 1 \in 1 .. Len(head) /\ head[1] = p /\ IsBreakpoint(1)
          BY <2>2, <2>5 DEF IsBreakpoint
        <4>4. Resumed[p] = [bp_list[p] EXCEPT !.ori_byte = "ORIG"]
          BY <2>1, <4>1, <4>2, <4>3 DEF Resumed
        <4> QED
          BY <2>1, <2>5, <3>1, <4>4 DEF Entries, Entry
      <3>2. CASE ~hit_break_rerun
        BY <3>2, <2>5 DEF Entries
      <3> QED
        BY <3>1, <3>2
    <2> HIDE DEF p, b
    <2>8. mem'[b] = IF state = "BREAK" THEN "ORIG" ELSE "INT3_CODE"
      <3>1. CASE state = "BREAK"
        <4>1. Armed(eip)
          BY <1>2, <3>1 DEF ExecInst
        <4>2. eip = b
          BY <2>5, <4>1 DEF Armed
        <4>3. mem' = [Memory EXCEPT ![b] = "ORIG"]
          BY <1>2, <2>1, <2>3, <2>4, <2>7, <3>1, <4>2 DEF Restored, Found, p
        <4> QED
          BY <2>1, <2>6, <3>1, <4>3
      <3>2. CASE state # "BREAK"
        BY <1>2, <2>1, <2>6, <3>2 DEF Restored, Found
      <3> QED
        BY <3>1, <3>2
    <2>9. \A a \in Addr : a # b => mem'[a] # "INT3_CODE"
      <3>1. \A a \in Addr : a # b => Memory[a] # "INT3_CODE"
        BY <2>5, <2>6
      <3>2. mem' = Memory \/ mem' = [Memory EXCEPT ![eip] = "ORIG"]
        <4>1. CASE Found(state)
          <5>1. Armed(eip)
            BY <1>2, <4>1 DEF ExecInst, Found
          <5>2. eip \in Addr /\ First(At(eip)) = 1
            BY <2>3, <2>4, <4>1, <5>1 DEF Found, Armed
          <5> QED
            BY <1>2, <2>7, <4>1, <5>2 DEF Restored, p
        <4>2. CASE ~Found(state)
          BY <1>2, <4>2 DEF Restored
        <4> QED
          BY <4>1, <4>2
      <3>3. DOMAIN Memory = Addr
        BY <2>6
      <3> QED
        BY <3>1, <3>2, <3>3
    <2>10. \A a \in Addr : Armed(a)' => At(a)' # {}
      <3>1. \A a \in Addr : Armed(a)' => a = b
        BY <2>9 DEF Armed
      <3>2. ASSUME NEW a \in Addr, a = b  PROVE 1 \in At(a)'
        BY <1>2, <1>3, <1>7, <2>7, <3>2 DEF At, IsBreakpoint, p
      <3> QED
        BY <3>1, <3>2
    <2>11. \A i \in 1 .. Len(head') :
             /\ IsBreakpoint(i)' /\ bp_list'[head'[i]].ori_byte = "ORIG"
             /\ mem'[bp_list'[head'[i]].addr] = IF Disarmed' THEN "ORIG" ELSE "INT3_CODE"
      BY <1>2, <1>3, <2>2, <2>7, <2>8 DEF IsBreakpoint, Disarmed, p
    <2> QED
      BY <1>3, <1>7, <2>10, <2>11 DEF SoloInv
  <1> QED
    BY <1>4, <1>6, <1>7

\* The steps that leave bytes and entries alone.
LEMMA SoloSame ==
  ASSUME SoloInv, UNCHANGED <<mem, bp_list, head>>, Disarmed' = Disarmed,
         hit_break_rerun' => cpu_pc' = "exec" /\ nemu_state' = "RUN",
         cpu_pc' = "exec" => n' = Forever
  PROVE  SoloInv'
  BY DEF SoloInv, IsBreakpoint, Armed, At

LEMMA SoloNext ==
  TypeOK /\ PoolInv /\ SoloInv /\ SoloUse /\ SoloUse' /\ [Next]_vars => SoloInv'
  <1> SUFFICES ASSUME TypeOK, PoolInv, SoloInv, SoloUse, SoloUse', [Next]_vars PROVE SoloInv'
    OBVIOUS
  <1>1. ASSUME NEW a \in Addr, CmdB(a)  PROVE SoloInv'
    BY <1>1, SoloSet
  <1>2. ASSUME CmdC  PROVE SoloInv'
    <2>1. /\ UNCHANGED <<mem, bp_list, head>> /\ nemu_state' = "RUN" /\ n' = Forever /\ cpu_pc' = "exec"
          /\ hit_break_rerun' = (nemu_state = "BREAK") /\ cpu_pc = "ui"
      BY <1>2 DEF CmdC, Command, StartExec, guest, lists
    <2>2. ~hit_break_rerun
      BY <2>1 DEF SoloInv
    <2>3. Disarmed' = Disarmed
      BY <2>1, <2>2 DEF Disarmed
    <2> QED
      BY <2>1, <2>3, SoloSame
  <1>3. CASE Iterate
    BY <1>3, SoloIterate
  <1>4. CASE ExecReturn
    <2>1. /\ UNCHANGED <<mem, bp_list, head, hit_break_rerun, n>> /\ cpu_pc = "exec"
          /\ n = 0 \/ nemu_state # "RUN"
          /\ nemu_state' = IF nemu_state # "STOP" /\ n = 0 THEN "READY" ELSE nemu_state
          /\ cpu_pc' \in {"ui", "quit"}
      BY <1>4 DEF ExecReturn, guest, lists
    <2>2. n = Forever /\ n # 0
      BY <2>1 DEF SoloInv, Forever
    <2>3. nemu_state # "RUN" /\ nemu_state' = nemu_state /\ ~hit_break_rerun
      BY <2>1, <2>2 DEF SoloInv
    <2> QED
      BY <2>1, <2>3, SoloSame DEF Disarmed
  <1>5. CASE UNCHANGED vars
    <2>1. UNCHANGED <<mem, bp_list, head, nemu_state, n, hit_break_rerun, cpu_pc>>
      BY <1>5 DEF vars, guest, loop, lists
    <2> QED
      BY <2>1, SoloSame DEF Disarmed, SoloInv
  <1>6. ASSUME CmdW \/ (\E i \in 1 .. NR_BP : CmdD(i)) \/ CmdDAll \/ \E k \in 1 .. MaxSi : CmdSi(k)
        PROVE  FALSE
    BY <1>6 DEF CmdW, CmdD, CmdDAll, CmdSi, Command, SoloUse
  <1> QED
    BY <1>1, <1>2, <1>3, <1>4, <1>5, <1>6 DEF Next

LEMMA SoloIsSound == SoloInv => Sound
  <1> SUFFICES ASSUME SoloInv PROVE Sound
    OBVIOUS
  <1>1. \A i \in 1 .. Len(head) : Intact(i)
    BY DEF SoloInv, Intact, Disarmed
  <1> QED
    BY <1>1 DEF SoloInv, Sound

(* One breakpoint that is run into with "c" keeps its byte, is armed while *)
(* the program runs and leaves no INT3_CODE behind: for every program.     *)
THEOREM OneBreakpointWorks == Spec => SoloBreakpointWorks
  <1>1. Spec => []TypeOK /\ []PoolInv
    BY TypeInit, TypeNext, PoolInit, PoolNext, PTL DEF Spec
  <1> QED
    BY <1>1, SoloInit, SoloNext, SoloIsSound, PTL DEF Spec, SoloBreakpointWorks
=============================================================================
