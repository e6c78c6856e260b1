----------------------------- MODULE Vga_proofs -----------------------------
(* Proofs about the module Vga, for every screen and every set of colors:    *)
(* its variables keep their types, and a stale cell is one whose line will   *)
(* be drawn, or one the race of the two threads has lost.                    *)
EXTENDS Vga, TLAPS

(***************************************************************************)
(* The invariant.  A stale cell that lost no race is either being stored,  *)
(* its flag not yet set, or flagged in front of the update: the update     *)
(* that clears the flags has drawn every cell flagged before it passed.    *)
(***************************************************************************)
Stale(l, j)   == screen[<<l, j>>] # vmem[<<l, j>>] /\ <<l, j>> \notin raced
Storing(l, j) == cpu.step = "Line" /\ cpu.line = l /\ cpu.col = j
Flagged(l)    == line_dirty[l] /\ (vmem_dirty \/ (cpu.step = "Vmem" /\ cpu.line = l))
Due(l, j)     == Storing(l, j) \/ (~Behind(l, j) /\ Flagged(l))

AtFirstCol == dev.step = "Test" => dev.col = 1
StaleIsDue == \A l \in Shown : \A j \in 1..Cols : Stale(l, j) => Due(l, j)
IInv == TypeOK /\ AtFirstCol /\ StaleIsDue

\* Initially the screen shows the memory.
LEMMA InitInvariant == Init => IInv
<1> SUFFICES ASSUME Init PROVE IInv
  OBVIOUS
<1>1. 1 \in Shown /\ 1 \in 1..Cols
  BY VgaAssumption DEF Shown
<1>2. PICK c \in Colors : vmem = [cell \in Cells |-> c] /\ screen = [cell \in Cells |-> c]
  BY DEF Init
<1>3. TypeOK
  BY <1>1, <1>2 DEF Init, TypeOK, NoStore, NoUpdate
<1>4. AtFirstCol
  BY DEF Init, NoUpdate, AtFirstCol
<1>5. StaleIsDue
  BY <1>2 DEF StaleIsDue, Stale, Cells
<1>. QED
  BY <1>3, <1>4, <1>5 DEF IInv

\* Where update_screen() goes after a line: still inside the screen.
LEMMA NextLineType ==
  ASSUME TypeOK
  PROVE  /\ NextLine \in [step : {"Test", "ClearDirty"}, line : Shown, col : 1..Cols]
         /\ NextLine.col = 1
         /\ dev.line = Rows => NextLine.step = "ClearDirty"
         /\ dev.line # Rows => NextLine.step = "Test" /\ NextLine.line = dev.line + 1
<1>1. 1 \in Shown /\ 1 \in 1..Cols
  BY VgaAssumption DEF Shown
<1>2. dev.line \in Shown
  BY DEF TypeOK
<1>3. dev.line # Rows => dev.line + 1 \in Shown
  BY <1>2, VgaAssumption DEF Shown
<1>. QED
  BY <1>1, <1>3 DEF NextLine, Goto, Following

\* Every step keeps the types and the first column of a line's test.
LEMMA StepTypes == IInv /\ [Next]_vars => TypeOK' /\ AtFirstCol'
<1> SUFFICES ASSUME IInv, [Next]_vars PROVE TypeOK' /\ AtFirstCol'
  OBVIOUS
<1>a. TypeOK /\ AtFirstCol
  BY DEF IInv
<1>b. 1 \in Shown /\ 1 \in 1..Cols
  BY VgaAssumption DEF Shown
<1>1. ASSUME NEW l \in Lines, NEW j \in 1..Cols, NEW color \in Colors, Store(l, j, color)
      PROVE TypeOK' /\ AtFirstCol'
  <2>1. CASE l \in Shown
    BY <1>a, <1>1, <2>1 DEF Store, TypeOK, AtFirstCol, Cells
  <2>2. CASE l \notin Shown
    BY <1>a, <1>1, <2>2 DEF Store, TypeOK, AtFirstCol
  <2>. QED
    BY <2>1, <2>2
<1>2. CASE SetLineDirty
  <2>1. <<cpu.line, cpu.col>> \in Cells
    BY <1>a DEF TypeOK, Cells
  <2>. QED
    BY <1>a, <1>2, <2>1 DEF SetLineDirty, TypeOK, AtFirstCol
<1>3. CASE SetVmemDirty
  BY <1>a, <1>b, <1>3 DEF SetVmemDirty, NoStore, TypeOK, AtFirstCol
<1>4. CASE StartUpdate
  BY <1>a, <1>b, <1>4 DEF StartUpdate, TypeOK, AtFirstCol
<1>5. CASE TestLine
  <2>1. CASE line_dirty[dev.line]
    BY <1>a, <1>5, <2>1 DEF TestLine, TypeOK, AtFirstCol
  <2>2. CASE ~line_dirty[dev.line]
    BY <1>a, <1>5, <2>2, NextLineType DEF TestLine, TypeOK, AtFirstCol
  <2>. QED
    BY <2>1, <2>2
<1>6. CASE Draw
  <2>1. screen' \in [Cells -> Colors] /\ raced' \subseteq Cells
    <3>1. <<dev.line, dev.col>> \in Cells
      BY <1>a DEF TypeOK, Cells
    <3>. QED
      BY <1>a, <1>6, <3>1 DEF Draw, TypeOK
  <2>2. CASE dev.col = Cols
    BY <1>a, <1>6, <2>1, <2>2, NextLineType DEF Draw, TypeOK, AtFirstCol
  <2>3. CASE dev.col # Cols
    <3>1. dev.col + 1 \in 1..Cols
      BY <1>a, <2>3, VgaAssumption DEF TypeOK
    <3>. QED
      BY <1>a, <1>6, <2>1, <2>3, <3>1 DEF Draw, TypeOK, AtFirstCol
  <2>. QED
    BY <2>2, <2>3
<1>7. CASE ClearDirty
  BY <1>a, <1>b, <1>7 DEF ClearDirty, Goto, Following, TypeOK, AtFirstCol
<1>8. CASE ClearLine
  <2>1. line_dirty' \in [Shown -> BOOLEAN]
    BY <1>a, <1>8 DEF ClearLine, TypeOK
  <2>2. CASE dev.line = LastLine
    BY <1>a, <1>b, <1>8, <2>1, <2>2 DEF ClearLine, Goto, Following, TypeOK, AtFirstCol
  <2>3. CASE dev.line # LastLine
    <3>1. dev.line + 1 \in Shown
      BY <1>a, <2>3, VgaAssumption DEF TypeOK, Shown, LastLine
    <3>. QED
      BY <1>a, <1>8, <2>1, <2>3, <3>1 DEF ClearLine, TypeOK, AtFirstCol
  <2>. QED
    BY <2>2, <2>3
<1>9. CASE UNCHANGED vars
  BY <1>a, <1>9 DEF vars, TypeOK, AtFirstCol
<1>. QED
  BY <1>1, <1>2, <1>3, <1>4, <1>5, <1>6, <1>7, <1>8, <1>9 DEF Next

(***************************************************************************)
(* A stale cell stays due.                                                 *)
(***************************************************************************)
\* An update that passes a line without its flag passes no stale cell of it
\* but one that is being stored; one that passes a cell has drawn it.
LEMMA UpdateKeepsDue ==
  ASSUME IInv, NEW l \in Shown, NEW j \in 1..Cols, Stale(l, j)',
         StartUpdate \/ TestLine \/ Draw \/ ClearDirty \/ ClearLine
  PROVE  Due(l, j)'
<1>a. TypeOK /\ AtFirstCol
  BY DEF IInv
<1>b. <<l, j>> \in Cells /\ <<dev.line, dev.col>> \in Cells
  BY <1>a DEF TypeOK, Cells
<1>c. l \in Nat /\ j \in Nat /\ l <= Rows /\ j <= Cols /\ dev.line \in Nat /\ dev.col \in Nat /\ Rows \in Nat /\ Cols \in Nat
  BY <1>a, VgaAssumption DEF TypeOK, Shown
<1>d. cpu' = cpu /\ vmem' = vmem
  BY DEF StartUpdate, TestLine, Draw, ClearDirty, ClearLine
<1>1. CASE StartUpdate
  <2>1. Due(l, j)
    BY <1>1 DEF StartUpdate, IInv, StaleIsDue, Stale
  <2>. QED
    BY <1>1, <1>c, <2>1 DEF StartUpdate, Due, Storing, Flagged, Behind, Shown
<1>2. CASE TestLine
  <2>1. Due(l, j)
    BY <1>2 DEF TestLine, IInv, StaleIsDue, Stale
  <2>2. CASE line_dirty[dev.line]
    BY <1>2, <1>a, <1>c, <2>1, <2>2 DEF TestLine, TypeOK, AtFirstCol, Due, Storing, Flagged, Behind
  <2>3. CASE ~line_dirty[dev.line]
    <3>1. l = dev.line => Storing(l, j)
      BY <2>1, <2>3 DEF Due, Flagged
    <3>2. l # dev.line /\ ~Behind(l, j) => ~Behind(l, j)'
      BY <1>2, <1>a, <1>c, <2>3, NextLineType DEF TestLine, TypeOK, Behind, Shown
    <3>. QED
      BY <1>2, <2>1, <3>1, <3>2 DEF TestLine, Due, Storing, Flagged
  <2>. QED
    BY <2>2, <2>3
<1>3. CASE Draw
  <2>1. l # dev.line \/ j # dev.col
    <3>1. screen'[<<dev.line, dev.col>>] = vmem[<<dev.line, dev.col>>]
      BY <1>3, <1>a, <1>b DEF Draw, TypeOK
    <3>. QED
      BY <3>1, <1>d DEF Stale
  <2>2. Stale(l, j)
    <3>1. <<l, j>> # <<dev.line, dev.col>>
      BY <2>1
    <3>2. screen'[<<l, j>>] = screen[<<l, j>>]
      BY <1>3, <1>a, <1>b, <3>1 DEF Draw, TypeOK
    <3>3. <<l, j>> \notin raced
      BY <1>3, <3>1 DEF Draw, Stale
    <3>. QED
      BY <1>d, <3>2, <3>3 DEF Stale
  <2>3. Due(l, j)
    BY <2>2 DEF IInv, StaleIsDue
  <2>4. ~Behind(l, j) => ~Behind(l, j)'
    <3>1. CASE dev.col = Cols
      BY <1>3, <1>a, <1>c, <2>1, <3>1, NextLineType DEF Draw, TypeOK, Behind, Shown
    <3>2. CASE dev.col # Cols
      BY <1>3, <1>a, <1>c, <2>1, <3>2 DEF Draw, TypeOK, Behind, Shown
    <3>. QED
      BY <3>1, <3>2
  <2>. QED
    BY <1>3, <2>3, <2>4 DEF Draw, Due, Storing, Flagged
<1>4. CASE ClearDirty
  <2>1. Due(l, j) /\ Behind(l, j)
    BY <1>4 DEF ClearDirty, IInv, StaleIsDue, Stale, Behind
  <2>. QED
    BY <1>d, <2>1 DEF Due, Storing
<1>5. CASE ClearLine
  <2>1. Due(l, j)
    BY <1>5 DEF ClearLine, IInv, StaleIsDue, Stale
  <2>2. CASE l >= dev.line
    <3>1. Storing(l, j)
      BY <1>5, <2>1, <2>2 DEF ClearLine, Due, Behind
    <3>. QED
      BY <1>d, <3>1 DEF Due, Storing
  <2>3. CASE ~(l >= dev.line)
    <3>1. Storing(l, j) \/ Flagged(l)
      BY <2>1 DEF Due
    <3>2. line_dirty'[l] = line_dirty[l]
      <4>1. l # dev.line
        BY <1>c, <2>3
      <4>. QED
        BY <1>5, <1>a, <4>1 DEF ClearLine, TypeOK
    <3>3. ~Behind(l, j)'
      <4>1. CASE dev.line = LastLine
        BY <1>5, <4>1 DEF ClearLine, Goto, Following, Behind
      <4>2. CASE dev.line # LastLine
        BY <1>5, <1>a, <1>c, <2>3, <4>2 DEF ClearLine, TypeOK, Behind
      <4>. QED
        BY <4>1, <4>2
    <3>. QED
      BY <1>5, <3>1, <3>2, <3>3 DEF ClearLine, Due, Storing, Flagged
  <2>. QED
    BY <2>2, <2>3
<1>. QED
  BY <1>1, <1>2, <1>3, <1>4, <1>5

\* A store makes one cell stale, whose flag is the next thing set; a flag set
\* behind an update marks its cell, and those of its line, as raced.
LEMMA StoreKeepsDue ==
  ASSUME IInv, NEW l \in Shown, NEW j \in 1..Cols, Stale(l, j)',
         \/ \E k \in Lines, i \in 1..Cols, color \in Colors : Store(k, i, color)
         \/ SetLineDirty \/ SetVmemDirty
  PROVE  Due(l, j)'
<1>a. TypeOK
  BY DEF IInv
<1>b. <<l, j>> \in Cells
  BY DEF Cells
<1>c. dev' = dev /\ (Behind(l, j)' <=> Behind(l, j))
  BY DEF Store, SetLineDirty, SetVmemDirty, Behind
<1>1. ASSUME NEW k \in Lines, NEW i \in 1..Cols, NEW color \in Colors, Store(k, i, color)
      PROVE  Due(l, j)'
  <2>1. CASE k \notin Shown
    BY <1>1, <1>c, <2>1 DEF Store, IInv, StaleIsDue, Stale, Due, Storing, Flagged
  <2>2. CASE k \in Shown /\ l = k /\ j = i
    BY <1>1, <2>2 DEF Store, Due, Storing
  <2>3. CASE k \in Shown /\ ~(l = k /\ j = i)
    <3>1. <<l, j>> # <<k, i>>
      BY <2>3
    <3>2. vmem'[<<l, j>>] = vmem[<<l, j>>]
      BY <1>1, <1>a, <1>b, <2>3, <3>1 DEF Store, TypeOK
    <3>3. Due(l, j)
      BY <1>1, <3>2 DEF Store, IInv, StaleIsDue, Stale
    <3>. QED
      BY <1>1, <1>c, <2>3, <3>3 DEF Store, Due, Storing, Flagged
  <2>. QED
    BY <2>1, <2>2, <2>3
<1>2. CASE SetLineDirty
  <2>1. <<cpu.line, cpu.col>> \in Cells
    BY <1>a DEF TypeOK, Cells
  <2>2. <<l, j>>[1] = l /\ <<l, j>>[2] = j
    OBVIOUS
  <2>3. CASE l = cpu.line
    <3>1. ~Behind(l, j)
      <4>1. ASSUME Behind(l, j) PROVE FALSE
        <5>1. <<l, j>> \notin raced /\ <<l, j>> # <<cpu.line, cpu.col>>
          BY <1>2, <2>2, <4>1 DEF SetLineDirty, Stale
        <5>2. Storing(l, j)
          BY <1>2, <4>1, <5>1 DEF SetLineDirty, IInv, StaleIsDue, Stale, Due
        <5>. QED
          BY <5>1, <5>2 DEF Storing
      <4>. QED
        BY <4>1
    <3>. QED
      BY <1>2, <1>a, <1>c, <2>3, <3>1 DEF SetLineDirty, TypeOK, Due, Flagged
  <2>4. CASE l # cpu.line
    <3>1. <<l, j>> \notin raced
      BY <1>2, <2>2, <2>4 DEF SetLineDirty, Stale
    <3>2. Due(l, j)
      BY <1>2, <3>1 DEF SetLineDirty, IInv, StaleIsDue, Stale
    <3>3. line_dirty'[l] = line_dirty[l]
      BY <1>2, <1>a, <2>4 DEF SetLineDirty, TypeOK
    <3>. QED
      BY <1>2, <1>c, <2>4, <3>2, <3>3 DEF SetLineDirty, Due, Storing, Flagged
  <2>. QED
    BY <2>3, <2>4
<1>3. CASE SetVmemDirty
  <2>1. Due(l, j) /\ ~Storing(l, j)
    BY <1>3 DEF SetVmemDirty, IInv, StaleIsDue, Stale, Storing
  <2>. QED
    BY <1>3, <1>c, <2>1 DEF SetVmemDirty, Due, Flagged
<1>. QED
  BY <1>1, <1>2, <1>3

\* Every step keeps the invariant: the lemmas above, action by action.
LEMMA StepInvariant == IInv /\ [Next]_vars => IInv'
<1> SUFFICES ASSUME IInv, [Next]_vars PROVE IInv'
  OBVIOUS
<1>1. TypeOK' /\ AtFirstCol'
  BY StepTypes
<1>2. StaleIsDue'
  <2>1. CASE UNCHANGED vars
    BY <2>1 DEF vars, IInv, StaleIsDue, Stale, Due, Storing, Flagged, Behind
  <2>2. CASE Next
    <3>1. Shown' = Shown /\ Cols' = Cols
      BY DEF Shown
    <3>2. ASSUME NEW l \in Shown, NEW j \in 1..Cols, Stale(l, j)' PROVE Due(l, j)'
      BY <2>2, <3>2, UpdateKeepsDue, StoreKeepsDue DEF Next
    <3>. QED
      BY <3>2 DEF StaleIsDue
  <2>. QED
    BY <2>1, <2>2
<1>. QED
  BY <1>1, <1>2 DEF IInv

\* A cell that is due has its flags set or its store is not over.
LEMMA InvariantShows == IInv => TypeOK /\ StaleOnlyIfRaced
<1> SUFFICES ASSUME IInv, NEW cell \in Cells, screen[cell] # vmem[cell], cell \notin raced
             PROVE  \/ line_dirty[cell[1]] /\ vmem_dirty
                    \/ cpu.step # "None" /\ cpu.line = cell[1]
  BY DEF IInv, StaleOnlyIfRaced
<1>1. PICK l \in Shown, j \in 1..Cols : cell = <<l, j>>
  BY DEF Cells
<1>2. Due(l, j)
  BY <1>1 DEF IInv, StaleIsDue, Stale
<1>. QED
  BY <1>1, <1>2 DEF Due, Storing, Flagged

\* The device and the guest's stores are type correct on every screen: the loops
\* of update_screen() and its memset() stay inside the flags.
THEOREM TypeCorrect == Spec => []TypeOK
<1>1. Spec => []IInv
  BY InitInvariant, StepInvariant, PTL DEF Spec
<1>. QED
  BY <1>1, InvariantShows, PTL

\* A cell shows an old color after its store only in the race of the two
\* threads, whatever the size of the screen.
THEOREM ShownUnlessRaced == Spec => []StaleOnlyIfRaced
<1>1. Spec => []IInv
  BY InitInvariant, StepInvariant, PTL DEF Spec
<1>. QED
  BY <1>1, InvariantShows, PTL
=============================================================================
