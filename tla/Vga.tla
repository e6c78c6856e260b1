--------------------------------- MODULE Vga ---------------------------------
(* Graphic mode of the VGA (device/dev/vga.c): the guest's stores to video    *)
(* memory mark a line dirty, and the device thread draws the dirty lines in   *)
(* every fourth of its rounds (sdl.c).  The two threads share the memory and  *)
(* the flags without a lock; each access to them is a step of its own.        *)
(*                                                                            *)
(* A cell is an aligned word of a line, which a store never leaves: the       *)
(* programs here copy whole lines.  Drawing a pixel and copying the line to   *)
(* the window are one step; the palette is left out.                          *)
EXTENDS Naturals

CONSTANTS Rows,    \* CTR_ROW; the memory goes on after the last line shown
          Cols,    \* CTR_COL
          Colors   \* what a cell can hold

Lines == 1..Rows + 1
Shown == 1..Rows
Cells == Shown \X (1..Cols)

ASSUME VgaAssumption == Rows \in Nat \ {0} /\ Cols \in Nat \ {0} /\ Colors # {}

VARIABLES
  vmem,        \* video memory, the lines shown
  line_dirty, vmem_dirty,
  screen,      \* what the window shows
  cpu,         \* the store the main thread is at: its cell and next step
  dev,         \* where update_screen() is: its step, line and column
  raced        \* history: cells whose flag was set too late to count

vars == <<vmem, line_dirty, vmem_dirty, screen, cpu, dev, raced>>

NoStore == [step |-> "None", line |-> 1, col |-> 1]
NoUpdate == [step |-> "None", line |-> 1, col |-> 1]

Init ==
  /\ \E c \in Colors : vmem = [cell \in Cells |-> c] /\ screen = [cell \in Cells |-> c]
  /\ line_dirty = [l \in Shown |-> FALSE] /\ vmem_dirty = FALSE
  /\ cpu = NoStore /\ dev = NoUpdate /\ raced = {}

(***************************************************************************)
(* The main thread: mmio_write() stores, then calls vga_vmem_io_handler(). *)
(***************************************************************************)
Store(l, j, color) ==
  /\ cpu.step = "None"
  /\ IF l \in Shown
       THEN vmem' = [vmem EXCEPT ![<<l, j>>] = color] /\ cpu' = [step |-> "Line", line |-> l, col |-> j]
       ELSE UNCHANGED <<vmem, cpu>>
  /\ UNCHANGED <<line_dirty, vmem_dirty, screen, dev, raced>>

\* The update that is going on has passed the cell and will clear its flag.
Behind(l, j) ==
  \/ dev.step \in {"Test", "Draw"} /\ (l < dev.line \/ (l = dev.line /\ j < dev.col))
  \/ dev.step = "ClearDirty"
  \/ dev.step = "ClearLine" /\ l >= dev.line

\* A flag that is set in time makes up for the earlier ones of its line.
SetLineDirty ==
  /\ cpu.step = "Line" /\ cpu' = [cpu EXCEPT !.step = "Vmem"]
  /\ line_dirty' = [line_dirty EXCEPT ![cpu.line] = TRUE]
  /\ raced' = {cell \in raced \cup {<<cpu.line, cpu.col>>} :
                  cell[1] # cpu.line \/ Behind(cell[1], cell[2])}
  /\ UNCHANGED <<vmem, vmem_dirty, screen, dev>>

SetVmemDirty ==
  /\ cpu.step = "Vmem" /\ vmem_dirty' = TRUE
  /\ cpu' = NoStore
  /\ UNCHANGED <<vmem, line_dirty, screen, dev, raced>>

(***************************************************************************)
(* The device thread: update_screen().                                     *)
(***************************************************************************)
StartUpdate ==
  /\ dev.step = "None" /\ vmem_dirty
  /\ dev' = [step |-> "Test", line |-> 1, col |-> 1]
  /\ UNCHANGED <<vmem, line_dirty, vmem_dirty, screen, cpu, raced>>

\* Mutant: the flags of the lines are cleared before vmem_dirty.
Following_LinesFirst(step) ==
  CASE step = "Draw" -> "ClearLine" [] step = "ClearLine" -> "ClearDirty" [] OTHER -> "None"

\* What comes after the loop over the lines, after vmem_dirty = false, after memset().
Following(step) ==
  CASE step = "Draw" -> "ClearDirty" [] step = "ClearDirty" -> "ClearLine" [] OTHER -> "None"

Goto(step) == [step |-> step, line |-> 1, col |-> 1]
NextLine == IF dev.line = Rows THEN Goto(Following("Draw"))
            ELSE [step |-> "Test", line |-> dev.line + 1, col |-> 1]

\* Without its flag the whole line is passed over.
TestLine ==
  /\ dev.step = "Test"
  /\ dev' = IF line_dirty[dev.line] THEN [dev EXCEPT !.step = "Draw"] ELSE NextLine
  /\ UNCHANGED <<vmem, line_dirty, vmem_dirty, screen, cpu, raced>>

Draw ==
  /\ dev.step = "Draw"
  /\ screen' = [screen EXCEPT ![<<dev.line, dev.col>>] = vmem[<<dev.line, dev.col>>]]
  /\ raced' = raced \ {<<dev.line, dev.col>>}
  /\ dev' = IF dev.col = Cols THEN NextLine ELSE [dev EXCEPT !.col = @ + 1]
  /\ UNCHANGED <<vmem, line_dirty, vmem_dirty, cpu>>

ClearDirty ==
  /\ dev.step = "ClearDirty" /\ vmem_dirty' = FALSE
  /\ dev' = Goto(Following("ClearDirty"))
  /\ UNCHANGED <<vmem, line_dirty, screen, cpu, raced>>

\* Mutant: memset() is given one line more than there are.
LastLine_OneMore == Rows + 1

LastLine == Rows

\* memset(line_dirty, false, CTR_ROW)
ClearLine ==
  /\ dev.step = "ClearLine"
  /\ line_dirty' = [line_dirty EXCEPT ![dev.line] = FALSE]
  /\ dev' = IF dev.line = LastLine THEN Goto(Following("ClearLine")) ELSE [dev EXCEPT !.line = @ + 1]
  /\ UNCHANGED <<vmem, vmem_dirty, screen, cpu, raced>>

Next ==
  \/ \E l \in Lines, j \in 1..Cols, color \in Colors : Store(l, j, color)
  \/ SetLineDirty \/ SetVmemDirty
  \/ StartUpdate \/ TestLine \/ Draw \/ ClearDirty \/ ClearLine

Spec == Init /\ [][Next]_vars

(***************************************************************************)
(* Properties.                                                             *)
(***************************************************************************)
\* Every variable has its type, and the loops of update_screen() stay inside
\* the screen.
TypeOK ==
  /\ vmem \in [Cells -> Colors] /\ screen \in [Cells -> Colors]
  /\ line_dirty \in [Shown -> BOOLEAN] /\ vmem_dirty \in BOOLEAN
  /\ cpu \in [step : {"None", "Line", "Vmem"}, line : Shown, col : 1..Cols]
  /\ dev \in [step : {"None", "Test", "Draw", "ClearDirty", "ClearLine"}, line : Shown, col : 1..Cols]
  /\ raced \subseteq Cells

\* However the threads interleave, a cell whose store is over shows an old
\* color only if its line will be drawn in the next update, or if its flag was
\* set while an update that had already passed the cell was still to clear the
\* flags: the store is then not shown until the guest writes to the line again.
StaleOnlyIfRaced ==
  \A cell \in Cells :
    screen[cell] # vmem[cell] /\ cell \notin raced
      => \/ line_dirty[cell[1]] /\ vmem_dirty
         \/ cpu.step # "None" /\ cpu.line = cell[1]
=============================================================================
