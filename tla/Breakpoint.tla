----------------------------- MODULE Breakpoint -----------------------------
(***************************************************************************)
(* The monitor of NEMU: breakpoints and watchpoints (breakpoint.c), the    *)
(* commands that set, delete and run into them (ui.c), and the loop of     *)
(* exec() that they stop (cpu.c).                                          *)
(*                                                                         *)
(* The guest is a program of one-byte instructions at 0 .. NAddr - 1 with  *)
(* some code after it.  It contains no BREAK_POINT of its own and does not *)
(* write to its code, so that a byte of it is ORIG, the one it was loaded  *)
(* with, or INT3_CODE, which only the monitor writes.                      *)
(***************************************************************************)
EXTENDS Integers, Sequences

CONSTANTS
  Commands, \* what the user types
  NR_BP,    \* entries in bp_list
  NAddr,    \* bound: addresses a breakpoint is set at
  MaxSi,    \* bound: the argument of si
  Values    \* what a watched expression evaluates to

ASSUME CommandsAssumption == Commands \subseteq {"c", "si", "b", "w", "d"}
ASSUME NRAssumption == NR_BP \in Nat \ {0}
ASSUME NAddrAssumption == NAddr \in Nat \ {0}
ASSUME MaxSiAssumption == MaxSi \in Nat \ {0}
ASSUME ValuesAssumption == Values # {}

VARIABLES
  mem,             \* the bytes of the program
  eip,
  value,           \* the value of the watched expression
  nemu_state,
  n,               \* instructions exec() still has to run
  hit_break_rerun, \* exec()'s local
  cpu_pc,          \* "ui", "exec", or "quit" / "abort" at the end
  cmd,             \* the last command
  bp_list,         \* the fields of every entry
  in_use,          \* ... and its in_use bit
  head, free_      \* the two lists, as sequences of NOs

guest == <<mem, eip, value>>
loop  == <<nemu_state, n, hit_break_rerun, cpu_pc>>
lists == <<bp_list, in_use, head, free_>>
vars  == <<guest, loop, cmd, lists>>

NO    == 0 .. NR_BP - 1
Addr  == 0 .. NAddr - 1
Bytes == {"ORIG", "INT3_CODE"}
Forever == -1                    \* exec(-1): the unsigned n never runs out

Entry == [type : {"BREAKPOINT", "WATCHPOINT"}, addr : Addr, ori_byte : Bytes,
          old_val : Values]

Listed(seq) == {seq[i] : i \in 1 .. Len(seq)}

TypeOK ==
  /\ mem \in [Addr -> Bytes]
  /\ eip \in 0 .. NAddr
  /\ value \in Values
  /\ nemu_state \in {"STOP", "RUN", "READY", "BREAK"}
  /\ n \in 0 .. MaxSi \union {Forever}
  /\ hit_break_rerun \in BOOLEAN
  /\ cpu_pc \in {"ui", "exec", "quit", "abort"}
  /\ cmd \in {"c", "si", "b", "w", "d"}
  /\ bp_list \in [NO -> Entry]
  /\ in_use \subseteq NO
  /\ head \in Seq(NO) /\ free_ \in Seq(NO)

\* main.c and init_bp_list(); the entries are zero before they are used.
Init ==
  /\ mem = [a \in Addr |-> "ORIG"]
  /\ eip = 0
  /\ value \in Values
  /\ nemu_state = "READY"
  /\ n = 0
  /\ hit_break_rerun = FALSE
  /\ cpu_pc = "ui"
  /\ cmd = "c"
  /\ bp_list = [i \in NO |-> [type |-> "BREAKPOINT", addr |-> 0, ori_byte |-> "ORIG",
                              old_val |-> CHOOSE v \in Values : TRUE]]
  /\ in_use = {}
  /\ head = <<>>
  /\ free_ = [i \in 1 .. NR_BP |-> i - 1]

----------------------------------------------------------------------------
(* breakpoint.c                                                            *)

\* new_BP() and the insertion at the head, for the entry e.
NewBP(e) ==
  LET p == Head(free_)
  IN  /\ free_' = Tail(free_)
      /\ in_use' = in_use \union {p}
      /\ bp_list' = [bp_list EXCEPT ![p] = e]
      /\ head' = <<p>> \o head

\* assert(free_ != NULL) in new_BP().
PoolExhausted ==
  /\ free_ = <<>> /\ cpu_pc' = "abort"
  /\ UNCHANGED <<lists, mem, nemu_state, n, hit_break_rerun>>

SetBreakpoint(a) ==
  \/ PoolExhausted
  \/ /\ free_ # <<>>
     /\ NewBP([bp_list[Head(free_)] EXCEPT !.type = "BREAKPOINT", !.addr = a,
                                           !.ori_byte = mem[a]])
     /\ mem' = [mem EXCEPT ![a] = "INT3_CODE"]
     /\ UNCHANGED loop

SetWatchpoint ==
  \/ PoolExhausted
  \/ /\ free_ # <<>>
     /\ NewBP([bp_list[Head(free_)] EXCEPT !.type = "WATCHPOINT", !.old_val = value])
     /\ UNCHANGED <<mem, loop>>

Without(seq, i) == SubSeq(seq, 1, i - 1) \o SubSeq(seq, i + 1, Len(seq))

\* Mutant: the entry is not put back on the free list.
DeleteBreakpoint_Leaks(i) ==
  /\ head' = Without(head, i)
  /\ in_use' = in_use \ {head[i]}
  /\ UNCHANGED <<bp_list, free_>>

\* free_BP(): the bytes in memory stay as they are.
DeleteBreakpoint(i) ==
  /\ head' = Without(head, i)
  /\ free_' = <<head[i]>> \o free_
  /\ in_use' = in_use \ {head[i]}
  /\ UNCHANGED bp_list

\* The recursion frees the last of the list first.
DeleteAll ==
  /\ head' = <<>>
  /\ free_' = head \o free_
  /\ in_use' = in_use \ Listed(head)
  /\ UNCHANGED bp_list

IsBreakpoint(i) == bp_list[head[i]].type = "BREAKPOINT"
First(S) == CHOOSE i \in S : \A j \in S : i <= j

\* find_breakpoint(): where in the list, for all its matches.
At(a) == {i \in 1 .. Len(head) : IsBreakpoint(i) /\ bp_list[head[i]].addr = a}

\* resume_breakpoints() walks the list: every entry reads the byte at its
\* address, whatever is there by then, and writes INT3_CODE over it.
ResumedByte(i) ==
  LET a == bp_list[head[i]].addr
  IN  IF i = First(At(a)) THEN mem[a] ELSE "INT3_CODE"

Resumed ==
  [p \in NO |->
     IF \E i \in 1 .. Len(head) : head[i] = p /\ IsBreakpoint(i)
     THEN [bp_list[p] EXCEPT !.ori_byte =
             ResumedByte(CHOOSE i \in 1 .. Len(head) : head[i] = p)]
     ELSE bp_list[p]]

ResumedMem == [a \in Addr |-> IF At(a) # {} THEN "INT3_CODE" ELSE mem[a]]

\* scan_watchpoint(), with the value v: the entries it may stop at.
Changed(v) == {i \in 1 .. Len(head) : ~IsBreakpoint(i) /\ bp_list[head[i]].old_val # v}

----------------------------------------------------------------------------
(* ui.c: the commands.                                                     *)

Command(c) == c \in Commands /\ cpu_pc = "ui" /\ cmd' = c

CmdB(a) == Command("b") /\ SetBreakpoint(a) /\ UNCHANGED <<eip, value>>
CmdW    == Command("w") /\ SetWatchpoint /\ UNCHANGED <<eip, value>>

CmdD(i)  == i \in 1 .. Len(head) /\ Command("d") /\ DeleteBreakpoint(i) /\ UNCHANGED <<guest, loop>>
CmdDAll  == Command("d") /\ DeleteAll /\ UNCHANGED <<guest, loop>>

\* Mutant: exec() forgets that it was stopped at a breakpoint.
StartExec_ForgetsBreak(k) ==
  /\ hit_break_rerun' = FALSE
  /\ nemu_state' = "RUN"
  /\ n' = k
  /\ cpu_pc' = "exec"
  /\ UNCHANGED <<guest, lists>>

\* exec(): what precedes the loop.
StartExec(k) ==
  /\ hit_break_rerun' = (nemu_state = "BREAK")
  /\ nemu_state' = "RUN"
  /\ n' = k
  /\ cpu_pc' = "exec"
  /\ UNCHANGED <<guest, lists>>

CmdC     == Command("c") /\ StartExec(Forever)
CmdSi(k) == Command("si") /\ StartExec(k)

----------------------------------------------------------------------------
(* cpu.c: one round of the loop of exec().                                 *)

Armed(a) == a \in Addr /\ mem[a] = "INT3_CODE"

\* exec_inst(): the byte at eip, and what it leaves in nemu_state, eip and
\* the watched expression.  An instruction of the program may be its last.
ExecInst(state, next, v) ==
  IF Armed(eip) THEN state = "BREAK" /\ next = eip + 1 /\ v = value
  ELSE state \in {"RUN", "STOP"}

\* resume_breakpoints() after the instruction that was stopped at.
Entries == IF hit_break_rerun THEN Resumed ELSE bp_list
Memory  == IF hit_break_rerun THEN ResumedMem ELSE mem

\* "found, then restore the original opcode"
Found(state)    == state = "BREAK" /\ At(eip) # {}
Restored(state) == IF Found(state)
                   THEN [Memory EXCEPT ![eip] = Entries[head[First(At(eip))]].ori_byte]
                   ELSE Memory

\* Mutant: n is signed and counts on below zero.
Decremented_Signed(k) == k - 1

Decremented(k) == IF k = Forever THEN Forever ELSE k - 1

Iterate ==
  /\ cpu_pc = "exec" /\ n # 0 /\ nemu_state = "RUN"
  /\ hit_break_rerun' = FALSE
  /\ UNCHANGED <<cmd, in_use, head, free_>>
  /\ \E state \in {"RUN", "STOP", "BREAK"}, next \in 0 .. NAddr, v \in Values :
       /\ ExecInst(state, next, v)
       /\ value' = v
       /\ mem' = Restored(state)
       /\ n' = Decremented(n)
       /\ LET stop == IF Found(state) THEN eip ELSE next
          IN  IF Changed(v) # {}
              THEN \* a watchpoint: break out of the loop
                   LET p == head[First(Changed(v))]
                   IN  /\ bp_list' = [Entries EXCEPT ![p].old_val = v]
                       /\ eip' = stop
                       /\ nemu_state' = "READY"
                       /\ cpu_pc' = "ui"
              ELSE \* do_intr() may enter a handler
                   /\ bp_list' = Entries
                   /\ eip' \in {stop, NAddr}
                   /\ nemu_state' = state
                   /\ UNCHANGED cpu_pc

\* The loop's condition is false.
ExecReturn ==
  /\ cpu_pc = "exec" /\ (n = 0 \/ nemu_state # "RUN")
  /\ nemu_state' = IF nemu_state # "STOP" /\ n = 0 THEN "READY" ELSE nemu_state
  /\ cpu_pc' = IF nemu_state = "STOP" THEN "quit" ELSE "ui"
  /\ UNCHANGED <<guest, n, hit_break_rerun, cmd, lists>>

Next ==
  \/ \E a \in Addr : CmdB(a)
  \/ CmdW
  \/ \E i \in 1 .. NR_BP : CmdD(i)
  \/ CmdDAll
  \/ CmdC
  \/ \E k \in 1 .. MaxSi : CmdSi(k)
  \/ Iterate
  \/ ExecReturn

Spec == Init /\ [][Next]_vars

----------------------------------------------------------------------------
(* Properties.                                                             *)

(* The two lists share bp_list between them: every entry is in exactly one *)
(* of them, once, and its in_use bit says which.  new_BP() and free_BP()   *)
(* assert on the bit, and the loops over the lists rely on their ending.   *)
PoolPartitioned ==
  /\ Listed(head) = in_use
  /\ Listed(free_) = NO \ in_use
  /\ Len(head) + Len(free_) = NR_BP

\* A breakpoint is armed, or execution stands before the byte it restored.
Intact(i) ==
  LET b == bp_list[head[i]]
  IN  /\ b.ori_byte = "ORIG"
      /\ mem[b.addr] = "INT3_CODE" \/ nemu_state = "BREAK" \/ hit_break_rerun

SoloUse == cmd \in {"b", "c"} /\ Len(head) <= 1

(* One breakpoint, run into with "c" again and again, works: its byte is   *)
(* kept, it is armed whenever the program runs, and no INT3_CODE is left   *)
(* in memory without its entry.                                            *)
Sound == /\ \A i \in 1 .. Len(head) : Intact(i)
         /\ \A a \in Addr : Armed(a) => At(a) # {}
SoloBreakpointWorks == []SoloUse => []Sound

(* cpu.c:83: "found, then restore the original opcode", with breakpoints   *)
(* at different addresses.                                                 *)
AddrsDiffer == \A a \in Addr : \A i, j \in At(a) : i = j
RestoresOriginalOpcode ==
  [][Iterate /\ Armed(eip) /\ At(eip) # {} /\ AddrsDiffer => mem'[eip] = "ORIG"]_vars
=============================================================================
