------------------------------ MODULE IrqPath ------------------------------
(***************************************************************************)
(* The interrupt path of NEMU: two host threads share the one-slot         *)
(* interrupt controller (i8259_pic.c) without a lock.                      *)
(*                                                                         *)
(*   - NEMU_SDL_Thread (sdl.c) raises the timer and the keyboard           *)
(*     interrupts;                                                         *)
(*   - the main thread runs exec() (cpu.c): one guest instruction, then    *)
(*     do_intr().  The IDE device raises its interrupt from this thread,   *)
(*     inside the guest's OUT instruction.                                 *)
(*                                                                         *)
(* Every load and store of a variable both threads use is a step of its    *)
(* own, in program order (sequential consistency).  The guest is the       *)
(* kernel and the game: code that masks interrupts now and then, that      *)
(* reads a sector by waiting for the IDE interrupt (disk.c, ide.c) and     *)
(* that waits for ticks of the timer (hal/timer.c), and the handlers that  *)
(* irq_handle() dispatches to.                                             *)
(***************************************************************************)
EXTENDS Integers, Sequences

CONSTANTS MaxDepth,   \* bound: handlers nested on the guest's stack
          DelayTicks  \* the argument of SDL_Delay(), at most

ASSUME MaxDepthAssumption == MaxDepth \in Nat \ {0}
ASSUME DelayAssumption == DelayTicks \in Nat

VARIABLES
  intr_no,        \* i8259_pic.c: the number waiting in the controller
  cpu_intr,       \* cpu.intr: the line from the controller to the CPU
  nemu_state,     \* "RUN" or "STOP"
  sdl_pc,         \* where NEMU_SDL_Thread is
  cpu_pc,         \* where exec() is
  taken,          \* do_intr's local: the number it queried
  eflags_IF,      \* cpu.eflags.IF
  handlers,       \* the guest's interrupt frames, innermost last
  pc,             \* where the interrupted guest code is
  has_ide_intr,   \* ide.c (kernel)
  left            \* ticks SDL_Delay() still waits for: t - jiffy + 1

guestVars == <<eflags_IF, handlers, pc, has_ide_intr, left>>
vars == <<intr_no, cpu_intr, nemu_state, sdl_pc, cpu_pc, taken, guestVars>>

TIMER_IRQ    == 0
KEYBOARD_IRQ == 1
IDE_IRQ      == 14
IRQ_BASE     == 32

\* I8259_NO_INTR is -1, and intr_no a uint8_t: what it holds is 2^8 - 1.
I8259_NO_INTR == -1
NoIntr        == 256 + I8259_NO_INTR

Vector(irq) == irq + IRQ_BASE
Timer    == Vector(TIMER_IRQ)
Keyboard == Vector(KEYBOARD_IRQ)
Ide      == Vector(IDE_IRQ)
Vectors  == {Timer, Keyboard, Ide, NoIntr}

Frame == [vector : Vectors, ran : BOOLEAN, eflags_IF : BOOLEAN]
Top   == handlers[Len(handlers)]

TypeOK ==
  /\ intr_no \in Vectors
  /\ cpu_intr \in {0, 1}
  /\ nemu_state \in {"RUN", "STOP"}
  /\ sdl_pc \in {"timer", "timer_no", "timer_intr",
                 "poll", "key_no", "key_intr"}
  /\ cpu_pc \in {"exec", "ide_no", "ide_intr", "hlt",
                 "check", "query", "ack_no", "ack_intr", "raise", "done"}
  /\ taken \in Vectors
  /\ eflags_IF \in BOOLEAN
  /\ handlers \in Seq(Frame)
  /\ pc \in {"run", "masked", "issue", "wait", "sleep", "finish", "delay"}
  /\ has_ide_intr \in {0, 1}
  /\ left \in 0 .. DelayTicks + 1

\* After init_cond: sti() has run and the devices are silent.
Init ==
  /\ intr_no = NoIntr
  /\ cpu_intr = 0
  /\ nemu_state = "RUN"
  /\ sdl_pc = "timer"
  /\ cpu_pc = "exec"
  /\ taken = NoIntr
  /\ eflags_IF = TRUE
  /\ handlers = <<>>
  /\ pc = "run"
  /\ has_ide_intr = 0
  /\ left = 0

----------------------------------------------------------------------------
(* i8259_raise_intr and i8259_ack_intr: two stores each.                   *)

StoreNo(v)   == intr_no' = v  /\ UNCHANGED cpu_intr
\* Mutant: the line to the CPU counts the interrupts.
StoreIntr_Counts(b) == cpu_intr' = (IF b = 0 THEN 0 ELSE cpu_intr + b) /\ UNCHANGED intr_no
StoreIntr(b) == cpu_intr' = b /\ UNCHANGED intr_no

(* NEMU_SDL_Thread *)

SdlUnchanged == UNCHANGED <<nemu_state, cpu_pc, taken, guestVars>>

\* timer_intr() tests nemu_state before it raises.
SdlTimer ==
  /\ sdl_pc = "timer"
  /\ sdl_pc' = IF nemu_state = "RUN" THEN "timer_no" ELSE "poll"
  /\ UNCHANGED <<intr_no, cpu_intr>> /\ SdlUnchanged

SdlTimerNo ==
  /\ sdl_pc = "timer_no" /\ StoreNo(Timer)
  /\ sdl_pc' = "timer_intr"
  /\ SdlUnchanged

SdlTimerIntr ==
  /\ sdl_pc = "timer_intr" /\ StoreIntr(1)
  /\ sdl_pc' = "poll"
  /\ SdlUnchanged

\* SDL_PollEvent returned a key: keyboard_down, keyboard_up.
SdlKey ==
  /\ sdl_pc = "poll"
  /\ sdl_pc' = "key_no"
  /\ UNCHANGED <<intr_no, cpu_intr>> /\ SdlUnchanged

SdlKeyNo ==
  /\ sdl_pc = "key_no" /\ StoreNo(Keyboard)
  /\ sdl_pc' = "key_intr"
  /\ SdlUnchanged

SdlKeyIntr ==
  /\ sdl_pc = "key_intr" /\ StoreIntr(1)
  /\ sdl_pc' = "poll"
  /\ SdlUnchanged

\* SDL_PollEvent returned SDL_QUIT.
SdlQuit ==
  /\ sdl_pc = "poll"
  /\ nemu_state' = "STOP"
  /\ UNCHANGED <<intr_no, cpu_intr, sdl_pc, cpu_pc, taken, guestVars>>

\* The queue is empty: SDL_Delay for one period, then the next round.
SdlDelay ==
  /\ sdl_pc = "poll"
  /\ sdl_pc' = "timer"
  /\ UNCHANGED <<intr_no, cpu_intr>> /\ SdlUnchanged

SdlStep == \/ SdlTimer \/ SdlTimerNo \/ SdlTimerIntr
           \/ SdlKey \/ SdlKeyNo \/ SdlKeyIntr \/ SdlQuit \/ SdlDelay

----------------------------------------------------------------------------
(* exec(): the guest instruction.  Executing(code) holds when the next     *)
(* instruction belongs to the interrupted code, at the point "code".       *)

Ready == cpu_pc = "exec" /\ nemu_state = "RUN"
Executing(code) == Ready /\ handlers = <<>> /\ pc = code

Instruction(next) ==
  /\ cpu_pc' = next
  /\ UNCHANGED <<intr_no, cpu_intr, taken, sdl_pc>>

Run ==
  /\ Executing("run") \/ Executing("masked")
  /\ Instruction("check")
  /\ UNCHANGED <<nemu_state, guestVars>>

Cli ==
  /\ Executing("run")
  /\ eflags_IF' = FALSE /\ pc' = "masked"
  /\ Instruction("check")
  /\ UNCHANGED <<nemu_state, handlers, has_ide_intr, left>>

Sti ==
  /\ Executing("masked")
  /\ eflags_IF' = TRUE /\ pc' = "run"
  /\ Instruction("check")
  /\ UNCHANGED <<nemu_state, handlers, has_ide_intr, left>>

\* disk_do_read: clear_ide_intr().
ReadClear ==
  /\ Executing("run")
  /\ has_ide_intr' = 0 /\ pc' = "issue"
  /\ Instruction("check")
  /\ UNCHANGED <<nemu_state, eflags_IF, handlers, left>>

\* issue_read(): the OUT of command 0x20 makes the device raise IDE_IRQ.
ReadIssue ==
  /\ Executing("issue")
  /\ pc' = "wait"
  /\ Instruction("ide_no")
  /\ UNCHANGED <<nemu_state, eflags_IF, handlers, has_ide_intr, left>>

IdeRaiseNo ==
  /\ cpu_pc = "ide_no" /\ StoreNo(Ide)
  /\ cpu_pc' = "ide_intr"
  /\ UNCHANGED <<nemu_state, taken, sdl_pc, guestVars>>

IdeRaiseIntr ==
  /\ cpu_pc = "ide_intr" /\ StoreIntr(1)
  /\ cpu_pc' = "check"
  /\ UNCHANGED <<nemu_state, taken, sdl_pc, guestVars>>

\* Mutant: the test of the loop is negated.
ReadTest_Negated ==
  /\ Executing("wait")
  /\ pc' = IF has_ide_intr # 0 THEN "sleep" ELSE "finish"
  /\ Instruction("check")
  /\ UNCHANGED <<nemu_state, eflags_IF, handlers, has_ide_intr, left>>

\* wait_ide_intr(): the test of the loop, the HLT, the clear after it.
ReadTest ==
  /\ Executing("wait")
  /\ pc' = IF has_ide_intr = 0 THEN "sleep" ELSE "finish"
  /\ Instruction("check")
  /\ UNCHANGED <<nemu_state, eflags_IF, handlers, has_ide_intr, left>>

ReadSleep ==
  /\ Executing("sleep")
  /\ pc' = "wait"
  /\ Instruction("hlt")
  /\ UNCHANGED <<nemu_state, eflags_IF, handlers, has_ide_intr, left>>

\* Mutant: wait_ide_intr() does not clear the flag when it returns.
ReadFinish_KeepsFlag ==
  /\ Executing("finish")
  /\ pc' = "run"
  /\ Instruction("check")
  /\ UNCHANGED <<nemu_state, eflags_IF, handlers, has_ide_intr, left>>

ReadFinish ==
  /\ Executing("finish")
  /\ has_ide_intr' = 0 /\ pc' = "run"
  /\ Instruction("check")
  /\ UNCHANGED <<nemu_state, eflags_IF, handlers, left>>

\* HLT_Thread polls cpu.intr until it is set.
HltWake ==
  /\ cpu_pc = "hlt" /\ cpu_intr = 1
  /\ cpu_pc' = "check"
  /\ UNCHANGED <<intr_no, cpu_intr, nemu_state, taken, sdl_pc, guestVars>>

\* SDL_Delay() waits until the tick counter is past t.
SDL_Delay ==
  /\ Executing("run")
  /\ left' \in 1 .. DelayTicks + 1 /\ pc' = "delay"
  /\ Instruction("check")
  /\ UNCHANGED <<nemu_state, eflags_IF, handlers, has_ide_intr>>

DelayTest ==
  /\ Executing("delay")
  /\ pc' = IF left = 0 THEN "run" ELSE "delay"
  /\ Instruction("check")
  /\ UNCHANGED <<nemu_state, eflags_IF, handlers, has_ide_intr, left>>

\* Mutant: SDL_Delay() waits for one value of the counter, that comes round again.
Ticked_Passes(vector) ==
  IF vector # Timer THEN left ELSE IF left > 0 THEN left - 1 ELSE DelayTicks + 1

\* timer_event() counts; a tick after the last one awaited changes nothing.
Ticked(vector) == IF vector = Timer /\ left > 0 THEN left - 1 ELSE left

\* irq_handle(): the routine of the innermost frame.  Number 255 finds
\* irq_empty in the IDT, and the kernel panics.
HandlerBody ==
  /\ Ready /\ handlers # <<>> /\ ~Top.ran
  /\ handlers' = [handlers EXCEPT ![Len(handlers)].ran = TRUE]
  /\ has_ide_intr' = IF Top.vector = Ide THEN 1 ELSE has_ide_intr
  /\ nemu_state' = IF Top.vector = NoIntr THEN "STOP" ELSE nemu_state
  /\ left' = Ticked(Top.vector)
  /\ Instruction("check")
  /\ UNCHANGED <<eflags_IF, pc>>

\* Mutant: iret leaves IF clear.
HandlerIret_ClearsIF ==
  /\ Ready /\ handlers # <<>> /\ Top.ran
  /\ eflags_IF' = FALSE
  /\ handlers' = SubSeq(handlers, 1, Len(handlers) - 1)
  /\ Instruction("check")
  /\ UNCHANGED <<nemu_state, pc, has_ide_intr, left>>

HandlerIret ==
  /\ Ready /\ handlers # <<>> /\ Top.ran
  /\ eflags_IF' = Top.eflags_IF
  /\ handlers' = SubSeq(handlers, 1, Len(handlers) - 1)
  /\ Instruction("check")
  /\ UNCHANGED <<nemu_state, pc, has_ide_intr, left>>

----------------------------------------------------------------------------
(* exec(): do_intr() after the instruction, and the test of the loop.      *)

Emulator(from, next) ==
  /\ cpu_pc = from /\ cpu_pc' = next
  /\ UNCHANGED <<nemu_state, sdl_pc>>

CanNest == Len(handlers) < MaxDepth

\* Mutant: do_intr() does not look at IF.
Check_IgnoresIF ==
  /\ Emulator("check", IF cpu_intr = 1 /\ CanNest THEN "query" ELSE "exec")
  /\ UNCHANGED <<intr_no, cpu_intr, taken, guestVars>>

Check ==
  /\ Emulator("check", IF cpu_intr = 1 /\ eflags_IF /\ CanNest THEN "query" ELSE "exec")
  /\ UNCHANGED <<intr_no, cpu_intr, taken, guestVars>>

\* The assertion compares the byte with the int -1, so it always holds and
\* do_intr goes on whatever it read.
Query ==
  /\ Emulator("query", "ack_no")
  /\ taken' = intr_no
  /\ UNCHANGED <<intr_no, cpu_intr, guestVars>>

\* Mutant: i8259_ack_intr() leaves the number in the slot.
AckNo_KeepsNumber ==
  /\ Emulator("ack_no", "ack_intr")
  /\ UNCHANGED <<intr_no, cpu_intr, taken, guestVars>>

AckNo ==
  /\ Emulator("ack_no", "ack_intr") /\ StoreNo(NoIntr)
  /\ UNCHANGED <<taken, guestVars>>

AckIntr ==
  /\ Emulator("ack_intr", "raise") /\ StoreIntr(0)
  /\ UNCHANGED <<taken, guestVars>>

\* raise_intr(): pushes EFLAGS and jumps; IF stays as it is, whatever the
\* kind of gate.
RaiseIntr ==
  /\ Emulator("raise", "exec")
  /\ handlers' = Append(handlers, [vector |-> taken, ran |-> FALSE, eflags_IF |-> eflags_IF])
  /\ UNCHANGED <<intr_no, cpu_intr, taken, eflags_IF, pc, has_ide_intr, left>>

\* The loop of exec() ends.
ExecDone ==
  /\ nemu_state = "STOP"
  /\ Emulator("exec", "done")
  /\ UNCHANGED <<intr_no, cpu_intr, taken, guestVars>>

GuestStep == \/ Run \/ Cli \/ Sti
             \/ ReadClear \/ ReadIssue \/ ReadTest \/ ReadSleep \/ ReadFinish
             \/ SDL_Delay \/ DelayTest
             \/ HandlerBody \/ HandlerIret

CpuStep == \/ GuestStep \/ IdeRaiseNo \/ IdeRaiseIntr \/ HltWake
           \/ Check \/ Query \/ AckNo \/ AckIntr \/ RaiseIntr \/ ExecDone

Next == SdlStep \/ CpuStep

Spec == Init /\ [][Next]_vars

(* Both threads run; the event queue SDL_PollEvent drains is finite, so    *)
(* the loop over it ends again and again.                                  *)
Fairness == WF_vars(CpuStep) /\ WF_vars(SdlStep) /\ SF_vars(SdlDelay)

FairSpec == Spec /\ Fairness

----------------------------------------------------------------------------
(* Properties.                                                             *)

(* Where the interrupt of the outstanding read is: at most one place.      *)
InSlot       == intr_no = Ide /\ cpu_pc \notin {"ack_no"}
InCpu        == taken = Ide /\ cpu_pc \in {"ack_no", "ack_intr", "raise"}
IdeFrames    == {i \in 1 .. Len(handlers) : handlers[i].vector = Ide /\ ~handlers[i].ran}
Delivered    == has_ide_intr = 1
NotRaised    == cpu_pc = "ide_no"
InFlight     == NotRaised \/ InSlot \/ InCpu \/ IdeFrames # {} \/ Delivered

(* The disk interrupt of a read never outlives that read: while the kernel *)
(* is not between issue_read() and the end of wait_ide_intr(), no IDE      *)
(* interrupt is anywhere between the device and has_ide_intr.  A late one  *)
(* would end the wait of the NEXT disk_do_read before its sector is there  *)
(* (clear_ide_intr() before the command only clears what was delivered).   *)
NoStaleIdeIntr == pc \in {"run", "masked", "issue", "delay"} => ~InFlight

(* One command raises one interrupt: it is never in two of those places,   *)
(* however the two threads and nested handlers interleave with do_intr().  *)
IdeIntrOnce ==
  /\ InSlot => ~InCpu /\ IdeFrames = {} /\ ~Delivered
  /\ InCpu => IdeFrames = {} /\ ~Delivered
  /\ IdeFrames # {} => ~Delivered
  /\ \A i, j \in IdeFrames : i = j

(* What the kernel does between cli and sti is never interrupted, though   *)
(* do_intr() tests IF and pushes the frame in different steps and iret     *)
(* restores an IF saved earlier.                                           *)
CliExcludesHandlers == pc = "masked" => handlers = <<>> /\ cpu_pc # "raise"

Waiting == pc \in {"wait", "sleep"}
Stopped == nemu_state = "STOP"

(* The handlers do not starve the code they interrupt: again and again an  *)
(* instruction of that code is next, or it sleeps in hlt, or exec is over. *)
NotStarved == handlers = <<>> /\ cpu_pc \in {"exec", "hlt", "done"}

(* wait_ide_intr() sleeps in hlt only when its interrupt is lost already:  *)
(* the device raises it inside the OUT, and do_intr() takes it before the  *)
(* test of the loop.  So no interrupt slips in between the test and hlt.   *)
SleepsOnlyIfLost == pc = "sleep" => ~InFlight

(* The only way a disk read hangs is that its interrupt was overwritten in *)
(* the controller: a read whose interrupt is in flight ends, or the        *)
(* interrupt is lost, or the machine stops.                                *)
ReadEndsUnlessLost ==
  []<>NotStarved => (Waiting /\ InFlight) ~> (~Waiting \/ ~InFlight \/ Stopped)

(* Once nobody types any more every SDL_Delay() ends: ticks that overwrite *)
(* another, or that do_intr() acknowledges without having seen them, are   *)
(* lost, but not for ever; unless such a race stops the machine (number    *)
(* 255 has no handler) or the user quits.                                  *)
DelayEnds ==
  (<>[][~SdlKey]_vars) /\ []<>NotStarved
    => (pc = "delay" ~> (pc # "delay" \/ Stopped))

(* cpu.c:122 asserts that the number do_intr() queried is an interrupt.    *)
QueriedIsAnInterrupt == cpu_pc = "ack_no" => taken # NoIntr

(* sdl.c:25: "if receive SDL_QUIT, then terminal".                         *)
QuitTerminates == Stopped ~> (cpu_pc = "done")
=============================================================================
