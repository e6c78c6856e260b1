--------------------------- MODULE IrqPath_proofs ---------------------------
(***************************************************************************)
(* The safety invariants of IrqPath hold for every bound on the nesting of *)
(* handlers.  IInv is the inductive invariant: beside the invariants it    *)
(* says where a pc excludes another, and what do_intr() holds in its local *)
(* while the slot it was read from can still be overwritten.               *)
(***************************************************************************)
EXTENDS IrqPath, SequenceTheorems, TLAPS

\* IF is clear in the masked section only, so every frame saved it set.
MaskInv ==
  /\ eflags_IF <=> pc # "masked"
  /\ pc = "masked" => handlers = <<>>
  /\ \A i \in 1 .. Len(handlers) : handlers[i].eflags_IF
  /\ cpu_pc \in {"query", "ack_no", "ack_intr", "raise"} => eflags_IF

\* The command that raises the interrupt is the kernel's last instruction.
PcInv ==
  /\ cpu_pc \in {"ide_no", "ide_intr", "hlt"} => pc = "wait"
  /\ pc = "finish" => Delivered

\* Between the query and the acknowledgement only the other thread stores
\* to the slot, and it never stores Ide.
SlotInv ==
  /\ cpu_pc = "ack_no" /\ intr_no = Ide => taken = Ide
  /\ NotRaised => ~InSlot /\ IdeFrames = {} /\ ~Delivered

IInv == TypeOK /\ MaskInv /\ PcInv /\ SlotInv /\ NoStaleIdeIntr /\ IdeIntrOnce

----------------------------------------------------------------------------
(* The numbers, and what the two operations on the stack of frames do.     *)

LEMMA Numbers == /\ Timer = 32 /\ Keyboard = 33 /\ Ide = 46 /\ NoIntr = 255
                 /\ Vectors = {32, 33, 46, 255}
  BY DEF Timer, Keyboard, Ide, NoIntr, I8259_NO_INTR, Vector, TIMER_IRQ,
         KEYBOARD_IRQ, IDE_IRQ, IRQ_BASE, Vectors

LEMMA PoppedSeq ==
  ASSUME NEW S, NEW s \in Seq(S), s # <<>>
  PROVE  /\ SubSeq(s, 1, Len(s) - 1) \in Seq(S)
         /\ Len(SubSeq(s, 1, Len(s) - 1)) = Len(s) - 1
         /\ \A i \in 1 .. Len(s) - 1 : SubSeq(s, 1, Len(s) - 1)[i] = s[i]
  <1> DEFINE n == Len(s) - 1
  <1>1. n \in Nat /\ Len(s) \in Nat
    BY EmptySeq
  <1>2. \A i \in 1 .. n : s[i] \in S
    BY <1>1, ElementOfSeq
  <1>3. SubSeq(s, 1, n) \in Seq(S)
    BY <1>1
  <1>4. \A i \in 1 .. n : SubSeq(s, 1, n)[i] = s[i]
    BY <1>1
  <1>5. Len(SubSeq(s, 1, n)) = n
    <2> HIDE DEF n
    <2>1. Len(SubSeq(s, 1, n)) = IF 1 <= n THEN n - 1 + 1 ELSE 0
      BY <1>1, <1>2, SubSeqProperties, 1 \in Int, n \in Int
    <2> QED
      BY <1>1, <2>1
  <1> QED
    BY <1>3, <1>4, <1>5

LEMMA TopIsFrame ==
  ASSUME handlers \in Seq(Frame), handlers # <<>>
  PROVE  /\ Len(handlers) \in Nat \ {0}
         /\ Len(handlers) \in 1 .. Len(handlers)
         /\ Top \in Frame
  BY DEF Top

\* The handler of the innermost frame runs.
LEMMA RanFrames ==
  ASSUME handlers \in Seq(Frame), handlers # <<>>, ~Top.ran,
         handlers' = [handlers EXCEPT ![Len(handlers)].ran = TRUE]
  PROVE  /\ handlers' \in Seq(Frame)
         /\ Len(handlers') = Len(handlers)
         /\ \A i \in 1 .. Len(handlers) :
              /\ handlers'[i].eflags_IF = handlers[i].eflags_IF
              /\ handlers'[i].vector = handlers[i].vector
         /\ IdeFrames' = IdeFrames \ {Len(handlers)}
         /\ Top.vector = Ide <=> Len(handlers) \in IdeFrames
  <1> DEFINE n == Len(handlers)
             f == [handlers[n] EXCEPT !.ran = TRUE]
  <1>1. n \in Nat \ {0} /\ n \in 1 .. n /\ handlers[n] \in Frame
    BY TopIsFrame DEF Top
  <1>2. f \in Frame /\ f.ran /\ f.vector = handlers[n].vector
                    /\ f.eflags_IF = handlers[n].eflags_IF
    BY <1>1 DEF Frame
  <1>3. handlers' = [handlers EXCEPT ![n] = f]
    OBVIOUS
  <1> HIDE DEF f
  <1>4. handlers' \in Seq(Frame) /\ Len(handlers') = n
    <2> HIDE DEF n
    <2>1. [handlers EXCEPT ![n] = f] \in Seq(Frame)
      <3>1. n \in 1 .. Len(handlers) /\ f \in Frame /\ handlers \in Seq(Frame)
        BY <1>1, <1>2 DEF n
      <3> QED
        BY <3>1, ExceptSeq
    <2>2. Len(handlers') = n
      BY <1>1, <1>2, <1>3, ExceptSeq DEF n
    <2> QED
      BY <2>1, <2>2, <1>3
  <1>5. handlers'[n] = f /\ \A i \in 1 .. n : i # n => handlers'[i] = handlers[i]
    BY <1>1, <1>3
  <1>6. IdeFrames' = IdeFrames \ {n}
    BY <1>1, <1>2, <1>4, <1>5 DEF IdeFrames, Top
  <1>7. Top.vector = Ide <=> n \in IdeFrames
    BY <1>1 DEF IdeFrames, Top
  <1> QED
    BY <1>1, <1>2, <1>4, <1>5, <1>6, <1>7

\* iret pops a frame whose handler has run.
LEMMA PoppedFrames ==
  ASSUME handlers \in Seq(Frame), handlers # <<>>, Top.ran,
         handlers' = SubSeq(handlers, 1, Len(handlers) - 1)
  PROVE  /\ handlers' \in Seq(Frame)
         /\ Len(handlers') = Len(handlers) - 1
         /\ \A i \in 1 .. Len(handlers') : handlers'[i] = handlers[i]
         /\ IdeFrames' = IdeFrames
  <1> DEFINE n == Len(handlers)
  <1>1. n \in Nat \ {0} /\ handlers[n].ran
    BY TopIsFrame DEF Top
  <1>2. /\ handlers' \in Seq(Frame) /\ Len(handlers') = n - 1
        /\ \A i \in 1 .. n - 1 : handlers'[i] = handlers[i]
    BY PoppedSeq
  <1>4. IdeFrames' = IdeFrames
    BY <1>1, <1>2 DEF IdeFrames
  <1> QED
    BY <1>2, <1>4

\* raise_intr() pushes one.
LEMMA PushedFrames ==
  ASSUME handlers \in Seq(Frame), NEW v \in Vectors, NEW b \in BOOLEAN,
         handlers' = Append(handlers, [vector |-> v, ran |-> FALSE, eflags_IF |-> b])
  PROVE  /\ handlers' \in Seq(Frame)
         /\ Len(handlers') = Len(handlers) + 1
         /\ \A i \in 1 .. Len(handlers) : handlers'[i] = handlers[i]
         /\ handlers'[Len(handlers')].eflags_IF = b
         /\ IdeFrames' = IF v = Ide THEN IdeFrames \union {Len(handlers')} ELSE IdeFrames
  <1> DEFINE n == Len(handlers)
             f == [vector |-> v, ran |-> FALSE, eflags_IF |-> b]
  <1>1. n \in Nat /\ f \in Frame
    BY DEF Frame
  <1>2. f.vector = v /\ f.ran = FALSE /\ f.eflags_IF = b
    OBVIOUS
  <1>3. handlers' = Append(handlers, f)
    OBVIOUS
  <1> HIDE DEF f
  <1>4. /\ handlers' \in Seq(Frame) /\ Len(handlers') = n + 1
        /\ \A i \in 1 .. n : handlers'[i] = handlers[i]
        /\ handlers'[n + 1] = f
    BY <1>1, <1>3
  <1>5. IdeFrames' = IF v = Ide THEN IdeFrames \union {n + 1} ELSE IdeFrames
    BY <1>1, <1>2, <1>4 DEF IdeFrames
  <1> QED
    BY <1>2, <1>4, <1>5

\* IdeFrames depends on the stack alone.
LEMMA SameFrames == ASSUME handlers' = handlers PROVE IdeFrames' = IdeFrames
  BY DEF IdeFrames

----------------------------------------------------------------------------
(* Type correctness.                                                       *)

LEMMA TypeInit == Init => TypeOK
  BY DelayAssumption DEF Init, TypeOK, Vectors

LEMMA TypeNext == TypeOK /\ [Next]_vars => TypeOK'
  <1> SUFFICES ASSUME TypeOK, [Next]_vars PROVE TypeOK'
    OBVIOUS
  <1> USE DEF TypeOK
  <1>1. CASE SdlStep
    BY <1>1 DEF SdlStep, SdlTimer, SdlTimerNo, SdlTimerIntr, SdlKey, SdlKeyNo,
                SdlKeyIntr, SdlQuit, SdlDelay, SdlUnchanged, StoreNo, StoreIntr,
                Vectors, guestVars
  <1>2. CASE GuestStep
    <2>1. CASE HandlerBody
      <3>1. /\ handlers \in Seq(Frame) /\ handlers # <<>> /\ ~Top.ran
            /\ handlers' = [handlers EXCEPT ![Len(handlers)].ran = TRUE]
        BY <2>1 DEF HandlerBody
      <3>2. handlers' \in Seq(Frame)
        BY <3>1, RanFrames
      <3>3. left' \in 0 .. DelayTicks + 1
        BY <2>1, DelayAssumption DEF HandlerBody, Ticked
      <3> QED
        BY <2>1, <3>2, <3>3 DEF HandlerBody, Instruction
    <2>2. CASE HandlerIret
      <3>1. /\ handlers \in Seq(Frame) /\ handlers # <<>> /\ Top.ran
            /\ handlers' = SubSeq(handlers, 1, Len(handlers) - 1)
        BY <2>2 DEF HandlerIret
      <3>2. handlers' \in Seq(Frame) /\ Top.eflags_IF \in BOOLEAN
        BY <3>1, PoppedFrames, TopIsFrame DEF Frame
      <3> QED
        BY <2>2, <3>2 DEF HandlerIret, Instruction
    <2>3. CASE Run \/ Cli \/ Sti \/ ReadClear \/ ReadIssue \/ ReadTest \/ ReadSleep
               \/ ReadFinish
      BY <2>3 DEF Run, Cli, Sti, ReadClear, ReadIssue, ReadTest, ReadSleep,
                  ReadFinish, Instruction, guestVars
    <2>4. CASE SDL_Delay \/ DelayTest
      BY <2>4 DEF SDL_Delay, DelayTest, Instruction
    <2> QED
      BY <1>2, <2>1, <2>2, <2>3, <2>4 DEF GuestStep
  <1>3. CASE RaiseIntr
    <2>1. handlers' \in Seq(Frame)
      BY <1>3, PushedFrames DEF RaiseIntr
    <2> QED
      BY <1>3, <2>1 DEF RaiseIntr, Emulator
  <1>4. CASE IdeRaiseNo \/ IdeRaiseIntr \/ HltWake \/ Check \/ Query \/ AckNo
             \/ AckIntr \/ ExecDone
    BY <1>4 DEF IdeRaiseNo, IdeRaiseIntr, HltWake, Check, Query, AckNo, AckIntr,
                ExecDone, Emulator, StoreNo, StoreIntr, Vectors, guestVars
  <1>5. CASE UNCHANGED vars
    BY <1>5 DEF vars, guestVars
  <1> QED
    BY <1>1, <1>2, <1>3, <1>4, <1>5 DEF Next, CpuStep

(* Every variable keeps its type, the stack of frames at any depth.        *)
THEOREM TypeCorrect == Spec => []TypeOK
  BY TypeInit, TypeNext, PTL DEF Spec

----------------------------------------------------------------------------
(* The inductive invariant.                                                *)

LEMMA InvInit == Init => IInv
  <1> SUFFICES ASSUME Init PROVE IInv
    OBVIOUS
  <1>1. TypeOK
    BY TypeInit
  <1>2. IdeFrames = {}
    BY DEF Init, IdeFrames
  <1> QED
    BY <1>1, <1>2, Numbers DEF Init, IInv, MaskInv, PcInv, SlotInv, NoStaleIdeIntr,
       IdeIntrOnce, InFlight, InSlot, InCpu, NotRaised, Delivered

\* The other thread stores to the slot, and never Ide.
LEMMA SdlKeepsInv == IInv /\ TypeOK' /\ SdlStep => IInv'
  <1> SUFFICES ASSUME IInv, TypeOK', SdlStep PROVE IInv'
    OBVIOUS
  <1>1. UNCHANGED <<cpu_pc, taken, guestVars>> /\ (intr_no' = intr_no \/ intr_no' # Ide)
    BY Numbers DEF SdlStep, SdlTimer, SdlTimerNo, SdlTimerIntr, SdlKey, SdlKeyNo,
       SdlKeyIntr, SdlQuit, SdlDelay, SdlUnchanged, StoreNo, StoreIntr, guestVars
  <1>2. IdeFrames' = IdeFrames
    BY <1>1, SameFrames DEF guestVars
  <1>3. MaskInv' /\ PcInv'
    BY <1>1 DEF IInv, MaskInv, PcInv, Delivered, guestVars
  <1>4. (SlotInv /\ NoStaleIdeIntr /\ IdeIntrOnce)'
    BY <1>1, <1>2, Numbers DEF IInv, SlotInv, NoStaleIdeIntr, IdeIntrOnce, InFlight, InSlot, InCpu,
       NotRaised, Delivered, guestVars, Ide, Vector
  <1> QED
    BY <1>3, <1>4 DEF IInv

\* The instructions of the interrupted code: no frame is on the stack.
LEMMA MainKeepsInv ==
  ASSUME IInv, TypeOK',
         \/ Run \/ Cli \/ Sti \/ ReadClear \/ ReadIssue \/ ReadTest \/ ReadSleep \/ ReadFinish
         \/ SDL_Delay \/ DelayTest
  PROVE  IInv'
  <1>1. /\ handlers = <<>> /\ UNCHANGED <<handlers, intr_no, taken>>
        /\ cpu_pc = "exec" /\ cpu_pc' \in {"check", "ide_no", "hlt"}
    BY DEF Run, Cli, Sti, ReadClear, ReadIssue, ReadTest, ReadSleep, ReadFinish,
           SDL_Delay, DelayTest, Executing, Ready, Instruction, guestVars
  <1>2. IdeFrames = {} /\ IdeFrames' = {}
    BY <1>1 DEF IdeFrames
  <1>3. MaskInv'
    BY <1>1 DEF IInv, MaskInv, Run, Cli, Sti, ReadClear, ReadIssue, ReadTest, ReadSleep,
                ReadFinish, SDL_Delay, DelayTest, Executing, Instruction, guestVars
  <1>4. PcInv'
    BY <1>1 DEF IInv, TypeOK, PcInv, Delivered, Run, Cli, Sti, ReadClear, ReadIssue, ReadTest,
                ReadSleep, ReadFinish, SDL_Delay, DelayTest, Executing, Instruction, guestVars
  <1>5. (SlotInv /\ NoStaleIdeIntr /\ IdeIntrOnce)'
    <2> USE <1>1, <1>2 DEF IInv, PcInv, SlotInv, NoStaleIdeIntr, IdeIntrOnce, InFlight, InSlot,
                           InCpu, NotRaised, Delivered, Executing, Instruction
    <2>1. CASE Run \/ Cli \/ Sti
      BY <2>1 DEF Run, Cli, Sti, guestVars
    <2>2. CASE ReadClear
      BY <2>2 DEF ReadClear
    <2>3. CASE ReadIssue
      BY <2>3 DEF ReadIssue
    <2>4. CASE ReadTest
      BY <2>4 DEF ReadTest
    <2>5. CASE ReadSleep
      BY <2>5 DEF ReadSleep
    <2>6. CASE ReadFinish
      BY <2>6 DEF ReadFinish
    <2>7. CASE SDL_Delay \/ DelayTest
      BY <2>7 DEF SDL_Delay, DelayTest
    <2> QED
      BY <2>1, <2>2, <2>3, <2>4, <2>5, <2>6, <2>7
  <1> QED
    BY <1>3, <1>4, <1>5 DEF IInv

\* The routine of the innermost frame: the disk's hands its interrupt over.
LEMMA BodyKeepsInv ==
  ASSUME IInv, TypeOK', HandlerBody
  PROVE  IInv'
  <1> DEFINE n == Len(handlers)
  <1>1. /\ handlers \in Seq(Frame) /\ handlers # <<>> /\ ~Top.ran
        /\ handlers' = [handlers EXCEPT ![Len(handlers)].ran = TRUE]
        /\ cpu_pc = "exec" /\ cpu_pc' = "check"
        /\ UNCHANGED <<eflags_IF, pc, intr_no, taken>>
    BY DEF IInv, TypeOK, HandlerBody, Ready, Instruction
  <1>2. /\ Len(handlers') = n
        /\ \A i \in 1 .. n : handlers'[i].eflags_IF = handlers[i].eflags_IF
        /\ IdeFrames' = IdeFrames \ {n}
        /\ Top.vector = Ide <=> n \in IdeFrames
    BY <1>1, RanFrames
  <1>3. pc # "masked"
    BY <1>1 DEF IInv, MaskInv
  <1>4. MaskInv'
    BY <1>1, <1>2, <1>3 DEF IInv, MaskInv
  <1>5. has_ide_intr' = IF n \in IdeFrames THEN 1 ELSE has_ide_intr
    BY <1>2 DEF HandlerBody
  <1>6. PcInv'
    BY <1>1, <1>5 DEF IInv, PcInv, Delivered
  <1>7. n \in IdeFrames => IdeFrames' = {}
    BY <1>2 DEF IInv, IdeIntrOnce
  <1>8. (SlotInv /\ NoStaleIdeIntr /\ IdeIntrOnce)'
    BY <1>1, <1>2, <1>5, <1>7 DEF IInv, SlotInv, NoStaleIdeIntr, IdeIntrOnce, InFlight,
       InSlot, InCpu, NotRaised, Delivered
  <1> QED
    BY <1>4, <1>6, <1>8 DEF IInv

\* iret: the frame below saved a set IF, as this one did.
LEMMA IretKeepsInv ==
  ASSUME IInv, TypeOK', HandlerIret
  PROVE  IInv'
  <1>1. /\ handlers \in Seq(Frame) /\ handlers # <<>> /\ Top.ran
        /\ handlers' = SubSeq(handlers, 1, Len(handlers) - 1)
        /\ cpu_pc = "exec" /\ cpu_pc' = "check" /\ eflags_IF' = Top.eflags_IF
        /\ UNCHANGED <<pc, intr_no, taken, has_ide_intr>>
    BY DEF IInv, TypeOK, HandlerIret, Ready, Instruction
  <1>2. /\ Len(handlers) \in 1 .. Len(handlers) /\ Len(handlers) \in Nat
        /\ Len(handlers') = Len(handlers) - 1
        /\ \A i \in 1 .. Len(handlers') : handlers'[i] = handlers[i]
        /\ IdeFrames' = IdeFrames
    BY <1>1, PoppedFrames, TopIsFrame
  <1>3. Top.eflags_IF /\ pc # "masked"
    BY <1>1, <1>2 DEF IInv, MaskInv, Top
  <1>4. MaskInv'
    BY <1>1, <1>2, <1>3 DEF IInv, MaskInv
  <1>5. (PcInv /\ SlotInv /\ NoStaleIdeIntr /\ IdeIntrOnce)'
    BY <1>1, <1>2 DEF IInv, PcInv, SlotInv, NoStaleIdeIntr, IdeIntrOnce, InFlight,
       InSlot, InCpu, NotRaised, Delivered
  <1> QED
    BY <1>4, <1>5 DEF IInv

\* do_intr()'s last step puts what it took on the stack.
LEMMA RaiseKeepsInv ==
  ASSUME IInv, TypeOK', RaiseIntr
  PROVE  IInv'
  <1> DEFINE n == Len(handlers')
  <1>1. /\ handlers \in Seq(Frame) /\ taken \in Vectors /\ eflags_IF \in BOOLEAN
        /\ handlers' = Append(handlers, [vector |-> taken, ran |-> FALSE, eflags_IF |-> eflags_IF])
        /\ cpu_pc = "raise" /\ cpu_pc' = "exec"
        /\ UNCHANGED <<eflags_IF, pc, intr_no, taken, has_ide_intr>>
    BY DEF IInv, TypeOK, RaiseIntr, Emulator
  <1>2. /\ Len(handlers) \in Nat /\ n = Len(handlers) + 1
        /\ \A i \in 1 .. Len(handlers) : handlers'[i] = handlers[i]
        /\ handlers'[n].eflags_IF = eflags_IF
        /\ IdeFrames' = IF taken = Ide THEN IdeFrames \union {n} ELSE IdeFrames
    BY <1>1, PushedFrames
  <1>3. eflags_IF /\ pc # "masked"
    BY <1>1 DEF IInv, MaskInv
  <1>4. MaskInv'
    BY <1>1, <1>2, <1>3 DEF IInv, MaskInv
  <1>5. taken = Ide => IdeFrames = {} /\ ~Delivered /\ ~InSlot /\ pc \notin {"run", "masked", "issue", "finish", "delay"}
    BY <1>1, <1>3 DEF IInv, PcInv, IdeIntrOnce, NoStaleIdeIntr, InFlight, InCpu
  <1>6. (PcInv /\ SlotInv /\ NoStaleIdeIntr /\ IdeIntrOnce)'
    BY <1>1, <1>2, <1>5 DEF IInv, PcInv, SlotInv, NoStaleIdeIntr, IdeIntrOnce, InFlight,
       InSlot, InCpu, NotRaised, Delivered
  <1> QED
    BY <1>4, <1>6 DEF IInv

\* The other steps of the emulator leave the guest alone.
LEMMA EmulatorKeepsInv ==
  ASSUME IInv, TypeOK',
         IdeRaiseNo \/ IdeRaiseIntr \/ HltWake \/ Check \/ Query \/ AckNo \/ AckIntr \/ ExecDone
  PROVE  IInv'
  <1>1. UNCHANGED guestVars /\ IdeFrames' = IdeFrames
    <2>1. UNCHANGED guestVars
      BY DEF IdeRaiseNo, IdeRaiseIntr, HltWake, Check, Query, AckNo, AckIntr, ExecDone
    <2> QED
      BY <2>1, SameFrames DEF guestVars
  <1>2. MaskInv' /\ PcInv'
    BY <1>1 DEF IInv, MaskInv, PcInv, Delivered, guestVars, Emulator, IdeRaiseNo, IdeRaiseIntr,
                HltWake, Check, Query, AckNo, AckIntr, ExecDone
  <1>3. (SlotInv /\ NoStaleIdeIntr /\ IdeIntrOnce)'
    <2> USE <1>1, Numbers DEF IInv, PcInv, SlotInv, NoStaleIdeIntr, IdeIntrOnce, InFlight, InSlot,
            InCpu, NotRaised, Delivered, guestVars, Emulator, StoreNo, StoreIntr
    <2>1. CASE IdeRaiseNo
      BY <2>1 DEF IdeRaiseNo
    <2>2. CASE IdeRaiseIntr
      BY <2>2 DEF IdeRaiseIntr
    <2>3. CASE HltWake
      BY <2>3 DEF HltWake
    <2>4. CASE Check
      BY <2>4 DEF Check
    <2>5. CASE Query
      BY <2>5 DEF Query
    <2>6. CASE AckNo
      BY <2>6 DEF AckNo
    <2>7. CASE AckIntr
      BY <2>7 DEF AckIntr
    <2>8. CASE ExecDone
      BY <2>8 DEF ExecDone
    <2> QED
      BY <2>1, <2>2, <2>3, <2>4, <2>5, <2>6, <2>7, <2>8
  <1> QED
    BY <1>2, <1>3 DEF IInv

LEMMA InvNext == IInv /\ [Next]_vars => IInv'
  <1> SUFFICES ASSUME IInv, [Next]_vars PROVE IInv'
    OBVIOUS
  <1>1. TypeOK'
    BY TypeNext DEF IInv
  <1>2. CASE UNCHANGED vars
    <2>1. IdeFrames' = IdeFrames
      BY <1>2, SameFrames DEF vars, guestVars
    <2> QED
      BY <1>1, <1>2, <2>1 DEF vars, guestVars, IInv, MaskInv, PcInv, SlotInv, NoStaleIdeIntr,
         IdeIntrOnce, InFlight, InSlot, InCpu, NotRaised, Delivered
  <1>3. CASE SdlStep
    BY <1>1, <1>3, SdlKeepsInv
  <1>4. CASE GuestStep
    BY <1>1, <1>4, MainKeepsInv, BodyKeepsInv, IretKeepsInv DEF GuestStep
  <1>5. CASE CpuStep /\ ~GuestStep
    BY <1>1, <1>5, EmulatorKeepsInv, RaiseKeepsInv DEF CpuStep
  <1> QED
    BY <1>2, <1>3, <1>4, <1>5 DEF Next, CpuStep

LEMMA Invariance == Spec => []IInv
  BY InvInit, InvNext, PTL DEF Spec

(* No IDE interrupt is left over when the kernel is not waiting for one:   *)
(* at any nesting of the handlers, none completes a later disk read.       *)
THEOREM NoStaleInterrupt == Spec => []NoStaleIdeIntr
  <1>1. IInv => NoStaleIdeIntr
    BY DEF IInv
  <1> QED
    BY <1>1, Invariance, PTL

(* The interrupt of a command is in one place at most.                     *)
THEOREM InterruptOnce == Spec => []IdeIntrOnce
  <1>1. IInv => IdeIntrOnce
    BY DEF IInv
  <1> QED
    BY <1>1, Invariance, PTL

(* No handler runs, or is about to, between the kernel's cli and its sti.  *)
THEOREM MaskedCodeIsAtomic == Spec => []CliExcludesHandlers
  <1>1. IInv => CliExcludesHandlers
    BY DEF IInv, MaskInv, CliExcludesHandlers
  <1> QED
    BY <1>1, Invariance, PTL

----------------------------------------------------------------------------
(* wait_ide_intr() and the window before its hlt.                          *)

\* The disk's interrupt is in the slot only from the device's store to the
\* query that follows the same instruction.
WindowInv ==
  /\ cpu_pc \in {"ide_no", "ide_intr"} => handlers = <<>>
  /\ InSlot => /\ cpu_pc \in {"ide_intr", "check", "query"}
               /\ handlers = <<>>
               /\ cpu_pc = "check" => cpu_intr = 1
  /\ SleepsOnlyIfLost

LEMMA WindowInit == Init => WindowInv
  BY Numbers DEF Init, WindowInv, InSlot, SleepsOnlyIfLost

\* Where the interrupt is changes with these only.
LEMMA SameFlight ==
  ASSUME UNCHANGED <<intr_no, cpu_pc, taken, handlers, has_ide_intr>>
  PROVE  InFlight' = InFlight /\ InSlot' = InSlot
  BY SameFrames DEF InFlight, InSlot, InCpu, NotRaised, Delivered

LEMMA WindowNext == IInv /\ IInv' /\ WindowInv /\ [Next]_vars => WindowInv'
  <1> SUFFICES ASSUME IInv, IInv', WindowInv, [Next]_vars PROVE WindowInv'
    OBVIOUS
  <1> USE DEF WindowInv, SleepsOnlyIfLost
  <1>1. CASE UNCHANGED vars
    BY <1>1, SameFlight DEF vars, guestVars
  <1>2. CASE SdlStep
    <2>1. /\ UNCHANGED <<cpu_pc, taken, guestVars>> /\ (intr_no' = intr_no \/ intr_no' # Ide)
          /\ cpu_intr' = cpu_intr \/ cpu_intr' = 1
      BY <1>2, Numbers DEF SdlStep, SdlTimer, SdlTimerNo, SdlTimerIntr, SdlKey, SdlKeyNo,
         SdlKeyIntr, SdlQuit, SdlDelay, SdlUnchanged, StoreNo, StoreIntr, guestVars
    <2>2. IdeFrames' = IdeFrames
      BY <2>1, SameFrames DEF guestVars
    <2> QED
      BY <2>1, <2>2 DEF InFlight, InSlot, InCpu, NotRaised, Delivered, guestVars
  <1>3. CASE \/ Run \/ Cli \/ Sti \/ ReadClear \/ ReadIssue \/ ReadTest \/ ReadSleep
             \/ ReadFinish \/ SDL_Delay \/ DelayTest
    <2>1. /\ handlers = <<>> /\ UNCHANGED <<handlers, intr_no, taken>>
          /\ cpu_pc = "exec" /\ cpu_pc' \in {"check", "ide_no", "hlt"}
          /\ pc' = "sleep" => ReadTest /\ has_ide_intr = 0 /\ has_ide_intr' = 0 /\ cpu_pc' = "check"
      BY <1>3 DEF Run, Cli, Sti, ReadClear, ReadIssue, ReadTest, ReadSleep, ReadFinish,
                  SDL_Delay, DelayTest, Executing, Ready, Instruction, guestVars, IInv, TypeOK
    <2>2. IdeFrames' = {} /\ intr_no' # Ide
      BY <2>1 DEF IdeFrames, InSlot
    <2> QED
      BY <2>1, <2>2 DEF InFlight, InSlot, InCpu, NotRaised, Delivered
  <1>4. CASE HandlerBody \/ HandlerIret \/ RaiseIntr
    <2>1. /\ cpu_pc \in {"exec", "raise"} /\ cpu_pc' \in {"check", "exec"}
          /\ UNCHANGED <<pc, intr_no, taken>>
      BY <1>4 DEF HandlerBody, HandlerIret, RaiseIntr, Ready, Instruction, Emulator
    <2>2. intr_no' # Ide
      BY <2>1 DEF InSlot
    <2>3. pc' = "sleep" => ~InFlight'
      <3> SUFFICES ASSUME pc = "sleep", ~InFlight PROVE ~InFlight'
        BY <2>1
      <3>1. IdeFrames = {} /\ has_ide_intr # 1 /\ (cpu_pc = "raise" => taken # Ide)
        BY DEF InFlight, InCpu, Delivered
      <3>2. handlers \in Seq(Frame) /\ taken \in Vectors /\ eflags_IF \in BOOLEAN
        BY DEF IInv, TypeOK
      <3>3. CASE HandlerBody
        <4>0. /\ handlers # <<>> /\ ~Top.ran
              /\ handlers' = [handlers EXCEPT ![Len(handlers)].ran = TRUE]
          BY <3>3 DEF HandlerBody
        <4>1. IdeFrames' = IdeFrames \ {Len(handlers)} /\ Top.vector # Ide
          BY <3>1, <3>2, <4>0, RanFrames
        <4> QED
          BY <2>1, <2>2, <3>1, <3>3, <4>1 DEF HandlerBody, InFlight, InSlot, InCpu, NotRaised, Delivered
      <3>4. CASE HandlerIret
        <4>1. IdeFrames' = IdeFrames
          BY <3>2, <3>4, PoppedFrames DEF HandlerIret
        <4> QED
          BY <2>1, <2>2, <3>1, <3>4, <4>1 DEF HandlerIret, InFlight, InSlot, InCpu, NotRaised, Delivered
      <3>5. CASE RaiseIntr
        <4>1. taken # Ide
          BY <3>1, <3>5 DEF RaiseIntr, Emulator
        <4>2. IdeFrames' = IdeFrames
          BY <3>2, <3>5, <4>1, PushedFrames DEF RaiseIntr
        <4> QED
          BY <2>1, <2>2, <3>1, <3>5, <4>2 DEF RaiseIntr, InFlight, InSlot, InCpu, NotRaised, Delivered
      <3> QED
        BY <1>4, <3>3, <3>4, <3>5
    <2> QED
      BY <2>1, <2>2, <2>3 DEF InSlot
  <1>5. CASE IdeRaiseNo \/ IdeRaiseIntr \/ HltWake \/ Check \/ Query \/ AckNo \/ AckIntr \/ ExecDone
    <2>1. UNCHANGED guestVars /\ IdeFrames' = IdeFrames
      <3>1. UNCHANGED guestVars
        BY <1>5 DEF IdeRaiseNo, IdeRaiseIntr, HltWake, Check, Query, AckNo, AckIntr, ExecDone
      <3> QED
        BY <3>1, SameFrames DEF guestVars
    <2> USE <2>1, Numbers DEF guestVars, InFlight, InSlot, InCpu, NotRaised, Delivered,
            Emulator, StoreNo, StoreIntr
    <2>2. CASE IdeRaiseNo
      <3>1. pc = "wait"
        BY <2>2 DEF IdeRaiseNo, IInv, PcInv
      <3> QED
        BY <2>2, <3>1 DEF IdeRaiseNo
    <2>3. CASE IdeRaiseIntr
      BY <2>3 DEF IdeRaiseIntr
    <2>4. CASE HltWake
      BY <2>4 DEF HltWake
    <2>5. CASE Check
      <3>1. InSlot => eflags_IF
        BY DEF IInv, MaskInv, NoStaleIdeIntr
      <3>2. InSlot => CanNest
        BY MaxDepthAssumption DEF CanNest
      <3> QED
        BY <2>5, <3>1, <3>2 DEF Check
    <2>6. CASE Query
      BY <2>6 DEF Query
    <2>7. CASE AckNo
      BY <2>7 DEF AckNo
    <2>8. CASE AckIntr
      BY <2>8 DEF AckIntr
    <2>9. CASE ExecDone
      BY <2>9 DEF ExecDone
    <2> QED
      BY <1>5, <2>2, <2>3, <2>4, <2>5, <2>6, <2>7, <2>8, <2>9
  <1> QED
    BY <1>1, <1>2, <1>3, <1>4, <1>5 DEF Next, CpuStep, GuestStep

(* wait_ide_intr() sleeps only when its interrupt was overwritten before:  *)
(* the window between the test of its loop and hlt is never hit.           *)
THEOREM NoLostWakeup == Spec => []SleepsOnlyIfLost
  <1>1. WindowInv => SleepsOnlyIfLost
    BY DEF WindowInv
  <1> QED
    BY <1>1, Invariance, WindowInit, WindowNext, PTL DEF Spec
=============================================================================
