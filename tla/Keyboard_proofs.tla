--------------------------- MODULE Keyboard_proofs ---------------------------
(***************************************************************************)
(* The safety properties of Keyboard hold for every table of keys, every   *)
(* set of directions and every depth to which handlers nest.               *)
(***************************************************************************)
EXTENDS Keyboard, SequenceTheorems, WellFoundedInduction, TLAPS

\* The main program is in process_keys() with interrupts masked, and the key
\* it found is in the state it was found in.
Masked ==
  /\ pc \in {"Find", "Pressed", "Released"} => ~eflags_IF /\ Depth = 0
  /\ pc = "Pressed" => found \in Keys /\ key_state[found] = "Press"
  /\ pc = "Released" => found \in Keys /\ key_state[found] = "Release"

\* A handler is about to store the press of a key the party does not walk by,
\* and the two directions differ.
PressIsNew ==
  /\ dir # NoKey => dir # prevdir
  /\ \A i \in 1..Depth :
       frames[i].step = "Press" => frames[i].code.key \in Keys \ {dir, prevdir}

\* The release of k is in the buffer or in a handler, or it went astray.
OnItsWay(k) ==
  \/ k \in lost
  \/ unread /\ scan_code_buf = Up(k)
  \/ \E i \in 1..Depth : frames[i].step = "Test" /\ frames[i].code = Up(k)

\* The game knows of it, and no handler will store a press on top.
Settled(k) ==
  /\ key_state[k] \in {"Empty", "Release"}
  /\ \A i \in 1..Depth : frames[i].step # "Enter" /\ frames[i].code.key = k =>
       frames[i].step = "Test" /\ key_state[k] = "Release"

\* A down code in the buffer is that of a key which is held, and the buffer is
\* only empty before the first event.
BufferInv == IF scan_code_buf.up THEN scan_code_buf.key \in Keys
             ELSE scan_code_buf.key \in held \cup {NoKey}
ReleaseInv == \A k \in Keys \ held : OnItsWay(k) \/ Settled(k)

IInv == TypeOK /\ WalksOnlyHeld /\ Masked /\ PressIsNew /\ BufferInv /\ ReleaseInv

----------------------------------------------------------------------------
(* The stack of handlers.                                                  *)

\* The innermost handler returns.
LEMMA PoppedFrames ==
  ASSUME frames \in Seq(Frame), Depth > 0, Iret
  PROVE  /\ frames' \in Seq(Frame) /\ Depth' = Depth - 1
         /\ \A i \in 1..Depth - 1 : frames'[i] = frames[i]
<1>1. Depth \in Nat /\ Depth = Len(frames) /\ Depth' = Len(frames')
  BY DEF Depth
<1>2. frames' = SubSeq(frames, 1, Depth - 1)
  BY DEF Iret, Front, Depth
<1>3. \A i \in 1..Depth - 1 : frames[i] \in Frame
  BY <1>1, ElementOfSeq
<1>. QED
  BY <1>1, <1>2, <1>3, SubSeqProperties

\* The innermost handler goes on.
LEMMA ChangedFrames ==
  ASSUME frames \in Seq(Frame), Depth > 0, NEW f \in Frame,
         frames' = [frames EXCEPT ![Depth] = f]
  PROVE  /\ frames' \in Seq(Frame) /\ Depth' = Depth
         /\ frames'[Depth] = f
         /\ \A i \in 1..Depth - 1 : frames'[i] = frames[i]
<1>1. Depth \in 1..Len(frames) /\ Depth = Len(frames) /\ Depth' = Len(frames')
  BY DEF Depth
<1>2. frames' \in Seq(Frame) /\ Len(frames') = Len(frames)
  BY <1>1, ExceptSeq
<1>. QED
  BY <1>1, <1>2, ExceptSeq

\* An interrupt is taken.
LEMMA PushedFrames ==
  ASSUME frames \in Seq(Frame), NEW f \in Frame, frames' = Append(frames, f)
  PROVE  /\ frames' \in Seq(Frame) /\ Depth' = Depth + 1 /\ Depth \in Nat
         /\ frames'[Depth + 1] = f
         /\ \A i \in 1..Depth : frames'[i] = frames[i]
BY AppendProperties DEF Depth

----------------------------------------------------------------------------
(* The poll finds the first key in the table whose state has changed.      *)

\* FirstPending is a pending key, or NoKey.
LEMMA FirstPendingType ==
  FirstPending \in Pending \cup {NoKey} /\ (FirstPending # NoKey => FirstPending \in Pending)
<1>1. CASE Pending = {}
  BY <1>1 DEF FirstPending
<1>2. CASE Pending # {}
  <2>1. Pending \subseteq Nat
    BY KeyboardAssumption DEF Pending, Keys
  <2> DEFINE R == {ss \in Nat \X Nat : ss[1] < ss[2]}
  <2>0. IsWellFoundedOn(R, Nat)
    BY NatLessThanWellFounded DEF OpToRel
  <2>2. PICK k \in Pending : \A j \in Pending : ~(<<j, k>> \in R)
    BY <1>2, <2>0, <2>1, WFMin
  <2>3. \A j \in Pending : k <= j
    <3> TAKE j \in Pending
    <3>1. j \in Nat /\ k \in Nat /\ ~(j < k)
      BY <2>1, <2>2
    <3>. QED
      BY <3>1
  <2>. QED
    BY <1>2, <2>3 DEF FirstPending
<1>. QED
  BY <1>1, <1>2

----------------------------------------------------------------------------
(* The invariant holds initially, and every step keeps it.                 *)

\* The handlers on the stack are frames.
LEMMA DepthType == TypeOK => Depth \in Nat /\ \A i \in 1..Depth : frames[i] \in Frame
BY ElementOfSeq DEF TypeOK, Depth

\* So is the innermost one.
LEMMA TopType == TypeOK /\ Depth > 0 => Depth \in 1..Depth /\ Top \in Frame /\ Top.code \in Code
BY DepthType DEF Top, Frame

\* Nothing was typed yet.
LEMMA InitInvariant == Init => IInv
<1> SUFFICES ASSUME Init PROVE IInv
  OBVIOUS
<1>1. frames = <<>> /\ Depth = 0 /\ frames \in Seq(Frame)
  BY DEF Init, Depth
<1>2. TypeOK
  <2>1. Silent \in Code /\ 0 <= MaxDepth
    BY KeyboardAssumption DEF Code, Silent
  <2>2. key_state \in [Keys -> {"Empty", "WaitRelease", "Release", "Press"}]
    BY DEF Init
  <2>. QED
    BY <1>1, <2>1, <2>2 DEF Init, TypeOK
<1>3. WalksOnlyHeld
  BY DEF Init, WalksOnlyHeld
<1>4. Masked /\ PressIsNew
  BY <1>1 DEF Init, Masked, PressIsNew
<1>5. BufferInv
  BY KeyboardAssumption DEF Init, BufferInv, Silent, NoKey, Keys
<1>6. ReleaseInv
  BY <1>1 DEF Init, ReleaseInv, Settled
<1>. QED
  BY <1>2, <1>3, <1>4, <1>5, <1>6 DEF IInv

\* A key that is pressed is held; one that is released is on its way, and an
\* event that was not read yet goes astray.
LEMMA KeyEventStep ==
  ASSUME IInv, NEW k \in Keys, NEW up \in BOOLEAN, KeyEvent(k, up)
  PROVE  IInv'
<1>1. /\ TypeOK /\ Depth' = Depth /\ Depth \in Nat
      /\ UNCHANGED <<eflags_IF, registered, frames, key_state, pc, found, dir, prevdir>>
  BY DepthType DEF IInv, KeyEvent, input, Depth
<1>2. /\ held' = IF up THEN held \ {k} ELSE held \cup {k}
      /\ scan_code_buf' = [key |-> k, up |-> up] /\ unread' = TRUE /\ intr' = TRUE
      /\ lost' = IF unread /\ scan_code_buf.up THEN lost \cup {scan_code_buf.key} ELSE lost
  BY DEF KeyEvent
<1>3. TypeOK'
  <2>1. lost' \subseteq Keys
    BY <1>1, <1>2 DEF TypeOK, IInv, BufferInv
  <2>2. scan_code_buf' \in Code /\ held' \subseteq Keys
    BY <1>1, <1>2 DEF TypeOK, Code
  <2>. QED
    BY <1>1, <1>2, <2>1, <2>2 DEF TypeOK
<1>4. WalksOnlyHeld' /\ Masked' /\ PressIsNew'
  BY <1>1 DEF IInv, WalksOnlyHeld, Masked, PressIsNew
<1>5. BufferInv'
  BY <1>2 DEF BufferInv
<1>6. ReleaseInv'
  <2> SUFFICES ASSUME NEW j \in Keys \ held' PROVE OnItsWay(j)' \/ Settled(j)'
    BY DEF ReleaseInv
  <2>1. CASE j = k
    <3>1. up
      BY <1>2, <2>1
    <3>. QED
      BY <1>2, <2>1, <3>1 DEF OnItsWay, Up
  <2>2. CASE j # k
    <3>1. j \in Keys \ held /\ (OnItsWay(j) \/ Settled(j))
      BY <1>2, <2>2 DEF IInv, ReleaseInv
    <3>2. Settled(j) => Settled(j)'
      BY <1>1 DEF Settled
    <3>3. CASE j \in lost
      BY <1>2, <3>3 DEF OnItsWay
    <3>4. CASE unread /\ scan_code_buf = Up(j)
      BY <1>2, <3>4 DEF OnItsWay, Up
    <3>5. CASE \E i \in 1..Depth : frames[i].step = "Test" /\ frames[i].code = Up(j)
      BY <1>1, <3>5 DEF OnItsWay, Up
    <3>. QED
      BY <3>1, <3>2, <3>3, <3>4, <3>5 DEF OnItsWay
  <2>. QED
    BY <2>1, <2>2
<1>. QED
  BY <1>3, <1>4, <1>5, <1>6 DEF IInv

\* An interrupt that is lost changes no key.
LEMMA DisplacedStep == IInv /\ Displaced => IInv'
<1> SUFFICES ASSUME IInv, Displaced PROVE IInv'
  OBVIOUS
<1>1. /\ TypeOK /\ Depth' = Depth /\ intr' = FALSE
      /\ UNCHANGED <<held, scan_code_buf, unread, eflags_IF, registered, frames, key_state,
                     pc, found, dir, prevdir, lost>>
  BY DEF IInv, Displaced, host, input, Depth
<1>2. TypeOK'
  BY <1>1 DEF TypeOK
<1>3. WalksOnlyHeld' /\ Masked' /\ PressIsNew' /\ BufferInv' /\ ReleaseInv'
  BY <1>1 DEF IInv, WalksOnlyHeld, Masked, PressIsNew, BufferInv, ReleaseInv, OnItsWay, Settled
<1>. QED
  BY <1>2, <1>3 DEF IInv

\* A handler is entered where interrupts are not masked.
LEMMA TakeKeyboardStep == IInv /\ TakeKeyboard => IInv'
<1> SUFFICES ASSUME IInv, TakeKeyboard PROVE IInv'
  OBVIOUS
<1> DEFINE f == [step |-> "Enter", code |-> Silent]
<1>1. /\ TypeOK /\ frames' = Append(frames, f) /\ intr' = FALSE /\ eflags_IF /\ Depth < MaxDepth
      /\ UNCHANGED <<held, scan_code_buf, unread, eflags_IF, registered, key_state, pc, found,
                     dir, prevdir, lost>>
  BY DEF IInv, TakeKeyboard, host, input
<1>2. f \in Frame /\ frames \in Seq(Frame)
  BY <1>1 DEF Frame, Code, Silent, TypeOK
<1>3. /\ frames' \in Seq(Frame) /\ Depth' = Depth + 1 /\ Depth \in Nat
      /\ frames'[Depth + 1] = f
      /\ \A i \in 1..Depth : frames'[i] = frames[i]
  <2> HIDE DEF f
  <2>. QED
    BY <1>1, <1>2, PushedFrames
<1>a. frames'[Depth + 1].step = "Enter"
  BY <1>3
<1>b. /\ eflags_IF /\ Depth < MaxDepth /\ Depth \in Nat /\ Depth' = Depth + 1 /\ intr' = FALSE
      /\ UNCHANGED <<held, scan_code_buf, unread, eflags_IF, registered, key_state, pc, found,
                     dir, prevdir, lost>>
      /\ \A i \in 1..Depth : frames'[i] = frames[i]
  BY <1>1, <1>3
<1>4. TypeOK'
  <2>1. Depth' <= MaxDepth
    BY <1>b, KeyboardAssumption
  <2>. QED
    BY <1>1, <1>3, <1>b, <2>1 DEF TypeOK
<1>5. WalksOnlyHeld' /\ Masked' /\ BufferInv'
  BY <1>b DEF IInv, WalksOnlyHeld, Masked, BufferInv
<1>6. PressIsNew'
  <2>1. \A i \in 1..Depth' : i \in 1..Depth \/ i = Depth + 1
    BY <1>b
  <2>. QED
    BY <1>a, <1>b, <2>1 DEF IInv, PressIsNew
<1>7. ReleaseInv'
  <2> SUFFICES ASSUME NEW j \in Keys \ held' PROVE OnItsWay(j)' \/ Settled(j)'
    BY DEF ReleaseInv
  <2>1. OnItsWay(j) \/ Settled(j)
    BY <1>b DEF IInv, ReleaseInv
  <2>2. \A i \in 1..Depth : i \in 1..Depth'
    BY <1>b
  <2>3. \A i \in 1..Depth' : i \in 1..Depth \/ i = Depth + 1
    BY <1>b
  <2>4. OnItsWay(j) => OnItsWay(j)'
    BY <1>b, <2>2 DEF OnItsWay, Up
  <2>5. Settled(j) => Settled(j)'
    BY <1>a, <1>b, <2>3 DEF Settled
  <2>. QED
    BY <2>1, <2>4, <2>5
<1>. QED
  BY <1>4, <1>5, <1>6, <1>7 DEF IInv

\* A handler that returns without a store takes no release with it.
LEMMA ReturnStep ==
  ASSUME IInv, Depth > 0, Iret, Top.step = "Enter" \/ ~Top.code.up \/ Top.code.key = NoKey,
         UNCHANGED <<held, scan_code_buf, unread, intr, eflags_IF, registered, key_state,
                     pc, found, dir, prevdir, lost>>
  PROVE  IInv'
<1>1. /\ frames' \in Seq(Frame) /\ Depth' = Depth - 1 /\ Depth \in Nat
      /\ \A i \in 1..Depth - 1 : frames'[i] = frames[i]
  BY PoppedFrames, DepthType DEF IInv, TypeOK
<1>2. /\ \A i \in 1..Depth' : i \in 1..Depth /\ frames'[i] = frames[i]
      /\ \A i \in 1..Depth : i \in 1..Depth' \/ i = Depth
  BY <1>1
<1>3. TypeOK'
  BY <1>1, KeyboardAssumption DEF IInv, TypeOK
<1>4. WalksOnlyHeld' /\ Masked' /\ BufferInv'
  BY <1>1 DEF IInv, WalksOnlyHeld, Masked, BufferInv
<1>5. PressIsNew'
  BY <1>2 DEF IInv, PressIsNew
<1>6. ReleaseInv'
  <2> SUFFICES ASSUME NEW j \in Keys \ held' PROVE OnItsWay(j)' \/ Settled(j)'
    BY DEF ReleaseInv
  <2>1. OnItsWay(j) \/ Settled(j)
    BY DEF IInv, ReleaseInv
  <2>2. Settled(j) => Settled(j)'
    BY <1>2 DEF Settled
  <2>3. CASE j \in lost \/ (unread /\ scan_code_buf = Up(j))
    BY <2>3 DEF OnItsWay, Up
  <2>4. CASE \E i \in 1..Depth : frames[i].step = "Test" /\ frames[i].code = Up(j)
    <3>1. PICK i \in 1..Depth : frames[i].step = "Test" /\ frames[i].code = Up(j)
      BY <2>4
    <3>2. i # Depth
      BY <3>1, KeyboardAssumption DEF Top, Up, Keys, NoKey
    <3>3. i \in 1..Depth' /\ frames'[i] = frames[i]
      BY <1>2, <3>2
    <3>. QED
      BY <3>1, <3>3 DEF OnItsWay, Up
  <2>. QED
    BY <2>1, <2>2, <2>3, <2>4 DEF OnItsWay
<1>. QED
  BY <1>3, <1>4, <1>5, <1>6 DEF IInv

\* Without a handler the interrupt is ignored.
LEMMA NoHandlerStep == IInv /\ NoHandler => IInv'
BY ReturnStep DEF NoHandler, host, input

\* A release that is read is in the handler.
LEMMA ReadCodeStep == IInv /\ ReadCode => IInv'
<1> SUFFICES ASSUME IInv, ReadCode PROVE IInv'
  OBVIOUS
<1> DEFINE f == [step |-> "Test", code |-> scan_code_buf]
<1>1. /\ TypeOK /\ BufferInv /\ Depth > 0 /\ Top.step = "Enter" /\ unread' = FALSE
      /\ frames' = [frames EXCEPT ![Depth] = f]
      /\ lost' = IF scan_code_buf.up THEN lost \ {scan_code_buf.key} ELSE lost
      /\ UNCHANGED <<held, scan_code_buf, intr, eflags_IF, registered, key_state, pc, found,
                     dir, prevdir>>
  BY DEF IInv, ReadCode, input
<1>2. f \in Frame /\ frames \in Seq(Frame) /\ Depth \in Nat /\ Depth \in 1..Depth
      /\ frames[Depth].step = "Enter"
  BY <1>1, TopType, DepthType DEF Frame, TypeOK, Top
<1>4. /\ frames' \in Seq(Frame) /\ Depth' = Depth /\ frames'[Depth] = f
      /\ \A i \in 1..Depth - 1 : frames'[i] = frames[i]
  <2> HIDE DEF f
  <2>. QED
    BY <1>1, <1>2, ChangedFrames
<1>5. /\ frames'[Depth].step = "Test" /\ frames'[Depth].code = scan_code_buf
      /\ \A i \in 1..Depth : i # Depth => frames'[i] = frames[i]
  BY <1>2, <1>4
<1>6. /\ unread' = FALSE /\ Depth' = Depth
      /\ lost' = IF scan_code_buf.up THEN lost \ {scan_code_buf.key} ELSE lost
      /\ UNCHANGED <<held, scan_code_buf, intr, eflags_IF, registered, key_state, pc, found,
                     dir, prevdir>>
  BY <1>1, <1>4
<1>7. TypeOK'
  BY <1>1, <1>4, <1>6 DEF TypeOK
<1>8. WalksOnlyHeld' /\ Masked' /\ BufferInv'
  BY <1>6 DEF IInv, WalksOnlyHeld, Masked, BufferInv
<1>9. PressIsNew'
  BY <1>2, <1>5, <1>6 DEF IInv, PressIsNew
<1>10. ReleaseInv'
  <2> SUFFICES ASSUME NEW j \in Keys \ held' PROVE OnItsWay(j)' \/ Settled(j)'
    BY DEF ReleaseInv
  <2>1. OnItsWay(j) \/ Settled(j)
    BY <1>6 DEF IInv, ReleaseInv
  <2>2. CASE scan_code_buf.key = j
    <3>1. scan_code_buf.up
      BY <1>1, <1>6, <2>2, KeyboardAssumption DEF BufferInv, NoKey, Keys
    <3>2. scan_code_buf = Up(j)
      BY <1>1, <2>2, <3>1 DEF TypeOK, Code, Up
    <3>. QED
      BY <1>2, <1>5, <1>6, <3>2 DEF OnItsWay, Up
  <2>3. CASE scan_code_buf.key # j
    <3>1. Settled(j) => Settled(j)'
      BY <1>2, <1>5, <1>6, <2>3 DEF Settled
    <3>2. CASE j \in lost
      BY <1>6, <2>3, <3>2 DEF OnItsWay
    <3>3. scan_code_buf # Up(j)
      BY <2>3 DEF Up
    <3>4. CASE \E i \in 1..Depth : frames[i].step = "Test" /\ frames[i].code = Up(j)
      BY <1>2, <1>5, <1>6, <3>4 DEF OnItsWay, Up
    <3>. QED
      BY <2>1, <3>1, <3>2, <3>3, <3>4 DEF OnItsWay
  <2>. QED
    BY <2>2, <2>3
<1>. QED
  BY <1>7, <1>8, <1>9, <1>10 DEF IInv

\* A press that is about to be stored is that of a key the party does not walk
\* by: the poll has taken it for the first time.
LEMMA PressStep ==
  ASSUME IInv, Depth > 0, Top.step = "Test", ~Top.code.up, Top.code.key # NoKey,
         key_state[Top.code.key] = "Empty", Goto("Press"),
         UNCHANGED <<held, scan_code_buf, unread, intr, eflags_IF, registered, key_state,
                     pc, found, dir, prevdir, lost>>
  PROVE  IInv'
<1> DEFINE f == [Top EXCEPT !.step = "Press"]
<1>1. TypeOK /\ Top \in Frame /\ Top.code \in Code /\ Depth \in Nat /\ Depth \in 1..Depth
  BY TopType, DepthType DEF IInv
<1>2. f \in Frame /\ f.step = "Press" /\ f.code = Top.code /\ frames \in Seq(Frame)
  BY <1>1 DEF Frame, TypeOK
<1>3. frames' = [frames EXCEPT ![Depth] = f]
  BY DEF Goto, Top
<1>4. /\ frames' \in Seq(Frame) /\ Depth' = Depth /\ frames'[Depth] = f
      /\ \A i \in 1..Depth - 1 : frames'[i] = frames[i]
  <2> HIDE DEF f
  <2>. QED
    BY <1>2, <1>3, ChangedFrames
<1>5. /\ frames'[Depth].step = "Press" /\ frames'[Depth].code = Top.code
      /\ \A i \in 1..Depth : i # Depth => frames'[i] = frames[i]
  BY <1>1, <1>2, <1>4
<1>a. Depth' = Depth
  BY <1>4
<1>6. Top.code.key \in Keys \ {dir, prevdir}
  <2>1. Top.code.key \in Keys
    BY <1>1 DEF Code
  <2>. QED
    BY <2>1 DEF IInv, WalksOnlyHeld
<1>7. TypeOK'
  BY <1>1, <1>4 DEF TypeOK
<1>8. WalksOnlyHeld' /\ Masked' /\ BufferInv'
  BY <1>4 DEF IInv, WalksOnlyHeld, Masked, BufferInv
<1>9. PressIsNew'
  BY <1>4, <1>5, <1>6 DEF IInv, PressIsNew
<1>10. ReleaseInv'
  <2> SUFFICES ASSUME NEW j \in Keys \ held' PROVE OnItsWay(j)' \/ Settled(j)'
    BY DEF ReleaseInv
  <2>1. OnItsWay(j) \/ Settled(j)
    BY DEF IInv, ReleaseInv
  <2>2. Settled(j) => Settled(j)'
    <3>1. Settled(j) => Top.code.key # j
      BY <1>1 DEF Settled, Top
    <3>. QED
      BY <1>5, <1>a, <3>1 DEF Settled
  <2>3. CASE j \in lost \/ (unread /\ scan_code_buf = Up(j))
    BY <2>3 DEF OnItsWay, Up
  <2>4. CASE \E i \in 1..Depth : frames[i].step = "Test" /\ frames[i].code = Up(j)
    <3>1. PICK i \in 1..Depth : frames[i].step = "Test" /\ frames[i].code = Up(j)
      BY <2>4
    <3>2. i # Depth
      BY <3>1 DEF Top, Up
    <3>. QED
      BY <1>4, <1>5, <3>1, <3>2 DEF OnItsWay, Up
  <2>. QED
    BY <2>1, <2>2, <2>3, <2>4 DEF OnItsWay
<1>. QED
  BY <1>7, <1>8, <1>9, <1>10 DEF IInv

\* A release that is stored is known to the game, unless a handler underneath
\* is about to store the press on top.
LEMMA ReleaseStep ==
  ASSUME IInv, Depth > 0, Top.step = "Test", Top.code.up, Iret,
         NEW k \in Keys, k = Top.code.key,
         key_state' = [key_state EXCEPT ![k] = "Release"],
         lost' = IF Crossed(k) THEN lost \cup {k} ELSE lost,
         UNCHANGED <<held, scan_code_buf, unread, intr, eflags_IF, registered,
                     pc, found, dir, prevdir>>
  PROVE  IInv'
<1>1. /\ frames' \in Seq(Frame) /\ Depth' = Depth - 1 /\ Depth \in Nat
      /\ \A i \in 1..Depth - 1 : frames'[i] = frames[i]
  BY PoppedFrames, DepthType DEF IInv, TypeOK
<1>2. /\ \A i \in 1..Depth' : i \in 1..Depth - 1 /\ i \in 1..Depth /\ frames'[i] = frames[i]
      /\ \A i \in 1..Depth : i \in 1..Depth' \/ i = Depth
  BY <1>1
<1>3. /\ key_state' \in [Keys -> {"Empty", "WaitRelease", "Release", "Press"}]
      /\ key_state'[k] = "Release"
      /\ \A j \in Keys \ {k} : key_state'[j] = key_state[j]
      /\ lost \subseteq lost' /\ lost' \subseteq lost \cup {k} /\ (Crossed(k) => k \in lost')
  BY DEF IInv, TypeOK
<1>4. TypeOK'
  BY <1>1, <1>3, KeyboardAssumption DEF IInv, TypeOK
<1>5. WalksOnlyHeld'
  BY <1>3 DEF IInv, WalksOnlyHeld
<1>6. Masked' /\ BufferInv'
  BY <1>1 DEF IInv, Masked, BufferInv
<1>7. PressIsNew'
  BY <1>2 DEF IInv, PressIsNew
<1>8. ReleaseInv'
  <2> SUFFICES ASSUME NEW j \in Keys \ held' PROVE OnItsWay(j)' \/ Settled(j)'
    BY DEF ReleaseInv
  <2>1. OnItsWay(j) \/ Settled(j)
    BY DEF IInv, ReleaseInv
  <2>2. CASE j = k
    <3>1. CASE Crossed(k)
      BY <1>3, <2>2, <3>1 DEF OnItsWay
    <3>2. CASE ~Crossed(k)
      <4>1. \A i \in 1..Depth' : ~(frames'[i].step = "Press" /\ frames'[i].code.key = k)
        BY <1>2, <3>2 DEF Crossed
      <4>2. \A i \in 1..Depth' : frames'[i].step \in {"Enter", "Test", "Press"}
        BY <1>2, DepthType DEF IInv, Frame
      <4>. QED
        BY <1>3, <2>2, <4>1, <4>2 DEF Settled
    <3>. QED
      BY <3>1, <3>2
  <2>3. CASE j # k
    <3>1. Settled(j) => Settled(j)'
      BY <1>2, <1>3, <2>3 DEF Settled
    <3>2. CASE j \in lost \/ (unread /\ scan_code_buf = Up(j))
      BY <1>3, <3>2 DEF OnItsWay, Up
    <3>3. CASE \E i \in 1..Depth : frames[i].step = "Test" /\ frames[i].code = Up(j)
      <4>1. PICK i \in 1..Depth : frames[i].step = "Test" /\ frames[i].code = Up(j)
        BY <3>3
      <4>2. i # Depth
        BY <2>3, <4>1 DEF Top, Up
      <4>. QED
        BY <1>2, <4>1, <4>2 DEF OnItsWay, Up
    <3>. QED
      BY <2>1, <3>1, <3>2, <3>3 DEF OnItsWay
  <2>. QED
    BY <2>2, <2>3
<1>. QED
  BY <1>4, <1>5, <1>6, <1>7, <1>8 DEF IInv

\* The four ways through keyboard_event().
LEMMA TestCodeStep == IInv /\ TestCode => IInv'
<1> SUFFICES ASSUME IInv, TestCode PROVE IInv'
  OBVIOUS
<1> DEFINE k == Top.code.key
<1>1. /\ Depth > 0 /\ Top.step = "Test" /\ k \in Keys \cup {NoKey}
      /\ UNCHANGED <<held, scan_code_buf, unread, intr, eflags_IF, registered,
                     pc, found, dir, prevdir>>
  BY TopType DEF TestCode, host, input, IInv, Code
<1>2. CASE k = NoKey
  BY <1>1, <1>2, ReturnStep DEF TestCode
<1>3. CASE k # NoKey /\ Top.code.up
  BY <1>1, <1>3, ReleaseStep DEF TestCode
<1>4. CASE k # NoKey /\ ~Top.code.up /\ key_state[k] = "Empty"
  BY <1>1, <1>4, PressStep DEF TestCode
<1>5. CASE k # NoKey /\ ~Top.code.up /\ key_state[k] # "Empty"
  BY <1>1, <1>5, ReturnStep DEF TestCode
<1>. QED
  BY <1>2, <1>3, <1>4, <1>5

\* A press that is stored on top of its release goes with a release astray.
LEMMA StorePressStep == IInv /\ StorePress => IInv'
<1> SUFFICES ASSUME IInv, StorePress PROVE IInv'
  OBVIOUS
<1> DEFINE k == Top.code.key
<1>1. /\ Depth > 0 /\ Top.step = "Press" /\ Iret /\ key_state' = [key_state EXCEPT ![k] = "Press"]
      /\ UNCHANGED <<held, scan_code_buf, unread, intr, eflags_IF, registered,
                     pc, found, dir, prevdir, lost>>
  BY DEF StorePress, host, input
<1>2. /\ frames' \in Seq(Frame) /\ Depth' = Depth - 1 /\ Depth \in Nat
      /\ \A i \in 1..Depth - 1 : frames'[i] = frames[i]
  BY <1>1, PoppedFrames, DepthType DEF IInv, TypeOK
<1>3. /\ \A i \in 1..Depth' : i \in 1..Depth - 1 /\ i \in 1..Depth /\ frames'[i] = frames[i]
      /\ \A i \in 1..Depth : i \in 1..Depth' \/ i = Depth
  BY <1>2
<1>4. k \in Keys \ {dir, prevdir}
  BY <1>1, TopType DEF IInv, PressIsNew, Top
<1>5. /\ key_state' \in [Keys -> {"Empty", "WaitRelease", "Release", "Press"}]
      /\ \A j \in Keys \ {k} : key_state'[j] = key_state[j]
  BY <1>1, <1>4 DEF IInv, TypeOK
<1>6. TypeOK'
  BY <1>1, <1>2, <1>5, KeyboardAssumption DEF IInv, TypeOK
<1>7. WalksOnlyHeld'
  BY <1>1, <1>4, <1>5 DEF IInv, WalksOnlyHeld
<1>8. Masked' /\ BufferInv'
  BY <1>1, <1>2 DEF IInv, Masked, BufferInv
<1>9. PressIsNew'
  BY <1>1, <1>3 DEF IInv, PressIsNew
<1>10. ReleaseInv'
  <2> SUFFICES ASSUME NEW j \in Keys \ held' PROVE OnItsWay(j)' \/ Settled(j)'
    BY DEF ReleaseInv
  <2>1. OnItsWay(j) \/ Settled(j)
    BY <1>1 DEF IInv, ReleaseInv
  <2>2. OnItsWay(j) => OnItsWay(j)'
    <3>1. CASE j \in lost \/ (unread /\ scan_code_buf = Up(j))
      BY <1>1, <3>1 DEF OnItsWay, Up
    <3>2. CASE \E i \in 1..Depth : frames[i].step = "Test" /\ frames[i].code = Up(j)
      <4>1. PICK i \in 1..Depth : frames[i].step = "Test" /\ frames[i].code = Up(j)
        BY <3>2
      <4>2. i # Depth
        BY <1>1, <4>1 DEF Top
      <4>. QED
        BY <1>3, <4>1, <4>2 DEF OnItsWay, Up
    <3>. QED
      BY <3>1, <3>2 DEF OnItsWay
  <2>3. Settled(j) => j # k
    BY <1>1, TopType DEF IInv, Settled, Top
  <2>4. Settled(j) /\ j # k => Settled(j)'
    BY <1>3, <1>5 DEF Settled
  <2>. QED
    BY <2>1, <2>2, <2>3, <2>4
<1>. QED
  BY <1>6, <1>7, <1>8, <1>9, <1>10 DEF IInv

\* While the main program runs the handlers' state changes by CallBack only.
LEMMA QuietStep ==
  ASSUME IInv, TypeOK', Masked',
         UNCHANGED <<held, scan_code_buf, unread, frames, key_state, dir, prevdir, lost>>
  PROVE  IInv'
<1>1. Depth' = Depth
  BY DEF Depth
<1>. QED
  BY <1>1 DEF IInv, WalksOnlyHeld, PressIsNew, BufferInv, ReleaseInv, OnItsWay, Settled

\* System call 0 leaves interrupts enabled.
LEMMA RegisterStep == IInv /\ Register => IInv'
<1> SUFFICES ASSUME IInv, Register PROVE IInv'
  OBVIOUS
<1>1. TypeOK'
  BY DEF IInv, TypeOK, Register, host, input, Depth
<1>2. Masked'
  BY DEF Masked, Register
<1>. QED
  BY <1>1, <1>2, QuietStep DEF Register, host, input

\* process_keys() masks interrupts when no handler runs.
LEMMA CliStep == IInv /\ Cli => IInv'
<1> SUFFICES ASSUME IInv, Cli PROVE IInv'
  OBVIOUS
<1>1. TypeOK'
  BY DEF IInv, TypeOK, Cli, host, input, Depth
<1>2. Masked'
  BY DEF Masked, Cli, At, Depth
<1>. QED
  BY <1>1, <1>2, QuietStep DEF Cli, host, input

\* The key it finds is in one of the two states it looks for.
LEMMA FindKeyStep == IInv /\ FindKey => IInv'
<1> SUFFICES ASSUME IInv, FindKey PROVE IInv'
  OBVIOUS
<1>1. /\ pc = "Find" /\ Depth = 0 /\ Depth' = Depth /\ found' = FirstPending
      /\ UNCHANGED <<held, scan_code_buf, unread, intr, registered, frames, key_state,
                     dir, prevdir, lost>>
  BY DEF FindKey, At, host, input, Depth
<1>2. CASE found' = NoKey
  <2>1. pc' = "Game" /\ eflags_IF' = TRUE
    BY <1>2 DEF FindKey, Return
  <2>2. TypeOK' /\ Masked'
    BY <1>1, <1>2, <2>1 DEF IInv, TypeOK, Masked
  <2>. QED
    BY <1>1, <2>2, QuietStep
<1>3. CASE found' # NoKey
  <2>1. found' \in Pending
    BY <1>1, <1>3, FirstPendingType
  <2>2. /\ found' \in Keys /\ key_state[found'] \in {"Press", "Release"}
        /\ pc' = IF key_state[found'] = "Press" THEN "Pressed" ELSE "Released"
        /\ eflags_IF' = eflags_IF
    BY <1>3, <2>1 DEF FindKey, Pending
  <2>3. ~eflags_IF
    BY <1>1 DEF IInv, Masked
  <2>4. TypeOK' /\ Masked'
    BY <1>1, <2>2, <2>3 DEF IInv, TypeOK, Masked
  <2>. QED
    BY <1>1, <2>4, QuietStep
<1>. QED
  BY <1>2, <1>3

\* The key that is processed was not one the party walks by when it is pressed,
\* and is none when it is released.
LEMMA CallBackStep == IInv /\ CallBack => IInv'
<1> SUFFICES ASSUME IInv, CallBack PROVE IInv'
  OBVIOUS
<1>1. /\ TypeOK /\ Depth = 0 /\ Depth' = 0 /\ pc' = "Poll" /\ found' = NoKey /\ eflags_IF' = TRUE
      /\ UNCHANGED <<held, scan_code_buf, unread, intr, registered, frames, lost>>
  BY DEF IInv, CallBack, At, Return, host, Depth
<1>2. found \in Keys
  BY DEF IInv, Masked, CallBack, At
<1>3. /\ key_state' \in [Keys -> {"Empty", "WaitRelease", "Release", "Press"}]
      /\ \A j \in Keys \ {found} : key_state'[j] = key_state[j]
  BY <1>1, <1>2 DEF CallBack, TypeOK
<1>4. /\ dir' \in Directions \cup {NoKey} /\ prevdir' \in Directions \cup {NoKey}
      /\ dir' # NoKey => dir' # prevdir'
      /\ WalksOnlyHeld'
  <2>1. CASE key_state[found] = "Press"
    <3>1. pc = "Pressed" /\ key_state'[found] = "WaitRelease" /\ PAL_KeyPressHandler
      BY <1>1, <1>2, <2>1 DEF CallBack, IInv, Masked, At, TypeOK
    <3>2. found \notin {dir, prevdir} \ {NoKey}
      BY <2>1 DEF IInv, WalksOnlyHeld
    <3>3. found # NoKey
      BY <1>2, KeyboardAssumption DEF Keys, NoKey
    <3>. QED
      BY <1>1, <1>2, <1>3, <3>1, <3>2, <3>3
      DEF PAL_KeyPressHandler, IInv, TypeOK, WalksOnlyHeld, PressIsNew
  <2>2. CASE key_state[found] # "Press"
    <3>1. pc = "Released" /\ PAL_KeyReleaseHandler
      BY <2>2 DEF CallBack, IInv, Masked, At
    <3>2. found \notin {dir', prevdir'}
      BY <1>1, <1>2, <3>1, KeyboardAssumption
      DEF PAL_KeyReleaseHandler, IInv, TypeOK, PressIsNew, Keys, NoKey
    <3>3. {dir', prevdir'} \subseteq {dir, prevdir, NoKey}
      BY <3>1 DEF PAL_KeyReleaseHandler
    <3>4. WalksOnlyHeld'
      BY <1>1, <1>3, <3>2, <3>3, KeyboardAssumption DEF IInv, TypeOK, WalksOnlyHeld
    <3>. QED
      BY <1>1, <3>1, <3>3, <3>4 DEF PAL_KeyReleaseHandler, IInv, TypeOK, PressIsNew
  <2>. QED
    BY <2>1, <2>2
<1>5. TypeOK'
  BY <1>1, <1>3, <1>4 DEF TypeOK
<1>6. Masked' /\ PressIsNew' /\ BufferInv'
  BY <1>1, <1>4 DEF IInv, Masked, PressIsNew, BufferInv
<1>7. ReleaseInv'
  <2> SUFFICES ASSUME NEW j \in Keys \ held' PROVE OnItsWay(j)' \/ Settled(j)'
    BY DEF ReleaseInv
  <2>1. OnItsWay(j) \/ Settled(j)
    BY <1>1 DEF IInv, ReleaseInv
  <2>2. OnItsWay(j) => OnItsWay(j)'
    BY <1>1 DEF OnItsWay, Up
  <2>3. Settled(j) => key_state[j] # "Press"
    BY DEF Settled
  <2>4. key_state[j] # "Press" /\ j = found => key_state'[j] = "Empty"
    BY <1>1, <1>2 DEF CallBack, IInv, Masked, At, TypeOK
  <2>5. Settled(j) => Settled(j)'
    BY <1>1, <1>3, <2>3, <2>4 DEF Settled
  <2>. QED
    BY <2>1, <2>2, <2>5
<1>. QED
  BY <1>4, <1>5, <1>6, <1>7 DEF IInv

\* Every step keeps the invariant: the lemmas above, action by action.
LEMMA StepInvariant == IInv /\ [Next]_vars => IInv'
<1> SUFFICES ASSUME IInv, [Next]_vars PROVE IInv'
  OBVIOUS
<1>1. CASE UNCHANGED vars
  BY <1>1 DEF vars, host, input, IInv, TypeOK, WalksOnlyHeld, Masked, PressIsNew, BufferInv,
              ReleaseInv, OnItsWay, Settled, Depth
<1>2. CASE Main
  BY <1>2, RegisterStep, CliStep, FindKeyStep, CallBackStep DEF Main
<1>3. CASE HandlerStep
  BY <1>3, NoHandlerStep, ReadCodeStep, TestCodeStep, StorePressStep DEF HandlerStep
<1>. QED
  BY <1>1, <1>2, <1>3, KeyEventStep, DisplacedStep, TakeKeyboardStep DEF Next

\* The invariant implies the three properties.
LEMMA InvariantShows == IInv => TypeOK /\ StuckOnlyIfLost /\ WalksOnlyHeld
BY DEF IInv, ReleaseInv, OnItsWay, Settled, StuckOnlyIfLost

----------------------------------------------------------------------------
\* The variables of the keyboard's way keep their types.
THEOREM TypeCorrect == Spec => []TypeOK
<1>. QED
  BY InitInvariant, StepInvariant, InvariantShows, PTL DEF Spec

\* A key that was released stays down for the game only when its release is still
\* on its way or went astray (keyboard_event, process_keys).
THEOREM StuckOnlyWhenLost == Spec => []StuckOnlyIfLost
<1>. QED
  BY InitInvariant, StepInvariant, InvariantShows, PTL DEF Spec

\* The party walks only towards keys whose release the game has not processed
\* (PAL_KeyPressHandler, PAL_KeyReleaseHandler).
THEOREM WalksTowardsHeldKeys == Spec => []WalksOnlyHeld
<1>. QED
  BY InitInvariant, StepInvariant, InvariantShows, PTL DEF Spec
=============================================================================
