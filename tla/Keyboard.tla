------------------------------ MODULE Keyboard ------------------------------
(* A key on its way from the host to the game: the device thread stores the  *)
(* scan code in a buffer of one byte and raises an interrupt (keyboard.c,    *)
(* i8259_pic.c); the kernel calls the handlers registered for it             *)
(* (irq_handle.c); the game's handler keeps a state per key (hal/keyboard.c) *)
(* that its main loop turns into a direction to walk in (device/input.c).    *)
(*                                                                           *)
(* NEMU leaves IF set when it enters a handler, so handlers nest.  Of the    *)
(* controller, which IrqPath has store by store, only what it may do to the  *)
(* keyboard's interrupt is here: deliver it late or never.  The handlers of  *)
(* the timer and the disk touch none of these variables.  dwKeyPress, which  *)
(* only collects presses for the game, is left out.                          *)
EXTENDS Integers, Sequences, SequencesExt

CONSTANTS NKeys,       \* NR_KEYS: keys in the order of keycode_hash
          Directions,  \* the keys that set a direction
          MaxDepth     \* bound: keyboard handlers nested on the guest's stack

Keys == 1..NKeys
NoKey == 0              \* also kDirUnknown

ASSUME KeyboardAssumption ==
  /\ NKeys \in Nat \ {0} /\ Directions \subseteq Keys
  /\ MaxDepth \in Nat \ {0}

VARIABLES
  held,           \* the keys that are down on the host
  scan_code_buf,  \* the last scan code
  unread,         \* no handler read it yet
  intr,           \* the keyboard's interrupt waits in the controller
  eflags_IF,      \* the guest's interrupt flag
  registered,     \* the game has registered its handler
  frames,         \* the keyboard's handlers on the guest's stack, innermost last
  key_state,
  pc, found,      \* the main program, and the key process_keys() found
  dir, prevdir,   \* g_InputState
  lost            \* history: keys whose release went astray

host == <<held, scan_code_buf, unread>>
input == <<dir, prevdir>>
vars == <<host, intr, eflags_IF, registered, frames, key_state, pc, found, input, lost>>

Code == [key : Keys \cup {NoKey}, up : BOOLEAN]
Frame == [step : {"Enter", "Test", "Press"}, code : Code]
Silent == [key |-> NoKey, up |-> FALSE]
Up(k) == [key |-> k, up |-> TRUE]

Init ==
  /\ held = {} /\ scan_code_buf = Silent /\ unread = FALSE
  /\ intr = FALSE /\ eflags_IF = TRUE /\ registered = FALSE /\ frames = <<>>
  /\ key_state = [k \in Keys |-> "Empty"]
  /\ pc = "Register" /\ found = NoKey
  /\ dir = NoKey /\ prevdir = NoKey
  /\ lost = {}

(***************************************************************************)
(* NEMU_SDL_Thread.                                                        *)
(***************************************************************************)
\* keyboard_down() and keyboard_up(): a key that is held repeats its down code.
KeyEvent(k, up) ==
  /\ up => k \in held
  /\ held' = IF up THEN held \ {k} ELSE held \cup {k}
  /\ scan_code_buf' = [key |-> k, up |-> up] /\ unread' = TRUE
  /\ intr' = TRUE
  /\ lost' = IF unread /\ scan_code_buf.up THEN lost \cup {scan_code_buf.key} ELSE lost
  /\ UNCHANGED <<eflags_IF, registered, frames, key_state, pc, found, input>>

\* Another device's number replaces the keyboard's, or do_intr() acknowledges
\* it unseen.
Displaced ==
  /\ intr /\ intr' = FALSE
  /\ UNCHANGED <<host, eflags_IF, registered, frames, key_state, pc, found, input, lost>>

(***************************************************************************)
(* The kernel and the game's handlers.                                     *)
(***************************************************************************)
Depth == Len(frames)
Top == frames[Depth]
Goto(step) == frames' = [frames EXCEPT ![Depth].step = step]
Iret == frames' = Front(frames)

TakeKeyboard ==
  /\ eflags_IF /\ intr /\ Depth < MaxDepth
  /\ frames' = Append(frames, [step |-> "Enter", code |-> Silent])
  /\ intr' = FALSE
  /\ UNCHANGED <<host, eflags_IF, registered, key_state, pc, found, input, lost>>

\* irq_handle() finds no handler: the game is not that far yet.
NoHandler ==
  /\ Depth > 0 /\ Top.step = "Enter" /\ ~registered
  /\ Iret
  /\ UNCHANGED <<host, intr, eflags_IF, registered, key_state, pc, found, input, lost>>

\* keyboard_event(): in_byte(0x60); a release that is read is not astray any more.
ReadCode ==
  /\ Depth > 0 /\ Top.step = "Enter" /\ registered
  /\ frames' = [frames EXCEPT ![Depth] = [step |-> "Test", code |-> scan_code_buf]]
  /\ unread' = FALSE
  /\ lost' = IF scan_code_buf.up THEN lost \ {scan_code_buf.key} ELSE lost
  /\ UNCHANGED <<held, scan_code_buf, intr, eflags_IF, registered, key_state, pc, found, input>>

\* Handlers under the innermost one that are about to store a press of k: the
\* release they do not know of goes astray.
Crossed(k) == \E i \in 1..Depth - 1 : frames[i].step = "Press" /\ frames[i].code.key = k

TestCode ==
  LET k == Top.code.key
  IN  /\ Depth > 0 /\ Top.step = "Test"
      /\ IF k = NoKey THEN Iret /\ UNCHANGED <<key_state, lost>>
         ELSE IF Top.code.up THEN
           /\ key_state' = [key_state EXCEPT ![k] = "Release"]
           /\ lost' = IF Crossed(k) THEN lost \cup {k} ELSE lost
           /\ Iret
         ELSE /\ IF key_state[k] = "Empty" THEN Goto("Press") ELSE Iret
              /\ UNCHANGED <<key_state, lost>>
      /\ UNCHANGED <<host, intr, eflags_IF, registered, pc, found, input>>

StorePress ==
  /\ Depth > 0 /\ Top.step = "Press"
  /\ key_state' = [key_state EXCEPT ![Top.code.key] = "Press"]
  /\ Iret
  /\ UNCHANGED <<host, intr, eflags_IF, registered, pc, found, input, lost>>

HandlerStep == NoHandler \/ ReadCode \/ TestCode \/ StorePress

(***************************************************************************)
(* The main program runs when no handler does.                             *)
(***************************************************************************)
At(place) == Depth = 0 /\ pc = place

\* game_init(): system call 0 masks interrupts while it links the handler in.
Register ==
  /\ At("Register") /\ pc' = "Game"
  /\ registered' = TRUE /\ eflags_IF' = TRUE
  /\ UNCHANGED <<host, intr, frames, key_state, found, input, lost>>

\* Mutant: process_keys() leaves interrupts enabled.
Cli_Missing ==
  /\ At("Poll") \/ At("Game")
  /\ pc' = "Find"
  /\ UNCHANGED <<host, intr, eflags_IF, registered, frames, key_state, found, input, lost>>

\* process_keys() is called until it finds no key, and then now and again.
Cli ==
  /\ At("Poll") \/ At("Game")
  /\ pc' = "Find" /\ eflags_IF' = FALSE
  /\ UNCHANGED <<host, intr, registered, frames, key_state, found, input, lost>>

Pending == {k \in Keys : key_state[k] \in {"Press", "Release"}}

FirstPending ==
  IF Pending = {} THEN NoKey ELSE CHOOSE k \in Pending : \A j \in Pending : k <= j

Return == eflags_IF' = TRUE

FindKey ==
  /\ At("Find") /\ found' = FirstPending
  /\ IF found' = NoKey THEN pc' = "Game" /\ Return
     ELSE pc' = (IF key_state[found'] = "Press" THEN "Pressed" ELSE "Released") /\ UNCHANGED eflags_IF
  /\ UNCHANGED <<host, intr, registered, frames, key_state, input, lost>>

\* Mutant: the direction of the key after the one found.
PAL_KeyPressHandler_Next ==
  IF found \in Directions THEN prevdir' \in {NoKey, dir} /\ dir' = found + 1
  ELSE UNCHANGED <<dir, prevdir>>

\* In a battle the older direction is forgotten at once.
PAL_KeyPressHandler ==
  IF found \in Directions THEN prevdir' \in {NoKey, dir} /\ dir' = found
  ELSE UNCHANGED <<dir, prevdir>>

\* Mutant: the older direction is still kept when its key is released.
PAL_KeyReleaseHandler_KeepsPrev ==
  IF found \in Directions
    THEN dir' = (IF dir = found THEN prevdir ELSE dir) /\ prevdir' = (IF dir = found THEN NoKey ELSE prevdir)
    ELSE UNCHANGED <<dir, prevdir>>

PAL_KeyReleaseHandler ==
  IF found \in Directions THEN dir' = (IF dir = found THEN prevdir ELSE dir) /\ prevdir' = NoKey
  ELSE UNCHANGED <<dir, prevdir>>

CallBack ==
  /\ \/ /\ At("Pressed") /\ PAL_KeyPressHandler
        /\ key_state' = [key_state EXCEPT ![found] = "WaitRelease"]
     \/ /\ At("Released") /\ PAL_KeyReleaseHandler
        /\ key_state' = [key_state EXCEPT ![found] = "Empty"]
  /\ pc' = "Poll" /\ found' = NoKey /\ Return
  /\ UNCHANGED <<host, intr, registered, frames, lost>>

Main == Register \/ Cli \/ FindKey \/ CallBack

Next ==
  \/ \E k \in Keys, up \in BOOLEAN : KeyEvent(k, up)
  \/ Displaced \/ TakeKeyboard \/ HandlerStep \/ Main

Spec == Init /\ [][Next]_vars

(***************************************************************************)
(* Properties.                                                             *)
(***************************************************************************)
\* Every variable has its type; a poll finds a key of the table or none.
TypeOK ==
  /\ held \subseteq Keys /\ scan_code_buf \in Code /\ unread \in BOOLEAN
  /\ intr \in BOOLEAN /\ eflags_IF \in BOOLEAN /\ registered \in BOOLEAN
  /\ frames \in Seq(Frame) /\ Depth <= MaxDepth
  /\ key_state \in [Keys -> {"Empty", "WaitRelease", "Release", "Press"}]
  /\ pc \in {"Register", "Poll", "Find", "Pressed", "Released", "Game"}
  /\ found \in Keys \cup {NoKey}
  /\ dir \in Directions \cup {NoKey} /\ prevdir \in Directions \cup {NoKey}
  /\ lost \subseteq Keys

\* A key that is up on the host is down for the game only while its release is
\* still on the way, or when that release went astray: a later scan code
\* replaced it before a handler read it, or a handler that interrupted the
\* handler of the key's own press stored it, and the press was stored on top.
StuckOnlyIfLost ==
  \A k \in Keys \ held : key_state[k] \in {"Press", "WaitRelease"} =>
    \/ k \in lost
    \/ unread /\ scan_code_buf = Up(k)
    \/ \E i \in 1..Depth : frames[i].step = "Test" /\ frames[i].code = Up(k)

\* The party walks only towards a key whose release the game has not processed,
\* however presses and releases of two directions and battles follow another;
\* so does the direction it would fall back to.
WalksOnlyHeld ==
  {dir, prevdir} \ {NoKey} \subseteq {k \in Keys : key_state[k] \in {"WaitRelease", "Release"}}
=============================================================================
