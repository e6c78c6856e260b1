----------------------------- MODULE UserMemory -----------------------------
(***************************************************************************)
(* What the kernel and the MMU promise a program: a memory of its own that *)
(* starts as the program's image, zero elsewhere, and keeps what is        *)
(* written to it.  brk() moves the end of what the program may touch and   *)
(* loses nothing.  No page, frame or TLB is to be seen.                    *)
(***************************************************************************)
EXTENDS Layout

VARIABLES memory, brk, reply

Range(a, len) == a .. a + len - 1

Init ==
  /\ memory = [a \in UserAddr |-> Loaded(a)]
  /\ brk = End - 1
  /\ reply = <<>>

Read(a, len) ==
  /\ Range(a, len) \subseteq Given(brk)
  /\ LET was == memory IN reply' = [k \in 1 .. len |-> was[a + k - 1]]
  /\ UNCHANGED <<memory, brk>>

Write(a, data) ==
  /\ reply' = <<>>
  /\ Range(a, Len(data)) \subseteq Given(brk)
  /\ LET was == memory
     IN memory' = [x \in UserAddr |->
                     IF x \in Range(a, Len(data)) THEN data[x - a + 1] ELSE was[x]]
  /\ UNCHANGED brk

Brk(b) ==
  /\ reply' = <<>>
  /\ brk' = b
  /\ UNCHANGED memory

Next ==
  \/ \E a \in Starts, len \in Lens : Read(a, len) \/ \E data \in [1 .. len -> Byte] : Write(a, data)
  \/ \E b \in Brks : Brk(b)

Spec == Init /\ [][Next]_<<memory, brk, reply>>
=============================================================================
