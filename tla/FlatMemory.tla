----------------------------- MODULE FlatMemory -----------------------------
(***************************************************************************)
(* Physical memory as the rest of NEMU sees it: an array of bytes that is  *)
(* read and written 1 to W bytes at a time, least significant byte first.  *)
(* It is the memory of a build without CACHE_ENABLED (hw_mem_read and      *)
(* hw_mem_write, memory.c).                                                *)
(***************************************************************************)
EXTENDS Integers

CONSTANTS
  Base,     \* values of a byte, 256
  W,        \* bytes of a uint32_t, 4
  MemSize,  \* MEM_SIZE_B
  Lens      \* the lengths memory is accessed with

Byte  == 0 .. Base - 1
Word  == [0 .. W - 1 -> Byte]        \* a uint32_t
PAddr == 0 .. MemSize - 1

VARIABLES
  hw_mem,
  ret       \* what the last read returned

Zero == [i \in 0 .. W - 1 |-> 0]

\* memcpy(&ret, hw_mem + paddr, len) onto a zero, and the copy back.
Loaded(mem, paddr, len)        == [i \in 0 .. W - 1 |-> IF i < len THEN mem[paddr + i] ELSE 0]
Stored(mem, paddr, len, data)  == [a \in PAddr |-> IF a - paddr \in 0 .. len - 1
                                                   THEN data[a - paddr] ELSE mem[a]]

InMemory(paddr, len) == paddr + len <= MemSize

Init == hw_mem = [a \in PAddr |-> 0] /\ ret = Zero

Read(paddr, len) ==
  /\ InMemory(paddr, len)
  /\ ret' = Loaded(hw_mem, paddr, len)
  /\ UNCHANGED hw_mem

Write(paddr, len, data) ==
  /\ InMemory(paddr, len)
  /\ hw_mem' = Stored(hw_mem, paddr, len, data)
  /\ UNCHANGED ret

Next == \E paddr \in PAddr, len \in Lens :
          Read(paddr, len) \/ \E data \in Word : Write(paddr, len, data)

Spec == Init /\ [][Next]_<<hw_mem, ret>>
=============================================================================
