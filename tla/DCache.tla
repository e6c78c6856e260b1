------------------------------- MODULE DCache -------------------------------
(***************************************************************************)
(* The L1 data cache of NEMU (cache.c): NrGroups groups of NrWays lines of *)
(* SIZE bytes; a read that misses fills a random line of its group, a      *)
(* write goes through to hw_mem and updates the line if there is one.  An  *)
(* access that crosses a line is split in two.                             *)
(***************************************************************************)
EXTENDS Integers

CONSTANTS Base, W, Lens,
  SIZE,      \* bytes of a line
  NrGroups,  \* 128
  NrWays,    \* 8
  NrBlocks   \* lines of memory

MemSize == NrBlocks * SIZE

ASSUME DCacheAssumption ==
  /\ Base \in Nat \ {0} /\ W \in Nat \ {0} /\ Lens \subseteq 1 .. W
  /\ SIZE \in Nat /\ W <= SIZE
  /\ NrGroups \in Nat \ {0} /\ NrWays \in Nat \ {0} /\ NrBlocks \in Nat \ {0}

VARIABLES hw_mem, L1_dcache, ret
vars == <<hw_mem, L1_dcache, ret>>

Flat == INSTANCE FlatMemory

Word   == Flat!Word
PAddr  == Flat!PAddr
Block  == 0 .. NrBlocks - 1          \* the high bits of an address
Group  == 0 .. NrGroups - 1
Way    == 0 .. NrWays - 1
Offset == 0 .. SIZE - 1
Line   == [valid : BOOLEAN, tag : Nat, data : [Offset -> Flat!Byte]]

TypeOK ==
  /\ hw_mem \in [PAddr -> Flat!Byte]
  /\ L1_dcache \in [Group -> [Way -> Line]]
  /\ ret \in Word

\* init_mem() and init_cache().
Init ==
  /\ hw_mem = [a \in PAddr |-> 0]
  /\ L1_dcache = [g \in Group |-> [w \in Way |->
                    [valid |-> FALSE, tag |-> 0, data |-> [o \in Offset |-> 0]]]]
  /\ ret = Flat!Zero

----------------------------------------------------------------------------
(* uint32_t: the shifts by whole bytes, and the sum of disjoint words.     *)

\* Mutant: a shift of the low piece is one byte short.
Shl_OneLess(x, k) == [i \in 0 .. W - 1 |-> IF i < k - 1 THEN 0 ELSE x[i - k + 1]]

Shl(x, k)  == [i \in 0 .. W - 1 |-> IF i < k THEN 0 ELSE x[i - k]]
Shr(x, k)  == [i \in 0 .. W - 1 |-> IF i + k < W THEN x[i + k] ELSE 0]
Plus(x, y) == [i \in 0 .. W - 1 |-> (x[i] + y[i]) % Base]

GroupNum(hi) == hi % NrGroups
Tag(hi)      == hi \div NrGroups

\* Mutant: the loop over the group stops one line early.
Hits_AllButLast(c, hi) ==
  {w \in Way : w < NrWays - 1 /\ c[GroupNum(hi)][w].valid /\ c[GroupNum(hi)][w].tag = Tag(hi)}

\* The ways that hold block hi.
Hits(c, hi) == {w \in Way : c[GroupNum(hi)][w].valid /\ c[GroupNum(hi)][w].tag = Tag(hi)}
First(S)    == CHOOSE w \in S : \A v \in S : w <= v

\* cache_block_read: the line a miss may choose, the cache it leaves and the
\* len bytes from b of what is then in that line, onto a zero.
Victims(c, hi) ==
  LET invalid == {w \in Way : ~c[GroupNum(hi)][w].valid}
  IN  IF Hits(c, hi) # {} THEN {First(Hits(c, hi))}
      ELSE IF invalid # {} THEN invalid ELSE Way

\* Mutant: the fill copies one byte too many.
Filled_Overruns(c, hi, w) ==
  IF Hits(c, hi) # {} THEN c
  ELSE [c EXCEPT ![GroupNum(hi)][w] =
          [valid |-> TRUE, tag |-> Tag(hi),
           data |-> [o \in 0 .. SIZE |-> hw_mem[hi * SIZE + o]]]]

Filled(c, hi, w) ==
  IF Hits(c, hi) # {} THEN c
  ELSE [c EXCEPT ![GroupNum(hi)][w] =
          [valid |-> TRUE, tag |-> Tag(hi),
           data |-> [o \in Offset |-> hw_mem[hi * SIZE + o]]]]

BlockData(c, hi, w, b, len) ==
  [i \in 0 .. W - 1 |-> IF i < len THEN c[GroupNum(hi)][w].data[b + i] ELSE 0]

\* The two blocks of an access, and where it starts and ends in them.
BlockOf(paddr)  == paddr \div SIZE
OffsetOf(paddr) == paddr % SIZE
Last(paddr, len) == paddr + len - 1

\* cache_read
Read(paddr, len) ==
  LET s == BlockOf(paddr)
      t == BlockOf(Last(paddr, len))
      b == OffsetOf(paddr)
      e == OffsetOf(Last(paddr, len))
  IN  /\ Flat!InMemory(paddr, len)
      /\ UNCHANGED hw_mem
      /\ \E w \in Victims(L1_dcache, s) :
           LET c == Filled(L1_dcache, s, w)
           IN  \/ /\ s = t
                  /\ L1_dcache' = c
                  /\ ret' = BlockData(c, s, w, b, len)
               \/ /\ s # t
                  /\ \E v \in Victims(c, t) :
                       LET d == Filled(c, t, v)
                       IN  /\ L1_dcache' = d
                           /\ ret' = Plus(Shl(BlockData(d, t, v, 0, e + 1), SIZE - b),
                                          BlockData(c, s, w, b, SIZE - b))

\* cache_block_write: memory, and the line if block hi is cached.
MemWritten(mem, hi, b, len, data) == Flat!Stored(mem, hi * SIZE + b, len, data)

\* Mutant: a write goes to memory only.
LineWritten_NotUpdated(c, hi, b, len, data) == c

LineWritten(c, hi, b, len, data) ==
  IF Hits(c, hi) = {} THEN c
  ELSE [c EXCEPT ![GroupNum(hi)][First(Hits(c, hi))].data =
          [o \in Offset |-> IF o - b \in 0 .. len - 1 THEN data[o - b] ELSE @[o]]]

\* cache_write
Write(paddr, len, data) ==
  LET s == BlockOf(paddr)
      t == BlockOf(Last(paddr, len))
      b == OffsetOf(paddr)
      e == OffsetOf(Last(paddr, len))
      low  == Shr(Shl(data, e + 1), e + 1)
      high == Shr(data, SIZE - b)
  IN  /\ Flat!InMemory(paddr, len)
      /\ UNCHANGED ret
      /\ \/ /\ s = t
            /\ hw_mem' = MemWritten(hw_mem, s, b, len, data)
            /\ L1_dcache' = LineWritten(L1_dcache, s, b, len, data)
         \/ /\ s # t
            /\ hw_mem' = MemWritten(MemWritten(hw_mem, s, b, SIZE - b, low), t, 0, e + 1, high)
            /\ L1_dcache' = LineWritten(LineWritten(L1_dcache, s, b, SIZE - b, low),
                                        t, 0, e + 1, high)

Next == \E paddr \in PAddr, len \in Lens :
          Read(paddr, len) \/ \E data \in Word : Write(paddr, len, data)

Spec == Init /\ [][Next]_vars

----------------------------------------------------------------------------
(* Properties.                                                             *)

(* A block is in one line of its group at most: a write updates the first  *)
(* line that matches, and a second copy would go stale.                    *)
CachedOnce ==
  \A g \in Group, v, w \in Way :
    LET x == L1_dcache[g][v]
        y == L1_dcache[g][w]
    IN  x.valid /\ y.valid /\ x.tag = y.tag => v = w

(* Every valid line holds what hw_mem holds.  page_translate() relies on   *)
(* it: it reads the page tables from hw_mem, past the cache.               *)
Coherent ==
  \A g \in Group, w \in Way :
    LET line == L1_dcache[g][w]
        hi   == line.tag * NrGroups + g
    IN  line.valid => hi \in Block /\ \A o \in Offset : line.data[o] = hw_mem[hi * SIZE + o]

(* The build with CACHE_ENABLED implements the build without it: every     *)
(* read returns what a flat memory would, whatever the access crosses and  *)
(* whichever lines rand() evicted before.                                  *)
ImplementsFlatMemory == Flat!Spec
=============================================================================
