--------------------------- MODULE DCache_proofs ---------------------------
(***************************************************************************)
(* The cache is coherent, and a memory with it is a flat memory, for every *)
(* geometry of lines, groups and ways and every choice of rand().          *)
(***************************************************************************)
EXTENDS DCache, TLAPS

\* A cache and a memory that fit: what each state of the cache satisfies,
\* and the caches in the middle of an access that crosses a line.
Good(c, m) ==
  /\ c \in [Group -> [Way -> Line]] /\ m \in [PAddr -> Flat!Byte]
  /\ \A g \in Group, v, w \in Way :
       c[g][v].valid /\ c[g][w].valid /\ c[g][v].tag = c[g][w].tag => v = w
  /\ \A g \in Group, w \in Way : c[g][w].valid =>
       /\ c[g][w].tag * NrGroups + g \in Block
       /\ \A o \in Offset : c[g][w].data[o] = m[(c[g][w].tag * NrGroups + g) * SIZE + o]

\* Way w of its group holds block hi of memory m.
Holds(c, m, hi, w) == \A o \in Offset : c[GroupNum(hi)][w].data[o] = m[hi * SIZE + o]

IInv == Good(L1_dcache, hw_mem) /\ ret \in Word

LEMMA GoodIsInv == Good(L1_dcache, hw_mem) <=>
                     /\ L1_dcache \in [Group -> [Way -> Line]]
                     /\ hw_mem \in [PAddr -> Flat!Byte]
                     /\ CachedOnce /\ Coherent
  BY DEF Good, CachedOnce, Coherent

----------------------------------------------------------------------------
(* Addresses.                                                              *)

LEMMA DivMod ==
  ASSUME NEW a \in Nat, NEW b \in Nat \ {0}
  PROVE  a = (a \div b) * b + (a % b) /\ a \div b \in Nat /\ a % b \in 0 .. b - 1
  OBVIOUS

LEMMA DivModUnique ==
  ASSUME NEW h \in Nat, NEW k \in Nat, NEW b \in Nat \ {0}, NEW i \in 0 .. b - 1,
         NEW j \in 0 .. b - 1, h * b + i = k * b + j
  PROVE  h = k /\ i = j
  OBVIOUS

LEMMA BlockAddress ==
  ASSUME NEW hi \in Block, NEW o \in Offset
  PROVE  hi * SIZE + o \in PAddr
  <1>1. (hi + 1) * SIZE <= NrBlocks * SIZE
    BY DCacheAssumption DEF Block
  <1>2. (hi + 1) * SIZE = hi * SIZE + SIZE /\ hi * SIZE \in Nat
    BY DCacheAssumption DEF Block
  <1> QED
    BY <1>1, <1>2, DCacheAssumption DEF Block, Offset, PAddr, Flat!PAddr, MemSize

LEMMA BlockHome ==
  ASSUME NEW hi \in Block
  PROVE  GroupNum(hi) \in Group /\ Tag(hi) \in Nat /\ Tag(hi) * NrGroups + GroupNum(hi) = hi
  <1>1. hi \in Nat /\ NrGroups \in Nat \ {0}
    BY DCacheAssumption DEF Block
  <1>2. /\ hi = (hi \div NrGroups) * NrGroups + (hi % NrGroups)
        /\ hi \div NrGroups \in Nat /\ hi % NrGroups \in 0 .. NrGroups - 1
    BY <1>1, DivMod
  <1> QED
    BY <1>2 DEF Group, GroupNum, Tag

LEMMA HomeUnique ==
  ASSUME NEW hi \in Block, NEW tag \in Nat, NEW x \in Group, tag * NrGroups + x = hi
  PROVE  x = GroupNum(hi) /\ tag = Tag(hi)
  <1>1. NrGroups \in Nat \ {0} /\ x \in 0 .. NrGroups - 1
    BY DCacheAssumption DEF Group
  <1>2. GroupNum(hi) \in 0 .. NrGroups - 1 /\ Tag(hi) \in Nat
        /\ Tag(hi) * NrGroups + GroupNum(hi) = tag * NrGroups + x
    BY BlockHome DEF Group
  <1> QED
    BY <1>1, <1>2, DivModUnique

\* How an access lies in its blocks.
LEMMA AccessShape ==
  ASSUME NEW paddr \in PAddr, NEW len \in Lens, Flat!InMemory(paddr, len),
         NEW s, NEW t, NEW b, NEW e,
         s = BlockOf(paddr), t = BlockOf(Last(paddr, len)),
         b = OffsetOf(paddr), e = OffsetOf(Last(paddr, len))
  PROVE  /\ s \in Block /\ t \in Block /\ b \in Offset /\ e \in Offset
         /\ paddr = s * SIZE + b
         /\ len \in 1 .. W /\ len <= SIZE
         /\ s = t => b + len <= SIZE
         /\ s # t => t * SIZE = s * SIZE + SIZE /\ len = (SIZE - b) + (e + 1) /\ t = s + 1
  <1> DEFINE z == Last(paddr, len)
  <1>1. /\ SIZE \in Nat \ {0} /\ NrBlocks \in Nat \ {0} /\ len \in 1 .. W /\ len <= SIZE
        /\ paddr \in Nat /\ z \in Nat /\ z = paddr + len - 1
        /\ paddr < NrBlocks * SIZE /\ z < NrBlocks * SIZE
    BY DCacheAssumption DEF PAddr, Flat!PAddr, MemSize, Last, Flat!InMemory
  <1>2. /\ paddr = s * SIZE + b /\ s \in Nat /\ b \in 0 .. SIZE - 1
        /\ z = t * SIZE + e /\ t \in Nat /\ e \in 0 .. SIZE - 1
    BY <1>1, DivMod DEF BlockOf, OffsetOf
  <1> HIDE DEF z
  <1>3. s < NrBlocks /\ t < NrBlocks
    <2>1. ASSUME NEW k \in Nat, k >= NrBlocks PROVE k * SIZE >= NrBlocks * SIZE
      BY <1>1, <2>1
    <2> QED
      BY <1>1, <1>2, <2>1
  <1>4. s <= t
    <2>1. t < s => t * SIZE + SIZE <= s * SIZE
      BY <1>1, <1>2
    <2> QED
      BY <1>1, <1>2, <2>1
  <1>5. t < s + 2
    <2>1. t >= s + 2 => t * SIZE >= s * SIZE + SIZE + SIZE
      BY <1>1, <1>2
    <2> QED
      BY <1>1, <1>2, <2>1
  <1>6. t = s \/ t = s + 1
    BY <1>2, <1>4, <1>5
  <1>7. (s + 1) * SIZE = s * SIZE + SIZE
    BY <1>1, <1>2
  <1>8. CASE t = s
    BY <1>1, <1>2, <1>3, <1>8 DEF Block, Offset
  <1>9. CASE t = s + 1
    <2>1. t * SIZE = s * SIZE + SIZE
      BY <1>7, <1>9
    <2> DEFINE p == s * SIZE
               q == t * SIZE
    <2>2. p \in Nat /\ q \in Nat /\ q = p + SIZE /\ paddr = p + b /\ z = q + e
      BY <1>1, <1>2, <2>1
    <2> HIDE DEF p, q
    <2>3. len = (SIZE - b) + (e + 1)
      BY <1>1, <1>2, <2>2
    <2> QED
      BY <1>1, <1>2, <1>3, <1>9, <2>1, <2>3 DEF Block, Offset
  <1> QED
    BY <1>6, <1>8, <1>9

----------------------------------------------------------------------------
(* A block read.                                                           *)

\* At most one way hits, so the first one is well defined.
LEMMA OneHit ==
  ASSUME NEW c, NEW m, Good(c, m), NEW hi \in Block, Hits(c, hi) # {}
  PROVE  First(Hits(c, hi)) \in Hits(c, hi)
  <1>1. GroupNum(hi) \in Group
    BY BlockHome
  <1>2. \A v, w \in Hits(c, hi) : v = w
    BY <1>1 DEF Hits, Good
  <1>3. PICK h \in Hits(c, hi) : TRUE
    OBVIOUS
  <1>4. h <= h
    BY DCacheAssumption DEF Hits, Way
  <1>5. \A v \in Hits(c, hi) : h <= v
    BY <1>2, <1>3, <1>4
  <1> QED
    BY <1>5 DEF First

LEMMA HitHolds ==
  ASSUME NEW c, NEW m, Good(c, m), NEW hi \in Block, NEW w \in Hits(c, hi)
  PROVE  \A o \in Offset : c[GroupNum(hi)][w].data[o] = m[hi * SIZE + o]
  <1>1. GroupNum(hi) \in Group /\ Tag(hi) * NrGroups + GroupNum(hi) = hi
    BY BlockHome
  <1>2. w \in Way /\ c[GroupNum(hi)][w].valid /\ c[GroupNum(hi)][w].tag = Tag(hi)
    BY DEF Hits
  <1> QED
    BY <1>1, <1>2 DEF Good

\* The way of a read is one of the group's, and the line that hits if one does.
LEMMA VictimIsWay ==
  ASSUME NEW c, NEW m, Good(c, m), NEW hi \in Block, NEW w \in Victims(c, hi)
  PROVE  w \in Way /\ (Hits(c, hi) # {} => w \in Hits(c, hi))
  <1>1. CASE Hits(c, hi) # {}
    BY <1>1, OneHit DEF Victims, Hits
  <1>2. CASE Hits(c, hi) = {}
    BY <1>2 DEF Victims
  <1> QED
    BY <1>1, <1>2

\* A fill keeps the cache good and leaves the block in the line.
LEMMA FillKeepsGood ==
  ASSUME NEW c, Good(c, hw_mem), NEW hi \in Block, NEW w \in Victims(c, hi)
  PROVE  /\ Good(Filled(c, hi, w), hw_mem)
         /\ w \in Way
         /\ Holds(Filled(c, hi, w), hw_mem, hi, w)
  <1> DEFINE g == GroupNum(hi)
             d == Filled(c, hi, w)
             new == [valid |-> TRUE, tag |-> Tag(hi),
                     data |-> [o \in Offset |-> hw_mem[hi * SIZE + o]]]
  <1>1. g \in Group /\ Tag(hi) \in Nat /\ Tag(hi) * NrGroups + g = hi
    BY BlockHome
  <1>2. w \in Way /\ (Hits(c, hi) # {} => w \in Hits(c, hi))
    BY VictimIsWay
  <1>3. CASE Hits(c, hi) # {}
    BY <1>2, <1>3, HitHolds DEF Filled, Holds
  <1>4. CASE Hits(c, hi) = {}
    <2>1. d = [c EXCEPT ![g][w] = new]
      BY <1>4 DEF Filled
    <2>2. new \in Line
      <3>1. \A o \in Offset : hw_mem[hi * SIZE + o] \in Flat!Byte
        BY BlockAddress DEF Good, PAddr
      <3> QED
        BY <1>1, <3>1 DEF Line
    <2>3. c \in [Group -> [Way -> Line]]
      BY DEF Good
    <2> HIDE DEF d, new, g
    <2>4. d \in [Group -> [Way -> Line]]
      BY <1>1, <1>2, <2>1, <2>2, <2>3
    <2>5. \A x \in Group, y \in Way : d[x][y] = IF x = g /\ y = w THEN new ELSE c[x][y]
      BY <1>1, <1>2, <2>1, <2>3
    <2>6. new.valid /\ new.tag = Tag(hi) /\ \A o \in Offset : new.data[o] = hw_mem[hi * SIZE + o]
      BY DEF new
    <2>7. \A y \in Way : ~(c[g][y].valid /\ c[g][y].tag = Tag(hi))
      BY <1>4 DEF Hits, g
    <2>8. ASSUME NEW x \in Group, NEW y \in Way, NEW z \in Way,
                 d[x][y].valid, d[x][z].valid, d[x][y].tag = d[x][z].tag
          PROVE  y = z
      <3>1. CASE x # g
        BY <2>5, <2>8, <3>1 DEF Good
      <3>2. CASE x = g
        <4>1. CASE y # w /\ z # w
          BY <2>5, <2>8, <4>1 DEF Good
        <4> QED
          BY <2>5, <2>6, <2>7, <2>8, <3>2, <4>1
      <3> QED
        BY <3>1, <3>2
    <2>9. ASSUME NEW x \in Group, NEW y \in Way, d[x][y].valid
          PROVE  /\ d[x][y].tag * NrGroups + x \in Block
                 /\ \A o \in Offset :
                      d[x][y].data[o] = hw_mem[(d[x][y].tag * NrGroups + x) * SIZE + o]
      <3>1. CASE x = g /\ y = w
        BY <1>1, <2>5, <2>6, <3>1
      <3>2. CASE ~(x = g /\ y = w)
        BY <2>5, <2>9, <3>2 DEF Good
      <3> QED
        BY <3>1, <3>2
    <2>10. Good(d, hw_mem)
      BY <2>4, <2>8, <2>9 DEF Good
    <2>11. \A o \in Offset : d[g][w].data[o] = hw_mem[hi * SIZE + o]
      BY <1>1, <1>2, <2>5, <2>6
    <2> QED
      BY <1>2, <2>10, <2>11 DEF d, g, Holds
  <1> QED
    BY <1>3, <1>4

\* A piece of a line that holds its block is what memory holds there.
LEMMA PieceRead ==
  ASSUME NEW c, NEW m, NEW hi \in Block, NEW w,
         Holds(c, m, hi, w), NEW b \in Offset, NEW len \in Nat, b + len <= SIZE
  PROVE  BlockData(c, hi, w, b, len) = Flat!Loaded(m, hi * SIZE + b, len)
  <1> DEFINE p == hi * SIZE
  <1>1. p \in Nat /\ W \in Nat
    BY DCacheAssumption DEF Block
  <1> HIDE DEF p
  <1>2. ASSUME NEW i \in 0 .. W - 1, i < len
        PROVE  c[GroupNum(hi)][w].data[b + i] = m[(p + b) + i]
    <2>1. b + i \in Offset /\ p + (b + i) = (p + b) + i
      BY <1>1, <1>2, DCacheAssumption DEF Offset
    <2> QED
      BY <2>1 DEF p, Holds
  <1>3. BlockData(c, hi, w, b, len) = Flat!Loaded(m, p + b, len)
    BY <1>2 DEF BlockData, Flat!Loaded
  <1> QED
    BY <1>3 DEF p

\* The sum of the two pieces of an access that crosses a line.
LEMMA PiecesAddUp ==
  ASSUME NEW m \in [PAddr -> Flat!Byte], NEW p \in Nat, NEW b \in Offset, NEW e \in Offset,
         NEW len \in 1 .. W, len = (SIZE - b) + (e + 1), p + b + len <= MemSize
  PROVE  Plus(Shl(Flat!Loaded(m, (p + SIZE) + 0, e + 1), SIZE - b), Flat!Loaded(m, p + b, SIZE - b))
           = Flat!Loaded(m, p + b, len)
  <1> DEFINE x == Flat!Loaded(m, (p + SIZE) + 0, e + 1)
             y == Flat!Loaded(m, p + b, SIZE - b)
             k == SIZE - b
  <1>0. /\ SIZE \in Nat /\ W \in Nat /\ Base \in Nat \ {0} /\ b \in Nat /\ b < SIZE /\ e \in Nat
        /\ MemSize \in Nat
    BY DCacheAssumption DEF Offset, MemSize
  <1>1. \A a \in PAddr : m[a] \in Nat /\ m[a] < Base
    BY <1>0 DEF Flat!Byte
  <1>2. k \in Nat /\ len = k + (e + 1)
    BY <1>0
  <1>3. ASSUME NEW i \in 0 .. W - 1
        PROVE  (Shl(x, k)[i] + y[i]) % Base = Flat!Loaded(m, p + b, len)[i]
    <2>1. CASE i < k
      <3>1. Shl(x, k)[i] = 0
        BY <2>1 DEF Shl
      <3>2. y[i] = m[p + b + i]
        BY <2>1 DEF Flat!Loaded
      <3>3. p + b + i \in PAddr
        BY <1>0, <1>2, <2>1 DEF PAddr, Flat!PAddr
      <3>4. i < len
        BY <1>0, <1>2, <2>1
      <3> DEFINE v == m[p + b + i]
      <3>5. v \in Nat /\ v < Base
        BY <1>1, <3>3
      <3> HIDE DEF v
      <3>6. (0 + v) % Base = v
        BY <1>0, <3>5
      <3> QED
        BY <3>1, <3>2, <3>4, <3>6 DEF Flat!Loaded, v
    <2>2. CASE i >= k /\ i < len
      <3>1. i - k \in 0 .. W - 1 /\ i - k < e + 1
        BY <1>0, <1>2, <2>2
      <3>2. Shl(x, k)[i] = x[i - k]
        BY <1>2, <2>2 DEF Shl
      <3>3. x[i - k] = m[((p + SIZE) + 0) + (i - k)]
        BY <3>1 DEF Flat!Loaded
      <3>4. ((p + SIZE) + 0) + (i - k) = p + b + i
        BY <1>0
      <3>5. y[i] = 0
        BY <1>2, <2>2 DEF Flat!Loaded
      <3>6. p + b + i \in PAddr
        BY <1>0, <2>2 DEF PAddr, Flat!PAddr
      <3> DEFINE v == m[p + b + i]
      <3>7. v \in Nat /\ v < Base
        BY <1>1, <3>6
      <3>8. Shl(x, k)[i] = v
        BY <3>2, <3>3, <3>4
      <3> HIDE DEF v
      <3>9. (v + 0) % Base = v
        BY <1>0, <3>7
      <3> QED
        BY <3>5, <3>8, <3>9, <2>2 DEF Flat!Loaded, v
    <2>3. CASE i >= len
      <3>1. i - k \in 0 .. W - 1 /\ ~(i - k < e + 1) /\ ~(i < k)
        BY <1>0, <1>2, <2>3
      <3>2. Shl(x, k)[i] = 0
        BY <3>1 DEF Shl, Flat!Loaded
      <3>3. y[i] = 0
        BY <3>1 DEF Flat!Loaded
      <3>4. (0 + 0) % Base = 0
        BY <1>0
      <3>5. Flat!Loaded(m, p + b, len)[i] = 0
        BY <1>0, <2>3 DEF Flat!Loaded
      <3> QED
        BY <3>2, <3>3, <3>4, <3>5
    <2> QED
      BY <1>0, <1>2, <2>1, <2>2, <2>3
  <1>4. Flat!Loaded(m, p + b, len) = [i \in 0 .. W - 1 |-> Flat!Loaded(m, p + b, len)[i]]
    BY DEF Flat!Loaded
  <1> HIDE DEF x, y, k
  <1>5. Plus(Shl(x, k), y) = [i \in 0 .. W - 1 |-> (Shl(x, k)[i] + y[i]) % Base]
    BY DEF Plus
  <1>6. Plus(Shl(x, k), y) = Flat!Loaded(m, p + b, len)
    BY <1>3, <1>4, <1>5
  <1> QED
    BY <1>6 DEF x, y, k

----------------------------------------------------------------------------
(* A block write.                                                          *)

LEMMA StoredType ==
  ASSUME NEW m \in [PAddr -> Flat!Byte], NEW p \in Nat, NEW len \in Nat, len <= W, NEW data \in Word
  PROVE  Flat!Stored(m, p, len, data) \in [PAddr -> Flat!Byte]
  <1>1. ASSUME NEW a \in PAddr, a - p \in 0 .. len - 1
        PROVE  data[a - p] \in Flat!Byte
    <2>1. a - p \in 0 .. W - 1
      BY <1>1, DCacheAssumption DEF PAddr, Flat!PAddr
    <2> QED
      BY <2>1 DEF Word, Flat!Word
  <1> QED
    BY <1>1 DEF Flat!Stored, PAddr

\* A write through keeps the cache good: no other line holds what it changes.
LEMMA WriteKeepsGood ==
  ASSUME NEW c, NEW m, Good(c, m), NEW hi \in Block, NEW b \in Offset, NEW len \in Nat,
         b + len <= SIZE, len <= W, NEW data \in Word
  PROVE  Good(LineWritten(c, hi, b, len, data), MemWritten(m, hi, b, len, data))
  <1> DEFINE g == GroupNum(hi)
             p == hi * SIZE
             d == LineWritten(c, hi, b, len, data)
             n == MemWritten(m, hi, b, len, data)
             f == First(Hits(c, hi))
  <1>0. SIZE \in Nat \ {0} /\ W \in Nat /\ p \in Nat /\ b \in Nat /\ b < SIZE /\ hi \in Nat
    BY DCacheAssumption DEF Block, Offset
  <1>1. g \in Group /\ Tag(hi) \in Nat /\ Tag(hi) * NrGroups + g = hi
    BY BlockHome
  <1>2. c \in [Group -> [Way -> Line]] /\ m \in [PAddr -> Flat!Byte]
    BY DEF Good
  <1>3. n \in [PAddr -> Flat!Byte]
    BY <1>0, <1>2, StoredType DEF MemWritten
  \* Memory: the bytes of block hi, and those of another.
  <1>4. ASSUME NEW o \in Offset
        PROVE  n[p + o] = IF o - b \in 0 .. len - 1 THEN data[o - b] ELSE m[p + o]
    <2>1. p + o \in PAddr
      BY BlockAddress
    <2>2. (p + o) - (p + b) = o - b
      BY <1>0 DEF Offset
    <2> QED
      BY <2>1, <2>2 DEF MemWritten, Flat!Stored, PAddr
  <1>5. ASSUME NEW k \in Block, k # hi, NEW o \in Offset
        PROVE  n[k * SIZE + o] = m[k * SIZE + o]
    <2>1. k * SIZE + o \in PAddr
      BY BlockAddress
    <2>2. ~((k * SIZE + o) - (p + b) \in 0 .. len - 1)
      <3> SUFFICES ASSUME (k * SIZE + o) - (p + b) \in 0 .. len - 1 PROVE FALSE
        OBVIOUS
      <3> DEFINE q == k * SIZE
                 i == (q + o) - p
      <3>1. q \in Nat /\ k \in Nat /\ o \in Nat
        BY <1>0 DEF Block, Offset
      <3>2. i \in 0 .. SIZE - 1 /\ q + o = p + i
        <4>1. (q + o) - (p + b) \in 0 .. len - 1
          OBVIOUS
        <4> HIDE DEF p, q
        <4> QED
          BY <1>0, <3>1, <4>1
      <3>3. k * SIZE + o = hi * SIZE + i /\ o \in 0 .. SIZE - 1
        BY <3>2 DEF Offset
      <3> HIDE DEF i
      <3> QED
        BY <1>0, <1>5, <3>1, <3>2, <3>3, DivModUnique
    <2> QED
      BY <2>1, <2>2 DEF MemWritten, Flat!Stored, PAddr
  <1>6. CASE Hits(c, hi) = {}
    <2>1. d = c
      BY <1>6 DEF LineWritten
    <2>2. ASSUME NEW x \in Group, NEW w \in Way, c[x][w].valid
          PROVE  /\ c[x][w].tag * NrGroups + x \in Block
                 /\ \A o \in Offset :
                      c[x][w].data[o] = n[(c[x][w].tag * NrGroups + x) * SIZE + o]
      <3> DEFINE k == c[x][w].tag * NrGroups + x
      <3>1. k \in Block /\ \A o \in Offset : c[x][w].data[o] = m[k * SIZE + o]
        BY <2>2 DEF Good
      <3>2. k # hi
        <4>1. c[x][w].tag \in Nat
          BY <1>2 DEF Line
        <4>2. k = hi => x = g /\ c[x][w].tag = Tag(hi)
          BY <4>1, HomeUnique
        <4> QED
          BY <1>6, <2>2, <4>2 DEF Hits
      <3> HIDE DEF k
      <3>3. \A o \in Offset : c[x][w].data[o] = n[k * SIZE + o]
        BY <1>5, <3>1, <3>2
      <3> QED
        BY <3>1, <3>3 DEF k
    <2> HIDE DEF d, n
    <2>3. Good(d, n)
      BY <1>2, <1>3, <2>1, <2>2 DEF Good
    <2> QED
      BY <2>3 DEF d, n
  <1>7. CASE Hits(c, hi) # {}
    <2>1. f \in Way /\ c[g][f].valid /\ c[g][f].tag = Tag(hi)
      BY <1>7, OneHit DEF Hits
    <2> DEFINE new == [o \in Offset |-> IF o - b \in 0 .. len - 1 THEN data[o - b]
                                        ELSE c[g][f].data[o]]
    <2>2. d = [c EXCEPT ![g][f].data = new]
      BY <1>1, <1>2, <1>7, <2>1 DEF LineWritten
    <2>3. c[g][f] \in Line
      BY <1>1, <1>2, <2>1
    <2>4. new \in [Offset -> Flat!Byte]
      <3>1. ASSUME NEW o \in Offset, o - b \in 0 .. len - 1
            PROVE  data[o - b] \in Flat!Byte
        <4>1. o - b \in 0 .. W - 1
          BY <1>0, <3>1 DEF Offset
        <4> QED
          BY <4>1 DEF Word, Flat!Word
      <3> QED
        BY <2>3, <3>1 DEF Line
    <2>5. \A o \in Offset : new[o] = n[p + o]
      <3>1. \A o \in Offset : c[g][f].data[o] = m[p + o]
        BY <1>7, OneHit, HitHolds
      <3> HIDE DEF n, p, g, f
      <3> QED
        BY <1>4, <3>1
    <2> HIDE DEF new, d, n, g, f
    <2>6. d \in [Group -> [Way -> Line]]
      BY <1>1, <1>2, <2>1, <2>2, <2>3, <2>4 DEF Line
    <2>7. ASSUME NEW x \in Group, NEW w \in Way
          PROVE  /\ d[x][w].valid = c[x][w].valid /\ d[x][w].tag = c[x][w].tag
                 /\ d[x][w].data = IF x = g /\ w = f THEN new ELSE c[x][w].data
      <3>1. c[x][w] \in Line
        BY <1>2
      <3>2. d[x][w] = IF x = g /\ w = f THEN [c[g][f] EXCEPT !.data = new] ELSE c[x][w]
        BY <1>1, <1>2, <2>1, <2>2
      <3> QED
        BY <2>3, <3>1, <3>2 DEF Line
    <2>8. ASSUME NEW x \in Group, NEW y \in Way, NEW z \in Way,
                 d[x][y].valid, d[x][z].valid, d[x][y].tag = d[x][z].tag
          PROVE  y = z
      BY <2>7, <2>8 DEF Good
    <2>9. ASSUME NEW x \in Group, NEW w \in Way, d[x][w].valid
          PROVE  /\ d[x][w].tag * NrGroups + x \in Block
                 /\ \A o \in Offset :
                      d[x][w].data[o] = n[(d[x][w].tag * NrGroups + x) * SIZE + o]
      <3> DEFINE k == c[x][w].tag * NrGroups + x
      <3>1. c[x][w].valid /\ d[x][w].tag = c[x][w].tag
        BY <2>7, <2>9
      <3>2. k \in Block /\ \A o \in Offset : c[x][w].data[o] = m[k * SIZE + o]
        BY <3>1 DEF Good
      <3>3. CASE x = g /\ w = f
        <4>1. k = hi
          BY <1>1, <2>1, <3>3
        <4>2. \A o \in Offset : d[x][w].data[o] = n[k * SIZE + o]
          BY <2>5, <2>7, <3>3, <4>1
        <4> HIDE DEF k
        <4> QED
          BY <3>1, <3>2, <4>2 DEF k
      <3>4. CASE ~(x = g /\ w = f)
        <4>1. k # hi
          <5>1. c[x][w].tag \in Nat
            BY <1>2 DEF Line
          <5>2. k = hi => x = g /\ c[x][w].tag = Tag(hi)
            BY <5>1, HomeUnique DEF g
          <5>3. x = g /\ c[x][w].tag = Tag(hi) => w = f
            BY <2>1, <3>1 DEF Good
          <5> QED
            BY <3>4, <5>2, <5>3
        <4> HIDE DEF k
        <4>2. \A o \in Offset : d[x][w].data[o] = n[k * SIZE + o]
          BY <1>5, <2>7, <3>2, <3>4, <4>1
        <4> QED
          BY <3>1, <3>2, <4>2 DEF k
      <3> QED
        BY <3>3, <3>4
    <2> QED
      BY <1>3, <2>6, <2>8, <2>9 DEF Good, d, n
  <1> QED
    BY <1>6, <1>7

\* The two pieces of a word that is written across a line.
LEMMA PiecesWritten ==
  ASSUME NEW m \in [PAddr -> Flat!Byte], NEW p \in Nat, NEW b \in Offset, NEW e \in Offset,
         NEW len \in 1 .. W, len = (SIZE - b) + (e + 1), NEW data \in Word,
         NEW low, low = Shr(Shl(data, e + 1), e + 1), NEW high, high = Shr(data, SIZE - b)
  PROVE  /\ low \in Word /\ high \in Word
         /\ Flat!Stored(Flat!Stored(m, p + b, SIZE - b, low), (p + SIZE) + 0, e + 1, high)
              = Flat!Stored(m, p + b, len, data)
  <1> DEFINE k == SIZE - b
             j == e + 1
             f == Flat!Stored(m, p + b, k, low)
  <1>0. SIZE \in Nat /\ W \in Nat /\ Base \in Nat \ {0} /\ b \in Nat /\ b < SIZE /\ e \in Nat
    BY DCacheAssumption DEF Offset
  <1>1. k \in Nat /\ j \in Nat /\ len = k + j /\ k + j <= W /\ j >= 1 /\ k >= 1
    BY <1>0
  <1>2. 0 \in Flat!Byte
    BY <1>0 DEF Flat!Byte
  <1> HIDE DEF k, j
  <1>3. \A i \in 0 .. W - 1 : i + j < W => i + j \in 0 .. W - 1 /\ ~(i + j < j) /\ (i + j) - j = i
    BY <1>0, <1>1
  <1>4. \A i \in 0 .. W - 1 : low[i] = IF i + j < W THEN data[i] ELSE 0
    BY <1>3 DEF Shr, Shl, j
  <1>5. \A i \in 0 .. W - 1 : high[i] = IF i + k < W THEN data[i + k] ELSE 0
    BY DEF Shr, k
  <1>6. low \in Word
    <2>1. low = [i \in 0 .. W - 1 |-> low[i]]
      BY DEF Shr
    <2>2. \A i \in 0 .. W - 1 : low[i] \in Flat!Byte
      BY <1>2, <1>4 DEF Word, Flat!Word
    <2> QED
      BY <2>1, <2>2 DEF Word, Flat!Word
  <1>7. high \in Word
    <2>1. high = [i \in 0 .. W - 1 |-> high[i]]
      BY DEF Shr
    <2>2. \A i \in 0 .. W - 1 : i + k < W => i + k \in 0 .. W - 1
      BY <1>0, <1>1
    <2>3. \A i \in 0 .. W - 1 : high[i] \in Flat!Byte
      BY <1>2, <1>5, <2>2 DEF Word, Flat!Word
    <2> QED
      BY <2>1, <2>3 DEF Word, Flat!Word
  <1>8. ASSUME NEW a \in PAddr
        PROVE  Flat!Stored(f, (p + SIZE) + 0, j, high)[a] = Flat!Stored(m, p + b, len, data)[a]
    <2>0. a \in Int
      BY DEF PAddr, Flat!PAddr
    <2>1. (p + SIZE) + 0 = (p + b) + k
      BY <1>0 DEF k
    <2>2. f[a] = IF a - (p + b) \in 0 .. k - 1 THEN low[a - (p + b)] ELSE m[a]
      BY DEF Flat!Stored, PAddr
    <2>3. Flat!Stored(f, (p + b) + k, j, high)[a]
            = IF a - ((p + b) + k) \in 0 .. j - 1 THEN high[a - ((p + b) + k)] ELSE f[a]
      BY DEF Flat!Stored, PAddr
    <2>4. Flat!Stored(m, p + b, len, data)[a]
            = IF a - (p + b) \in 0 .. len - 1 THEN data[a - (p + b)] ELSE m[a]
      BY DEF Flat!Stored, PAddr
    <2> DEFINE i == a - (p + b)
    <2>5. i \in Int /\ a - ((p + b) + k) = i - k
      BY <1>0, <1>1, <2>0
    <2> HIDE DEF i, f
    <2>6. CASE i \in 0 .. k - 1
      <3>1. ~(i - k \in 0 .. j - 1) /\ i \in 0 .. len - 1 /\ i \in 0 .. W - 1 /\ i + j < W
        BY <1>0, <1>1, <2>5, <2>6
      <3>2. low[i] = data[i]
        BY <1>4, <3>1
      <3> QED
        BY <2>1, <2>2, <2>3, <2>4, <2>5, <2>6, <3>1, <3>2 DEF i
    <2>7. CASE i - k \in 0 .. j - 1
      <3>1. i \in 0 .. len - 1 /\ i - k \in 0 .. W - 1 /\ (i - k) + k < W /\ (i - k) + k = i
        BY <1>0, <1>1, <2>5, <2>7
      <3>2. high[i - k] = data[i]
        BY <1>5, <3>1
      <3> QED
        BY <2>1, <2>3, <2>4, <2>5, <2>7, <3>1, <3>2 DEF i
    <2>8. CASE ~(i \in 0 .. k - 1) /\ ~(i - k \in 0 .. j - 1)
      <3>1. ~(i \in 0 .. len - 1)
        BY <1>0, <1>1, <2>5, <2>8
      <3> QED
        BY <2>1, <2>2, <2>3, <2>4, <2>5, <2>8, <3>1 DEF i
    <2> QED
      BY <2>6, <2>7, <2>8
  <1>9. Flat!Stored(f, (p + SIZE) + 0, j, high) = Flat!Stored(m, p + b, len, data)
    <2>1. Flat!Stored(f, (p + SIZE) + 0, j, high)
            = [a \in PAddr |-> Flat!Stored(f, (p + SIZE) + 0, j, high)[a]]
      BY DEF Flat!Stored, PAddr
    <2>2. Flat!Stored(m, p + b, len, data) = [a \in PAddr |-> Flat!Stored(m, p + b, len, data)[a]]
      BY DEF Flat!Stored, PAddr
    <2> HIDE DEF f
    <2> QED
      BY <1>8, <2>1, <2>2
  <1> QED
    BY <1>6, <1>7, <1>9 DEF k, j, f

----------------------------------------------------------------------------
(* The steps of the specification.                                         *)

LEMMA SizeFacts ==
  /\ SIZE \in Nat \ {0} /\ W \in Nat \ {0} /\ Base \in Nat \ {0}
  /\ 0 \in Flat!Byte /\ Flat!Zero \in Word
  BY DCacheAssumption DEF Flat!Byte, Flat!Zero, Word, Flat!Word

LEMMA InitGood == Init => IInv
  <1> SUFFICES ASSUME Init PROVE IInv
    OBVIOUS
  <1>1. \A g \in Group, w \in Way : ~L1_dcache[g][w].valid
    BY DEF Init
  <1>2. L1_dcache \in [Group -> [Way -> Line]]
    BY SizeFacts DEF Init, Line
  <1>3. hw_mem \in [PAddr -> Flat!Byte] /\ ret \in Word
    BY SizeFacts DEF Init
  <1> QED
    BY <1>1, <1>2, <1>3 DEF IInv, Good

LEMMA LoadedType ==
  ASSUME NEW m \in [PAddr -> Flat!Byte], NEW paddr \in PAddr, NEW len \in Lens,
         Flat!InMemory(paddr, len)
  PROVE  Flat!Loaded(m, paddr, len) \in Word
  <1>1. ASSUME NEW i \in 0 .. W - 1, i < len
        PROVE  paddr + i \in PAddr
    BY <1>1, DCacheAssumption DEF PAddr, Flat!PAddr, Flat!InMemory, MemSize
  <1> QED
    BY <1>1, SizeFacts DEF Flat!Loaded, Word, Flat!Word

\* A read keeps the cache good and returns what a flat memory would.
LEMMA ReadStep ==
  ASSUME IInv, NEW paddr \in PAddr, NEW len \in Lens, Read(paddr, len)
  PROVE  Flat!Read(paddr, len) /\ IInv'
  <1> DEFINE s == BlockOf(paddr)
             t == BlockOf(Last(paddr, len))
             b == OffsetOf(paddr)
             e == OffsetOf(Last(paddr, len))
  <1>1. Flat!InMemory(paddr, len) /\ hw_mem' = hw_mem
    BY DEF Read
  <1>2. /\ s \in Block /\ t \in Block /\ b \in Offset /\ e \in Offset
        /\ paddr = s * SIZE + b
        /\ len \in 1 .. W /\ len <= SIZE
        /\ s = t => b + len <= SIZE
        /\ s # t => t * SIZE = s * SIZE + SIZE /\ len = (SIZE - b) + (e + 1) /\ t = s + 1
    BY <1>1, AccessShape
  <1>3. PICK w \in Victims(L1_dcache, s) :
          LET c == Filled(L1_dcache, s, w)
          IN  \/ /\ s = t
                 /\ L1_dcache' = c
                 /\ ret' = BlockData(c, s, w, b, len)
              \/ /\ s # t
                 /\ \E v \in Victims(c, t) :
                      LET d == Filled(c, t, v)
                      IN  /\ L1_dcache' = d
                          /\ ret' = Plus(Shl(BlockData(d, t, v, 0, e + 1), SIZE - b),
                                         BlockData(c, s, w, b, SIZE - b))
    BY DEF Read
  <1> DEFINE c == Filled(L1_dcache, s, w)
  <1>4. Good(L1_dcache, hw_mem) /\ hw_mem \in [PAddr -> Flat!Byte]
    BY DEF IInv, Good
  <1> HIDE DEF s, t, b, e
  <1>5. Good(c, hw_mem) /\ Holds(c, hw_mem, s, w)
    BY <1>2, <1>4, FillKeepsGood
  <1>6. 0 \in Offset /\ b \in Nat /\ SIZE - b \in Nat /\ b + (SIZE - b) <= SIZE
        /\ e + 1 \in Nat /\ 0 + (e + 1) <= SIZE /\ len \in Nat
    BY <1>2, SizeFacts DEF Offset
  <1>7. Good(L1_dcache', hw_mem) /\ ret' = Flat!Loaded(hw_mem, paddr, len)
    <2>1. CASE s = t
      <3>1. L1_dcache' = c /\ ret' = BlockData(c, s, w, b, len)
        BY <1>3, <2>1
      <3> HIDE DEF c
      <3>2. BlockData(c, s, w, b, len) = Flat!Loaded(hw_mem, s * SIZE + b, len)
        BY <1>2, <1>5, <1>6, <2>1, PieceRead
      <3> QED
        BY <1>2, <1>5, <3>1, <3>2
    <2>2. CASE s # t
      <3>1. PICK v \in Victims(c, t) :
              /\ L1_dcache' = Filled(c, t, v)
              /\ ret' = Plus(Shl(BlockData(Filled(c, t, v), t, v, 0, e + 1), SIZE - b),
                             BlockData(c, s, w, b, SIZE - b))
        BY <1>3, <2>2
      <3> HIDE DEF c
      <3> DEFINE d == Filled(c, t, v)
      <3>2. Good(d, hw_mem) /\ Holds(d, hw_mem, t, v)
        BY <1>2, <1>5, FillKeepsGood
      <3> HIDE DEF d
      <3>3. BlockData(c, s, w, b, SIZE - b) = Flat!Loaded(hw_mem, s * SIZE + b, SIZE - b)
        BY <1>2, <1>5, <1>6, PieceRead
      <3>4. BlockData(d, t, v, 0, e + 1) = Flat!Loaded(hw_mem, t * SIZE + 0, e + 1)
        BY <1>2, <1>6, <3>2, PieceRead
      <3> DEFINE p == s * SIZE
      <3>5. p \in Nat /\ t * SIZE = p + SIZE /\ len = (SIZE - b) + (e + 1)
        BY <1>2, <2>2, SizeFacts DEF Block
      <3>6. p + b + len <= MemSize
        BY <1>1, <1>2 DEF Flat!InMemory
      <3> HIDE DEF p
      <3>7. Plus(Shl(Flat!Loaded(hw_mem, (p + SIZE) + 0, e + 1), SIZE - b),
                 Flat!Loaded(hw_mem, p + b, SIZE - b)) = Flat!Loaded(hw_mem, p + b, len)
        BY <1>2, <1>4, <3>5, <3>6, PiecesAddUp
      <3>8. ret' = Plus(Shl(BlockData(d, t, v, 0, e + 1), SIZE - b),
                        BlockData(c, s, w, b, SIZE - b))
        BY <3>1 DEF d
      <3>9. ret' = Flat!Loaded(hw_mem, p + b, len)
        BY <3>3, <3>4, <3>5, <3>7, <3>8 DEF p
      <3>10. L1_dcache' = d
        BY <3>1 DEF d
      <3> QED
        BY <1>2, <3>2, <3>9, <3>10 DEF p
    <2> QED
      BY <2>1, <2>2
  <1>8. ret' \in Word
    BY <1>1, <1>4, <1>7, LoadedType
  <1> QED
    BY <1>1, <1>7, <1>8 DEF Flat!Read, IInv

\* A write keeps the cache good and leaves in memory what the caller wrote.
LEMMA WriteStep ==
  ASSUME IInv, NEW paddr \in PAddr, NEW len \in Lens, NEW data \in Word, Write(paddr, len, data)
  PROVE  Flat!Write(paddr, len, data) /\ IInv'
  <1> DEFINE s == BlockOf(paddr)
             t == BlockOf(Last(paddr, len))
             b == OffsetOf(paddr)
             e == OffsetOf(Last(paddr, len))
             low  == Shr(Shl(data, e + 1), e + 1)
             high == Shr(data, SIZE - b)
  <1>1. Flat!InMemory(paddr, len) /\ ret' = ret
    BY DEF Write
  <1>2. /\ s \in Block /\ t \in Block /\ b \in Offset /\ e \in Offset
        /\ paddr = s * SIZE + b
        /\ len \in 1 .. W /\ len <= SIZE
        /\ s = t => b + len <= SIZE
        /\ s # t => t * SIZE = s * SIZE + SIZE /\ len = (SIZE - b) + (e + 1) /\ t = s + 1
    BY <1>1, AccessShape
  <1>3. Good(L1_dcache, hw_mem) /\ hw_mem \in [PAddr -> Flat!Byte] /\ ret \in Word
    BY DEF IInv, Good
  <1>4. \/ /\ s = t
           /\ hw_mem' = MemWritten(hw_mem, s, b, len, data)
           /\ L1_dcache' = LineWritten(L1_dcache, s, b, len, data)
        \/ /\ s # t
           /\ hw_mem' = MemWritten(MemWritten(hw_mem, s, b, SIZE - b, low), t, 0, e + 1, high)
           /\ L1_dcache' = LineWritten(LineWritten(L1_dcache, s, b, SIZE - b, low),
                                       t, 0, e + 1, high)
    BY DEF Write
  <1> HIDE DEF s, t, b, e
  <1>5. 0 \in Offset /\ b \in Nat /\ SIZE - b \in Nat /\ b + (SIZE - b) <= SIZE
        /\ e + 1 \in Nat /\ 0 + (e + 1) <= SIZE /\ len \in Nat /\ len <= W
    BY <1>2, SizeFacts DEF Offset
  <1>6. Good(L1_dcache', hw_mem') /\ hw_mem' = Flat!Stored(hw_mem, paddr, len, data)
    <2>1. CASE s = t
      <3>1. hw_mem' = MemWritten(hw_mem, s, b, len, data)
            /\ L1_dcache' = LineWritten(L1_dcache, s, b, len, data)
        BY <1>4, <2>1
      <3>2. Good(LineWritten(L1_dcache, s, b, len, data), MemWritten(hw_mem, s, b, len, data))
        BY <1>2, <1>3, <1>5, <2>1, WriteKeepsGood
      <3> QED
        BY <1>2, <3>1, <3>2 DEF MemWritten
    <2>2. CASE s # t
      <3> DEFINE p == s * SIZE
                 m == MemWritten(hw_mem, s, b, SIZE - b, low)
                 c == LineWritten(L1_dcache, s, b, SIZE - b, low)
      <3>1. /\ hw_mem' = MemWritten(m, t, 0, e + 1, high)
            /\ L1_dcache' = LineWritten(c, t, 0, e + 1, high)
        BY <1>4, <2>2
      <3>2. p \in Nat /\ t * SIZE = p + SIZE /\ len = (SIZE - b) + (e + 1)
        BY <1>2, <2>2, SizeFacts DEF Block
      <3>3. SIZE - b <= W /\ e + 1 <= W
        BY <1>2, <1>5, <3>2, SizeFacts DEF Offset
      <3> HIDE DEF p
      <3>4. /\ low \in Word /\ high \in Word
            /\ Flat!Stored(Flat!Stored(hw_mem, p + b, SIZE - b, low), (p + SIZE) + 0, e + 1, high)
                 = Flat!Stored(hw_mem, p + b, len, data)
        BY <1>2, <1>3, <3>2, PiecesWritten
      <3> HIDE DEF low, high
      <3>5. Good(c, m)
        BY <1>2, <1>3, <1>5, <3>3, <3>4, WriteKeepsGood
      <3> HIDE DEF m, c
      <3>6. Good(LineWritten(c, t, 0, e + 1, high), MemWritten(m, t, 0, e + 1, high))
        BY <1>2, <1>5, <3>3, <3>4, <3>5, WriteKeepsGood
      <3>7. hw_mem' = Flat!Stored(hw_mem, p + b, len, data)
        BY <3>1, <3>2, <3>4 DEF MemWritten, m, p
      <3> QED
        BY <1>2, <3>1, <3>6, <3>7 DEF p
    <2> QED
      BY <1>4, <2>1, <2>2
  <1> QED
    BY <1>1, <1>3, <1>6 DEF Flat!Write, IInv

LEMMA Invariance == Spec => []IInv
  <1>1. IInv /\ [Next]_vars => IInv'
    <2> SUFFICES ASSUME IInv, [Next]_vars PROVE IInv'
      OBVIOUS
    <2>1. ASSUME NEW paddr \in PAddr, NEW len \in Lens, Read(paddr, len)
          PROVE  IInv'
      BY <2>1, ReadStep
    <2>2. ASSUME NEW paddr \in PAddr, NEW len \in Lens, NEW data \in Word,
                 Write(paddr, len, data)
          PROVE  IInv'
      BY <2>2, WriteStep
    <2>3. CASE UNCHANGED vars
      BY <2>3 DEF vars, IInv, Good
    <2> QED
      BY <2>1, <2>2, <2>3 DEF Next
  <1> QED
    BY InitGood, <1>1, PTL DEF Spec

----------------------------------------------------------------------------
(* The theorems.                                                           *)

(* Every line, byte of memory and result stays in its type: no read or     *)
(* write of cache.c runs past a line, a group or the memory.               *)
THEOREM TypeCorrect == Spec => []TypeOK
  <1>1. IInv => TypeOK
    BY DEF IInv, Good, TypeOK
  <1> QED
    BY <1>1, Invariance, PTL

(* No group ever holds the same block twice, whatever rand() chooses in    *)
(* cache_block_read(): the write of cache_block_write() to the first line  *)
(* that matches reaches every copy.                                        *)
THEOREM NoDuplicateLine == Spec => []CachedOnce
  <1>1. IInv => CachedOnce
    BY GoodIsInv DEF IInv
  <1> QED
    BY <1>1, Invariance, PTL

(* Every valid line equals its block of hw_mem after every read and write  *)
(* of cache.c, including those that cross a line.                          *)
THEOREM CacheCoherence == Spec => []Coherent
  <1>1. IInv => Coherent
    BY GoodIsInv DEF IInv
  <1> QED
    BY <1>1, Invariance, PTL

(* cache_read() and cache_write() implement hw_mem_read() and              *)
(* hw_mem_write(): the cache is invisible, for every geometry of it.       *)
THEOREM CacheIsTransparent == Spec => ImplementsFlatMemory
  <1>1. Init => Flat!Init
    BY DEF Init, Flat!Init, PAddr
  <1>2. IInv /\ [Next]_vars => [Flat!Next]_<<hw_mem, ret>>
    <2> SUFFICES ASSUME IInv, [Next]_vars PROVE [Flat!Next]_<<hw_mem, ret>>
      OBVIOUS
    <2>1. ASSUME NEW paddr \in PAddr, NEW len \in Lens, Read(paddr, len)
          PROVE  Flat!Next
      BY <2>1, ReadStep DEF Flat!Next, PAddr
    <2>2. ASSUME NEW paddr \in PAddr, NEW len \in Lens, NEW data \in Word,
                 Write(paddr, len, data)
          PROVE  Flat!Next
      BY <2>2, WriteStep DEF Flat!Next, PAddr, Word
    <2>3. CASE UNCHANGED vars
      BY <2>3 DEF vars
    <2> QED
      BY <2>1, <2>2, <2>3 DEF Next
  <1> QED
    BY <1>1, <1>2, Invariance, PTL DEF Spec, Flat!Spec, ImplementsFlatMemory
=============================================================================
