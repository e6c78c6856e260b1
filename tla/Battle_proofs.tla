---------------------------- MODULE Battle_proofs ----------------------------
(***************************************************************************)
(* The safety properties of Battle hold for every party and every sequence *)
(* of teams of enemies, small or large, with empty slots between them,     *)
(* whatever their speeds, hit points and meters.                           *)
(***************************************************************************)
EXTENDS Battle, SequenceTheorems, WellFoundedInduction, TLAPS

\* Where a frame may be, and the enemy or the player it has come to.
EnemyPoints == {"Enemy", "Pick", "EnemyWindup", "EnemyRecover", "EnemyEnd", "EnemyPoison", "EnemyFade"}
EndPoints == {"Recover", "Fade", "Poisoned"}
PlayerPoints == {"Perform", "Windup"} \cup EndPoints
FrameRecord ==
  [pc : {"Top", "Unhide", "UI", "Players", "Aborted"} \cup EnemyPoints \cup PlayerPoints,
   at : Int, moved : BOOLEAN, only : BOOLEAN, target : Players \cup {All}]
FrameType ==
  /\ frame \in FrameRecord
  /\ frame.pc \in EnemyPoints => frame.at \in Enemies
  /\ frame.pc \in PlayerPoints => frame.at \in Players

\* The menu closes with the last enemy and stays closed.
ClearedShut == battle.cleared => ui.state = "Wait"

\* The player who performs his action is in kFighterAct, or back in
\* kFighterWait with an empty meter; the menu, which moves in the middle of it,
\* is another player's.
AtActs ==
  frame.pc \in PlayerPoints =>
    /\ Open => ui.cur # frame.at
    /\ \/ frame.pc \in {"Perform", "Windup", "Recover"} /\ fighter[frame.at].state = "Act"
       \/ Ending(frame.at)

\* An enemy that has begun to act made this frame a crowded one; while nothing
\* moved and somebody alive was seen, somebody still lives.
MovedInv ==
  /\ frame.pc \in EnemyPoints \ {"Enemy"} => frame.moved
  /\ frame.pc = "Unhide" /\ ~frame.only => \E p \in Players : Alive(p)
  /\ frame.pc = "Enemy" /\ ~frame.moved /\ ~frame.only => \E p \in Players : Alive(p)

\* Until something moves the battle is not cleared; fEnemyCleared is late for
\* the rest of one action only, and enemies without health for the same time.
StandingInv ==
  /\ frame.pc \in {"Enemy", "UI", "Players"} /\ ~frame.moved => ~battle.cleared
  /\ frame.pc \in {"Unhide", "Perform", "Windup"} => ~battle.cleared
  /\ ~battle.cleared => \E e \in Enemies : enemy[e].there
  /\ frame.pc \notin {"Recover", "EnemyPoison"} =>
       \A e \in Enemies : enemy[e].there => enemy[e].hp > 0

\* The slot behind the team was cleared; those behind it may hold enemies of
\* an earlier battle.
CleanBehind == battle.last + 1 \in Slots => ~enemy[battle.last + 1].there

\* A target is one the type of its action can carry, and the menu aims at a
\* single enemy for such actions only.
TargetsKnown == \A p \in Players : fighter[p].target \in Targets(fighter[p].type)
Aims == TargetsKnown /\ (ui.state = "Enemy" => ui.type \in ToEnemy)

\* What uses a piece was validated with one in the inventory.
ItemReady ==
  frame.pc = "Windup" /\ fighter[frame.at].type \in {"Use", "Throw"} => inv > 0

\* What the commands of the players are kept to.
Command == OneCommand /\ ClearedShut /\ CoopAlone /\ QueueDue

IInv ==
  /\ TypeOK /\ FrameType
  /\ Command /\ AtActs /\ Aims
  /\ MovedInv /\ EnemyHasTarget /\ StandingInv /\ CleanBehind /\ TargetStands
  /\ ItemsConserved /\ ItemReady

----------------------------------------------------------------------------
(* The sequence of the players whose turn is due.                          *)

\* The least element of a set of natural numbers.
LEMMA LeastNatural ==
  ASSUME NEW T \in SUBSET Nat, T # {}
  PROVE  \E m \in T : \A n \in T : m <= n
<1>. DEFINE R == {ss \in Nat \X Nat : ss[1] < ss[2]}
<1>1. IsWellFoundedOn(R, Nat)
  BY NatLessThanWellFounded DEF OpToRel
<1>2. PICK m \in T : \A n \in T : ~ (<<n, m>> \in R)
  BY <1>1, WFMin
<1>3. ASSUME NEW n \in T  PROVE m <= n
  <2>1. ~(n < m) /\ n \in Nat /\ m \in Nat
    BY <1>2
  <2>. QED  BY <2>1
<1>. QED
  BY <1>3

\* What SelectSeq has kept of the first i elements.
KeptStep(f, s, S, n) ==
  /\ f[0] = << >>
  /\ \A i \in 1..n : f[i] = IF s[i] \in S THEN Append(f[i-1], s[i]) ELSE f[i-1]

\* There is such a function, by the least index without one.
LEMMA KeptExists ==
  ASSUME NEW D, NEW s \in Seq(D), NEW S
  PROVE  \E f \in [0..Len(s) -> Seq(D)] : KeptStep(f, s, S, Len(s))
<1>. DEFINE T == {n \in 0..Len(s) : ~ \E f \in [0..n -> Seq(D)] : KeptStep(f, s, S, n)}
<1>1. SUFFICES T = {}
  BY LenProperties
<1>2. SUFFICES ASSUME T # {} PROVE FALSE
  OBVIOUS
<1>3. PICK n \in T : \A m \in T : n <= m
  <2>. T \in SUBSET Nat
    BY LenProperties
  <2>. QED  BY <1>2, LeastNatural
<1>4. n # 0
  <2>. DEFINE f == [i \in 0..0 |-> << >>]
  <2>1. f \in [0..0 -> Seq(D)] /\ KeptStep(f, s, S, 0)
    BY DEF KeptStep
  <2>. QED  BY <2>1
<1>5. n \in 1..Len(s) /\ n - 1 \in 0..Len(s) /\ n - 1 \notin T
  <2>1. n \in 0..Len(s) /\ Len(s) \in Nat
    BY LenProperties
  <2>2. ~(n <= n - 1)
    BY <2>1
  <2>. HIDE DEF T
  <2>. QED  BY <2>1, <2>2, <1>3, <1>4
<1>6. PICK g \in [0..n-1 -> Seq(D)] : KeptStep(g, s, S, n-1)
  BY <1>5
<1>. DEFINE e == IF s[n] \in S THEN Append(g[n-1], s[n]) ELSE g[n-1]
            f == [i \in 0..n |-> IF i = n THEN e ELSE g[i]]
<1>7. e \in Seq(D)
  BY <1>5, <1>6, ElementOfSeq, AppendProperties
<1>8. f \in [0..n -> Seq(D)]
  BY <1>5, <1>7
<1>9. KeptStep(f, s, S, n)
  <2>1. f[0] = << >>
    BY <1>5, <1>6 DEF KeptStep
  <2>2. ASSUME NEW i \in 1..n, i # n  PROVE f[i] = g[i] /\ f[i-1] = g[i-1] /\ i \in 1..n-1
    <3>1. i \in 0..n /\ i-1 \in 0..n /\ i - 1 # n /\ i \in 1..n-1
      BY <1>5, <2>2, LenProperties
    <3>. HIDE DEF e
    <3>. QED  BY <3>1, <2>2
  <2>3. f[n] = e /\ f[n-1] = g[n-1]
    BY <1>5
  <2>. HIDE DEF f
  <2>4. ASSUME NEW i \in 1..n  PROVE f[i] = IF s[i] \in S THEN Append(f[i-1], s[i]) ELSE f[i-1]
    BY <2>2, <2>3, <1>6 DEF KeptStep
  <2>. QED  BY <2>1, <2>4 DEF KeptStep
<1>. QED  BY <1>3, <1>8, <1>9

\* It is the one the definition chooses.
LEMMA KeptUnfolds ==
  ASSUME NEW D, NEW s \in Seq(D), NEW S
  PROVE  \E f \in [0..Len(s) -> Seq(D)] : KeptStep(f, s, S, Len(s)) /\ Kept(s, S) = f[Len(s)]
<1>. DEFINE Body(F) == [i \in 0..Len(s) |-> IF i = 0 THEN << >> ELSE IF s[i] \in S THEN Append(F[i-1], s[i]) ELSE F[i-1]]
            F == CHOOSE F : F = Body(F)
<1>1. Kept(s, S) = F[Len(s)]
  BY DEF Kept
<1>2. PICK f \in [0..Len(s) -> Seq(D)] : KeptStep(f, s, S, Len(s))
  BY KeptExists
<1>3. f = Body(f)
  <2>1. f[0] = << >>
    BY <1>2 DEF KeptStep
  <2>2. \A i \in 0..Len(s) : i # 0 =>
          f[i] = IF s[i] \in S THEN Append(f[i-1], s[i]) ELSE f[i-1]
    <3>1. \A i \in 0..Len(s) : i # 0 => i \in 1..Len(s)
      BY LenProperties
    <3>. QED  BY <1>2, <3>1 DEF KeptStep
  <2>. QED  BY <2>1, <2>2
<1>4. F = Body(F)
  <2>. HIDE DEF Body
  <2>. QED BY <1>3
<1>. HIDE DEF F
<1>5. \A i \in 0..Len(s) : F[i] = IF i = 0 THEN << >> ELSE IF s[i] \in S THEN Append(F[i-1], s[i]) ELSE F[i-1]
  BY <1>4
<1>. DEFINE T == {n \in 0..Len(s) : F[n] # f[n]}
<1>6. T = {}
  <2>1. SUFFICES ASSUME T # {}  PROVE FALSE
    OBVIOUS
  <2>2. PICK n \in T : \A m \in T : n <= m
    <3>. T \in SUBSET Nat
      BY LenProperties
    <3>. QED  BY <2>1, LeastNatural
  <2>3. n # 0
    BY <1>2, <1>5, LenProperties DEF KeptStep
  <2>4. n \in 1..Len(s) /\ n - 1 \in 0..Len(s) /\ ~(n <= n - 1)
    BY <2>3, LenProperties
  <2>5. F[n-1] = f[n-1]
    BY <2>2, <2>4
  <2>6. F[n] = f[n]
    BY <1>2, <1>5, <2>3, <2>4, <2>5 DEF KeptStep
  <2>. QED  BY <2>6
<1>7. F[Len(s)] = f[Len(s)]
  BY <1>6, LenProperties
<1>. QED  BY <1>1, <1>2, <1>7

\* No two places of a sequence hold the same element.
Distinct(s) == \A i, j \in 1..Len(s) : s[i] = s[j] => i = j

\* The elements kept are in the set, come from the sequence, and are still
\* pairwise different if they were before.
LEMMA KeptProperties ==
  ASSUME NEW D, NEW s \in Seq(D), NEW S
  PROVE  /\ Kept(s, S) \in Seq(D)
         /\ \A j \in 1..Len(Kept(s, S)) :
              Kept(s, S)[j] \in S /\ \E i \in 1..Len(s) : Kept(s, S)[j] = s[i]
         /\ Distinct(s) => Distinct(Kept(s, S))
<1>1. PICK f \in [0..Len(s) -> Seq(D)] : KeptStep(f, s, S, Len(s)) /\ Kept(s, S) = f[Len(s)]
  BY KeptUnfolds
<1>. DEFINE From(n) == \A j \in 1..Len(f[n]) : f[n][j] \in S /\ \E i \in 1..n : f[n][j] = s[i]
            Keeps(n) == From(n) /\ (Distinct(s) => Distinct(f[n]))
            T == {n \in 0..Len(s) : ~Keeps(n)}
<1>2. T = {}
  <2>1. SUFFICES ASSUME T # {}  PROVE FALSE
    OBVIOUS
  <2>2. PICK n \in T : \A m \in T : n <= m
    <3>1. T \in SUBSET Nat
      BY LenProperties
    <3>. HIDE DEF T
    <3>. QED  BY <2>1, <3>1, LeastNatural
  <2>3. n # 0
    <3>1. f[0] = << >> /\ Len(f[0]) = 0
      BY <1>1 DEF KeptStep
    <3>2. Keeps(0)
      BY <3>1 DEF Distinct
    <3>. QED  BY <3>2
  <2>4. n \in 1..Len(s) /\ n - 1 \in 0..Len(s) /\ ~(n <= n - 1) /\ Len(s) \in Nat
    BY <2>3, LenProperties
  <2>5. Keeps(n-1)
    <3>1. n - 1 \notin T
      <4>. HIDE DEF T
      <4>. QED  BY <2>2, <2>4
    <3>. HIDE DEF Keeps
    <3>. QED  BY <2>4, <3>1
  <2>6. f[n-1] \in Seq(D) /\ Len(f[n-1]) \in Nat /\ s[n] \in D
    BY <2>4, LenProperties, ElementOfSeq
  <2>7. f[n] = IF s[n] \in S THEN Append(f[n-1], s[n]) ELSE f[n-1]
    BY <1>1, <2>4 DEF KeptStep
  <2>8. CASE s[n] \notin S
    <3>1. f[n] = f[n-1]
      BY <2>7, <2>8
    <3>2. From(n)
      BY <2>4, <2>5, <3>1
    <3>. QED  BY <2>2, <2>5, <3>1, <3>2
  <2>9. CASE s[n] \in S
    <3>. DEFINE k == Len(f[n-1])
    <3>1. /\ Len(f[n]) = k + 1 /\ f[n][k + 1] = s[n]
          /\ \A j \in 1..k : f[n][j] = f[n-1][j]
      BY <2>6, <2>7, <2>9, AppendProperties
    <3>2. k \in Nat
      BY <2>6
    <3>3. \A j \in 1..k : f[n][j] \in S /\ \E i \in 1..n-1 : f[n][j] = s[i]
      BY <2>5, <3>1
    <3>. HIDE DEF k
    <3>4. From(n)
      BY <2>4, <2>9, <3>1, <3>2, <3>3
    <3>5. ASSUME Distinct(s), NEW i \in 1..k + 1, NEW j \in 1..k + 1, f[n][i] = f[n][j]
          PROVE  i = j
      <4>1. CASE i = k + 1 /\ j # k + 1
        <5>1. PICK l \in 1..n-1 : f[n][j] = s[l]
          BY <4>1, <3>2, <3>3
        <5>2. l \in 1..Len(s) /\ n \in 1..Len(s) /\ l # n
          BY <2>4
        <5>. QED  BY <3>1, <3>5, <4>1, <5>1, <5>2 DEF Distinct
      <4>2. CASE j = k + 1 /\ i # k + 1
        <5>1. PICK l \in 1..n-1 : f[n][i] = s[l]
          BY <4>2, <3>2, <3>3
        <5>2. l \in 1..Len(s) /\ n \in 1..Len(s) /\ l # n
          BY <2>4
        <5>. QED  BY <3>1, <3>5, <4>2, <5>1, <5>2 DEF Distinct
      <4>3. CASE i # k + 1 /\ j # k + 1
        <5>1. i \in 1..k /\ j \in 1..k
          BY <3>2, <4>3
        <5>2. Distinct(f[n-1]) /\ f[n-1][i] = f[n-1][j]
          BY <2>5, <3>1, <3>5, <5>1
        <5>. QED  BY <5>1, <5>2 DEF Distinct, k
      <4>. QED  BY <4>1, <4>2, <4>3
    <3>6. Distinct(s) => Distinct(f[n])
      BY <3>1, <3>5 DEF Distinct
    <3>. QED  BY <2>2, <3>4, <3>6
  <2>. QED  BY <2>8, <2>9
<1>3. Keeps(Len(s)) /\ f[Len(s)] \in Seq(D)
  <2>1. Len(s) \in 0..Len(s)
    BY LenProperties
  <2>. HIDE DEF Keeps
  <2>. QED  BY <1>2, <2>1
<1>. QED  BY <1>1, <1>3


----------------------------------------------------------------------------
(* The numbers of players and enemies, and the least of them.              *)

\* Players and slots are counted from zero and there is one of each; a
\* player's number is a slot's; -1 is neither.
LEMMA Numbers ==
  /\ Players \subseteq Nat /\ 0 \in Players /\ Players \subseteq Slots
  /\ Slots \subseteq Nat /\ 0 \in Slots
  /\ All \in Int /\ All \notin Players /\ All \notin Slots
BY BattleAssumption DEF Players, Slots, All

\* The team fills the first slots.
LEMMA Team ==
  ASSUME battle.last \in Slots
  PROVE  /\ Enemies \subseteq Slots /\ 0 \in Enemies /\ battle.last \in Enemies
         /\ All \notin Enemies /\ Enemies \subseteq Nat
<1>1. battle.last \in 0..NSlots - 1 /\ NSlots \in Nat
  BY BattleAssumption DEF Slots
<1>2. Enemies \subseteq Slots /\ 0 \in Enemies /\ battle.last \in Enemies
  BY <1>1 DEF Enemies, Slots
<1>. QED  BY <1>2, Numbers

\* Min finds the least element.
LEMMA MinIsLeast ==
  ASSUME NEW T \in SUBSET Nat, T # {}
  PROVE  Min(T) \in T /\ \A n \in T : Min(T) <= n
BY LeastNatural DEF Min

\* One of the ready players is the fastest, the first of those who are equal.
LEMMA FastestExists ==
  ASSUME TypeOK, NEW ready \in SUBSET Players, ready # {}
  PROVE  \E p \in ready : \A q \in ready :
           \/ fighter[p].meter > fighter[q].meter
           \/ (fighter[p].meter = fighter[q].meter /\ p <= q)
<1>1. \A p \in ready : fighter[p].meter \in 0..MaxMeter /\ p \in Nat
  BY Numbers DEF TypeOK, FighterType
<1>. DEFINE Lack == {MaxMeter - fighter[p].meter : p \in ready}
<1>2. PICK low \in Lack : \A n \in Lack : low <= n
  <2>1. Lack \in SUBSET Nat /\ Lack # {}
    BY <1>1, BattleAssumption
  <2>. HIDE DEF Lack
  <2>. QED  BY <2>1, LeastNatural
<1>. DEFINE Best == {p \in ready : MaxMeter - fighter[p].meter = low}
<1>3. PICK p \in Best : \A q \in Best : p <= q
  <2>1. Best \in SUBSET Nat /\ Best # {}
    BY <1>1, <1>2
  <2>. HIDE DEF Best
  <2>. QED  BY <2>1, LeastNatural
<1>4. ASSUME NEW q \in ready
      PROVE  \/ fighter[p].meter > fighter[q].meter
             \/ (fighter[p].meter = fighter[q].meter /\ p <= q)
  <2>1. low <= MaxMeter - fighter[q].meter /\ low = MaxMeter - fighter[p].meter
    BY <1>2, <1>3
  <2>2. fighter[p].meter >= fighter[q].meter
    BY <2>1, <1>1, <1>3, BattleAssumption
  <2>3. fighter[p].meter = fighter[q].meter => p <= q
    BY <2>1, <1>3
  <2>. QED  BY <2>2, <2>3, <1>1, <1>3
<1>. QED  BY <1>3, <1>4

\* PAL_BattlePlayerCheckReady asks one ready player, and only if nobody is
\* asked and no cooperative magic is pending.
LEMMA CheckReadyAsks ==
  ASSUME TypeOK
  PROVE  \/ PAL_BattlePlayerCheckReady = fighter
         \/ \E p \in Players :
              /\ fighter[p].state = "Wait" /\ fighter[p].meter >= Full
              /\ \A q \in Players : ~HoldsBack(q)
              /\ PAL_BattlePlayerCheckReady =
                   [fighter EXCEPT ![p] = [state |-> "Com", meter |-> Full, type |-> "Pass",
                                           target |-> All, time |-> 0]]
<1>. DEFINE ready == {p \in Players : fighter[p].state = "Wait" /\ fighter[p].meter >= Full}
            Fastest(p) == \A q \in ready : \/ fighter[p].meter > fighter[q].meter
                                           \/ (fighter[p].meter = fighter[q].meter /\ p <= q)
            first == CHOOSE p \in ready : Fastest(p)
<1>1. CASE ready = {} \/ \E p \in Players : HoldsBack(p)
  BY <1>1 DEF PAL_BattlePlayerCheckReady
<1>2. CASE ready # {} /\ \A p \in Players : ~HoldsBack(p)
  <2>1. first \in ready
    <3>1. \E p \in ready : Fastest(p)
      BY <1>2, FastestExists
    <3>. HIDE DEF ready, Fastest
    <3>. QED  BY <3>1
  <2>2. [Idle(Full) EXCEPT !.state = "Com"] =
          [state |-> "Com", meter |-> Full, type |-> "Pass", target |-> All, time |-> 0]
    BY DEF Idle
  <2>3. PAL_BattlePlayerCheckReady = [fighter EXCEPT ![first] = [Idle(Full) EXCEPT !.state = "Com"]]
    BY <1>2 DEF PAL_BattlePlayerCheckReady
  <2>. QED  BY <1>2, <2>1, <2>2, <2>3
<1>. QED  BY <1>1, <1>2

----------------------------------------------------------------------------
(* The menu: what one update of it keeps, at any point of a frame.         *)

UiRecord == [state : {"Wait", "Move", "Enemy", "All"}, menu : {"Main", "Sub"},
             cur : Players, type : ActionTypes]

\* A player who may be in the turn order: his action is due or it ends.
Turn(f, fr, p) ==
  \/ f[p].state = "Act" /\ f[p].time = 0
  \/ fr.pc \in EndPoints /\ fr.at = p /\ f[p].state = "Wait" /\ f[p].meter < Full

\* Where the menu is updated.
MenuMay ==
  /\ TypeOK /\ Command /\ Aims /\ AtActs
  /\ UNCHANGED battle /\ (frame' = frame \/ frame.pc = "UI")

\* Who acts or whose action ends is left as he is, a full meter stays full, and
\* a menu that opens is that of a player who is asked now.
MenuKept ==
  /\ fighter' \in [Players -> FighterType] /\ queue' \in Seq(Players) /\ ui' \in UiRecord
  /\ Command' /\ Aims'
  /\ \A p \in Players : fighter[p].state = "Act" \/ Turn(fighter, frame, p)
                          => fighter'[p] = fighter[p]
  /\ \A p \in Players : fighter[p].meter >= Full => fighter'[p].meter >= Full
  /\ Open' => (Open /\ ui'.cur = ui.cur) \/ fighter'[ui'.cur].state = "Com"

\* The menu is never that of a player in the turn order.
LEMMA TurnStays ==
  ASSUME MenuMay, NEW p \in Players, Turn(fighter, frame, p)
  PROVE  /\ Open => ui.cur # p
         /\ \/ fighter[p].state = "Act"
            \/ fighter[p].state = "Wait" /\ ~(fighter[p].meter >= Full)
         /\ fighter'[p] = fighter[p] => Turn(fighter', frame', p)
<1>1. CASE fighter[p].state = "Act" /\ fighter[p].time = 0
  BY <1>1 DEF MenuMay, Command, OneCommand, Turn
<1>2. CASE ~(fighter[p].state = "Act" /\ fighter[p].time = 0)
  <2>1. frame.pc \in EndPoints /\ frame.at = p /\ fighter[p].state = "Wait" /\ fighter[p].meter < Full
    BY <1>2 DEF Turn
  <2>2. ~(fighter[p].meter >= Full)
    <3>1. fighter[p].meter \in Nat /\ Full \in Nat
      BY BattleAssumption DEF MenuMay, TypeOK, FighterType
    <3>. QED  BY <2>1, <3>1
  <2>3. frame' = frame
    BY <2>1 DEF MenuMay, EndPoints
  <2>4. Open => ui.cur # p
    BY <2>1 DEF MenuMay, AtActs, PlayerPoints
  <2>. QED  BY <2>1, <2>2, <2>3, <2>4 DEF Turn
<1>. QED  BY <1>1, <1>2

\* Taking a player out of the queue.
LEMMA WithoutProperties ==
  ASSUME queue \in Seq(Players), NEW p
  PROVE  /\ Without(p) \in Seq(Players)
         /\ \A j \in 1..Len(Without(p)) :
              Without(p)[j] # p /\ \E i \in 1..Len(queue) : Without(p)[j] = queue[i]
         /\ Distinct(queue) => Distinct(Without(p))
<1>. DEFINE left == Kept(queue, Players \ {p})
<1>1. /\ left \in Seq(Players)
      /\ \A j \in 1..Len(left) : left[j] \in Players \ {p} /\ \E i \in 1..Len(queue) : left[j] = queue[i]
      /\ Distinct(queue) => Distinct(left)
  BY KeptProperties
<1>. HIDE DEF left
<1>2. Without(p) = left
  BY DEF Without, left
<1>. QED  BY <1>1, <1>2

\* The queue invariant in terms of indices.
LEMMA QueueDueMeans ==
  ASSUME queue \in Seq(Players)
  PROVE  QueueDue <=> /\ Distinct(queue)
                      /\ \A i \in 1..Len(queue) : Turn(fighter, frame, queue[i])
<1>1. DOMAIN queue = 1..Len(queue)
  BY LenProperties
<1>. QED  BY <1>1 DEF QueueDue, Distinct, Turn, Due, Ending, EndPoints

\* A queue whose players are due.
LEMMA QueueDueNext ==
  ASSUME queue' \in Seq(Players), Distinct(queue'),
         \A i \in 1..Len(queue') : Turn(fighter', frame', queue'[i])
  PROVE  QueueDue'
<1>1. DOMAIN queue' = 1..Len(queue')
  BY LenProperties
<1>. QED  BY <1>1 DEF QueueDue, Distinct, Turn, Due, Ending, EndPoints

\* The queue without a player, or as it is, when the others keep their turns.
LEMMA QueueStays ==
  ASSUME queue \in Seq(Players), QueueDue, NEW q,
         queue' = queue \/ queue' = Without(q),
         \A p \in Players : Turn(fighter, frame, p) =>
           Turn(fighter', frame', p) \/ (p = q /\ queue' = Without(q))
  PROVE  queue' \in Seq(Players) /\ QueueDue'
<1>1. Distinct(queue) /\ \A i \in 1..Len(queue) : Turn(fighter, frame, queue[i])
  BY QueueDueMeans
<1>2. \A i \in 1..Len(queue) : queue[i] \in Players
  BY ElementOfSeq
<1>3. CASE queue' = Without(q)
  <2>1. /\ queue' \in Seq(Players) /\ Distinct(queue')
        /\ \A j \in 1..Len(queue') : queue'[j] # q /\ \E i \in 1..Len(queue) : queue'[j] = queue[i]
    BY <1>1, <1>3, WithoutProperties
  <2>2. \A j \in 1..Len(queue') : Turn(fighter', frame', queue'[j])
    BY <1>1, <1>2, <2>1
  <2>. QED  BY <2>1, <2>2, QueueDueNext
<1>4. CASE queue' # Without(q)
  <2>1. queue' = queue /\ \A i \in 1..Len(queue) : Turn(fighter', frame', queue[i])
    BY <1>1, <1>2, <1>4
  <2>. QED  BY <1>1, <2>1, QueueDueNext
<1>. QED  BY <1>3, <1>4

\* Which targets there are does not change in a battle.
LEMMA AimsNext ==
  ASSUME battle'.last = battle.last,
         \A p \in Players : fighter'[p].target \in Targets(fighter'[p].type),
         ui'.state = "Enemy" => ui'.type \in ToEnemy
  PROVE  Aims'
BY DEF Aims, TargetsKnown, Targets, Enemies

\* A target is a slot or everyone, and everyone is always one.
LEMMA TargetsType ==
  ASSUME battle.last \in Slots
  PROVE  \A type : /\ Targets(type) \subseteq Slots \cup {All} /\ All \in Targets(type)
                   /\ Targets(type) \subseteq Targets("Attack")
<1>1. Enemies \subseteq Slots /\ Players \subseteq Slots
  BY Team, Numbers
<1>2. Targets("Attack") = Enemies \cup Players \cup {All}
  BY DEF Targets
<1>3. \A type : Targets(type) \in {Enemies \cup Players \cup {All}, Enemies \cup {All}, {All}}
  BY DEF Targets
<1>. QED  BY <1>1, <1>2, <1>3

\* A command is committed.
LEMMA CommitStep ==
  ASSUME MenuMay, Open, NEW type \in ActionTypes, NEW target \in Targets(type),
         PAL_BattleCommitAction(type, target)
  PROVE  MenuKept
<1>. DEFINE p == ui.cur
<1>1. PICK action \in ValidAction(type, target) : 
        LET wait == IF action[1] = "Magic" THEN CastTime ELSE 0
        IN  /\ fighter' = [fighter EXCEPT ![p] =
                         [state |-> "Act", meter |-> @.meter, type |-> action[1],
                          target |-> action[2], time |-> wait]]
            /\ queue' = IF wait = 0 THEN Append(Without(p), p) ELSE Without(p)
            /\ ui' = NoMenu
  BY DEF PAL_BattleCommitAction
<1>2. /\ p \in Players /\ fighter \in [Players -> FighterType] /\ queue \in Seq(Players)
      /\ battle.last \in Slots /\ battle' = battle /\ TypeOK /\ Command /\ Aims
  BY DEF MenuMay, TypeOK
<1>3. action[1] \in ActionTypes /\ action[2] \in Targets(action[1])
  <2>1. action = <<type, target>>
        \/ (type = "Magic" /\ action = <<"Attack", IF target = All THEN 0 ELSE target>>)
    BY <1>1 DEF ValidAction
  <2>2. "Attack" \in ActionTypes /\ 0 \in Targets("Attack") /\ target \in Targets("Attack")
    BY <1>2, Team, TargetsType DEF ActionTypes, Targets
  <2>. QED  BY <2>1, <2>2
<1>. DEFINE wait == IF action[1] = "Magic" THEN CastTime ELSE 0
            act == [state |-> "Act", meter |-> fighter[p].meter, type |-> action[1],
                    target |-> action[2], time |-> wait]
<1>4. fighter' = [fighter EXCEPT ![p] = act] /\ ui' = NoMenu
  BY <1>1
<1>5. act \in FighterType
  <2>1. action[2] \in Slots \cup {All}
    BY <1>2, <1>3, TargetsType
  <2>. QED  BY <1>2, <1>3, <2>1, BattleAssumption DEF FighterType
<1>6. /\ fighter'[p] = act /\ \A q \in Players \ {p} : fighter'[q] = fighter[q]
      /\ fighter' \in [Players -> FighterType]
  BY <1>2, <1>4, <1>5
<1>7. /\ act.state = "Act" /\ act.meter = fighter[p].meter /\ act.time = wait
      /\ act.type = action[1] /\ act.target = action[2]
  OBVIOUS
<1>8. ~battle.cleared /\ ~battle'.cleared /\ fighter[p].state # "Act"
  BY <1>2 DEF Command, ClearedShut, OneCommand, Open
<1>9. ui'.state = "Wait" /\ ui' \in UiRecord
  BY <1>4, Numbers DEF NoMenu, ActionTypes, UiRecord
<1>. HIDE DEF act, p
<1>10. \A q \in Players : fighter'[q].state # "Com"
  BY <1>2, <1>6, <1>7, <1>8 DEF Command, OneCommand, p
<1>11. OneCommand' /\ ClearedShut' /\ CoopAlone'
  BY <1>8, <1>9, <1>10 DEF OneCommand, ClearedShut, CoopAlone, Open
<1>12. \A q \in Players : fighter[q].state = "Act" \/ Turn(fighter, frame, q) => fighter'[q] = fighter[q]
  BY <1>6, <1>8, TurnStays DEF p
<1>13. \A q \in Players : fighter[q].meter >= Full => fighter'[q].meter >= Full
  BY <1>6, <1>7
<1>. DEFINE rest == Without(p)
<1>14. /\ rest \in Seq(Players) /\ Distinct(rest) /\ Len(rest) \in Nat
       /\ \A j \in 1..Len(rest) : rest[j] \in Players \ {p} /\ Turn(fighter', frame', rest[j])
  <2>1. Distinct(queue) /\ \A i \in 1..Len(queue) : Turn(fighter, frame, queue[i])
    BY <1>2, QueueDueMeans DEF Command
  <2>2. /\ rest \in Seq(Players) /\ Distinct(rest)
        /\ \A j \in 1..Len(rest) : rest[j] # p /\ \E i \in 1..Len(queue) : rest[j] = queue[i]
    BY <1>2, <2>1, WithoutProperties
  <2>. HIDE DEF rest
  <2>3. Len(rest) \in Nat /\ \A j \in 1..Len(rest) : rest[j] \in Players
    BY <2>2, LenProperties, ElementOfSeq
  <2>4. \A q \in Players : Turn(fighter, frame, q) => Turn(fighter', frame', q)
    BY <1>12, TurnStays
  <2>. QED  BY <2>1, <2>2, <2>3, <2>4
<1>15. queue' = IF wait = 0 THEN Append(rest, p) ELSE rest
  BY <1>1 DEF p
<1>. HIDE DEF rest, wait
<1>16. queue' \in Seq(Players) /\ QueueDue'
  <2>1. CASE wait = 0
    <3>1. /\ queue' \in Seq(Players) /\ Len(queue') = Len(rest) + 1
          /\ queue'[Len(rest) + 1] = p /\ \A j \in 1..Len(rest) : queue'[j] = rest[j]
      BY <1>2, <1>14, <1>15, <2>1, AppendProperties
    <3>2. Distinct(queue')
      BY <1>14, <3>1 DEF Distinct
    <3>3. ASSUME NEW j \in 1..Len(queue')  PROVE Turn(fighter', frame', queue'[j])
      <4>1. CASE j = Len(rest) + 1
        BY <1>6, <1>7, <2>1, <3>1, <4>1 DEF Turn
      <4>2. CASE j # Len(rest) + 1
        <5>1. j \in 1..Len(rest)
          BY <1>14, <3>1, <4>2
        <5>. QED  BY <1>14, <3>1, <5>1
      <4>. QED  BY <4>1, <4>2
    <3>. QED  BY <3>1, <3>2, <3>3, QueueDueNext
  <2>2. CASE wait # 0
    <3>1. queue' = rest
      BY <1>15, <2>2
    <3>. QED  BY <1>14, <3>1, QueueDueNext
  <2>. QED  BY <2>1, <2>2
<1>17. Aims'
  <2>1. \A q \in Players : fighter'[q].target \in Targets(fighter'[q].type)
    BY <1>2, <1>3, <1>6, <1>7 DEF Aims, TargetsKnown
  <2>. QED  BY <1>2, <1>9, <2>1, AimsNext
<1>. QED
  BY <1>6, <1>9, <1>11, <1>12, <1>13, <1>16, <1>17 DEF MenuKept, Command, Open

\* The menu moves and nothing else.
LEMMA MenuMoves ==
  ASSUME MenuMay, UNCHANGED <<fighter, queue>>, ui' \in UiRecord,
         ui' = ui \/ (Open /\ Open' /\ ui'.cur = ui.cur),
         ui'.state = "Enemy" => ui'.type \in ToEnemy
  PROVE  MenuKept
<1>1. TypeOK /\ Command /\ Aims /\ battle' = battle
  BY DEF MenuMay
<1>2. OneCommand' /\ ClearedShut' /\ CoopAlone'
  BY <1>1 DEF Command, OneCommand, ClearedShut, CoopAlone, Open
<1>3. \A p \in Players : Turn(fighter, frame, p) => Turn(fighter', frame', p)
  BY TurnStays
<1>4. queue' \in Seq(Players) /\ QueueDue'
  BY <1>1, <1>3, QueueStays DEF TypeOK, Command
<1>5. Aims'
  BY <1>1, AimsNext DEF Aims, TargetsKnown
<1>. QED
  BY <1>1, <1>2, <1>4, <1>5 DEF MenuKept, Command, TypeOK, Open

\* No menu is open and one may open.
LEMMA WaitForPlayerStep ==
  ASSUME MenuMay, WaitForPlayer
  PROVE  MenuKept
<1>1. /\ ui.state = "Wait" /\ ~battle.cleared /\ fighter' = PAL_BattlePlayerCheckReady
      /\ ui' = PAL_BattleUIPlayerReady(fighter') /\ queue' = queue
      /\ TypeOK /\ Command /\ Aims /\ battle' = battle
  BY DEF WaitForPlayer, MenuMay
<1>2. \A p \in Players : fighter[p].state # "Com"
  BY <1>1 DEF Command, OneCommand, Open
<1>3. CASE fighter' = fighter
  <2>1. {p \in Players : fighter'[p].state = "Com"} = {}
    BY <1>2, <1>3
  <2>2. ui' = ui
    BY <1>1, <2>1 DEF PAL_BattleUIPlayerReady
  <2>. QED  BY <1>1, <1>3, <2>2, MenuMoves DEF TypeOK, UiRecord, Aims
<1>4. ASSUME NEW p \in Players, fighter[p].state = "Wait", fighter[p].meter >= Full,
             \A q \in Players : ~HoldsBack(q),
             fighter' = [fighter EXCEPT ![p] = [state |-> "Com", meter |-> Full, type |-> "Pass",
                                                target |-> All, time |-> 0]]
      PROVE  MenuKept
  <2>. DEFINE asked == [state |-> "Com", meter |-> Full, type |-> "Pass",
                        target |-> All, time |-> 0]
  <2>1. asked \in FighterType
    BY BattleAssumption DEF FighterType, ActionTypes
  <2>2. asked.state = "Com" /\ asked.meter = Full /\ asked.type = "Pass" /\ asked.target = All
    OBVIOUS
  <2>3. fighter \in [Players -> FighterType] /\ queue \in Seq(Players) /\ battle.last \in Slots
    BY <1>1 DEF TypeOK
  <2>. HIDE DEF asked
  <2>4. /\ fighter'[p] = asked /\ \A q \in Players \ {p} : fighter'[q] = fighter[q]
        /\ fighter' \in [Players -> FighterType]
    BY <1>4, <2>1, <2>3 DEF asked
  <2>5. {q \in Players : fighter'[q].state = "Com"} = {p}
    BY <1>2, <2>2, <2>4
  <2>6. ui' = [NoMenu EXCEPT !.state = "Move", !.cur = p]
    <3>1. Min({p}) = p
      BY Numbers, MinIsLeast
    <3>. QED  BY <1>1, <2>5, <3>1 DEF PAL_BattleUIPlayerReady
  <2>7. ui' \in UiRecord /\ ui'.state = "Move" /\ ui'.cur = p
    BY <2>6, Numbers DEF NoMenu, ActionTypes, UiRecord
  <2>8. OneCommand' /\ ClearedShut'
    BY <1>1, <1>2, <2>2, <2>4, <2>7 DEF OneCommand, ClearedShut, Open
  <2>9. CoopAlone'
    BY <1>4, <2>2, <2>4 DEF CoopAlone, HoldsBack
  <2>10. \A q \in Players : fighter[q].state = "Act" \/ Turn(fighter, frame, q) => fighter'[q] = fighter[q]
    BY <1>4, <2>4, TurnStays
  <2>11. \A q \in Players : fighter[q].meter >= Full => fighter'[q].meter >= Full
    BY <2>2, <2>4, BattleAssumption
  <2>12. queue' \in Seq(Players) /\ QueueDue'
    <3>1. \A q \in Players : Turn(fighter, frame, q) => Turn(fighter', frame', q)
      BY <2>10, TurnStays
    <3>. QED  BY <1>1, <2>3, <3>1, QueueStays DEF Command
  <2>13. Aims'
    <3>1. \A q \in Players : fighter'[q].target \in Targets(fighter'[q].type)
      BY <1>1, <2>2, <2>3, <2>4, TargetsType DEF Aims, TargetsKnown
    <3>. QED  BY <1>1, <2>7, <3>1, AimsNext
  <2>. QED
    BY <2>2, <2>4, <2>7, <2>8, <2>9, <2>10, <2>11, <2>12, <2>13 DEF MenuKept, Command
<1>. QED  BY <1>1, <1>3, <1>4, CheckReadyAsks

\* The player gives way: the others have more than a full meter, so the one
\* that is left to him is full.
LEMMA YieldTurnStep ==
  ASSUME MenuMay, YieldTurn
  PROVE  MenuKept
<1>. DEFINE p == ui.cur
            raised == [q \in Players |-> Raised(q)]
            others == {q \in Players \ {p} : fighter[q].state = "Wait" /\ fighter[q].meter >= Full}
            slowest == Min({raised[q].meter : q \in others})
<1>1. /\ Open /\ queue' = queue /\ \A q \in Players : raised[q].meter <= MaxMeter
      /\ IF others = {} THEN fighter' = raised /\ UNCHANGED ui
         ELSE fighter' = GivesWay(raised, p, slowest) /\ ui' = NoMenu
      /\ TypeOK /\ Command /\ Aims /\ battle' = battle
  BY DEF YieldTurn, InMain, Free, MenuMay
<1>2. p \in Players /\ fighter \in [Players -> FighterType] /\ queue \in Seq(Players)
  BY <1>1 DEF TypeOK
<1>3. ASSUME NEW q \in Players
      PROVE  /\ raised[q] \in FighterType
             /\ raised[q].state = fighter[q].state /\ raised[q].type = fighter[q].type
             /\ raised[q].target = fighter[q].target
             /\ fighter[q].meter >= Full => raised[q].meter >= Full
             /\ fighter[q].state = "Wait" /\ fighter[q].meter >= Full => raised[q].meter >= Full + Full
             /\ ~(fighter[q].state = "Wait" /\ fighter[q].meter >= Full) => raised[q] = fighter[q]
  <2>. DEFINE f == fighter[q]
  <2>1. f \in FighterType /\ raised[q] = Raised(q) /\ raised[q].meter <= MaxMeter
    BY <1>1, <1>2
  <2>2. CASE f.state = "Wait" /\ f.meter >= Full
    <3>1. raised[q] = [f EXCEPT !.meter = @ + Full]
      BY <2>1, <2>2 DEF Raised
    <3>. QED  BY <2>1, <2>2, <3>1, BattleAssumption DEF FighterType
  <2>3. CASE ~(f.state = "Wait" /\ f.meter >= Full)
    BY <2>1, <2>3 DEF Raised
  <2>. QED  BY <2>2, <2>3
<1>4. \A q \in Players : fighter[q].state = "Act" \/ Turn(fighter, frame, q) =>
        q # p /\ raised[q] = fighter[q]
  BY <1>1, <1>3, TurnStays DEF Command, OneCommand
<1>5. CASE others = {}
  <2>1. fighter' = raised /\ ui' = ui
    BY <1>1, <1>5
  <2>. HIDE DEF raised, others, slowest
  <2>2. fighter' \in [Players -> FighterType]
    BY <1>2, <1>3, <2>1 DEF raised
  <2>3. OneCommand' /\ ClearedShut' /\ CoopAlone'
    BY <1>1, <1>2, <1>3, <2>1 DEF Command, OneCommand, ClearedShut, CoopAlone, Open
  <2>4. queue' \in Seq(Players) /\ QueueDue'
    <3>1. \A q \in Players : Turn(fighter, frame, q) => Turn(fighter', frame', q)
      BY <1>4, <2>1, TurnStays
    <3>. QED  BY <1>1, <1>2, <3>1, QueueStays DEF Command
  <2>5. Aims'
    <3>1. \A q \in Players : fighter'[q].target \in Targets(fighter'[q].type)
      BY <1>1, <1>3, <2>1 DEF Aims, TargetsKnown
    <3>. QED  BY <1>1, <2>1, <3>1, AimsNext DEF Aims
  <2>. QED  BY <1>1, <1>3, <1>4, <2>1, <2>2, <2>3, <2>4, <2>5 DEF MenuKept, Command, TypeOK, Open, UiRecord
<1>6. CASE others # {}
  <2>1. slowest \in Nat /\ slowest >= Full + Full /\ slowest <= MaxMeter
    <3>. DEFINE M == {raised[q].meter : q \in others}
    <3>1. \A q \in others : raised[q].meter \in Nat /\ raised[q].meter >= Full + Full
                            /\ raised[q].meter <= MaxMeter
      BY <1>1, <1>3, BattleAssumption DEF FighterType
    <3>2. /\ M \in SUBSET Nat /\ M # {}
          /\ \A n \in M : n >= Full + Full /\ n <= MaxMeter
      <4>. HIDE DEF raised, others
      <4>. QED  BY <1>6, <3>1
    <3>3. slowest = Min(M)
      OBVIOUS
    <3>. HIDE DEF M, slowest
    <3>. QED  BY <3>2, <3>3, MinIsLeast
  <2>. DEFINE left == slowest - (Full - 1)
  <2>2. left \in 0..MaxMeter /\ left >= Full
    <3>. HIDE DEF slowest
    <3>. QED  BY <2>1, BattleAssumption
  <2>3. fighter' = GivesWay(raised, p, slowest) /\ ui' = NoMenu
    BY <1>1, <1>6
  <2>. HIDE DEF slowest, others
  <2>4. raised \in [Players -> FighterType]
    BY <1>3
  <2>. HIDE DEF raised, p, left
  <2>5. fighter' = [raised EXCEPT ![p] = [raised[p] EXCEPT !.meter = left, !.state = "Wait"]]
    BY <2>3 DEF GivesWay, left
  <2>. DEFINE waits == [raised[p] EXCEPT !.meter = left, !.state = "Wait"]
  <2>6. waits \in FighterType
    BY <1>2, <2>2, <2>4 DEF FighterType
  <2>7. waits.state = "Wait" /\ waits.meter = left /\ waits.type = raised[p].type
        /\ waits.target = raised[p].target
    BY <1>2, <2>4 DEF FighterType
  <2>. HIDE DEF waits
  <2>8. /\ fighter' \in [Players -> FighterType] /\ fighter'[p] = waits
        /\ \A q \in Players \ {p} : fighter'[q] = raised[q]
    BY <1>2, <2>4, <2>5, <2>6 DEF waits
  <2>9. ~battle.cleared /\ fighter[p].state # "Act"
    BY <1>1 DEF Command, ClearedShut, OneCommand, Open, p
  <2>10. \A q \in Players : fighter'[q].state # "Com"
    BY <1>1, <1>3, <2>7, <2>8, <2>9 DEF Command, OneCommand, p
  <2>11. ui'.state = "Wait" /\ ui' \in UiRecord
    BY <2>3, Numbers DEF NoMenu, ActionTypes, UiRecord
  <2>12. OneCommand' /\ ClearedShut' /\ CoopAlone'
    BY <2>10, <2>11 DEF OneCommand, ClearedShut, CoopAlone, Open
  <2>13. \A q \in Players : fighter[q].state = "Act" \/ Turn(fighter, frame, q) => fighter'[q] = fighter[q]
    BY <1>4, <2>8
  <2>14. \A q \in Players : fighter[q].meter >= Full => fighter'[q].meter >= Full
    BY <1>3, <2>2, <2>7, <2>8
  <2>15. queue' \in Seq(Players) /\ QueueDue'
    <3>1. \A q \in Players : Turn(fighter, frame, q) => Turn(fighter', frame', q)
      BY <2>13, TurnStays
    <3>. QED  BY <1>1, <1>2, <3>1, QueueStays DEF Command
  <2>16. Aims'
    <3>1. \A q \in Players : fighter'[q].target \in Targets(fighter'[q].type)
      BY <1>1, <1>2, <1>3, <2>7, <2>8 DEF Aims, TargetsKnown
    <3>. QED  BY <1>1, <2>11, <3>1, AimsNext
  <2>. QED
    BY <2>8, <2>11, <2>12, <2>13, <2>14, <2>15, <2>16 DEF MenuKept, Command, Open
<1>. QED  BY <1>5, <1>6

\* An automatic target is one an attack or a magic can carry.
LEMMA AutoTargetType ==
  /\ PAL_BattleSelectAutoTarget \subseteq Enemies \cup {All}
  /\ \A p : AutoTarget(p) \subseteq Enemies \cup {All}
  /\ \A type \in ToEnemy : Enemies \cup {All} \subseteq Targets(type)
<1>1. PAL_BattleSelectAutoTarget \subseteq Enemies \cup {All}
  BY DEF PAL_BattleSelectAutoTarget
<1>2. \A type \in ToEnemy : Enemies \cup {All} \subseteq Targets(type)
  BY DEF Targets, ToEnemy
<1>. QED  BY <1>1, <1>2 DEF AutoTarget

\* One update of the menu, whatever key is pressed.
LEMMA MenuStep ==
  ASSUME MenuMay, PAL_BattleUIUpdate
  PROVE  MenuKept
<1>1. \A type \in ActionTypes : \A target \in Targets(type) :
        Open /\ PAL_BattleCommitAction(type, target) => MenuKept
  BY CommitStep
<1>2. /\ ui.cur \in Players /\ ui.type \in ActionTypes /\ battle.last \in Slots /\ ui \in UiRecord
      /\ ui.state = "Enemy" => ui.type \in ToEnemy
  BY DEF MenuMay, TypeOK, UiRecord, Aims
<1>3. {"Pass", "Attack", "Magic", "Flee", "AttackMate"} \subseteq ActionTypes
      /\ {"Attack", "Magic"} \subseteq ToEnemy
  BY DEF ActionTypes, ToEnemy
<1>4. \A type : All \in Targets(type)
  BY <1>2, TargetsType
<1>5. CASE WaitForPlayer
  BY <1>5, WaitForPlayerStep
<1>6. CASE PuppetAttacks
  BY <1>1, <1>3, <1>6, AutoTargetType DEF PuppetAttacks, AutoAttack
<1>7. CASE CancelAction
  BY <1>1, <1>3, <1>4, <1>7 DEF CancelAction
<1>8. CASE ConfusedAttacks
  BY <1>1, <1>3, <1>4, <1>8 DEF ConfusedAttacks
<1>9. CASE AutoCommand
  BY <1>1, <1>3, <1>4, <1>9, AutoTargetType DEF AutoCommand, AutoAttack, InMain, Free
<1>10. CASE CommitAtOnce
  BY <1>1, <1>3, <1>4, <1>10 DEF CommitAtOnce, InMain, InSub, Free
<1>11. CASE YieldTurn
  BY <1>11, YieldTurnStep
<1>12. CASE ConfirmEnemy
  BY <1>1, <1>2, <1>12, AutoTargetType DEF ConfirmEnemy, Free
<1>13. CASE ConfirmAll
  BY <1>1, <1>2, <1>4, <1>13 DEF ConfirmAll, Free
<1>14. CASE NoCommand
  BY <1>2, <1>14, MenuMoves DEF NoCommand, uiVars
<1>15. \A type \in ActionTypes, all \in BOOLEAN :
         Open /\ AskTarget(type, all) /\ (all \/ type \in ToEnemy) => MenuKept
  <2>. TAKE type \in ActionTypes, all \in BOOLEAN
  <2>. HAVE Open /\ AskTarget(type, all) /\ (all \/ type \in ToEnemy)
  <2>1. UNCHANGED <<fighter, queue>>
    BY DEF AskTarget
  <2>2. ui' \in UiRecord /\ ui'.state # "Wait" /\ ui'.cur = ui.cur
        /\ (ui'.state = "Enemy" => ~all) /\ ui'.type = type
    BY <1>2 DEF AskTarget, UiRecord
  <2>. QED  BY <2>1, <2>2, MenuMoves DEF Open
<1>16. {"Attack", "Coop", "Use", "Throw"} \subseteq ActionTypes /\ {"Attack", "Coop", "Throw"} \subseteq ToEnemy
  BY DEF ActionTypes, ToEnemy
<1>17. CASE SelectAttack
  <2>. DEFINE all == ui.cur \in AttackAll
  <2>1. all \in BOOLEAN
    OBVIOUS
  <2>2. Open /\ AskTarget("Attack", all)
    BY <1>17 DEF SelectAttack, InMain, Free
  <2>. HIDE DEF all
  <2>. QED  BY <1>15, <1>16, <2>1, <2>2
<1>18. CASE SelectCoop
  BY <1>15, <1>16, <1>18 DEF SelectCoop, InMain, Free
<1>19. CASE SelectItem
  BY <1>15, <1>16, <1>19 DEF SelectItem, InSub, Free
<1>20. CASE OpenSub \/ CloseSub
  <2>1. /\ ui' \in UiRecord /\ ui'.state = "Move" /\ ui'.cur = ui.cur /\ Open
        /\ UNCHANGED <<fighter, queue>>
    BY <1>2, <1>20 DEF OpenSub, CloseSub, InMain, InSub, Free, Open, UiRecord
  <2>. QED  BY <2>1, MenuMoves DEF Open
<1>21. CASE SelectMagic
  <2>1. /\ ui' \in UiRecord /\ ui'.state # "Wait" /\ ui'.cur = ui.cur /\ ui'.type = "Magic" /\ Open
        /\ UNCHANGED <<fighter, queue>>
    BY <1>2, <1>3, <1>21 DEF SelectMagic, InSub, Free, Open, UiRecord
  <2>. QED  BY <1>3, <2>1, MenuMoves DEF Open
<1>22. CASE BackToMove
  <2>1. /\ ui' \in UiRecord /\ ui'.state = "Move" /\ ui'.cur = ui.cur /\ Open
        /\ UNCHANGED <<fighter, queue>>
    BY <1>2, <1>3, <1>22 DEF BackToMove, Free, Open, UiRecord
  <2>. QED  BY <2>1, MenuMoves DEF Open
<1>. QED
  BY <1>5, <1>6, <1>7, <1>8, <1>9, <1>10, <1>11, <1>12, <1>13, <1>14, <1>17, <1>18,
     <1>19, <1>20, <1>21, <1>22 DEF PAL_BattleUIUpdate

----------------------------------------------------------------------------
(* The parts of the invariant that a step of a frame can leave alone.      *)

BattleRecord == [result : Results, cleared : BOOLEAN, hiding : 0..HideTime, last : Slots]

\* The menu stays as it is or closes with the last enemy.
MenuAfter ==
  /\ battle.cleared => battle'.cleared
  /\ \/ ui' = ui /\ (battle'.cleared => battle.cleared)
     \/ ui' = NoMenu /\ battle'.cleared

\* Command, when no player is asked for anything and a turn is only lost by the
\* one who is taken out of the queue.
LEMMA CommandStays ==
  ASSUME TypeOK, Command, MenuAfter, NEW q, queue' = queue \/ queue' = Without(q),
         \A p \in Players :
           /\ fighter'[p].state \in {fighter[p].state, "Wait"}
           /\ fighter'[p].state = "Act" /\ fighter'[p].type = "Coop" => fighter[p].type = "Coop"
           /\ Turn(fighter, frame, p) => Turn(fighter', frame', p) \/ (p = q /\ queue' = Without(q))
  PROVE  Command' /\ queue' \in Seq(Players)
<1>1. ui.cur \in Players /\ queue \in Seq(Players) /\ NoMenu.state = "Wait"
  BY DEF TypeOK, NoMenu
<1>2. ClearedShut'
  BY <1>1 DEF Command, ClearedShut, MenuAfter
<1>3. OneCommand'
  BY <1>1 DEF Command, OneCommand, ClearedShut, Open, MenuAfter
<1>4. CoopAlone'
  BY DEF Command, CoopAlone
<1>5. queue' \in Seq(Players) /\ QueueDue'
  BY <1>1, QueueStays DEF Command
<1>. QED  BY <1>2, <1>3, <1>4, <1>5 DEF Command

\* Aims, when actions keep their targets or aim at everyone.
LEMMA AimsStay ==
  ASSUME TypeOK, Aims, battle'.last = battle.last, ui' = ui \/ ui' = NoMenu,
         \A p \in Players : \/ fighter'[p].target = All
                            \/ fighter'[p].target = fighter[p].target /\ fighter'[p].type = fighter[p].type
  PROVE  Aims'
<1>1. battle.last \in Slots /\ NoMenu.state = "Wait"
  BY DEF TypeOK, NoMenu
<1>2. \A p \in Players : fighter'[p].target \in Targets(fighter'[p].type)
  BY <1>1, TargetsType DEF Aims, TargetsKnown
<1>. QED  BY <1>1, <1>2, AimsNext DEF Aims

\* No slot is filled while a battle lasts.
LEMMA CleanStays ==
  ASSUME CleanBehind, battle'.last = battle.last,
         \A e \in Slots : enemy'[e].there => enemy[e].there
  PROVE  CleanBehind'
BY DEF CleanBehind

\* What a step that comes to no player's action leaves: the commands, the aims
\* and the inventory.
LEMMA EnemySide ==
  ASSUME IInv, UNCHANGED <<fighter, queue, inv, used>>, MenuAfter,
         battle'.last = battle.last, \A e \in Slots : enemy'[e].there => enemy[e].there,
         frame.pc \notin PlayerPoints, frame' \in FrameRecord,
         frame'.pc \notin PlayerPoints \cup {"Aborted"}
  PROVE  /\ Command' /\ queue' \in Seq(Players) /\ Aims' /\ AtActs' /\ CleanBehind'
         /\ TargetStands' /\ ItemReady' /\ ItemsConserved'
<1>1. AtActs' /\ TargetStands' /\ ItemReady' /\ ItemsConserved'
  BY DEF IInv, AtActs, TargetStands, ItemReady, ItemsConserved, PlayerPoints
<1>2. Aims'
  BY AimsStay DEF IInv, MenuAfter
<1>3. CleanBehind'
  BY CleanStays DEF IInv
<1>4. \A p \in Players : Turn(fighter, frame, p) => Turn(fighter', frame', p)
  BY DEF Turn, PlayerPoints
<1>5. Command' /\ queue' \in Seq(Players)
  BY <1>4, CommandStays DEF IInv
<1>. QED  BY <1>1, <1>2, <1>3, <1>5

\* The next enemy, or the menu after the last one.
LEMMA NextEnemyType ==
  ASSUME TypeOK, FrameType, frame.pc \in EnemyPoints
  PROVE  /\ NextEnemy \in FrameRecord /\ NextEnemy.moved = frame.moved
         /\ \/ NextEnemy.pc = "UI"
            \/ NextEnemy.pc = "Enemy" /\ NextEnemy.at \in Enemies /\ NextEnemy.only = frame.only
<1>1. frame.at \in Enemies /\ frame.at \in Int /\ frame \in FrameRecord /\ battle.last \in Nat
  <2>1. frame.at \in Enemies /\ frame \in FrameRecord
    BY DEF FrameType
  <2>2. battle.last \in Nat
    BY Numbers DEF TypeOK
  <2>. QED  BY <2>1, <2>2 DEF FrameRecord
<1>2. CASE frame.at = battle.last
  <2>1. NextEnemy = [NewFrame EXCEPT !.pc = "UI", !.moved = frame.moved]
    BY <1>2 DEF NextEnemy
  <2>2. NewFrame \in FrameRecord
    BY DEF NewFrame, FrameRecord
  <2>. QED  BY <1>1, <2>1, <2>2 DEF FrameRecord
<1>3. CASE frame.at # battle.last
  <2>1. frame.at + 1 \in Enemies /\ frame.at + 1 \in Int
    BY <1>1, <1>3 DEF Enemies
  <2>2. NextEnemy = [frame EXCEPT !.pc = "Enemy", !.at = frame.at + 1, !.target = All]
    BY <1>3 DEF NextEnemy
  <2>. QED  BY <1>1, <2>1, <2>2 DEF FrameRecord, EnemyPoints
<1>. QED  BY <1>2, <1>3

----------------------------------------------------------------------------
(* The menu in a frame.                                                    *)

\* The menu moves while an action is shown: the action is not touched.
LEMMA DelayUIStep ==
  ASSUME IInv, DelayUI
  PROVE  IInv'
<1>1. UNCHANGED <<hp, status, enemy, battle, frame, inv, used>>
  BY DEF DelayUI
<1>2. MenuKept
  BY <1>1, MenuStep DEF DelayUI, IInv, MenuMay
<1>3. TypeOK'
  BY <1>1, <1>2 DEF IInv, TypeOK, MenuKept, UiRecord
<1>4. FrameType' /\ MovedInv' /\ EnemyHasTarget' /\ StandingInv' /\ CleanBehind'
  BY <1>1 DEF IInv, FrameType, MovedInv, EnemyHasTarget, StandingInv, CleanBehind, Alive, Enemies
<1>5. ASSUME frame.pc \in PlayerPoints
      PROVE  /\ frame.at \in Players /\ fighter'[frame.at] = fighter[frame.at]
             /\ fighter[frame.at].state \in {"Act", "Wait"} /\ (Open => ui.cur # frame.at)
  <2>1. frame.at \in Players /\ (Open => ui.cur # frame.at)
        /\ (fighter[frame.at].state = "Act" \/ Ending(frame.at))
    BY <1>5 DEF IInv, FrameType, AtActs
  <2>2. Ending(frame.at) => Turn(fighter, frame, frame.at) /\ fighter[frame.at].state = "Wait"
    BY DEF Ending, Turn, EndPoints
  <2>. QED  BY <1>2, <2>1, <2>2 DEF MenuKept
<1>6. AtActs'
  <2>1. ASSUME frame.pc \in PlayerPoints, Open'  PROVE ui'.cur # frame.at
    <3>1. (Open /\ ui'.cur = ui.cur) \/ fighter'[ui'.cur].state = "Com"
      BY <1>2, <2>1 DEF MenuKept
    <3>. QED  BY <1>5, <2>1, <3>1
  <2>. QED  BY <1>1, <1>5, <2>1 DEF IInv, AtActs, Ending
<1>7. TargetStands' /\ ItemReady'
  BY <1>1, <1>5 DEF IInv, TargetStands, ItemReady, PlayerPoints, Standing, Enemies, Outside
<1>8. ItemsConserved'
  BY <1>1 DEF IInv, ItemsConserved
<1>. QED
  BY <1>2, <1>3, <1>4, <1>6, <1>7, <1>8 DEF IInv, MenuKept

\* The menu once a frame.
LEMMA FrameUIStep ==
  ASSUME IInv, FrameUI
  PROVE  IInv'
<1>1. /\ UNCHANGED <<hp, status, enemy, battle, inv, used>>
      /\ frame.pc = "UI" /\ frame' = [frame EXCEPT !.pc = "Players"]
  BY DEF FrameUI
<1>2. MenuKept
  BY <1>1, MenuStep DEF FrameUI, IInv, MenuMay
<1>3. TypeOK'
  BY <1>1, <1>2 DEF IInv, TypeOK, MenuKept, UiRecord
<1>4. frame' \in FrameRecord /\ frame'.pc = "Players" /\ frame'.moved = frame.moved
  BY <1>1 DEF IInv, FrameType, FrameRecord
<1>5. FrameType' /\ MovedInv' /\ EnemyHasTarget' /\ StandingInv' /\ CleanBehind'
  BY <1>1, <1>4 DEF IInv, FrameType, MovedInv, EnemyHasTarget, StandingInv, CleanBehind,
                    EnemyPoints, PlayerPoints, EndPoints, Enemies
<1>6. AtActs' /\ TargetStands' /\ ItemReady' /\ ItemsConserved'
  BY <1>1, <1>4 DEF IInv, AtActs, TargetStands, ItemReady, ItemsConserved, PlayerPoints, EndPoints
<1>. QED
  BY <1>2, <1>3, <1>5, <1>6 DEF IInv, MenuKept

----------------------------------------------------------------------------
(* The beginning and the end of a battle.                                  *)

\* What the players and the menu start with.
LEMMA StartType ==
  /\ StartFighters \in [Players -> FighterType]
  /\ \A p \in Players : StartFighters[p].state = "Wait" /\ StartFighters[p].target = All
  /\ NoMenu \in UiRecord /\ NoMenu.state = "Wait"
<1>1. (Full * 15) \div 100 \in 0..MaxMeter
  BY BattleAssumption
<1>2. /\ StartFighters \in [Players -> FighterType]
      /\ \A p \in Players : StartFighters[p].state = "Wait" /\ StartFighters[p].target = All
  BY <1>1, BattleAssumption DEF StartFighters, Idle, FighterType, ActionTypes
<1>3. NoMenu \in UiRecord /\ NoMenu.state = "Wait"
  BY Numbers DEF NoMenu, ActionTypes, UiRecord
<1>. QED  BY <1>2, <1>3

\* What a battle starts with: a team of somebody, all of them in health, and
\* nobody in the slot behind it.
LEMMA StartTeam ==
  ASSUME NEW slots \in [Slots -> EnemyType], NEW team \in Teams
  PROVE  /\ StartEnemies(slots, team) \in [Slots -> EnemyType]
         /\ \A e \in 0..team.size - 1 :
              StartEnemies(slots, team)[e].there => StartEnemies(slots, team)[e].hp > 0
         /\ \E e \in 0..team.size - 1 : StartEnemies(slots, team)[e].there
         /\ team.size \in Slots => ~StartEnemies(slots, team)[team.size].there
         /\ StartBattle(team.size) \in BattleRecord
         /\ ~StartBattle(team.size).cleared /\ StartBattle(team.size).last = team.size - 1
         /\ team.size \in Nat
<1>1. /\ team.size \in 1..NSlots /\ team.present \subseteq Slots /\ team.present # {}
      /\ \A e \in team.present : e < team.size
      /\ NSlots \in Nat /\ EnemyHP \in Nat \ {0} /\ Full \div 2 \in 0..Full /\ 0 \in 0..Full
  BY BattleAssumption DEF Teams
<1>. DEFINE start == [Gone EXCEPT !.there = TRUE, !.hp = EnemyHP, !.meter = Full \div 2]
            en == StartEnemies(slots, team)
<1>2. Gone \in EnemyType /\ ~Gone.there
  BY <1>1 DEF Gone, EnemyType
<1>3. start \in EnemyType /\ start.there /\ start.hp = EnemyHP
  <2>. DEFINE meter == Full \div 2
  <2>1. meter \in 0..Full /\ EnemyHP \in 0..EnemyHP
    BY <1>1
  <2>. HIDE DEF meter
  <2>2. start \in EnemyType
    BY <1>2, <2>1 DEF EnemyType, meter
  <2>3. start.there
    BY <1>2, <2>1 DEF EnemyType, meter
  <2>4. start.hp = EnemyHP
    BY <1>2, <2>1 DEF EnemyType, meter
  <2>. QED  BY <2>2, <2>3, <2>4
<1>. HIDE DEF start
<1>4. en = [e \in Slots |-> IF e \in team.present THEN start
                            ELSE IF e <= team.size THEN Gone ELSE slots[e]]
  BY DEF StartEnemies, start
<1>. HIDE DEF en
<1>5. en \in [Slots -> EnemyType]
  BY <1>2, <1>3, <1>4
<1>6. \A e \in 0..team.size - 1 : e \in Slots /\ e <= team.size
  BY <1>1 DEF Slots
<1>7. \A e \in 0..team.size - 1 : en[e].there => en[e].hp > 0
  BY <1>1, <1>2, <1>3, <1>4, <1>6
<1>8. \E e \in 0..team.size - 1 : en[e].there
  <2>1. PICK e \in team.present : e < team.size /\ e \in Slots
    BY <1>1
  <2>2. e \in 0..team.size - 1
    BY <1>1, <2>1 DEF Slots
  <2>. QED  BY <1>3, <1>4, <2>1, <2>2
<1>9. team.size \in Slots => ~en[team.size].there
  <2>1. team.size \notin team.present /\ team.size <= team.size
    BY <1>1
  <2>. QED  BY <1>2, <1>4, <2>1
<1>10. /\ StartBattle(team.size) \in BattleRecord
       /\ ~StartBattle(team.size).cleared /\ StartBattle(team.size).last = team.size - 1
  BY <1>1, HideAssumption DEF StartBattle, BattleRecord, Results, Slots
<1>. QED  BY <1>1, <1>5, <1>7, <1>8, <1>9, <1>10 DEF en

\* Nobody has a command and no action is due.
LEMMA StartCommand ==
  ASSUME fighter' = StartFighters, queue' = <<>>, ui' = NoMenu, ~battle'.cleared
  PROVE  Command' /\ queue' \in Seq(Players)
<1>1. \A p \in Players : fighter'[p].state = "Wait"
  BY StartType
<1>2. OneCommand' /\ ClearedShut' /\ CoopAlone'
  BY <1>1, StartType DEF OneCommand, ClearedShut, CoopAlone, Open
<1>3. queue' \in Seq(Players) /\ Len(queue') = 0
  BY EmptySeq
<1>4. QueueDue'
  BY <1>3, QueueDueNext DEF Distinct
<1>. QED  BY <1>2, <1>3, <1>4 DEF Command

\* The next battle.
LEMMA NextBattleStep ==
  ASSUME IInv, NextBattle
  PROVE  IInv'
<1>1. /\ status' = [p \in Players |-> {}] /\ fighter' = StartFighters /\ queue' = <<>>
      /\ ui' = NoMenu /\ UNCHANGED <<frame, inv, used>> /\ frame.pc = "Top"
  BY DEF NextBattle
<1>2. PICK team \in Teams : enemy' = StartEnemies(enemy, team) /\ battle' = StartBattle(team.size)
  BY DEF NextBattle
<1>3. hp' \in [Players -> 0..MaxHP]
  BY BattleAssumption DEF NextBattle, IInv, TypeOK
<1>4. /\ enemy' \in [Slots -> EnemyType] /\ battle' \in BattleRecord /\ ~battle'.cleared
      /\ \A e \in 0..battle'.last : enemy'[e].there => enemy'[e].hp > 0
      /\ \E e \in 0..battle'.last : enemy'[e].there
      /\ battle'.last + 1 \in Slots => ~enemy'[battle'.last + 1].there
  <2>1. enemy \in [Slots -> EnemyType]
    BY DEF IInv, TypeOK
  <2>2. /\ battle'.last = team.size - 1 /\ team.size \in Nat
        /\ enemy' \in [Slots -> EnemyType] /\ battle' \in BattleRecord /\ ~battle'.cleared
        /\ \A e \in 0..team.size - 1 : enemy'[e].there => enemy'[e].hp > 0
        /\ \E e \in 0..team.size - 1 : enemy'[e].there
        /\ team.size \in Slots => ~enemy'[team.size].there
    BY <1>2, <2>1, StartTeam
  <2>3. battle'.last + 1 = team.size
    BY <2>2
  <2>. QED  BY <2>2, <2>3
<1>5. Command' /\ queue' \in Seq(Players)
  BY <1>1, <1>4, StartCommand
<1>6. TypeOK'
  BY <1>1, <1>3, <1>4, <1>5, StartType DEF IInv, TypeOK, BattleRecord, UiRecord
<1>7. FrameType' /\ AtActs' /\ MovedInv' /\ EnemyHasTarget' /\ TargetStands' /\ ItemReady'
      /\ ItemsConserved'
  BY <1>1 DEF IInv, FrameType, AtActs, MovedInv, EnemyHasTarget, TargetStands, ItemReady,
              ItemsConserved, EnemyPoints, PlayerPoints, EndPoints
<1>8. Aims'
  <2>1. \A type : All \in Targets(type)'
    BY DEF Targets
  <2>. QED  BY <1>1, <2>1, StartType DEF Aims, TargetsKnown
<1>9. StandingInv' /\ CleanBehind'
  BY <1>1, <1>4 DEF StandingInv, CleanBehind, Enemies
<1>. QED  BY <1>5, <1>6, <1>7, <1>8, <1>9 DEF IInv

\* The battle is won or lost.
LEMMA OverStep ==
  ASSUME IInv, Over
  PROVE  IInv'
<1>1. /\ UNCHANGED <<hp, status, fighter, queue, enemy, ui, frame, inv, used>>
      /\ frame.pc = "Top" /\ \E r \in {"Won", "Lost"} : battle' = [battle EXCEPT !.result = r]
  BY DEF Over
<1>2. battle' \in BattleRecord /\ battle'.cleared = battle.cleared /\ battle'.last = battle.last
  BY <1>1 DEF IInv, TypeOK, Results, BattleRecord
<1>3. TypeOK'
  BY <1>1, <1>2 DEF IInv, TypeOK, BattleRecord
<1>4. /\ Command' /\ Aims' /\ AtActs' /\ CleanBehind' /\ TargetStands' /\ ItemReady'
      /\ ItemsConserved'
  BY <1>1, <1>2, EnemySide DEF IInv, FrameType, MenuAfter, PlayerPoints, EndPoints
<1>5. FrameType' /\ MovedInv' /\ EnemyHasTarget' /\ StandingInv'
  BY <1>1, <1>2 DEF IInv, FrameType, MovedInv, EnemyHasTarget, StandingInv,
                    EnemyPoints, PlayerPoints, EndPoints, Enemies
<1>. QED  BY <1>3, <1>4, <1>5 DEF IInv

----------------------------------------------------------------------------
(* The beginning of a frame and the enemies.                               *)

\* A script hurts a living player or ends the battle, no more.
LEMMA ScriptEffectType ==
  ASSUME TypeOK, NEW b \in BattleRecord, ScriptEffect(b)
  PROVE  /\ hp' \in [Players -> 0..MaxHP] /\ battle' \in BattleRecord
         /\ battle'.cleared = b.cleared /\ battle'.last = b.last
<1>1. hp \in [Players -> 0..MaxHP]
  BY DEF TypeOK
<1>2. CASE hp' = hp /\ battle' = b
  BY <1>1, <1>2
<1>3. CASE battle' = b /\ \E p \in Players : Alive(p) /\ hp' = [hp EXCEPT ![p] = @ - 1]
  <2>1. PICK p \in Players : hp[p] # 0 /\ hp' = [hp EXCEPT ![p] = hp[p] - 1]
    BY <1>3 DEF Alive
  <2>2. hp[p] - 1 \in 0..MaxHP
    BY <1>1, <2>1, BattleAssumption
  <2>. QED  BY <1>1, <1>3, <2>1, <2>2
<1>4. CASE hp' = hp /\ battle' = [b EXCEPT !.result = "Terminated"]
  BY <1>1, <1>4 DEF BattleRecord, Results
<1>. QED  BY <1>2, <1>3, <1>4 DEF ScriptEffect

\* The turns of the enemies start: the scripts count as a move.
LEMMA TurnsStartStep ==
  ASSUME IInv, frame.pc \in {"Top", "Unhide"}, ~battle.cleared,
         UNCHANGED <<status, fighter, queue, ui, inv, used>>,
         NEW b \in BattleRecord, b.cleared = battle.cleared, b.last = battle.last,
         NEW only \in BOOLEAN, ~only => \E p \in Players : Alive(p),
         TurnsStart(b, only)
  PROVE  IInv'
<1>. DEFINE turn == {e \in Enemies : enemy[e].there /\ enemy[e].turnStart}
            moved == turn # {}
<1>1. /\ enemy' = [e \in Slots |-> IF e \in turn THEN [enemy[e] EXCEPT !.turnStart = FALSE] ELSE enemy[e]]
      /\ frame' = [NewFrame EXCEPT !.pc = "Enemy", !.moved = moved, !.only = only]
      /\ IF turn = {} THEN hp' = hp /\ battle' = b ELSE ScriptEffect(b)
  BY DEF TurnsStart
<1>2. moved \in BOOLEAN /\ (~moved => hp' = hp)
  BY <1>1
<1>3. /\ hp' \in [Players -> 0..MaxHP] /\ battle' \in BattleRecord
      /\ battle'.cleared = battle.cleared /\ battle'.last = battle.last
  BY <1>1, ScriptEffectType DEF IInv, TypeOK
<1>4. enemy \in [Slots -> EnemyType] /\ battle.last \in Slots
  BY DEF IInv, TypeOK
<1>5. /\ enemy' \in [Slots -> EnemyType]
      /\ \A e \in Slots : enemy'[e].there = enemy[e].there /\ enemy'[e].hp = enemy[e].hp
  <2>. HIDE DEF turn
  <2>. QED  BY <1>1, <1>4 DEF EnemyType
<1>. HIDE DEF turn, moved
<1>6. frame' \in FrameRecord /\ frame'.pc = "Enemy" /\ frame'.at = 0
  <2>1. NewFrame \in FrameRecord /\ NewFrame.at = 0
    BY DEF NewFrame, FrameRecord
  <2>. QED  BY <1>1, <1>2, <2>1 DEF FrameRecord, EnemyPoints
<1>7. frame'.moved = moved /\ frame'.only = only
  <2>1. NewFrame \in FrameRecord
    BY DEF NewFrame, FrameRecord
  <2>. QED  BY <1>1, <1>2, <2>1 DEF FrameRecord
<1>8. /\ Command' /\ queue' \in Seq(Players) /\ Aims' /\ AtActs' /\ CleanBehind' /\ TargetStands'
      /\ ItemReady' /\ ItemsConserved'
  BY <1>3, <1>5, <1>6, EnemySide DEF MenuAfter, PlayerPoints, EndPoints
<1>9. TypeOK'
  BY <1>3, <1>5, <1>8 DEF IInv, TypeOK, BattleRecord
<1>10. Enemies' = Enemies
  BY <1>3 DEF Enemies
<1>11. FrameType' /\ EnemyHasTarget'
  BY <1>4, <1>6, <1>10, Team DEF FrameType, EnemyHasTarget, EnemyPoints, PlayerPoints, EndPoints
<1>12. MovedInv'
  BY <1>2, <1>6, <1>7 DEF MovedInv, Alive
<1>13. StandingInv'
  <2>1. /\ \E e \in Enemies : enemy[e].there
        /\ \A e \in Enemies : enemy[e].there => enemy[e].hp > 0
    BY DEF IInv, StandingInv
  <2>. QED  BY <1>3, <1>4, <1>5, <1>6, <1>10, <2>1, Team DEF StandingInv
<1>. QED  BY <1>8, <1>9, <1>11, <1>12, <1>13 DEF IInv

\* A frame begins.
LEMMA BeginFrameStep ==
  ASSUME IInv, BeginFrame
  PROVE  IInv'
<1>. DEFINE b == [battle EXCEPT !.hiding = IF @ > 0 /\ ~Frozen THEN @ - 1 ELSE @]
            dead == \A p \in Players : ~Alive(p)
<1>1. /\ UNCHANGED <<status, fighter, queue, ui, inv, used>> /\ ~battle.cleared /\ frame.pc = "Top"
      /\ \/ frame' = [NewFrame EXCEPT !.pc = "Unhide", !.only = dead]
            /\ battle' = b /\ UNCHANGED <<hp, enemy>>
         \/ TurnsStart(b, dead)
  BY DEF BeginFrame
<1>2. b \in BattleRecord /\ b.cleared = battle.cleared /\ b.last = battle.last
  <2>1. battle \in BattleRecord
    BY DEF IInv, TypeOK, BattleRecord
  <2>. DEFINE left == IF battle.hiding > 0 /\ ~Frozen THEN battle.hiding - 1 ELSE battle.hiding
  <2>2. left \in 0..HideTime
    BY <2>1, HideAssumption DEF BattleRecord
  <2>3. b = [battle EXCEPT !.hiding = left]
    OBVIOUS
  <2>. HIDE DEF left, b
  <2>. QED  BY <2>1, <2>2, <2>3 DEF BattleRecord
<1>3. dead \in BOOLEAN /\ (~dead => \E p \in Players : Alive(p))
  OBVIOUS
<1>. HIDE DEF b, dead
<1>4. CASE TurnsStart(b, dead)
  BY <1>1, <1>2, <1>3, <1>4, TurnsStartStep
<1>5. CASE frame' = [NewFrame EXCEPT !.pc = "Unhide", !.only = dead]
           /\ battle' = b /\ UNCHANGED <<hp, enemy>>
  <2>1. NewFrame \in FrameRecord
    BY DEF NewFrame, FrameRecord
  <2>2. frame' \in FrameRecord /\ frame'.pc = "Unhide"
    BY <1>3, <1>5, <2>1 DEF FrameRecord
  <2>3. frame'.only = dead
    BY <1>3, <1>5, <2>1 DEF FrameRecord
  <2>4. battle' \in BattleRecord /\ battle'.cleared = battle.cleared /\ battle'.last = battle.last
    BY <1>2, <1>5
  <2>5. /\ Command' /\ queue' \in Seq(Players) /\ Aims' /\ AtActs' /\ CleanBehind' /\ TargetStands'
        /\ ItemReady' /\ ItemsConserved'
    BY <1>1, <1>5, <2>2, <2>4, EnemySide DEF MenuAfter, PlayerPoints, EndPoints
  <2>6. TypeOK'
    BY <1>1, <1>5, <2>4 DEF IInv, TypeOK, BattleRecord
  <2>7. FrameType' /\ EnemyHasTarget' /\ MovedInv'
    BY <1>3, <1>5, <2>2, <2>3 DEF FrameType, EnemyHasTarget, MovedInv, Alive,
                                  EnemyPoints, PlayerPoints, EndPoints
  <2>8. StandingInv'
    BY <1>1, <1>5, <2>2, <2>4 DEF IInv, StandingInv, Enemies
  <2>. QED  BY <2>5, <2>6, <2>7, <2>8 DEF IInv
<1>. QED  BY <1>1, <1>4, <1>5

\* The party has stopped hiding.
LEMMA UnhiddenStep ==
  ASSUME IInv, Unhidden
  PROVE  IInv'
<1>1. /\ frame.pc = "Unhide" /\ TurnsStart(battle, frame.only)
      /\ UNCHANGED <<status, fighter, queue, ui, inv, used>>
  BY DEF Unhidden
<1>2. battle \in BattleRecord /\ frame.only \in BOOLEAN /\ ~battle.cleared
  BY <1>1 DEF IInv, TypeOK, BattleRecord, FrameType, FrameRecord, StandingInv
<1>3. ~frame.only => \E p \in Players : Alive(p)
  BY <1>1 DEF IInv, MovedInv
<1>. QED  BY <1>1, <1>2, <1>3, TurnsStartStep

\* An enemy without health goes; the others stay as they are.
LEMMA RemainingType ==
  ASSUME TypeOK
  PROVE  /\ Remaining \in [Slots -> EnemyType]
         /\ \A e \in Slots : Remaining[e].there => enemy[e].there
         /\ \A e \in Enemies : Remaining[e].there => Remaining[e].hp > 0
<1>1. Gone \in EnemyType /\ ~Gone.there
  BY BattleAssumption DEF Gone, EnemyType
<1>2. /\ enemy \in [Slots -> EnemyType] /\ Enemies \subseteq Slots
      /\ \A e \in Slots : enemy[e].hp = 0 \/ enemy[e].hp > 0
  <2>1. enemy \in [Slots -> EnemyType] /\ Enemies \subseteq Slots
    BY Team DEF TypeOK
  <2>2. \A e \in Slots : enemy[e].hp \in Nat
    BY <2>1, BattleAssumption DEF EnemyType
  <2>. QED  BY <2>1, <2>2
<1>3. Remaining = [e \in Slots |-> IF e \in Enemies /\ enemy[e].there /\ enemy[e].hp = 0
                                   THEN Gone ELSE enemy[e]]
  BY DEF Remaining
<1>. QED  BY <1>1, <1>2, <1>3

\* PAL_BattlePostActionCheck: when the last enemy is gone the battle is
\* cleared and the menu closes.
LEMMA PostActionCheck ==
  ASSUME TypeOK, PAL_BattlePostActionCheck
  PROVE  /\ battle' \in BattleRecord /\ battle'.last = battle.last /\ MenuAfter
         /\ ui' \in UiRecord
         /\ enemy' \in [Slots -> EnemyType]
         /\ \A e \in Slots : enemy'[e].there => enemy[e].there
         /\ \A e \in Enemies : enemy'[e].there => enemy'[e].hp > 0
         /\ battle'.cleared \/ \E e \in Enemies : enemy'[e].there
<1>. DEFINE cleared == \A e \in Enemies : ~Remaining[e].there
            now == battle.cleared \/ cleared
<1>1. /\ battle' = [battle EXCEPT !.cleared = now]
      /\ IF cleared THEN ui' = NoMenu ELSE ui' = ui
      /\ enemy' = Remaining
  BY DEF PAL_BattlePostActionCheck
<1>2. battle \in BattleRecord /\ now \in BOOLEAN /\ ui \in UiRecord
  BY DEF TypeOK, BattleRecord, UiRecord
<1>3. battle' \in BattleRecord /\ battle'.cleared = now /\ battle'.last = battle.last
  <2>. HIDE DEF now
  <2>. QED  BY <1>1, <1>2 DEF BattleRecord
<1>4. cleared \/ \E e \in Enemies : enemy'[e].there
  BY <1>1
<1>. HIDE DEF cleared
<1>5. MenuAfter /\ ui' \in UiRecord
  BY <1>1, <1>2, <1>3, StartType DEF MenuAfter
<1>. QED  BY <1>1, <1>3, <1>4, <1>5, RemainingType

\* A step of the enemies keeps the invariant if it fills no slot, comes to no
\* player, and counts as a move unless it hurts nobody.
LEMMA EnemyMoves ==
  ASSUME IInv, frame.pc \in EnemyPoints, UNCHANGED <<fighter, queue, inv, used>>,
         MenuAfter, ui' \in UiRecord, battle' \in BattleRecord, battle'.last = battle.last,
         hp' \in [Players -> 0..MaxHP], status' \in [Players -> SUBSET Statuses],
         enemy' \in [Slots -> EnemyType], \A e \in Slots : enemy'[e].there => enemy[e].there,
         battle'.cleared \/ \E e \in Enemies : enemy'[e].there,
         frame' \in FrameRecord, frame'.pc \in EnemyPoints \cup {"UI"},
         frame'.pc \in EnemyPoints => frame'.at \in Enemies,
         frame'.pc # "EnemyPoison" => \A e \in Enemies : enemy'[e].there => enemy'[e].hp > 0,
         \/ frame'.moved
         \/ /\ frame.pc = "Enemy" /\ ~frame.moved /\ hp' = hp /\ battle'.cleared = battle.cleared
            /\ frame'.pc = "UI" \/ (frame'.pc = "Enemy" /\ frame'.only = frame.only),
         frame'.pc = "Pick" => \E p \in Players : hp'[p] # 0
  PROVE  IInv'
<1>1. /\ Command' /\ queue' \in Seq(Players) /\ Aims' /\ AtActs' /\ CleanBehind' /\ TargetStands'
      /\ ItemReady' /\ ItemsConserved'
  <2>1. frame.pc \notin PlayerPoints /\ frame'.pc \notin PlayerPoints \cup {"Aborted"}
    BY DEF EnemyPoints, PlayerPoints, EndPoints
  <2>. QED  BY <2>1, EnemySide
<1>2. TypeOK'
  BY <1>1 DEF IInv, TypeOK, BattleRecord, UiRecord
<1>3. Enemies' = Enemies
  BY DEF Enemies
<1>4. FrameType' /\ EnemyHasTarget'
  BY <1>3 DEF FrameType, EnemyHasTarget, Alive, EnemyPoints, PlayerPoints, EndPoints
<1>5. MovedInv'
  BY DEF IInv, MovedInv, Alive, EnemyPoints
<1>6. StandingInv'
  BY <1>3 DEF IInv, StandingInv, EnemyPoints
<1>. QED  BY <1>1, <1>2, <1>4, <1>5, <1>6 DEF IInv

\* What is the case when no enemy goes and nothing happens to the players.
LEMMA EnemyKeeps ==
  ASSUME IInv, frame.pc \in EnemyPoints
  PROVE  /\ ui \in UiRecord /\ battle \in BattleRecord
         /\ hp \in [Players -> 0..MaxHP] /\ status \in [Players -> SUBSET Statuses]
         /\ enemy \in [Slots -> EnemyType] /\ Enemies \subseteq Slots
         /\ battle.cleared \/ \E e \in Enemies : enemy[e].there
         /\ frame.pc # "EnemyPoison" => \A e \in Enemies : enemy[e].there => enemy[e].hp > 0
BY Team DEF IInv, TypeOK, StandingInv, UiRecord, BattleRecord, EnemyPoints

\* An enemy that does nothing in this frame, but may charge.
LEMMA EnemyWaitsStep ==
  ASSUME IInv, EnemyWaits
  PROVE  IInv'
<1>. DEFINE e0 == enemy[Enemy]
<1>1. /\ frame.pc = "Enemy" /\ frame' = NextEnemy
      /\ UNCHANGED <<hp, status, fighter, queue, ui, battle, inv, used>>
      /\ enemy' = enemy \/ enemy' = [enemy EXCEPT ![Enemy] = EnemyCharged(@)]
  BY DEF EnemyWaits
<1>2. Enemy \in Slots /\ enemy \in [Slots -> EnemyType] /\ e0 \in EnemyType
  BY <1>1, Team DEF IInv, FrameType, TypeOK, EnemyPoints, Enemy
<1>3. EnemyCharged(e0) \in EnemyType /\ EnemyCharged(e0).there = e0.there /\ EnemyCharged(e0).hp = e0.hp
  <2>. DEFINE meter == e0.meter + EnemySpeed
  <2>1. meter <= Full => meter \in 0..Full
    BY <1>2, BattleAssumption DEF EnemyType
  <2>2. 0 \in 0..Full
    BY BattleAssumption
  <2>3. EnemyCharged(e0) = IF Frozen THEN e0
                           ELSE IF meter <= Full THEN [e0 EXCEPT !.meter = meter]
                           ELSE IF battle.hiding = 0 THEN [e0 EXCEPT !.meter = 0, !.state = "Com"]
                           ELSE [e0 EXCEPT !.meter = 0]
    BY DEF EnemyCharged
  <2>. HIDE DEF meter, e0
  <2>4. CASE Frozen
    BY <1>2, <2>3, <2>4
  <2>5. CASE ~Frozen /\ meter <= Full
    BY <1>2, <2>1, <2>3, <2>5 DEF EnemyType
  <2>6. CASE ~Frozen /\ ~(meter <= Full) /\ battle.hiding = 0
    <3>1. EnemyCharged(e0) = [e0 EXCEPT !.meter = 0, !.state = "Com"]
      BY <2>3, <2>6
    <3>2. [e0 EXCEPT !.meter = 0, !.state = "Com"] \in EnemyType
      BY <1>2, <2>2 DEF EnemyType
    <3>3. [e0 EXCEPT !.meter = 0, !.state = "Com"].hp = e0.hp
      BY <1>2 DEF EnemyType
    <3>4. [e0 EXCEPT !.meter = 0, !.state = "Com"].there = e0.there
      BY <1>2 DEF EnemyType
    <3>. QED  BY <3>1, <3>2, <3>3, <3>4
  <2>7. CASE ~Frozen /\ ~(meter <= Full) /\ battle.hiding # 0
    BY <1>2, <2>2, <2>3, <2>7 DEF EnemyType
  <2>. QED  BY <2>4, <2>5, <2>6, <2>7
<1>4. /\ enemy' \in [Slots -> EnemyType]
      /\ \A e \in Slots : enemy'[e].there = enemy[e].there /\ enemy'[e].hp = enemy[e].hp
  BY <1>1, <1>2, <1>3
<1>5. /\ frame' \in FrameRecord /\ frame'.moved = frame.moved
      /\ \/ frame'.pc = "UI"
         \/ frame'.pc = "Enemy" /\ frame'.at \in Enemies /\ frame'.only = frame.only
  BY <1>1, NextEnemyType DEF IInv, EnemyPoints
<1>. QED  BY <1>1, <1>4, <1>5, EnemyMoves, EnemyKeeps DEF EnemyPoints, MenuAfter

\* An enemy's turn comes; its script counts as a move.
LEMMA EnemyReadyStep ==
  ASSUME IInv, EnemyReady
  PROVE  IInv'
<1>1. /\ frame.pc = "Enemy" /\ frame' = [NextEnemy EXCEPT !.moved = TRUE]
      /\ UNCHANGED <<status, fighter, queue, ui, inv, used>>
      /\ enemy' = [enemy EXCEPT ![Enemy].state = "Act"] /\ ScriptEffect(battle)
  BY DEF EnemyReady
<1>2. /\ hp' \in [Players -> 0..MaxHP] /\ battle' \in BattleRecord
      /\ battle'.cleared = battle.cleared /\ battle'.last = battle.last
  BY <1>1, ScriptEffectType DEF IInv, TypeOK, BattleRecord
<1>3. /\ enemy' \in [Slots -> EnemyType]
      /\ \A e \in Slots : enemy'[e].there = enemy[e].there /\ enemy'[e].hp = enemy[e].hp
  <2>1. enemy \in [Slots -> EnemyType]
    BY DEF IInv, TypeOK
  <2>2. enemy' \in [Slots -> EnemyType]
    BY <1>1, <2>1 DEF EnemyType
  <2>3. \A e \in Slots : enemy'[e].hp = enemy[e].hp
    BY <1>1, <2>1 DEF EnemyType
  <2>4. \A e \in Slots : enemy'[e].there = enemy[e].there
    BY <1>1, <2>1 DEF EnemyType
  <2>. QED  BY <2>2, <2>3, <2>4
<1>4. /\ NextEnemy \in FrameRecord
      /\ NextEnemy.pc = "UI" \/ (NextEnemy.pc = "Enemy" /\ NextEnemy.at \in Enemies)
  BY <1>1, NextEnemyType DEF IInv, EnemyPoints
<1>5. frame' \in FrameRecord /\ frame'.pc = NextEnemy.pc /\ frame'.at = NextEnemy.at
  BY <1>1, <1>4 DEF FrameRecord
<1>6. frame'.moved
  BY <1>1, <1>4 DEF FrameRecord
<1>. QED  BY <1>1, <1>2, <1>3, <1>4, <1>5, <1>6, EnemyMoves, EnemyKeeps DEF EnemyPoints, MenuAfter

\* An enemy begins to act: nothing moved yet, so somebody lives.
LEMMA EnemyActsStep ==
  ASSUME IInv, EnemyActs
  PROVE  IInv'
<1>1. /\ frame.pc = "Enemy" /\ frame' = [frame EXCEPT !.pc = "Pick", !.moved = TRUE]
      /\ UNCHANGED <<hp, status, fighter, queue, ui, battle, inv, used>>
      /\ ~frame.moved /\ ~frame.only
      /\ \E dual \in BOOLEAN : enemy' = [enemy EXCEPT ![Enemy].dual = dual]
  BY DEF EnemyActs, MayAct
<1>2. /\ enemy' \in [Slots -> EnemyType]
      /\ \A e \in Slots : enemy'[e].there = enemy[e].there /\ enemy'[e].hp = enemy[e].hp
  <2>1. enemy \in [Slots -> EnemyType]
    BY DEF IInv, TypeOK
  <2>2. enemy' \in [Slots -> EnemyType]
    BY <1>1, <2>1 DEF EnemyType
  <2>3. \A e \in Slots : enemy'[e].hp = enemy[e].hp
    BY <1>1, <2>1 DEF EnemyType
  <2>4. \A e \in Slots : enemy'[e].there = enemy[e].there
    BY <1>1, <2>1 DEF EnemyType
  <2>. QED  BY <2>2, <2>3, <2>4
<1>3. frame \in FrameRecord /\ frame.at \in Enemies
  BY <1>1 DEF IInv, FrameType, EnemyPoints
<1>4. frame' \in FrameRecord /\ frame'.pc = "Pick" /\ frame'.at = frame.at
  BY <1>1, <1>3 DEF FrameRecord, EnemyPoints
<1>5. frame'.moved
  BY <1>1, <1>3 DEF FrameRecord
<1>6. \E p \in Players : hp'[p] # 0
  BY <1>1 DEF IInv, MovedInv, Alive
<1>. QED  BY <1>1, <1>2, <1>3, <1>4, <1>5, <1>6, EnemyMoves, EnemyKeeps DEF EnemyPoints, MenuAfter

\* It has found a target, or does nothing.
LEMMA EnemyPicksStep ==
  ASSUME IInv, EnemyPicks
  PROVE  IInv'
<1>1. /\ frame.pc = "Pick" /\ UNCHANGED <<hp, status, fighter, queue, enemy, ui, battle, inv, used>>
      /\ \/ frame' = [frame EXCEPT !.pc = "EnemyEnd"]
         \/ \E target \in Players \cup {All} :
              frame' = [frame EXCEPT !.pc = "EnemyWindup", !.target = target]
  BY DEF EnemyPicks
<1>2. frame \in FrameRecord /\ frame.at \in Enemies /\ frame.moved
  BY <1>1 DEF IInv, FrameType, MovedInv, EnemyPoints
<1>3. frame' \in FrameRecord /\ frame'.pc \in {"EnemyEnd", "EnemyWindup"} /\ frame'.at = frame.at
  BY <1>1, <1>2 DEF FrameRecord, EnemyPoints
<1>4. frame'.moved = frame.moved
  BY <1>1, <1>2 DEF FrameRecord
<1>. QED  BY <1>1, <1>2, <1>3, <1>4, EnemyMoves, EnemyKeeps DEF EnemyPoints, MenuAfter

\* It strikes.
LEMMA EnemyStrikesStep ==
  ASSUME IInv, EnemyStrikes
  PROVE  IInv'
<1>. DEFINE hit == IF frame.target = All THEN {p \in Players : Alive(p)} ELSE {frame.target}
<1>1. /\ frame.pc = "EnemyWindup" /\ frame' = [frame EXCEPT !.pc = "EnemyRecover", !.target = All]
      /\ UNCHANGED <<fighter, queue, enemy, ui, battle, inv, used>>
      /\ hp' \in [Players -> 0..MaxHP]
      /\ \/ status' = status
         \/ \E p \in hit \cap Prone, a \in Ailments : status' = [status EXCEPT ![p] = @ \cup {a}]
  BY DEF EnemyStrikes
<1>2. frame \in FrameRecord /\ frame.at \in Enemies /\ frame.moved /\ frame.target \in Players \cup {All}
  BY <1>1 DEF IInv, FrameType, FrameRecord, MovedInv, EnemyPoints
<1>3. status' \in [Players -> SUBSET Statuses]
  <2>1. hit \subseteq Players
    BY <1>2
  <2>2. Ailments \subseteq Statuses
    BY BattleAssumption DEF Statuses
  <2>3. status \in [Players -> SUBSET Statuses]
    BY DEF IInv, TypeOK
  <2>. HIDE DEF hit
  <2>. QED  BY <1>1, <2>1, <2>2, <2>3
<1>4. frame' \in FrameRecord /\ frame'.pc = "EnemyRecover" /\ frame'.at = frame.at
  BY <1>1, <1>2 DEF FrameRecord, EnemyPoints
<1>5. frame'.moved = frame.moved
  BY <1>1, <1>2 DEF FrameRecord
<1>. QED  BY <1>1, <1>2, <1>3, <1>4, <1>5, EnemyMoves, EnemyKeeps DEF EnemyPoints, MenuAfter

\* Its poison may leave it without health.
LEMMA EnemyPoisonedStep ==
  ASSUME IInv, EnemyPoisoned
  PROVE  IInv'
<1>1. /\ frame.pc \in {"EnemyRecover", "EnemyEnd"} /\ frame' = [frame EXCEPT !.pc = "EnemyPoison"]
      /\ UNCHANGED <<hp, status, fighter, queue, ui, battle, inv, used>>
      /\ \E left \in 0..enemy[Enemy].hp - 1 : enemy' = [enemy EXCEPT ![Enemy].hp = left]
  BY DEF EnemyPoisoned
<1>2. /\ frame \in FrameRecord /\ frame.at \in Enemies /\ frame.moved
      /\ Enemy \in Slots /\ enemy \in [Slots -> EnemyType]
  BY <1>1, Team DEF IInv, FrameType, TypeOK, MovedInv, EnemyPoints, Enemy
<1>3. PICK left \in 0..enemy[Enemy].hp - 1 : enemy' = [enemy EXCEPT ![Enemy].hp = left]
  BY <1>1
<1>4. left \in 0..EnemyHP
  <2>1. enemy[Enemy].hp \in 0..EnemyHP /\ EnemyHP \in Nat
    BY <1>2, BattleAssumption DEF EnemyType
  <2>. QED  BY <1>3, <2>1
<1>5. enemy' \in [Slots -> EnemyType]
  BY <1>2, <1>3, <1>4 DEF EnemyType
<1>6. \A e \in Slots : enemy'[e].there = enemy[e].there
  BY <1>2, <1>3, <1>4 DEF EnemyType
<1>7. frame' \in FrameRecord /\ frame'.pc = "EnemyPoison" /\ frame'.at = frame.at
  BY <1>1, <1>2 DEF FrameRecord, EnemyPoints
<1>8. frame'.moved = frame.moved
  BY <1>1, <1>2 DEF FrameRecord
<1>. QED  BY <1>1, <1>2, <1>5, <1>6, <1>7, <1>8, EnemyMoves, EnemyKeeps DEF EnemyPoints, MenuAfter

\* Whoever fell disappears; with the last one the menu closes.
LEMMA EnemyCheckedStep ==
  ASSUME IInv, EnemyChecked
  PROVE  IInv'
<1>1. /\ frame.pc \in {"EnemyRecover", "EnemyEnd", "EnemyPoison"}
      /\ frame' = [frame EXCEPT !.pc = "EnemyFade"]
      /\ PAL_BattlePostActionCheck /\ UNCHANGED <<hp, status, fighter, queue, inv, used>>
  BY DEF EnemyChecked, Acted
<1>2. frame \in FrameRecord /\ frame.at \in Enemies /\ frame.moved
  BY <1>1 DEF IInv, FrameType, MovedInv, EnemyPoints
<1>3. frame' \in FrameRecord /\ frame'.pc = "EnemyFade" /\ frame'.at = frame.at
  BY <1>1, <1>2 DEF FrameRecord, EnemyPoints
<1>4. frame'.moved = frame.moved
  BY <1>1, <1>2 DEF FrameRecord
<1>5. /\ battle' \in BattleRecord /\ battle'.last = battle.last /\ MenuAfter
      /\ ui' \in UiRecord
      /\ enemy' \in [Slots -> EnemyType]
      /\ \A e \in Slots : enemy'[e].there => enemy[e].there
      /\ \A e \in Enemies : enemy'[e].there => enemy'[e].hp > 0
      /\ battle'.cleared \/ \E e \in Enemies : enemy'[e].there
  BY <1>1, PostActionCheck DEF IInv
<1>6. hp' \in [Players -> 0..MaxHP] /\ status' \in [Players -> SUBSET Statuses]
  BY <1>1 DEF IInv, TypeOK
<1>. QED  BY <1>1, <1>2, <1>3, <1>4, <1>5, <1>6, EnemyMoves DEF EnemyPoints

\* It is done.
LEMMA EnemyEndsStep ==
  ASSUME IInv, EnemyEnds
  PROVE  IInv'
<1>. DEFINE e == enemy[Enemy]
            after == IF e.dual THEN [e EXCEPT !.state = "Com", !.first = TRUE]
                     ELSE [e EXCEPT !.state = "Wait", !.first = FALSE, !.turnStart = TRUE]
            end == IF e.there THEN after ELSE e
<1>1. /\ \/ frame.pc \in {"EnemyRecover", "EnemyEnd", "EnemyPoison"} /\ ~Fallen
         \/ frame.pc = "EnemyFade"
      /\ frame' = NextEnemy /\ enemy' = [enemy EXCEPT ![Enemy] = end]
      /\ UNCHANGED <<hp, status, fighter, queue, ui, battle, inv, used>>
  BY DEF EnemyEnds, Acted
<1>2. /\ frame.moved /\ frame.pc \in EnemyPoints
      /\ Enemy \in Slots /\ enemy \in [Slots -> EnemyType] /\ e \in EnemyType
  BY <1>1, Team DEF IInv, FrameType, TypeOK, MovedInv, EnemyPoints, Enemy
<1>3. end \in EnemyType /\ end.there = e.there /\ end.hp = e.hp
  <2>. HIDE DEF e
  <2>1. end \in EnemyType
    BY <1>2 DEF EnemyType
  <2>2. end.there = e.there
    BY <1>2 DEF EnemyType
  <2>3. end.hp = e.hp
    BY <1>2 DEF EnemyType
  <2>. QED  BY <2>1, <2>2, <2>3
<1>. HIDE DEF end
<1>4. /\ enemy' \in [Slots -> EnemyType]
      /\ \A x \in Slots : enemy'[x].there = enemy[x].there /\ enemy'[x].hp = enemy[x].hp
  BY <1>1, <1>2, <1>3
<1>5. \A x \in Enemies : enemy[x].there => enemy[x].hp > 0
  <2>1. CASE frame.pc = "EnemyPoison"
    <3>1. \A x \in Enemies : enemy[x].there => enemy[x].hp # 0
      BY <1>1, <2>1 DEF Fallen
    <3>2. \A x \in Enemies : enemy[x].hp \in Nat
      BY <1>2, Team, BattleAssumption DEF IInv, TypeOK, EnemyType
    <3>. QED  BY <3>1, <3>2
  <2>2. CASE frame.pc # "EnemyPoison"
    BY <1>1, <2>2 DEF IInv, StandingInv
  <2>. QED  BY <2>1, <2>2
<1>6. /\ frame' \in FrameRecord /\ frame'.moved = frame.moved
      /\ frame'.pc = "UI" \/ (frame'.pc = "Enemy" /\ frame'.at \in Enemies)
  BY <1>1, <1>2, NextEnemyType DEF IInv
<1>. QED  BY <1>1, <1>2, <1>4, <1>5, <1>6, EnemyMoves, EnemyKeeps DEF EnemyPoints, MenuAfter


----------------------------------------------------------------------------
(* The players.                                                            *)

\* An action that is replaced keeps its meter and is due at once.
LEMMA ActingType ==
  ASSUME NEW f \in FighterType, NEW type \in ActionTypes
  PROVE  /\ Acting(f, type) \in FighterType
         /\ Acting(f, type).state = f.state /\ Acting(f, type).meter = f.meter
         /\ Acting(f, type).type = type /\ Acting(f, type).time = 0
         /\ Acting(f, type).target = All
<1>. DEFINE g == [f EXCEPT !.type = type, !.target = All, !.time = 0]
<1>1. 0 \in 0..CastTime /\ All \in Slots \cup {All}
  BY BattleAssumption
<1>2. g \in FighterType
  BY <1>1 DEF FighterType
<1>3. g.state = f.state /\ g.meter = f.meter /\ g.type = type /\ g.time = 0 /\ g.target = All
  BY DEF FighterType
<1>. QED  BY <1>2, <1>3 DEF Acting

\* What a frame does to a player: the dead lose their commands, meters only
\* fill, and an action only comes nearer.
LEMMA PlayerChargedType ==
  ASSUME TypeOK, NEW p \in Players
  PROVE  /\ PlayerCharged(p) \in FighterType
         /\ PlayerCharged(p).state \in {fighter[p].state, "Wait"}
         /\ PlayerCharged(p).state = "Act" =>
              /\ PlayerCharged(p).type = "Coop" => fighter[p].type = "Coop"
              /\ fighter[p].time = 0 => PlayerCharged(p).time = 0
         /\ \/ PlayerCharged(p).target = All
            \/ PlayerCharged(p).target = fighter[p].target /\ PlayerCharged(p).type = fighter[p].type
         /\ ~Skipped(p) => PlayerCharged(p).state = fighter[p].state
         /\ ~Skipped(p) /\ fighter[p].meter >= Full => PlayerCharged(p).meter >= Full
<1>. DEFINE f == fighter[p]
<1>1. f \in FighterType
  BY DEF TypeOK
<1>2. PlayerCharged(p) =
        CASE Skipped(p) -> Idle(0)
          [] ~Skipped(p) /\ f.state = "Wait" -> [f EXCEPT !.meter = Charged(@)]
          [] ~Skipped(p) /\ f.state = "Com"  -> f
          [] ~Skipped(p) /\ f.state = "Act"  ->
               IF Asleep(p) THEN Acting(f, "Pass")
               ELSE IF Confused(p) THEN Acting(f, "AttackMate")
               ELSE [f EXCEPT !.time = IF Frozen \/ @ = 0 THEN @ ELSE @ - 1]
  BY DEF PlayerCharged
<1>. HIDE DEF f
<1>3. CASE Skipped(p)
  <2>1. PlayerCharged(p) = Idle(0)
    BY <1>2, <1>3
  <2>2. Idle(0) \in FighterType /\ Idle(0).state = "Wait" /\ Idle(0).target = All
    BY BattleAssumption DEF Idle, FighterType, ActionTypes
  <2>. QED  BY <1>3, <2>1, <2>2
<1>4. CASE ~Skipped(p) /\ f.state = "Wait"
  <2>1. PlayerCharged(p) = [f EXCEPT !.meter = Charged(f.meter)]
    BY <1>2, <1>4
  <2>. DEFINE meter == Charged(f.meter)
  <2>2. f.meter \in 0..MaxMeter
    BY <1>1 DEF FighterType
  <2>3. meter \in 0..MaxMeter /\ (f.meter >= Full => meter >= Full)
    BY <2>2, BattleAssumption DEF Charged, SmallerOf
  <2>. HIDE DEF meter
  <2>4. PlayerCharged(p) \in FighterType /\ PlayerCharged(p).state = f.state
        /\ PlayerCharged(p).meter = meter
        /\ PlayerCharged(p).target = f.target /\ PlayerCharged(p).type = f.type
    BY <1>1, <2>1, <2>3 DEF FighterType, meter
  <2>. QED  BY <1>4, <2>3, <2>4 DEF f
<1>5. CASE ~Skipped(p) /\ f.state = "Com"
  <2>1. PlayerCharged(p) = f
    BY <1>2, <1>5
  <2>. QED  BY <1>1, <2>1 DEF f
<1>6. CASE ~Skipped(p) /\ f.state = "Act"
  <2>1. PlayerCharged(p) =
          IF Asleep(p) THEN Acting(f, "Pass")
          ELSE IF Confused(p) THEN Acting(f, "AttackMate")
          ELSE [f EXCEPT !.time = IF Frozen \/ @ = 0 THEN @ ELSE @ - 1]
    BY <1>2, <1>6
  <2>2. \A type \in {"Pass", "AttackMate"} : PlayerCharged(p) = Acting(f, type) =>
          /\ PlayerCharged(p) \in FighterType /\ PlayerCharged(p).state = f.state
          /\ PlayerCharged(p).meter = f.meter /\ PlayerCharged(p).type # "Coop"
          /\ PlayerCharged(p).time = 0 /\ PlayerCharged(p).target = All
    <3>1. {"Pass", "AttackMate"} \subseteq ActionTypes \ {"Coop"}
      BY DEF ActionTypes
    <3>. QED  BY <1>1, <3>1, ActingType
  <2>3. CASE Asleep(p)
    BY <1>6, <2>1, <2>2, <2>3 DEF f
  <2>4. CASE ~Asleep(p) /\ Confused(p)
    BY <1>6, <2>1, <2>2, <2>4 DEF f
  <2>5. CASE ~Asleep(p) /\ ~Confused(p)
    <3>. DEFINE time == IF Frozen \/ f.time = 0 THEN f.time ELSE f.time - 1
    <3>1. time \in 0..CastTime /\ (f.time = 0 => time = 0)
      BY <1>1, BattleAssumption DEF FighterType
    <3>2. PlayerCharged(p) = [f EXCEPT !.time = time]
      BY <2>1, <2>5
    <3>. HIDE DEF time
    <3>3. /\ PlayerCharged(p) \in FighterType /\ PlayerCharged(p).state = f.state
          /\ PlayerCharged(p).meter = f.meter /\ PlayerCharged(p).type = f.type
          /\ PlayerCharged(p).time = time /\ PlayerCharged(p).target = f.target
      BY <1>1, <3>1, <3>2 DEF FighterType
    <3>. QED  BY <1>6, <3>1, <3>3 DEF f
  <2>. QED  BY <2>3, <2>4, <2>5
<1>. QED
  <2>1. f.state \in {"Wait", "Com", "Act"}
    BY <1>1 DEF FighterType
  <2>. QED  BY <1>3, <1>4, <1>5, <1>6, <2>1

\* The new queue: those of the old one who are not skipped, then those whose
\* time has come.
LEMMA QueueAfterCharging ==
  ASSUME TypeOK, Command, PlayersCharge
  PROVE  /\ queue' \in Seq(Players) /\ Distinct(queue')
         /\ \A i \in 1..Len(queue') :
              fighter'[queue'[i]].state = "Act" /\ fighter'[queue'[i]].time = 0
<1>. DEFINE able == {p \in Players : ~Skipped(p)}
            due == {p \in able : fighter'[p].state = "Act" /\ fighter'[p].time = 0 /\ ~Queued(p)}
            every == [i \in 1..NPlayers |-> i - 1]
            old == Kept(queue, able)
            new == Kept(every, due)
<1>1. queue' = old \o new /\ \A p \in Players : fighter'[p] = PlayerCharged(p)
  BY DEF PlayersCharge
<1>2. /\ Distinct(queue) /\ queue \in Seq(Players) /\ Len(queue) \in Nat
      /\ \A i \in 1..Len(queue) : fighter[queue[i]].state = "Act" /\ fighter[queue[i]].time = 0
  <2>1. queue \in Seq(Players) /\ Len(queue) \in Nat
    BY LenProperties DEF TypeOK
  <2>2. Distinct(queue) /\ \A i \in 1..Len(queue) : Turn(fighter, frame, queue[i])
    BY <2>1, QueueDueMeans DEF Command
  <2>3. frame.pc = "Players"
    BY DEF PlayersCharge
  <2>. QED  BY <2>1, <2>2, <2>3 DEF Turn, EndPoints
<1>3. every \in Seq(Players) /\ Distinct(every)
  <2>1. \A i \in 1..NPlayers : i - 1 \in Players
    BY BattleAssumption DEF Players
  <2>2. every \in Seq(Players) /\ Len(every) = NPlayers
    BY <2>1, BattleAssumption
  <2>. QED  BY <2>2, BattleAssumption DEF Distinct
<1>4. /\ old \in Seq(Players) /\ Distinct(old)
      /\ \A j \in 1..Len(old) : old[j] \in able /\ \E i \in 1..Len(queue) : old[j] = queue[i]
  <2>. HIDE DEF able
  <2>. QED  BY <1>2, KeptProperties
<1>5. /\ new \in Seq(Players) /\ Distinct(new)
      /\ \A j \in 1..Len(new) : new[j] \in due
  <2>. HIDE DEF due, every
  <2>. QED  BY <1>3, KeptProperties
<1>6. \A j \in 1..Len(old) : fighter'[old[j]].state = "Act" /\ fighter'[old[j]].time = 0 /\ Queued(old[j])
  <2>. TAKE j \in 1..Len(old)
  <2>. DEFINE p == old[j]
  <2>. HIDE DEF old
  <2>1. PICK i \in 1..Len(queue) : p = queue[i]
    BY <1>4
  <2>2. p \in Players /\ ~Skipped(p) /\ fighter[p].state = "Act" /\ fighter[p].time = 0
    BY <1>2, <1>4, <2>1
  <2>3. i \in DOMAIN queue
    BY <1>2, LenProperties
  <2>. HIDE DEF p
  <2>4. Queued(p)
    BY <2>1, <2>3 DEF Queued
  <2>5. fighter'[p].state = "Act" /\ fighter'[p].time = 0
    BY <1>1, <2>2, PlayerChargedType
  <2>. QED  BY <2>4, <2>5 DEF p
<1>7. \A j \in 1..Len(new) : fighter'[new[j]].state = "Act" /\ fighter'[new[j]].time = 0 /\ ~Queued(new[j])
  <2>. HIDE DEF new
  <2>. QED  BY <1>5
<1>. HIDE DEF old, new, able, due, every
<1>8. /\ Len(old) \in Nat /\ Len(new) \in Nat
      /\ queue' \in Seq(Players) /\ Len(queue') = Len(old) + Len(new)
      /\ \A i \in 1..Len(old) + Len(new) : queue'[i] = IF i <= Len(old) THEN old[i] ELSE new[i - Len(old)]
  BY <1>1, <1>4, <1>5, ConcatProperties, LenProperties
<1>9. ASSUME NEW i \in 1..Len(queue')
      PROVE  \/ i \in 1..Len(old) /\ queue'[i] = old[i]
             \/ i > Len(old) /\ i - Len(old) \in 1..Len(new) /\ queue'[i] = new[i - Len(old)]
  BY <1>8
<1>10. Distinct(queue')
  <2>1. SUFFICES ASSUME NEW i \in 1..Len(queue'), NEW j \in 1..Len(queue'), queue'[i] = queue'[j]
                 PROVE  i = j
    BY DEF Distinct
  <2>2. CASE i \in 1..Len(old) /\ j \in 1..Len(old)
    <3>1. queue'[i] = old[i] /\ queue'[j] = old[j]
      BY <1>8, <2>1, <2>2
    <3>2. old[i] = old[j]
      BY <2>1, <3>1
    <3>. QED  BY <1>4, <2>2, <3>2 DEF Distinct
  <2>3. CASE i > Len(old) /\ j > Len(old)
    <3>1. /\ i - Len(old) \in 1..Len(new) /\ j - Len(old) \in 1..Len(new)
          /\ new[i - Len(old)] = new[j - Len(old)]
      BY <1>8, <2>1, <2>3
    <3>2. i - Len(old) = j - Len(old)
      BY <1>5, <3>1 DEF Distinct
    <3>. QED  BY <1>8, <3>2
  <2>4. ASSUME NEW k \in 1..Len(old), NEW l \in 1..Len(new)  PROVE old[k] # new[l]
    BY <1>6, <1>7
  <2>. QED  BY <1>9, <2>1, <2>2, <2>3, <2>4
<1>11. \A i \in 1..Len(queue') : fighter'[queue'[i]].state = "Act" /\ fighter'[queue'[i]].time = 0
  BY <1>6, <1>7, <1>9
<1>. QED  BY <1>8, <1>10, <1>11

\* The players charge, and the first of the queue acts if nothing moved.
LEMMA PlayersChargeStep ==
  ASSUME IInv, PlayersCharge
  PROVE  IInv'
<1>1. /\ frame.pc = "Players" /\ UNCHANGED <<hp, status, enemy, ui, battle, inv, used>>
      /\ fighter' = [p \in Players |-> PlayerCharged(p)]
      /\ frame' = IF frame.moved \/ queue' = <<>> THEN NewFrame
                  ELSE [NewFrame EXCEPT !.pc = "Perform", !.at = Head(queue'), !.moved = TRUE]
  BY DEF PlayersCharge
<1>2. \A p \in Players :
        /\ fighter'[p] \in FighterType
        /\ fighter'[p].state \in {fighter[p].state, "Wait"}
        /\ fighter'[p].state = "Act" /\ fighter'[p].type = "Coop" => fighter[p].type = "Coop"
        /\ \/ fighter'[p].target = All
           \/ fighter'[p].target = fighter[p].target /\ fighter'[p].type = fighter[p].type
  BY <1>1, PlayerChargedType DEF IInv
<1>3. fighter' \in [Players -> FighterType]
  <2>. DEFINE f == [p \in Players |-> PlayerCharged(p)]
  <2>1. \A p \in Players : PlayerCharged(p) \in FighterType
    BY PlayerChargedType DEF IInv
  <2>2. f \in [Players -> FighterType]
    BY <2>1
  <2>. QED  BY <1>1, <2>2
<1>4. /\ queue' \in Seq(Players) /\ Distinct(queue')
      /\ \A i \in 1..Len(queue') :
           fighter'[queue'[i]].state = "Act" /\ fighter'[queue'[i]].time = 0
  BY QueueAfterCharging DEF IInv
<1>5. TypeOK'
  BY <1>1, <1>3, <1>4 DEF IInv, TypeOK
<1>6. OneCommand' /\ ClearedShut' /\ CoopAlone'
  <2>1. ui.cur \in Players
    BY DEF IInv, TypeOK
  <2>. QED  BY <1>1, <1>2, <2>1 DEF IInv, Command, OneCommand, ClearedShut, CoopAlone, Open
<1>7. Command'
  BY <1>4, <1>6, QueueDueNext DEF Command, Turn
<1>8. Aims'
  BY <1>1, <1>2, AimsStay DEF IInv
<1>9. NewFrame \in FrameRecord /\ NewFrame.pc = "Top"
  BY DEF NewFrame, FrameRecord
<1>10. Enemies' = Enemies /\ CleanBehind'
  BY <1>1 DEF IInv, Enemies, CleanBehind
<1>11. CASE frame' = NewFrame
  <2>1. FrameType' /\ AtActs' /\ MovedInv' /\ EnemyHasTarget' /\ TargetStands' /\ ItemReady'
    BY <1>9, <1>11 DEF FrameType, AtActs, MovedInv, EnemyHasTarget, TargetStands, ItemReady,
                       EnemyPoints, PlayerPoints, EndPoints
  <2>2. StandingInv' /\ ItemsConserved'
    BY <1>1, <1>9, <1>10, <1>11 DEF IInv, StandingInv, ItemsConserved
  <2>. QED  BY <1>5, <1>7, <1>8, <1>10, <2>1, <2>2 DEF IInv
<1>12. CASE frame' # NewFrame
  <2>. DEFINE p == Head(queue')
  <2>1. /\ ~frame.moved /\ queue' # <<>>
        /\ frame' = [NewFrame EXCEPT !.pc = "Perform", !.at = p, !.moved = TRUE]
    BY <1>1, <1>12
  <2>2. p = queue'[1] /\ 1 \in 1..Len(queue') /\ p \in Players
    <3>1. Len(queue') \in Nat \ {0}
      BY <1>4, <2>1, EmptySeq
    <3>2. p = queue'[1]
      BY <1>4, <2>1
    <3>. HIDE DEF p
    <3>. QED  BY <1>4, <3>1, <3>2, ElementOfSeq
  <2>3. fighter'[p].state = "Act"
    BY <1>4, <2>2
  <2>. HIDE DEF p
  <2>4. p \in Int
    BY <2>2, BattleAssumption DEF Players
  <2>5. frame' \in FrameRecord /\ frame'.pc = "Perform" /\ frame'.at = p
    BY <1>9, <2>1, <2>4 DEF FrameRecord, PlayerPoints
  <2>6. AtActs'
    BY <1>6, <2>3, <2>5 DEF AtActs, OneCommand
  <2>7. FrameType' /\ MovedInv' /\ EnemyHasTarget' /\ TargetStands' /\ ItemReady'
    BY <2>2, <2>5 DEF FrameType, MovedInv, EnemyHasTarget, TargetStands, ItemReady,
                      EnemyPoints, PlayerPoints, EndPoints
  <2>8. StandingInv' /\ ItemsConserved'
    BY <1>1, <1>10, <2>1, <2>5 DEF IInv, StandingInv, ItemsConserved
  <2>. QED  BY <1>5, <1>7, <1>8, <1>10, <2>6, <2>7, <2>8 DEF IInv
<1>. QED  BY <1>11, <1>12

\* PAL_BattlePlayerValidateAction: a type stays possible, a cooperative magic
\* is none unless it was chosen, what takes a piece has one, and the target is
\* one of the type.
LEMMA ValidatedType ==
  ASSUME TypeOK, Aims, NEW p \in Players, NEW action \in Validated(p),
         NEW aimed \in Swung(p, action), NEW final \in Retargeted(aimed)
  PROVE  /\ final[1] \in ActionTypes /\ final[2] \in Targets(final[1])
         /\ final[1] = "Coop" => fighter[p].type = "Coop"
         /\ final[1] \in {"Use", "Throw"} => inv > 0
         /\ \/ final = aimed /\ (aimed[1] \in ToEnemy /\ aimed[2] # All => enemy[aimed[2]].there)
            \/ aimed[1] \in ToEnemy /\ final[2] \in PAL_BattleSelectAutoTarget
<1>. DEFINE f == fighter[p]
<1>1. f \in FighterType /\ inv \in 0..Stock /\ battle.last \in Slots
  BY DEF TypeOK
<1>2. f.type \in ActionTypes /\ f.target \in Targets(f.type) /\ f.target \in Targets("Attack")
      /\ \A type : All \in Targets(type)
  BY <1>1, TargetsType DEF FighterType, Aims, TargetsKnown
<1>. DEFINE Fits(a) == /\ a[1] \in ActionTypes /\ a[2] \in Targets(a[1])
                       /\ a[1] = "Coop" => f.type = "Coop"
                       /\ a[1] \in {"Use", "Throw"} => inv > 0
<1>3. \A a \in Aimed(f.type, f.target) : f.type \in ToEnemy =>
        a[1] = f.type /\ a[2] \in Targets(f.type)
  BY <1>2, AutoTargetType DEF Aimed
<1>4. InStock(inv) => inv > 0
  BY <1>1, BattleAssumption DEF InStock
<1>5. Fits(action)
  <2>. DEFINE attack == {<<"Attack", f.target>>}
  <2>1. {"Attack", "Magic", "Coop", "Throw", "Use", "Pass"} \subseteq ActionTypes
        /\ {"Magic", "Coop", "Throw"} \subseteq ToEnemy
    BY DEF ActionTypes, ToEnemy
  <2>2. \A a \in attack : Fits(a)
    BY <1>2, <2>1
  <2>3. CASE f.type = "Magic"
    <3>1. action \in Aimed("Magic", f.target) \cup attack
      BY <2>3 DEF Validated
    <3>. QED  BY <1>3, <2>1, <2>2, <2>3, <3>1
  <2>4. CASE f.type = "Coop"
    <3>1. action \in Aimed("Coop", f.target) \cup attack
      BY <2>4 DEF Validated
    <3>. QED  BY <1>3, <2>1, <2>2, <2>4, <3>1
  <2>5. CASE f.type = "Throw"
    <3>1. (InStock(inv) /\ action \in Aimed("Throw", f.target)) \/ action \in attack
      BY <2>5 DEF Validated
    <3>. QED  BY <1>3, <1>4, <2>1, <2>2, <2>5, <3>1
  <2>6. CASE f.type = "Use"
    <3>1. (InStock(inv) /\ action = <<"Use", All>>) \/ action = <<"Pass", All>>
      BY <2>6 DEF Validated
    <3>. QED  BY <1>2, <1>4, <2>1, <3>1
  <2>7. CASE f.type = "AttackMate"
    <3>1. action = <<"AttackMate", All>> \/ \E target \in Targets("Attack") : action = <<"Attack", target>>
      BY <2>7 DEF Validated
    <3>. QED  BY <2>1, <2>7, <1>2, <3>1
  <2>8. CASE f.type \notin {"Magic", "Coop", "Throw", "Use", "AttackMate"}
    <3>1. action = <<f.type, f.target>>
      BY <2>8 DEF Validated
    <3>. QED  BY <1>2, <2>8, <3>1
  <2>. QED  BY <2>3, <2>4, <2>5, <2>6, <2>7, <2>8
<1>6. Fits(aimed)
  <2>1. aimed = action \/ (action[1] = "Attack" /\ aimed[1] = "Attack" /\ aimed[2] \in Enemies \cup {All})
    BY AutoTargetType DEF Swung
  <2>2. Enemies \cup {All} \subseteq Targets("Attack")
    BY DEF Targets
  <2>. QED  BY <1>5, <2>1, <2>2
<1>7. \/ final = aimed /\ (aimed[1] \in ToEnemy /\ aimed[2] # All => enemy[aimed[2]].there)
      \/ final[1] = aimed[1] /\ final[2] \in PAL_BattleSelectAutoTarget /\ aimed[1] \in ToEnemy
  BY DEF Retargeted
<1>. QED  BY <1>6, <1>7, AutoTargetType

\* The action is validated: one against an enemy has one that stands, or is the
\* attack on a slot behind the team.
LEMMA PlayerValidatesStep ==
  ASSUME IInv, PlayerValidates
  PROVE  IInv'
<1>. DEFINE p == frame.at
<1>1. /\ frame.pc = "Perform" /\ UNCHANGED <<hp, status, queue, enemy, ui, battle, inv, used>>
      /\ p \in Players /\ fighter \in [Players -> FighterType] /\ fighter[p].state = "Act"
      /\ ~battle.cleared /\ frame \in FrameRecord /\ battle.last \in Slots
      /\ Open => ui.cur # p
  BY DEF PlayerValidates, IInv, TypeOK, FrameType, AtActs, StandingInv, PlayerPoints, EndPoints, Ending
<1>2. PICK action \in Validated(p) : \E aimed \in Swung(p, action) : \E final \in Retargeted(aimed) :
         /\ fighter' = [fighter EXCEPT ![p] = [@ EXCEPT !.type = final[1], !.target = final[2]]]
         /\ frame' = [frame EXCEPT !.pc = IF final # aimed /\ final[2] = All THEN "Aborted"
                                         ELSE "Windup"]
  BY DEF PlayerValidates
<1>3. PICK aimed \in Swung(p, action) : \E final \in Retargeted(aimed) :
         /\ fighter' = [fighter EXCEPT ![p] = [@ EXCEPT !.type = final[1], !.target = final[2]]]
         /\ frame' = [frame EXCEPT !.pc = IF final # aimed /\ final[2] = All THEN "Aborted"
                                         ELSE "Windup"]
  BY <1>2
<1>4. PICK final \in Retargeted(aimed) :
         /\ fighter' = [fighter EXCEPT ![p] = [@ EXCEPT !.type = final[1], !.target = final[2]]]
         /\ frame' = [frame EXCEPT !.pc = IF final # aimed /\ final[2] = All THEN "Aborted"
                                         ELSE "Windup"]
  BY <1>3
<1>5. /\ final[1] \in ActionTypes /\ final[2] \in Targets(final[1])
      /\ final[1] = "Coop" => fighter[p].type = "Coop"
      /\ final[1] \in {"Use", "Throw"} => inv > 0
      /\ \/ final = aimed /\ (aimed[1] \in ToEnemy /\ aimed[2] # All => enemy[aimed[2]].there)
         \/ aimed[1] \in ToEnemy /\ final[2] \in PAL_BattleSelectAutoTarget
  BY <1>1, ValidatedType DEF IInv
<1>6. \A e \in PAL_BattleSelectAutoTarget : e # All /\ e \in Enemies /\ Standing(e)
  <2>1. \E e \in Enemies : Standing(e)
    BY <1>1 DEF IInv, StandingInv, Standing
  <2>. QED  BY <1>1, <2>1, Team DEF PAL_BattleSelectAutoTarget
<1>. DEFINE f == fighter[p]
            g == [f EXCEPT !.type = final[1], !.target = final[2]]
<1>7. /\ g \in FighterType /\ g.state = f.state /\ g.time = f.time
      /\ g.type = final[1] /\ g.target = final[2]
  <2>1. f \in FighterType /\ final[2] \in Slots \cup {All}
    BY <1>1, <1>5, TargetsType
  <2>. HIDE DEF f
  <2>2. g \in FighterType
    BY <1>5, <2>1 DEF FighterType
  <2>3. g.state = f.state /\ g.time = f.time /\ g.type = final[1] /\ g.target = final[2]
    BY <2>1 DEF FighterType
  <2>. QED  BY <2>2, <2>3
<1>8. fighter' = [fighter EXCEPT ![p] = g]
  BY <1>4
<1>9. /\ fighter' \in [Players -> FighterType] /\ fighter'[p] = g
      /\ \A q \in Players \ {p} : fighter'[q] = fighter[q]
  <2>. HIDE DEF g
  <2>. QED  BY <1>1, <1>7, <1>8
<1>. HIDE DEF g
<1>10. frame' \in FrameRecord /\ frame'.pc = "Windup" /\ frame'.at = p
  <2>1. ~(final # aimed /\ final[2] = All)
    BY <1>5, <1>6
  <2>2. frame' = [frame EXCEPT !.pc = "Windup"]
    BY <1>4, <2>1
  <2>. QED  BY <1>1, <2>2 DEF FrameRecord, PlayerPoints
<1>11. TypeOK'
  BY <1>1, <1>9 DEF IInv, TypeOK
<1>12. Command'
  <2>1. \A q \in Players :
          /\ fighter'[q].state = fighter[q].state
          /\ fighter'[q].time = fighter[q].time
          /\ fighter'[q].type = "Coop" => fighter[q].type = "Coop"
    BY <1>5, <1>7, <1>9
  <2>2. \A q \in Players : Turn(fighter, frame, q) => Turn(fighter', frame', q)
    BY <1>1, <2>1 DEF Turn, EndPoints
  <2>. QED  BY <1>1, <2>1, <2>2, CommandStays DEF IInv, MenuAfter
<1>13. FrameType' /\ AtActs' /\ MovedInv' /\ EnemyHasTarget'
  BY <1>1, <1>7, <1>9, <1>10 DEF FrameType, AtActs, MovedInv, EnemyHasTarget, EnemyPoints,
                                 PlayerPoints, EndPoints, Open
<1>14. Enemies' = Enemies /\ CleanBehind'
  BY <1>1 DEF IInv, Enemies, CleanBehind
<1>15. TargetStands'
  <2>1. ASSUME final[1] \in ToEnemy, final[2] # All
        PROVE  \/ final[2] \in Enemies /\ Standing(final[2])
               \/ final[1] = "Attack" /\ final[2] \in Players /\ final[2] > battle.last + 1
    <3>1. CASE final[2] \in PAL_BattleSelectAutoTarget
      BY <1>6, <3>1
    <3>2. CASE final[2] \in Enemies /\ enemy[final[2]].there
      BY <1>1, <3>2 DEF IInv, StandingInv, Standing
    <3>3. CASE final[2] \notin Enemies /\ enemy[final[2]].there
      <4>1. final[1] = "Attack" /\ final[2] \in Players
        BY <1>5, <2>1, <3>3 DEF Targets, ToEnemy
      <4>2. final[2] \in Slots /\ final[2] \in Nat /\ battle.last \in Nat
        BY <1>1, <4>1, Numbers
      <4>3. final[2] > battle.last
        BY <3>3, <4>2 DEF Enemies
      <4>4. final[2] # battle.last + 1
        BY <3>3, <4>2 DEF IInv, CleanBehind
      <4>. QED  BY <4>1, <4>2, <4>3, <4>4
    <3>. QED  BY <1>5, <2>1, <3>1, <3>2, <3>3
  <2>2. \A e : (Standing(e)' <=> Standing(e)) /\ (Outside(e)' <=> Outside(e))
    BY <1>1 DEF Standing, Outside
  <2>3. frame'.pc = "Windup" /\ fighter'[frame'.at].type = final[1] /\ fighter'[frame'.at].target = final[2]
    BY <1>7, <1>9, <1>10
  <2>. QED  BY <1>14, <2>1, <2>2, <2>3 DEF TargetStands, Outside
<1>16. Aims'
  <2>1. \A q \in Players : fighter'[q].target \in Targets(fighter'[q].type)
    BY <1>5, <1>7, <1>9 DEF IInv, Aims, TargetsKnown
  <2>. QED  BY <1>1, <2>1, AimsNext DEF IInv, Aims
<1>17. StandingInv' /\ ItemReady' /\ ItemsConserved'
  BY <1>1, <1>5, <1>7, <1>9, <1>10, <1>14 DEF IInv, StandingInv, ItemReady, ItemsConserved
<1>. QED  BY <1>11, <1>12, <1>13, <1>14, <1>15, <1>16, <1>17 DEF IInv


\* What every action of a player leaves: the effects stay in their types, no
\* enemy comes or goes, the battle is not cleared here, and nobody's command
\* changes but the one that is performed.
LEMMA PerformedKeeps ==
  ASSUME IInv, NEW type, Performs(type),
         hp' \in [Players -> 0..MaxHP], status' \in [Players -> SUBSET Statuses],
         enemy' \in [Slots -> EnemyType],
         \A e \in Slots : enemy'[e].there = enemy[e].there,
         fighter' \in [Players -> FighterType],
         \A p \in Players :
           /\ \/ fighter'[p].state = fighter[p].state /\ (fighter[p].time = 0 => fighter'[p].time = 0)
              \/ p = frame.at /\ fighter'[p].state = "Wait" /\ fighter'[p].meter = 0
           /\ fighter'[p].type = "Coop" => fighter[p].type = "Coop"
           /\ \/ fighter'[p].target = All
              \/ fighter'[p].target = fighter[p].target /\ fighter'[p].type = fighter[p].type,
         battle' \in BattleRecord, battle'.cleared = battle.cleared, battle'.last = battle.last,
         inv' \in 0..Stock, used' \in Nat, inv' + used' = Stock
  PROVE  IInv'
<1>1. /\ frame.pc = "Windup" /\ frame' = [frame EXCEPT !.pc = "Recover"]
      /\ UNCHANGED <<queue, ui>>
  BY DEF Performs
<1>2. /\ frame \in FrameRecord /\ frame.at \in Players /\ fighter[frame.at].state = "Act"
      /\ Open => ui.cur # frame.at
  BY <1>1 DEF IInv, FrameType, AtActs, Ending, PlayerPoints
<1>3. frame' \in FrameRecord /\ frame'.pc = "Recover" /\ frame'.at = frame.at
  BY <1>1, <1>2 DEF FrameRecord, PlayerPoints, EndPoints
<1>4. TypeOK'
  BY <1>1 DEF IInv, TypeOK, BattleRecord
<1>5. 0 < Full
  BY BattleAssumption
<1>6. Command'
  <2>1. \A p \in Players : Turn(fighter, frame, p) => Turn(fighter', frame', p)
    BY <1>1, <1>3, <1>5 DEF Turn, EndPoints
  <2>2. MenuAfter
    BY <1>1 DEF MenuAfter
  <2>3. \A p \in Players : fighter'[p].state \in {fighter[p].state, "Wait"}
    OBVIOUS
  <2>. QED  BY <1>1, <2>1, <2>2, <2>3, CommandStays DEF IInv
<1>7. AtActs'
  BY <1>1, <1>2, <1>3, <1>5 DEF AtActs, Ending, Open
<1>8. Aims'
  BY <1>1, AimsStay DEF IInv
<1>9. FrameType' /\ MovedInv' /\ EnemyHasTarget' /\ TargetStands' /\ ItemReady'
  BY <1>2, <1>3 DEF FrameType, MovedInv, EnemyHasTarget, TargetStands, ItemReady,
                    EnemyPoints, PlayerPoints, EndPoints
<1>10. CleanBehind'
  BY CleanStays DEF IInv
<1>11. StandingInv' /\ ItemsConserved'
  <2>1. Enemies' = Enemies /\ Enemies \subseteq Slots
    BY Team DEF IInv, TypeOK, Enemies
  <2>. QED  BY <1>3, <2>1 DEF IInv, StandingInv, ItemsConserved
<1>. QED  BY <1>4, <1>6, <1>7, <1>8, <1>9, <1>10, <1>11 DEF IInv

\* A player whose action was performed keeps his state and his meter; nobody
\* else is touched.
LEMMA DoneType ==
  ASSUME IInv, frame.pc = "Windup", Done
  PROVE  /\ fighter' \in [Players -> FighterType]
         /\ \A p \in Players :
              /\ fighter'[p].state = fighter[p].state /\ fighter'[p].meter = fighter[p].meter
              /\ fighter[p].time = 0 => fighter'[p].time = 0
              /\ fighter'[p].type = "Coop" => fighter[p].type = "Coop"
              /\ \/ fighter'[p].target = All
                 \/ fighter'[p].target = fighter[p].target /\ fighter'[p].type = fighter[p].type
<1>1. frame.at \in Players /\ fighter \in [Players -> FighterType]
  BY DEF IInv, FrameType, TypeOK, PlayerPoints
<1>. DEFINE f == fighter[frame.at]
            g == Acting(f, "Pass")
<1>2. f \in FighterType /\ "Pass" \in ActionTypes
  BY <1>1 DEF ActionTypes
<1>3. fighter' = [fighter EXCEPT ![frame.at] = g]
  BY DEF Done
<1>4. g \in FighterType /\ g.state = f.state /\ g.meter = f.meter /\ g.type = "Pass" /\ g.time = 0
      /\ g.target = All
  <2>. HIDE DEF f
  <2>. QED  BY <1>2, ActingType
<1>. HIDE DEF g
<1>5. /\ fighter' \in [Players -> FighterType] /\ fighter'[frame.at] = g
      /\ \A p \in Players \ {frame.at} : fighter'[p] = fighter[p]
  BY <1>1, <1>3, <1>4
<1>. QED  BY <1>4, <1>5

\* Back to waiting: an empty meter and no command.
LEMMA RevertedType ==
  ASSUME IInv, frame.pc \in PlayerPoints, fighter' = Reverted
  PROVE  /\ fighter' \in [Players -> FighterType]
         /\ fighter'[frame.at].state = "Wait" /\ fighter'[frame.at].meter = 0
         /\ fighter'[frame.at].target = All /\ fighter'[frame.at].type = "Pass"
         /\ \A p \in Players \ {frame.at} : fighter'[p] = fighter[p]
<1>1. frame.at \in Players /\ fighter \in [Players -> FighterType]
  BY DEF IInv, FrameType, TypeOK
<1>2. /\ Idle(0) \in FighterType /\ Idle(0).state = "Wait" /\ Idle(0).meter = 0
      /\ Idle(0).target = All /\ Idle(0).type = "Pass"
  BY BattleAssumption DEF Idle, FighterType, ActionTypes
<1>3. fighter' = [fighter EXCEPT ![frame.at] = Idle(0)]
  BY DEF Reverted
<1>. QED  BY <1>1, <1>2, <1>3

\* Damage to the target of an action against the enemies.
LEMMA EnemiesHurtType ==
  ASSUME IInv, EnemiesHurt
  PROVE  /\ enemy' \in [Slots -> EnemyType]
         /\ \A e \in Slots : enemy'[e].there = enemy[e].there
<1>. DEFINE target == fighter[frame.at].target
            hit == IF target = All THEN {e \in Enemies : enemy[e].there} ELSE {target}
<1>1. PICK h \in [hit -> 0..EnemyHP] :
        enemy' = [e \in Slots |-> IF e \in hit THEN [enemy[e] EXCEPT !.hp = h[e]] ELSE enemy[e]]
  BY DEF EnemiesHurt
<1>2. enemy \in [Slots -> EnemyType]
  BY DEF IInv, TypeOK
<1>. HIDE DEF hit
<1>3. ASSUME NEW e \in Slots
      PROVE  enemy'[e] \in EnemyType /\ enemy'[e].there = enemy[e].there
  <2>. DEFINE x == enemy[e]
  <2>1. x \in EnemyType /\ enemy'[e] = IF e \in hit THEN [x EXCEPT !.hp = h[e]] ELSE x
    BY <1>1, <1>2
  <2>. HIDE DEF x
  <2>2. CASE e \notin hit
    BY <2>1, <2>2 DEF x
  <2>3. CASE e \in hit
    <3>1. h[e] \in 0..EnemyHP /\ enemy'[e] = [x EXCEPT !.hp = h[e]]
      BY <1>1, <2>1, <2>3
    <3>2. enemy'[e] \in EnemyType
      BY <2>1, <3>1 DEF EnemyType
    <3>3. enemy'[e].there = x.there
      BY <2>1, <3>1 DEF EnemyType
    <3>. QED  BY <3>2, <3>3 DEF x
  <2>. QED  BY <2>2, <2>3
<1>4. enemy' = [e \in Slots |-> enemy'[e]]
  BY <1>1
<1>. QED  BY <1>3, <1>4

\* A piece is taken where there is one.
LEMMA ItemSpentType ==
  ASSUME IInv, frame.pc = "Windup", fighter[frame.at].type \in {"Use", "Throw"}, ItemSpent
  PROVE  inv' \in 0..Stock /\ used' \in Nat /\ inv' + used' = Stock
<1>1. inv > 0 /\ inv \in 0..Stock /\ used \in Nat /\ inv + used = Stock
  BY DEF IInv, ItemReady, TypeOK, ItemsConserved
<1>2. inv' = inv - 1 /\ used' = used + 1
  BY <1>1 DEF ItemSpent
<1>. QED  BY <1>1, <1>2, BattleAssumption

\* The action of a player, whichever it is.
LEMMA PlayerActsStep ==
  ASSUME IInv, Attack \/ Steal \/ Throw \/ CoopMagic \/ AttackMate \/ Flee \/ Pass \/ UseItem
  PROVE  IInv'
<1>1. /\ hp \in [Players -> 0..MaxHP] /\ status \in [Players -> SUBSET Statuses]
      /\ enemy \in [Slots -> EnemyType] /\ fighter \in [Players -> FighterType]
      /\ battle \in BattleRecord /\ inv \in 0..Stock /\ used \in Nat /\ inv + used = Stock
  BY DEF IInv, TypeOK, ItemsConserved, BattleRecord
<1>2. CASE Attack
  <2>1. PICK type \in {"Attack", "Magic"} : Performs(type)
    BY <1>2 DEF Attack
  <2>2. /\ enemy' \in [Slots -> EnemyType]
        /\ \A e \in Slots : enemy'[e].there = enemy[e].there
    BY <1>2, EnemiesHurtType DEF Attack
  <2>3. frame.pc = "Windup" /\ Done /\ UNCHANGED <<hp, status, battle, inv, used>>
    BY <1>2, <2>1 DEF Attack, Performs
  <2>. QED  BY <1>1, <2>1, <2>2, <2>3, DoneType, PerformedKeeps
<1>3. CASE Throw
  <2>1. /\ enemy' \in [Slots -> EnemyType]
        /\ \A e \in Slots : enemy'[e].there = enemy[e].there
    BY <1>3, EnemiesHurtType DEF Throw
  <2>2. inv' \in 0..Stock /\ used' \in Nat /\ inv' + used' = Stock
    BY <1>3, ItemSpentType DEF Throw, Performs
  <2>3. frame.pc = "Windup" /\ Done /\ UNCHANGED <<hp, status, battle>> /\ Performs("Throw")
    BY <1>3 DEF Throw, Performs
  <2>. QED  BY <1>1, <2>1, <2>2, <2>3, DoneType, PerformedKeeps
<1>4. CASE Steal
  <2>1. /\ frame.pc = "Windup" /\ Performs("Magic") /\ fighter' = Reverted
        /\ UNCHANGED <<hp, status, enemy, battle, inv, used>>
    BY <1>4 DEF Steal, Performs
  <2>2. /\ fighter' \in [Players -> FighterType]
        /\ fighter'[frame.at].state = "Wait" /\ fighter'[frame.at].meter = 0
        /\ fighter'[frame.at].target = All /\ fighter'[frame.at].type = "Pass"
        /\ \A p \in Players \ {frame.at} : fighter'[p] = fighter[p]
    BY <2>1, RevertedType DEF PlayerPoints
  <2>3. \A p \in Players :
           /\ \/ fighter'[p].state = fighter[p].state /\ (fighter[p].time = 0 => fighter'[p].time = 0)
              \/ p = frame.at /\ fighter'[p].state = "Wait" /\ fighter'[p].meter = 0
           /\ fighter'[p].type = "Coop" => fighter[p].type = "Coop"
           /\ \/ fighter'[p].target = All
              \/ fighter'[p].target = fighter[p].target /\ fighter'[p].type = fighter[p].type
    BY <2>2
  <2>. QED  BY <1>1, <2>1, <2>2, <2>3, PerformedKeeps
<1>5. CASE CoopMagic
  <2>1. /\ enemy' \in [Slots -> EnemyType]
        /\ \A e \in Slots : enemy'[e].there = enemy[e].there
    BY <1>5, EnemiesHurtType DEF CoopMagic
  <2>2. hp' \in [Players -> 0..MaxHP]
    <3>1. hp' \in [Players -> 1..MaxHP]
      BY <1>5 DEF CoopMagic
    <3>2. 1..MaxHP \subseteq 0..MaxHP
      BY BattleAssumption
    <3>. QED  BY <3>1, <3>2
  <2>3. ASSUME NEW p \in Players
        PROVE  /\ fighter'[p] \in FighterType
               /\ fighter'[p].state = fighter[p].state /\ fighter'[p].time = fighter[p].time
               /\ fighter'[p].type = fighter[p].type
               /\ fighter'[p].target = All \/ fighter'[p].target = fighter[p].target
    <3>. DEFINE f == fighter[p]
                target == IF p = frame.at THEN All ELSE f.target
    <3>1. f \in FighterType /\ fighter'[p] = [f EXCEPT !.meter = 0, !.target = target]
      BY <1>1, <1>5 DEF CoopMagic
    <3>2. 0 \in 0..MaxMeter /\ target \in Slots \cup {All} /\ (target = All \/ target = f.target)
      BY <3>1, BattleAssumption DEF FighterType
    <3>. HIDE DEF f, target
    <3>3. fighter'[p] \in FighterType /\ fighter'[p].target = target
      BY <3>1, <3>2 DEF FighterType
    <3>4. fighter'[p].state = f.state /\ fighter'[p].time = f.time /\ fighter'[p].type = f.type
      BY <3>1, <3>2 DEF FighterType
    <3>. QED  BY <3>2, <3>3, <3>4 DEF f
  <2>4. fighter' \in [Players -> FighterType]
    <3>1. fighter' = [p \in Players |-> fighter'[p]]
      BY <1>5 DEF CoopMagic
    <3>. QED  BY <2>3, <3>1
  <2>5. Performs("Coop") /\ UNCHANGED <<status, battle, inv, used>>
    BY <1>5 DEF CoopMagic
  <2>. QED  BY <1>1, <2>1, <2>2, <2>3, <2>4, <2>5, PerformedKeeps
<1>6. CASE AttackMate
  <2>1. hp' \in [Players -> 0..MaxHP]
    <3>1. PICK q \in Players \ {frame.at} : \E left \in 0..hp[q] - 1 :
            Alive(q) /\ hp' = [hp EXCEPT ![q] = left]
      BY <1>6 DEF AttackMate
    <3>2. PICK left \in 0..hp[q] - 1 : hp' = [hp EXCEPT ![q] = left]
      BY <3>1
    <3>3. left \in 0..MaxHP
      BY <1>1, <3>1, <3>2, BattleAssumption
    <3>. QED  BY <1>1, <3>2, <3>3
  <2>2. frame.pc = "Windup" /\ Done /\ UNCHANGED <<status, enemy, battle, inv, used>>
        /\ Performs("AttackMate")
    BY <1>6 DEF AttackMate, Performs
  <2>. QED  BY <1>1, <2>1, <2>2, DoneType, PerformedKeeps
<1>7. CASE Flee
  <2>1. battle' \in BattleRecord /\ battle'.cleared = battle.cleared /\ battle'.last = battle.last
    BY <1>1, <1>7 DEF Flee, BattleRecord, Results
  <2>2. frame.pc = "Windup" /\ Done /\ UNCHANGED <<hp, status, enemy, inv, used>> /\ Performs("Flee")
    BY <1>7 DEF Flee, Performs
  <2>. QED  BY <1>1, <2>1, <2>2, DoneType, PerformedKeeps
<1>8. CASE Pass
  <2>1. /\ frame.pc = "Windup" /\ Done /\ UNCHANGED <<hp, status, enemy, battle, inv, used>>
        /\ Performs("Pass")
    BY <1>8 DEF Pass, Performs
  <2>. QED  BY <1>1, <2>1, DoneType, PerformedKeeps
<1>9. CASE UseItem
  <2>1. inv' \in 0..Stock /\ used' \in Nat /\ inv' + used' = Stock
    BY <1>9, ItemSpentType DEF UseItem, Performs
  <2>2. hp' \in [Players -> 0..MaxHP] /\ status' \in [Players -> SUBSET Statuses]
    <3>1. CASE UNCHANGED <<hp, status>>
      BY <1>1, <3>1
    <3>2. CASE Helped
      <4>1. MaxHP \in 0..MaxHP /\ "Puppet" \in Statuses
        BY BattleAssumption DEF Statuses
      <4>. QED  BY <1>1, <3>2, <4>1 DEF Helped
    <3>. QED  BY <1>9, <3>1, <3>2 DEF UseItem
  <2>3. battle' \in BattleRecord /\ battle'.cleared = battle.cleared /\ battle'.last = battle.last
    <3>1. CASE UNCHANGED battle
      BY <1>1, <3>1
    <3>2. CASE battle' = [battle EXCEPT !.hiding = HideTime]
      BY <1>1, <3>2, HideAssumption DEF BattleRecord
    <3>. QED  BY <1>9, <3>1, <3>2 DEF UseItem
  <2>4. frame.pc = "Windup" /\ Done /\ UNCHANGED enemy /\ Performs("Use")
    BY <1>9 DEF UseItem, Performs
  <2>. QED  BY <1>1, <2>1, <2>2, <2>3, <2>4, DoneType, PerformedKeeps
<1>. QED  BY <1>2, <1>3, <1>4, <1>5, <1>6, <1>7, <1>8, <1>9

\* The fallen disappear behind a player's action, before or after he is back
\* in kFighterWait.
LEMMA CheckedKeeps ==
  ASSUME IInv, frame.pc = "Recover", PAL_BattlePostActionCheck,
         UNCHANGED <<hp, status, queue, inv, used>>,
         frame' \in FrameRecord, frame'.at = frame.at,
         \/ fighter' = fighter /\ frame'.pc = "Recover"
         \/ fighter' = Reverted /\ frame'.pc = "Fade"
  PROVE  IInv'
<1>1. /\ frame.at \in Players /\ (Open => ui.cur # frame.at) /\ 0 < Full
      /\ fighter \in [Players -> FighterType]
      /\ fighter[frame.at].state = "Act" \/ Ending(frame.at)
  BY BattleAssumption DEF IInv, FrameType, TypeOK, AtActs, PlayerPoints, EndPoints
<1>2. /\ battle' \in BattleRecord /\ battle'.last = battle.last /\ MenuAfter /\ ui' \in UiRecord
      /\ enemy' \in [Slots -> EnemyType]
      /\ \A e \in Slots : enemy'[e].there => enemy[e].there
      /\ \A e \in Enemies : enemy'[e].there => enemy'[e].hp > 0
      /\ battle'.cleared \/ \E e \in Enemies : enemy'[e].there
  BY PostActionCheck DEF IInv
<1>3. /\ fighter' \in [Players -> FighterType]
      /\ \A p \in Players \ {frame.at} : fighter'[p] = fighter[p]
      /\ \/ fighter'[frame.at] = fighter[frame.at] /\ frame'.pc = "Recover"
         \/ /\ fighter'[frame.at].state = "Wait" /\ fighter'[frame.at].meter = 0 /\ frame'.pc = "Fade"
            /\ fighter'[frame.at].target = All /\ fighter'[frame.at].type = "Pass"
  BY <1>1, RevertedType DEF PlayerPoints, EndPoints
<1>4. Command' /\ queue' \in Seq(Players)
  <2>1. \A p \in Players : Turn(fighter, frame, p) => Turn(fighter', frame', p)
    BY <1>1, <1>3 DEF Turn, EndPoints
  <2>2. \A p \in Players :
          /\ fighter'[p].state \in {fighter[p].state, "Wait"}
          /\ fighter'[p].state = "Act" /\ fighter'[p].type = "Coop" => fighter[p].type = "Coop"
    BY <1>3
  <2>. QED  BY <1>2, <2>1, <2>2, CommandStays DEF IInv
<1>5. TypeOK'
  BY <1>2, <1>3, <1>4 DEF IInv, TypeOK, BattleRecord, UiRecord
<1>6. AtActs'
  <2>1. Open' => Open /\ ui' = ui
    BY <1>2, StartType DEF MenuAfter, Open
  <2>. QED  BY <1>1, <1>3, <2>1 DEF AtActs, Ending
<1>7. Aims'
  BY <1>2, <1>3, AimsStay DEF IInv, MenuAfter
<1>8. FrameType' /\ MovedInv' /\ EnemyHasTarget' /\ TargetStands' /\ ItemReady'
  BY <1>1 DEF FrameType, MovedInv, EnemyHasTarget, TargetStands, ItemReady,
              EnemyPoints, PlayerPoints, EndPoints
<1>9. CleanBehind'
  BY <1>2, CleanStays DEF IInv
<1>10. StandingInv' /\ ItemsConserved'
  BY <1>2 DEF IInv, StandingInv, ItemsConserved, Enemies
<1>. QED  BY <1>4, <1>5, <1>6, <1>7, <1>8, <1>9, <1>10 DEF IInv

\* The check in the middle of a cooperative magic.
LEMMA CoopFadesStep ==
  ASSUME IInv, CoopFades
  PROVE  IInv'
<1>1. /\ frame.pc = "Recover" /\ PAL_BattlePostActionCheck
      /\ UNCHANGED <<hp, status, fighter, queue, frame, inv, used>>
  BY DEF CoopFades
<1>2. frame \in FrameRecord
  BY DEF IInv, FrameType
<1>. QED  BY <1>1, <1>2, CheckedKeeps

\* Back to waiting, and the check.
LEMMA PlayerCheckedStep ==
  ASSUME IInv, PlayerChecked
  PROVE  IInv'
<1>1. /\ frame.pc = "Recover" /\ PAL_BattlePostActionCheck /\ fighter' = Reverted
      /\ frame' = [frame EXCEPT !.pc = "Fade"] /\ UNCHANGED <<hp, status, queue, inv, used>>
  BY DEF PlayerChecked
<1>2. frame \in FrameRecord
  BY DEF IInv, FrameType
<1>3. frame' \in FrameRecord /\ frame'.pc = "Fade" /\ frame'.at = frame.at
  BY <1>1, <1>2 DEF FrameRecord, PlayerPoints, EndPoints
<1>. QED  BY <1>1, <1>3, CheckedKeeps

\* His poison.
LEMMA PlayerPoisonedStep ==
  ASSUME IInv, PlayerPoisoned
  PROVE  IInv'
<1>1. /\ frame.pc = "Fade" /\ frame' = [frame EXCEPT !.pc = "Poisoned"]
      /\ UNCHANGED <<status, fighter, queue, enemy, ui, battle, inv, used>>
      /\ \E left \in 0..hp[frame.at] : hp' = [hp EXCEPT ![frame.at] = left]
  BY DEF PlayerPoisoned
<1>2. frame \in FrameRecord /\ frame.at \in Players /\ hp \in [Players -> 0..MaxHP]
  BY <1>1 DEF IInv, FrameType, TypeOK, PlayerPoints, EndPoints
<1>3. hp' \in [Players -> 0..MaxHP]
  <2>1. PICK left \in 0..hp[frame.at] : hp' = [hp EXCEPT ![frame.at] = left]
    BY <1>1
  <2>2. left \in 0..MaxHP
    BY <1>2, <2>1, BattleAssumption
  <2>. QED  BY <1>2, <2>1, <2>2
<1>4. frame' \in FrameRecord /\ frame'.pc = "Poisoned" /\ frame'.at = frame.at
  BY <1>1, <1>2 DEF FrameRecord, PlayerPoints, EndPoints
<1>5. TypeOK'
  BY <1>1, <1>3 DEF IInv, TypeOK
<1>6. Command'
  <2>1. \A p \in Players : Turn(fighter, frame, p) => Turn(fighter', frame', p)
    BY <1>1, <1>4 DEF Turn, EndPoints
  <2>. QED  BY <1>1, <2>1, CommandStays DEF IInv, MenuAfter
<1>7. AtActs'
  BY <1>1, <1>4 DEF IInv, AtActs, Ending, Open, PlayerPoints, EndPoints
<1>8. Aims'
  BY <1>1, AimsStay DEF IInv
<1>9. FrameType' /\ MovedInv' /\ EnemyHasTarget' /\ TargetStands' /\ ItemReady'
  BY <1>2, <1>4 DEF FrameType, MovedInv, EnemyHasTarget, TargetStands, ItemReady,
                    EnemyPoints, PlayerPoints, EndPoints
<1>10. StandingInv' /\ CleanBehind' /\ ItemsConserved'
  BY <1>1, <1>4 DEF IInv, StandingInv, CleanBehind, ItemsConserved, Enemies
<1>. QED  BY <1>5, <1>6, <1>7, <1>8, <1>9, <1>10 DEF IInv

\* His turn is over, and StartFrame takes his number back.
LEMMA PlayerEndsStep ==
  ASSUME IInv, PlayerEnds
  PROVE  IInv'
<1>. DEFINE p == frame.at
            g == [fighter[p] EXCEPT !.meter = 0]
<1>1. /\ frame.pc = "Poisoned" /\ frame' = NewFrame
      /\ fighter' = [fighter EXCEPT ![p] = g] /\ queue' = Without(p)
      /\ UNCHANGED <<hp, enemy, ui, battle, inv, used>>
      /\ \E kept \in SUBSET status[p] : status' = [status EXCEPT ![p] = kept]
  BY DEF PlayerEnds
<1>2. /\ p \in Players /\ status \in [Players -> SUBSET Statuses]
      /\ fighter \in [Players -> FighterType]
  BY <1>1 DEF IInv, FrameType, TypeOK, PlayerPoints, EndPoints
<1>3. status' \in [Players -> SUBSET Statuses]
  <2>1. PICK kept \in SUBSET status[p] : status' = [status EXCEPT ![p] = kept]
    BY <1>1
  <2>2. kept \in SUBSET Statuses
    BY <1>2, <2>1
  <2>. QED  BY <1>2, <2>1, <2>2
<1>4. /\ g \in FighterType /\ g.state = fighter[p].state /\ g.type = fighter[p].type
      /\ g.target = fighter[p].target
  <2>. DEFINE f == fighter[p]
  <2>1. f \in FighterType /\ 0 \in 0..MaxMeter
    BY <1>2, BattleAssumption
  <2>. HIDE DEF f
  <2>2. g \in FighterType
    BY <2>1 DEF FighterType, f
  <2>3. g.state = f.state /\ g.type = f.type /\ g.target = f.target
    BY <2>1 DEF FighterType, f
  <2>. QED  BY <2>2, <2>3 DEF f
<1>. HIDE DEF g
<1>5. /\ fighter' \in [Players -> FighterType] /\ fighter'[p] = g
      /\ \A q \in Players \ {p} : fighter'[q] = fighter[q]
  BY <1>1, <1>2, <1>4
<1>6. Command' /\ queue' \in Seq(Players)
  <2>1. \A q \in Players : Turn(fighter, frame, q) => Turn(fighter', frame', q) \/ q = p
    BY <1>5 DEF Turn
  <2>. QED  BY <1>1, <1>4, <1>5, <2>1, CommandStays DEF IInv, MenuAfter
<1>7. TypeOK'
  BY <1>1, <1>3, <1>5, <1>6 DEF IInv, TypeOK
<1>8. Aims'
  BY <1>1, <1>4, <1>5, AimsStay DEF IInv
<1>9. NewFrame \in FrameRecord /\ NewFrame.pc = "Top"
  BY DEF NewFrame, FrameRecord
<1>10. FrameType' /\ AtActs' /\ MovedInv' /\ EnemyHasTarget' /\ TargetStands' /\ ItemReady'
  BY <1>1, <1>9 DEF FrameType, AtActs, MovedInv, EnemyHasTarget, TargetStands, ItemReady,
                    EnemyPoints, PlayerPoints, EndPoints
<1>11. StandingInv' /\ CleanBehind' /\ ItemsConserved'
  BY <1>1, <1>9 DEF IInv, StandingInv, CleanBehind, ItemsConserved, Enemies
<1>. QED  BY <1>6, <1>7, <1>8, <1>10, <1>11 DEF IInv

----------------------------------------------------------------------------
(* The theorems.                                                           *)

\* The first battle begins as the later ones do.
LEMMA InitInvariant ==
  ASSUME Init
  PROVE  IInv
<1>1. /\ hp = [p \in Players |-> MaxHP] /\ status = [p \in Players |-> {}]
      /\ fighter = StartFighters /\ queue = <<>> /\ ui = NoMenu /\ frame = NewFrame
      /\ inv = Stock /\ used = 0
  BY DEF Init
<1>. DEFINE none == [e \in Slots |-> Gone]
<1>2. PICK team \in Teams : enemy = StartEnemies(none, team) /\ battle = StartBattle(team.size)
  BY DEF Init
<1>3. none \in [Slots -> EnemyType]
  BY BattleAssumption DEF Gone, EnemyType
<1>. HIDE DEF none
<1>4. /\ enemy \in [Slots -> EnemyType] /\ battle \in BattleRecord /\ ~battle.cleared
      /\ \A e \in 0..battle.last : enemy[e].there => enemy[e].hp > 0
      /\ \E e \in 0..battle.last : enemy[e].there
      /\ battle.last + 1 \in Slots => ~enemy[battle.last + 1].there
  <2>1. /\ battle.last = team.size - 1 /\ team.size \in Nat
        /\ enemy \in [Slots -> EnemyType] /\ battle \in BattleRecord /\ ~battle.cleared
        /\ \A e \in 0..team.size - 1 : enemy[e].there => enemy[e].hp > 0
        /\ \E e \in 0..team.size - 1 : enemy[e].there
        /\ team.size \in Slots => ~enemy[team.size].there
    BY <1>2, <1>3, StartTeam
  <2>2. battle.last + 1 = team.size
    BY <2>1
  <2>. QED  BY <2>1, <2>2
<1>5. hp \in [Players -> 0..MaxHP] /\ status \in [Players -> SUBSET Statuses]
      /\ inv \in 0..Stock /\ used \in Nat /\ inv + used = Stock
  BY <1>1, BattleAssumption
<1>6. queue \in Seq(Players) /\ DOMAIN queue = {}
  BY <1>1
<1>7. TypeOK
  BY <1>1, <1>4, <1>5, <1>6, StartType DEF TypeOK, BattleRecord, UiRecord
<1>8. frame \in FrameRecord /\ frame.pc = "Top"
  BY <1>1 DEF NewFrame, FrameRecord
<1>9. Command
  BY <1>1, <1>4, <1>6, StartType DEF Command, OneCommand, ClearedShut, CoopAlone, QueueDue, Open
<1>10. FrameType /\ AtActs /\ MovedInv /\ EnemyHasTarget /\ TargetStands /\ ItemReady
  BY <1>8 DEF FrameType, AtActs, MovedInv, EnemyHasTarget, TargetStands, ItemReady,
              EnemyPoints, PlayerPoints, EndPoints
<1>11. Aims
  BY <1>1, <1>7, StartType, TargetsType DEF Aims, TargetsKnown, TypeOK
<1>12. StandingInv /\ CleanBehind /\ ItemsConserved
  BY <1>4, <1>5, <1>8 DEF StandingInv, CleanBehind, ItemsConserved, Enemies
<1>. QED  BY <1>7, <1>9, <1>10, <1>11, <1>12 DEF IInv

\* Nothing happens.
LEMMA Stutter ==
  ASSUME IInv, UNCHANGED vars
  PROVE  IInv'
<1>1. UNCHANGED <<hp, status, fighter, queue, enemy, ui, battle, frame, inv, used>>
  BY DEF vars
<1>2. /\ TypeOK' /\ FrameType' /\ AtActs' /\ MovedInv' /\ EnemyHasTarget' /\ StandingInv'
      /\ CleanBehind' /\ TargetStands' /\ ItemsConserved' /\ ItemReady'
  BY <1>1 DEF IInv, TypeOK, FrameType, AtActs, Ending, Open, MovedInv, EnemyHasTarget, StandingInv,
              CleanBehind, TargetStands, ItemsConserved, ItemReady, Alive, Standing, Enemies, Outside
<1>3. \A p \in Players : Turn(fighter, frame, p) => Turn(fighter', frame', p)
  BY <1>1 DEF Turn
<1>4. Command'
  BY <1>1, <1>3, CommandStays DEF IInv, MenuAfter
<1>5. Aims'
  BY <1>1, AimsStay DEF IInv
<1>. QED  BY <1>2, <1>4, <1>5 DEF IInv

\* Every step keeps the invariant.
LEMMA StepInvariant ==
  ASSUME IInv, [Next]_vars
  PROVE  IInv'
<1>1. CASE NextBattle \/ Over \/ BeginFrame \/ Unhidden
  BY <1>1, NextBattleStep, OverStep, BeginFrameStep, UnhiddenStep
<1>2. CASE EnemyWaits \/ EnemyReady \/ EnemyActs
  BY <1>2, EnemyWaitsStep, EnemyReadyStep, EnemyActsStep
<1>3. CASE EnemyPicks \/ EnemyStrikes
  BY <1>3, EnemyPicksStep, EnemyStrikesStep
<1>4. CASE EnemyPoisoned \/ EnemyChecked \/ EnemyEnds
  BY <1>4, EnemyPoisonedStep, EnemyCheckedStep, EnemyEndsStep
<1>5. CASE FrameUI \/ DelayUI \/ PlayersCharge \/ PlayerValidates
  BY <1>5, FrameUIStep, DelayUIStep, PlayersChargeStep, PlayerValidatesStep
<1>6. CASE Attack \/ Steal \/ Throw \/ CoopMagic \/ AttackMate \/ Flee \/ Pass \/ UseItem
  BY <1>6, PlayerActsStep
<1>7. CASE CoopFades \/ PlayerChecked \/ PlayerPoisoned \/ PlayerEnds
  BY <1>7, CoopFadesStep, PlayerCheckedStep, PlayerPoisonedStep, PlayerEndsStep
<1>8. CASE UNCHANGED vars
  BY <1>8, Stutter
<1>. QED  BY <1>1, <1>2, <1>3, <1>4, <1>5, <1>6, <1>7, <1>8 DEF Next, FrameStep

\* The step MeterKept speaks of.
MeterStep ==
  \A p \in Players :
    fighter[p].meter >= Full /\ Alive(p) /\ fighter'[p].meter < Full
      => \/ frame.pc \in {"Windup", "Recover"} /\ frame.at = p
         \/ frame.pc = "Windup" /\ fighter[frame.at].type = "Coop"
         \/ battle.result # "OnGoing"

\* No step but those named costs a living player his full meter.
LEMMA StepKeepsMeters ==
  ASSUME IInv, [Next]_vars
  PROVE  MeterStep
<1>1. /\ \A p \in Players : fighter[p].meter \in Nat /\ fighter[p] \in FighterType
      /\ fighter \in [Players -> FighterType] /\ Full \in Nat
  BY BattleAssumption DEF IInv, TypeOK, FighterType
<1>2. \A p \in Players : fighter'[p].meter \in Nat
  BY StepInvariant, BattleAssumption DEF IInv, TypeOK, FighterType
<1>3. SUFFICES \/ UNCHANGED fighter
               \/ \A p \in Players : fighter[p].meter >= Full /\ Alive(p) => fighter'[p].meter >= Full
               \/ MeterStep
  <2>1. CASE UNCHANGED fighter
    BY <1>1, <2>1 DEF MeterStep
  <2>2. CASE \A p \in Players : fighter[p].meter >= Full /\ Alive(p) => fighter'[p].meter >= Full
    BY <1>1, <1>2, <2>2 DEF MeterStep
  <2>. QED  BY <1>3, <2>1, <2>2
<1>4. CASE NextBattle
  BY <1>4 DEF NextBattle, MeterStep
<1>5. CASE Over \/ BeginFrame \/ Unhidden
  BY <1>5 DEF Over, BeginFrame, Unhidden
<1>6. CASE EnemyWaits \/ EnemyReady \/ EnemyActs \/ EnemyPicks \/ EnemyStrikes
  BY <1>6 DEF EnemyWaits, EnemyReady, EnemyActs, EnemyPicks, EnemyStrikes
<1>7. CASE EnemyPoisoned \/ EnemyChecked \/ EnemyEnds \/ CoopFades \/ PlayerPoisoned
  BY <1>7 DEF EnemyPoisoned, EnemyChecked, EnemyEnds, CoopFades, PlayerPoisoned
<1>8. CASE FrameUI \/ DelayUI
  <2>1. MenuMay /\ PAL_BattleUIUpdate
    BY <1>8 DEF FrameUI, DelayUI, IInv, MenuMay
  <2>2. MenuKept
    BY <2>1, MenuStep
  <2>. QED  BY <2>2 DEF MenuKept
<1>9. CASE PlayersCharge
  <2>1. \A p \in Players : fighter'[p] = PlayerCharged(p)
    BY <1>9 DEF PlayersCharge
  <2>. QED  BY <2>1, PlayerChargedType DEF IInv, Skipped
<1>10. CASE PlayerValidates
  <2>1. PICK type, target : fighter' = [fighter EXCEPT ![frame.at] = [@ EXCEPT !.type = type, !.target = target]]
    BY <1>10 DEF PlayerValidates
  <2>2. ASSUME NEW p \in Players  PROVE fighter'[p].meter = fighter[p].meter
    <3>. DEFINE f == fighter[p]
                g == [f EXCEPT !.type = type, !.target = target]
    <3>1. f \in FighterType /\ fighter'[p] \in {f, g}
      BY <1>1, <2>1
    <3>. HIDE DEF f
    <3>2. g.meter = f.meter
      BY <3>1 DEF FighterType
    <3>. QED  BY <3>1, <3>2 DEF f
  <2>. QED  BY <2>2
<1>11. CASE CoopMagic
  BY <1>11 DEF CoopMagic, Performs, MeterStep
<1>12. CASE Attack \/ Throw \/ AttackMate \/ Flee \/ Pass \/ UseItem
  <2>1. frame.pc = "Windup" /\ Done
    BY <1>12 DEF Attack, Throw, AttackMate, Flee, Pass, UseItem, Performs
  <2>. QED  BY <2>1, DoneType
<1>13. CASE Steal \/ PlayerChecked
  <2>1. frame.pc \in {"Windup", "Recover"} /\ fighter' = Reverted
    BY <1>13 DEF Steal, PlayerChecked, Performs
  <2>2. \A p \in Players \ {frame.at} : fighter'[p] = fighter[p]
    BY <2>1, RevertedType DEF PlayerPoints, EndPoints
  <2>. QED  BY <1>1, <2>1, <2>2 DEF MeterStep
<1>14. CASE PlayerEnds
  <2>1. /\ frame.pc = "Poisoned" /\ frame.at \in Players /\ fighter[frame.at].meter < Full
        /\ \A p \in Players \ {frame.at} : fighter'[p] = fighter[p]
    BY <1>1, <1>14 DEF PlayerEnds, IInv, AtActs, Ending, FrameType, PlayerPoints, EndPoints
  <2>. QED  BY <1>1, <2>1 DEF MeterStep
<1>15. CASE UNCHANGED vars
  BY <1>15 DEF vars
<1>. QED
  BY <1>4, <1>5, <1>6, <1>7, <1>8, <1>9, <1>10, <1>11, <1>12, <1>13, <1>14, <1>15 DEF Next, FrameStep

\* Every reachable state satisfies the invariant.
THEOREM Invariance == Spec => []IInv
<1>. QED  BY InitInvariant, StepInvariant, PTL DEF Spec

\* Every variable of a battle has its type.
THEOREM TypeCorrect == Spec => []TypeOK
<1>1. IInv => TypeOK
  BY DEF IInv
<1>. QED  BY <1>1, Invariance, PTL

\* Nobody but the player whose menu is open is asked for a command, and nobody
\* whose action is pending is asked for another one.
THEOREM OneCommandAtATime == Spec => []OneCommand
<1>1. IInv => OneCommand
  BY DEF IInv, Command
<1>. QED  BY <1>1, Invariance, PTL

\* A cooperative magic holds everybody else back.
THEOREM CoopHoldsBack == Spec => []CoopAlone
<1>1. IInv => CoopAlone
  BY DEF IInv, Command
<1>. QED  BY <1>1, Invariance, PTL

\* The turn order holds every player at most once: those who are due, and the
\* one whose action ends, though the menu moves on until his number is taken.
THEOREM QueueIsDue == Spec => []QueueDue
<1>1. IInv => QueueDue
  BY DEF IInv, Command
<1>. QED  BY <1>1, Invariance, PTL

\* The enemy's draw of a target ends.
THEOREM DrawEnds == Spec => []EnemyHasTarget
<1>1. IInv => EnemyHasTarget
  BY DEF IInv
<1>. QED  BY <1>1, Invariance, PTL

\* An action meets an enemy of the team that stands, the attack that kept an
\* index from outside the team excepted, and the assertion on it holds.
THEOREM ActionsMeetTargets == Spec => []TargetStands
<1>1. IInv => TargetStands
  BY DEF IInv
<1>. QED  BY <1>1, Invariance, PTL

\* Every effect of an item cost a piece.
THEOREM EffectsCostPieces == Spec => []ItemsConserved
<1>1. IInv => ItemsConserved
  BY DEF IInv
<1>. QED  BY <1>1, Invariance, PTL

\* A full meter stays full until its player acts.
THEOREM FullMetersStay == Spec => MeterKept
<1>1. IInv /\ [Next]_vars => [MeterStep]_vars
  BY StepKeepsMeters
<1>. QED  BY <1>1, Invariance, PTL DEF Spec, MeterKept, MeterStep

=============================================================================
