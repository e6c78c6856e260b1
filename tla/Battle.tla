------------------------------- MODULE Battle -------------------------------
(* One battle after the other in the PAL game: PAL_BattleMain calls          *)
(* PAL_BattleStartFrame once per video frame (battle/battle.c,               *)
(* battle/fight.c).  A frame lets the enemies act, updates the menu, lets    *)
(* the players' meters charge and performs at most one action; frame.pc      *)
(* tells how far it has come.  Everything runs in one thread, but while an   *)
(* action is shown PAL_BattleDelay and PAL_BattleFadeScene update the menu   *)
(* (DelayUI).                                                                *)
EXTENDS BattleUI

CONSTANT HideTime      \* frames a hiding item lasts

ASSUME HideAssumption == HideTime \in Nat

Results == {"OnGoing", "Won", "Lost", "Fleed", "Terminated"}
Gone == [there |-> FALSE, hp |-> 0, state |-> "Wait", meter |-> 0,
         dual |-> FALSE, first |-> FALSE, turnStart |-> FALSE]
NewFrame == [pc |-> "Top", at |-> 0, moved |-> FALSE, only |-> FALSE, target |-> All]

\* PAL_StartBattle: players at 15 and enemies at 50 of 100.
StartFighters == [p \in Players |-> Idle((Full * 15) \div 100)]
StartBattle(size) == [result |-> "OnGoing", cleared |-> FALSE, hiding |-> 0, last |-> size - 1]

\* A team has a size and may leave slots below it empty; somebody is in it.
Teams == {team \in [size : 1..NSlots, present : SUBSET Slots] :
            team.present # {} /\ \A e \in team.present : e < team.size}

\* The loop clears the slots of the team and the one it stops at; the slots
\* behind keep what an earlier battle left in them.
StartEnemies(slots, team) ==
  [e \in Slots |->
     IF e \in team.present THEN [Gone EXCEPT !.there = TRUE, !.hp = EnemyHP, !.meter = Full \div 2]
     ELSE IF e <= team.size THEN Gone ELSE slots[e]]

Init ==
  /\ hp = [p \in Players |-> MaxHP] /\ status = [p \in Players |-> {}]
  /\ fighter = StartFighters /\ queue = <<>>
  /\ \E team \in Teams : /\ enemy = StartEnemies([e \in Slots |-> Gone], team)
                         /\ battle = StartBattle(team.size)
  /\ ui = NoMenu /\ frame = NewFrame
  /\ inv = Stock /\ used = 0

\* The battle is over; the next one brings the dead back with one hit point,
\* and a victory lets everybody recover.
NextBattle ==
  /\ frame.pc = "Top" /\ battle.result # "OnGoing"
  /\ \E full \in BOOLEAN :
       /\ full => battle.result = "Won"
       /\ hp' = [p \in Players |-> IF full THEN MaxHP ELSE IF Alive(p) THEN hp[p] ELSE 1]
  /\ status' = [p \in Players |-> {}]
  /\ fighter' = StartFighters /\ queue' = <<>>
  /\ \E team \in Teams : /\ enemy' = StartEnemies(enemy, team)
                         /\ battle' = StartBattle(team.size)
  /\ ui' = NoMenu
  /\ UNCHANGED <<frame, inv, used>>

(***************************************************************************)
(* The start of a frame.                                                   *)
(***************************************************************************)
Over ==
  /\ frame.pc = "Top" /\ battle.result = "OnGoing"
  /\ \/ battle.cleared /\ battle' = [battle EXCEPT !.result = "Won"]
     \/ ~battle.cleared /\ (\A p \in Players : Skipped(p))
          /\ battle' = [battle EXCEPT !.result = "Lost"]
  /\ UNCHANGED <<hp, status, fighter, queue, enemy, ui, frame, inv, used>>

\* What a script of an enemy may do: nothing here, hurt, or end the battle.
ScriptEffect(b) ==
  \/ hp' = hp /\ battle' = b
  \/ battle' = b /\ \E p \in Players : Alive(p) /\ hp' = [hp EXCEPT ![p] = @ - 1]
  \/ hp' = hp /\ battle' = [b EXCEPT !.result = "Terminated"]

\* The enemies whose turn starts run their scripts, which count as a move.
TurnsStart(b, only) ==
  LET turn == {e \in Enemies : enemy[e].there /\ enemy[e].turnStart}
  IN  /\ frame' = [NewFrame EXCEPT !.pc = "Enemy", !.moved = turn # {}, !.only = only]
      /\ enemy' = [e \in Slots |-> IF e \in turn THEN [enemy[e] EXCEPT !.turnStart = FALSE]
                                   ELSE enemy[e]]
      /\ IF turn = {} THEN hp' = hp /\ battle' = b ELSE ScriptEffect(b)

\* fOnlyPuppet is computed once.  When the party stops hiding the scene fades,
\* and the menu moves meanwhile.
BeginFrame ==
  LET b    == [battle EXCEPT !.hiding = IF @ > 0 /\ ~Frozen THEN @ - 1 ELSE @]
      only == \A p \in Players : ~Alive(p)
  IN  /\ frame.pc = "Top" /\ battle.result = "OnGoing" /\ ~battle.cleared
      /\ \E p \in Players : ~Skipped(p)
      /\ IF battle.hiding > 0 /\ b.hiding = 0
           THEN /\ frame' = [NewFrame EXCEPT !.pc = "Unhide", !.only = only]
                /\ battle' = b /\ UNCHANGED <<hp, enemy>>
           ELSE TurnsStart(b, only)
      /\ UNCHANGED <<status, fighter, queue, ui, inv, used>>

Unhidden ==
  /\ frame.pc = "Unhide" /\ TurnsStart(battle, frame.only)
  /\ UNCHANGED <<status, fighter, queue, ui, inv, used>>

(***************************************************************************)
(* The enemies.                                                            *)
(***************************************************************************)
Enemy == frame.at
NextEnemy == IF frame.at = battle.last THEN [NewFrame EXCEPT !.pc = "UI", !.moved = frame.moved]
             ELSE [frame EXCEPT !.pc = "Enemy", !.at = @ + 1, !.target = All]

\* Mutant: the meter goes on filling while the party hides.
EnemyCharged_Fills(e) ==
  LET meter == e.meter + EnemySpeed
  IN  IF Frozen THEN e
      ELSE IF meter > Full /\ battle.hiding = 0 THEN [e EXCEPT !.meter = 0, !.state = "Com"]
      ELSE [e EXCEPT !.meter = meter]

\* A meter is only read in kFighterWait.
EnemyCharged(e) ==
  LET meter == e.meter + EnemySpeed
  IN  IF Frozen THEN e
      ELSE IF meter <= Full THEN [e EXCEPT !.meter = meter]
      ELSE IF battle.hiding = 0 THEN [e EXCEPT !.meter = 0, !.state = "Com"]
      ELSE [e EXCEPT !.meter = 0]

\* Mutant: an enemy acts in a frame in which something else moved already.
MayAct_Crowded(e) == enemy[e].state = "Act" /\ (~Frozen \/ enemy[e].dual) /\ ~frame.only

MayAct(e) == enemy[e].state = "Act" /\ ~frame.moved /\ (~Frozen \/ enemy[e].dual) /\ ~frame.only

EnemyWaits ==
  /\ frame.pc = "Enemy" /\ (~enemy[Enemy].there \/ (enemy[Enemy].state # "Com" /\ ~MayAct(Enemy)))
  /\ enemy' = IF enemy[Enemy].there /\ enemy[Enemy].state = "Wait"
                THEN [enemy EXCEPT ![Enemy] = EnemyCharged(@)] ELSE enemy
  /\ frame' = NextEnemy
  /\ UNCHANGED <<hp, status, fighter, queue, ui, battle, inv, used>>

EnemyReady ==
  /\ frame.pc = "Enemy" /\ enemy[Enemy].there /\ enemy[Enemy].state = "Com"
  /\ enemy' = [enemy EXCEPT ![Enemy].state = "Act"]
  /\ frame' = [NextEnemy EXCEPT !.moved = TRUE]
  /\ ScriptEffect(battle)
  /\ UNCHANGED <<status, fighter, queue, ui, inv, used>>

EnemyActs ==
  /\ frame.pc = "Enemy" /\ enemy[Enemy].there /\ MayAct(Enemy)
  /\ \E dual \in BOOLEAN :
       /\ dual => ~enemy[Enemy].first /\ Enemy \in DualEnemies
       /\ enemy' = [enemy EXCEPT ![Enemy].dual = dual]
  /\ frame' = [frame EXCEPT !.pc = "Pick", !.moved = TRUE]
  /\ UNCHANGED <<hp, status, fighter, queue, ui, battle, inv, used>>

\* PAL_BattleEnemySelectTargetIndex draws until it finds a living player; an
\* enemy that is held or finds nobody for the party hides then does nothing.
EnemyPicks ==
  /\ frame.pc = "Pick"
  /\ \E p \in Players :
       /\ Alive(p)
       /\ \/ frame' = [frame EXCEPT !.pc = "EnemyEnd"]
          \/ battle.hiding = 0
               /\ \E target \in {p, All} :
                    frame' = [frame EXCEPT !.pc = "EnemyWindup", !.target = target]
  /\ UNCHANGED <<hp, status, fighter, queue, enemy, ui, battle, inv, used>>

\* Blows and magic: each player hit may defend; a magic may leave an ailment,
\* set before the damage is done.
EnemyStrikes ==
  LET hit == IF frame.target = All THEN {p \in Players : Alive(p)} ELSE {frame.target}
  IN  /\ frame.pc = "EnemyWindup"
      /\ hp' \in {h \in [Players -> 0..MaxHP] : \A p \in Players :
                     IF p \in hit THEN h[p] <= hp[p] ELSE h[p] = hp[p]}
      /\ \/ status' = status
         \/ \E p \in hit \cap Prone, a \in Ailments : status' = [status EXCEPT ![p] = @ \cup {a}]
      /\ frame' = [frame EXCEPT !.pc = "EnemyRecover", !.target = All]
      /\ UNCHANGED <<fighter, queue, enemy, ui, battle, inv, used>>

\* PAL_BattlePostActionCheck: enemies without health are gone.
Remaining == [e \in Slots |-> IF e \in Enemies /\ enemy[e].there /\ enemy[e].hp = 0
                                THEN Gone ELSE enemy[e]]
PAL_BattlePostActionCheck ==
  LET cleared == \A e \in Enemies : ~Remaining[e].there
  IN  /\ enemy' = Remaining
      /\ battle' = [battle EXCEPT !.cleared = @ \/ cleared]
      /\ IF cleared THEN ui' = NoMenu ELSE UNCHANGED ui

Acted  == frame.pc \in {"EnemyRecover", "EnemyEnd", "EnemyPoison"}
Fallen == \E e \in Enemies : enemy[e].there /\ enemy[e].hp = 0

\* Its poison, which spares an enemy that moves again.
EnemyPoisoned ==
  /\ frame.pc \in {"EnemyRecover", "EnemyEnd"} /\ ~enemy[Enemy].dual
  /\ \E left \in 0..enemy[Enemy].hp - 1 : enemy' = [enemy EXCEPT ![Enemy].hp = left]
  /\ frame' = [frame EXCEPT !.pc = "EnemyPoison"]
  /\ UNCHANGED <<hp, status, fighter, queue, ui, battle, inv, used>>

\* The scene only fades if somebody fell.
EnemyChecked ==
  /\ Acted /\ Fallen /\ PAL_BattlePostActionCheck
  /\ frame' = [frame EXCEPT !.pc = "EnemyFade"]
  /\ UNCHANGED <<hp, status, fighter, queue, inv, used>>

\* Back to waiting; of a slot that was cleared nothing is read any more.
EnemyEnds ==
  LET e == enemy[Enemy]
      after == IF e.dual THEN [e EXCEPT !.state = "Com", !.first = TRUE]
               ELSE [e EXCEPT !.state = "Wait", !.first = FALSE, !.turnStart = TRUE]
  IN  /\ (Acted /\ ~Fallen) \/ frame.pc = "EnemyFade"
      /\ enemy' = [enemy EXCEPT ![Enemy] = IF e.there THEN after ELSE e]
      /\ frame' = NextEnemy
      /\ UNCHANGED <<hp, status, fighter, queue, ui, battle, inv, used>>

(***************************************************************************)
(* The menu, once a frame and while an action is shown.                    *)
(***************************************************************************)
FrameUI ==
  /\ frame.pc = "UI" /\ PAL_BattleUIUpdate
  /\ frame' = [frame EXCEPT !.pc = "Players"]
  /\ UNCHANGED <<hp, status, enemy, battle, inv, used>>

\* PAL_BattleDelay, and the steps of PAL_BattleFadeScene.
DelayUI ==
  /\ frame.pc \in {"Unhide", "EnemyWindup", "EnemyRecover", "EnemyPoison", "EnemyFade",
                   "Windup", "Recover", "Fade", "Poisoned"}
  /\ PAL_BattleUIUpdate
  /\ UNCHANGED <<hp, status, enemy, battle, frame, inv, used>>

(***************************************************************************)
(* The players.                                                            *)
(***************************************************************************)
Acting(f, type) == [f EXCEPT !.type = type, !.target = All, !.time = 0]
PlayerCharged(p) ==
  LET f == fighter[p]
  IN  CASE Skipped(p) -> Idle(0)
        [] ~Skipped(p) /\ f.state = "Wait" -> [f EXCEPT !.meter = Charged(@)]
        [] ~Skipped(p) /\ f.state = "Com"  -> f
        [] ~Skipped(p) /\ f.state = "Act"  ->
             IF Asleep(p) THEN Acting(f, "Pass")
             ELSE IF Confused(p) THEN Acting(f, "AttackMate")
             ELSE [f EXCEPT !.time = IF Frozen \/ @ = 0 THEN @ ELSE @ - 1]

PlayersCharge ==
  LET able == {p \in Players : ~Skipped(p)}
      due  == {p \in able : fighter'[p].state = "Act" /\ fighter'[p].time = 0 /\ ~Queued(p)}
  IN  /\ frame.pc = "Players"
      /\ fighter' = [p \in Players |-> PlayerCharged(p)]
      /\ queue' = Kept(queue, able) \o Kept([i \in 1..NPlayers |-> i - 1], due)
      /\ frame' = IF frame.moved \/ queue' = <<>> THEN NewFrame
                  ELSE [NewFrame EXCEPT !.pc = "Perform", !.at = Head(queue'), !.moved = TRUE]
      /\ UNCHANGED <<hp, status, enemy, ui, battle, inv, used>>

(***************************************************************************)
(* PAL_BattlePlayerValidateAction: what the action has become by now.      *)
(***************************************************************************)
CoopPossible(p) ==
  \A q \in Players :
    /\ ~Dying(q) /\ ~Asleep(q) /\ ~Confused(q)
    /\ fighter[q].meter >= Full
    /\ fighter[q].state = "Act" => q = p

\* Mutant: a used up item is not noticed.
InStock_Always(pieces) == TRUE

InStock(pieces) == pieces # 0     \* PAL_GetItemAmount

\* An action against the enemies as it will be done: at its target, or for All
\* at everyone or at a target chosen now.
Aimed(type, target) ==
  {<<type, target>>} \cup
    (IF target = All THEN {type} \X PAL_BattleSelectAutoTarget ELSE {})

\* The attack an action falls back to keeps the target it had.
Validated(p) ==
  LET f == fighter[p]
      attack == {<<"Attack", f.target>>}
  IN  CASE f.type = "Magic" -> Aimed("Magic", f.target) \cup attack
        [] f.type = "Coop"  -> IF CoopPossible(p) THEN Aimed("Coop", f.target) ELSE attack
        [] f.type = "Throw" -> IF InStock(inv) THEN Aimed("Throw", f.target) ELSE attack
        [] f.type = "Use"   -> IF InStock(inv) THEN {<<"Use", All>>} ELSE {<<"Pass", All>>}
        \* Its target is whatever was selected last in the menu.
        [] f.type = "AttackMate" ->
             IF Confused(p) /\ \E q \in Players \ {p} : Alive(q) THEN {<<"AttackMate", All>>}
             ELSE {"Attack"} \X Targets("Attack")
        [] OTHER -> {<<f.type, f.target>>}

\* A weapon hits one enemy or all of them.
Swung(p, action) ==
  IF action[1] # "Attack" THEN {action}
  ELSE IF p \in AttackAll THEN {<<"Attack", All>>}
  ELSE IF action[2] = All THEN {"Attack"} \X PAL_BattleSelectAutoTarget ELSE {action}

\* Mutant: an enemy that is gone remains the target.
Retargeted_Not(action) == {action}

Retargeted(action) ==
  IF action[1] \in ToEnemy /\ action[2] # All /\ ~enemy[action[2]].there
    THEN {action[1]} \X PAL_BattleSelectAutoTarget ELSE {action}

\* The assertion that a new target was found is "Aborted".
PlayerValidates ==
  /\ frame.pc = "Perform"
  /\ \E action \in Validated(frame.at) : \E aimed \in Swung(frame.at, action) :
       \E final \in Retargeted(aimed) :
         /\ fighter' = [fighter EXCEPT ![frame.at] = [@ EXCEPT !.type = final[1], !.target = final[2]]]
         /\ frame' = [frame EXCEPT !.pc = IF final # aimed /\ final[2] = All THEN "Aborted"
                                         ELSE "Windup"]
  /\ UNCHANGED <<hp, status, queue, enemy, ui, battle, inv, used>>

(***************************************************************************)
(* PAL_BattlePlayerPerformAction, one action per type of command.          *)
(***************************************************************************)
Performs(type) ==
  /\ frame.pc = "Windup" /\ fighter[frame.at].type = type
  /\ frame' = [frame EXCEPT !.pc = "Recover"]
  /\ UNCHANGED <<queue, ui>>

\* Of an action that was performed only a cooperative magic is looked at again.
Done == fighter' = [fighter EXCEPT ![frame.at] = Acting(@, "Pass")]

\* Damage to the target, or to every enemy that is there.
EnemiesHurt ==
  LET target == fighter[frame.at].target
      hit == IF target = All THEN {e \in Enemies : enemy[e].there} ELSE {target}
  IN  \E h \in [hit -> 0..EnemyHP] :
        /\ \A e \in hit : h[e] <= enemy[e].hp
        /\ enemy' = [e \in Slots |-> IF e \in hit THEN [enemy[e] EXCEPT !.hp = h[e]] ELSE enemy[e]]

\* The piece is taken out of the inventory after its script ran, if it is there.
ItemSpent == inv' = (IF inv > 0 THEN inv - 1 ELSE 0) /\ used' = used + 1

Attack ==
  /\ \E type \in {"Attack", "Magic"} : Performs(type)
  /\ EnemiesHurt /\ Done
  /\ UNCHANGED <<hp, status, battle, inv, used>>

Throw ==
  /\ Performs("Throw") /\ EnemiesHurt /\ ItemSpent /\ Done
  /\ UNCHANGED <<hp, status, battle>>

\* Mutant: his meter is only set back at the end of the frame.
Reverted_Full == [fighter EXCEPT ![frame.at] = Idle(fighter[frame.at].meter)]

\* "Revert this player back to waiting state."
Reverted == [fighter EXCEPT ![frame.at] = Idle(0)]

\* A magic that steals has the player back in kFighterWait before it is over.
Steal ==
  /\ Performs("Magic") /\ fighter' = Reverted
  /\ UNCHANGED <<hp, status, enemy, battle, inv, used>>

\* It costs everybody hit points, but never the last one, and his time meter.
CoopMagic ==
  /\ Performs("Coop") /\ EnemiesHurt
  /\ hp' \in {h \in [Players -> 1..MaxHP] : \A p \in Players : h[p] <= hp[p] \/ h[p] = 1}
  /\ fighter' = [p \in Players |->
                    [fighter[p] EXCEPT !.meter = 0, !.target = IF p = frame.at THEN All ELSE @]]
  /\ UNCHANGED <<status, battle, inv, used>>

AttackMate ==
  /\ Performs("AttackMate") /\ Done
  /\ \E q \in Players \ {frame.at} : \E left \in 0..hp[q] - 1 :
       Alive(q) /\ hp' = [hp EXCEPT ![q] = left]
  /\ UNCHANGED <<status, enemy, battle, inv, used>>

Flee ==
  /\ Performs("Flee") /\ Done
  /\ \/ UNCHANGED battle
     \/ ~Boss /\ battle' = [battle EXCEPT !.result = "Fleed"]
  /\ UNCHANGED <<hp, status, enemy, inv, used>>

Pass == Performs("Pass") /\ Done /\ UNCHANGED <<hp, status, enemy, battle, inv, used>>

\* What the script of an item does to a player: nothing, revive him, cure him, or make a puppet of the dead.
Helped ==
  \/ UNCHANGED <<hp, status>>
  \/ \E p \in Players :
       \/ ~Alive(p) /\ hp' = [hp EXCEPT ![p] = MaxHP] /\ status' = [status EXCEPT ![p] = {}]
       \/ Alive(p) /\ hp' = hp /\ status' = [status EXCEPT ![p] = {}]
       \/ ~Alive(p) /\ hp' = hp /\ status' = [status EXCEPT ![p] = @ \cup {"Puppet"}]

UseItem ==
  /\ Performs("Use") /\ ItemSpent /\ Done
  /\ \/ Helped /\ UNCHANGED battle
     \/ UNCHANGED <<hp, status>> /\ battle' = [battle EXCEPT !.hiding = HideTime]
  /\ UNCHANGED enemy

\* A cooperative magic without a summoned god looks for the fallen, and fades
\* them out, before the players walk back.
CoopFades ==
  /\ frame.pc = "Recover" /\ fighter[frame.at].type = "Coop"
  /\ PAL_BattlePostActionCheck
  /\ UNCHANGED <<hp, status, fighter, queue, frame, inv, used>>

\* Back to waiting, but the number in sTurnOrder is kept; then the fallen.
PlayerChecked ==
  /\ frame.pc = "Recover" /\ PAL_BattlePostActionCheck
  /\ fighter' = Reverted
  /\ frame' = [frame EXCEPT !.pc = "Fade"]
  /\ UNCHANGED <<hp, status, queue, inv, used>>

PlayerPoisoned ==
  LET poison == battle.result = "OnGoing" /\ \E e \in Enemies : enemy[e].there
  IN  /\ frame.pc = "Fade"
      /\ \E left \in 0..hp[frame.at] :
           /\ left # hp[frame.at] => poison
           /\ hp' = [hp EXCEPT ![frame.at] = left]
      /\ frame' = [frame EXCEPT !.pc = "Poisoned"]
      /\ UNCHANGED <<status, fighter, queue, enemy, ui, battle, inv, used>>

\* The rounds of his statuses, and then StartFrame takes his number back.
PlayerEnds ==
  /\ frame.pc = "Poisoned"
  /\ \E kept \in SUBSET status[frame.at] : status' = [status EXCEPT ![frame.at] = kept]
  /\ fighter' = [fighter EXCEPT ![frame.at].meter = 0]
  /\ queue' = Without(frame.at)
  /\ frame' = NewFrame
  /\ UNCHANGED <<hp, enemy, ui, battle, inv, used>>

FrameStep ==
  \/ NextBattle \/ Over \/ BeginFrame \/ Unhidden
  \/ EnemyWaits \/ EnemyReady \/ EnemyActs \/ EnemyPicks \/ EnemyStrikes
  \/ EnemyPoisoned \/ EnemyChecked \/ EnemyEnds
  \/ FrameUI \/ PlayersCharge \/ PlayerValidates
  \/ Attack \/ Steal \/ Throw \/ CoopMagic \/ AttackMate \/ Flee \/ Pass \/ UseItem
  \/ CoopFades \/ PlayerChecked \/ PlayerPoisoned \/ PlayerEnds

Next == FrameStep \/ DelayUI

Spec == Init /\ [][Next]_vars

(***************************************************************************)
(* Properties.                                                             *)
(***************************************************************************)
FighterType ==
  [state : {"Wait", "Com", "Act"}, meter : 0..MaxMeter, type : ActionTypes,
   target : Slots \cup {All}, time : 0..CastTime]
EnemyType ==
  [there : BOOLEAN, hp : 0..EnemyHP, state : {"Wait", "Com", "Act"}, meter : 0..Full,
   dual : BOOLEAN, first : BOOLEAN, turnStart : BOOLEAN]

\* Every variable has its type: meters and hit points stay in range.
TypeOK ==
  /\ hp \in [Players -> 0..MaxHP] /\ status \in [Players -> SUBSET Statuses]
  /\ fighter \in [Players -> FighterType] /\ queue \in Seq(Players)
  /\ enemy \in [Slots -> EnemyType]
  /\ ui \in [state : {"Wait", "Move", "Enemy", "All"}, menu : {"Main", "Sub"},
              cur : Players, type : ActionTypes]
  /\ battle \in [result : Results, cleared : BOOLEAN, hiding : 0..HideTime,
                  last : Slots]
  /\ inv \in 0..Stock /\ used \in Nat

\* The menu and the states of the players agree, although the menu moves in the
\* middle of the actions and players die, fall asleep and are revived while it
\* is open: only the player whose menu is open is asked for a command
\* (kFighterCom), and nobody whose action is pending is asked for another one.
OneCommand ==
  /\ \A p \in Players : fighter[p].state = "Com" => battle.cleared \/ (Open /\ ui.cur = p)
  /\ Open => fighter[ui.cur].state # "Act"

\* While a cooperative magic is pending or being performed nobody else is asked
\* for a command: it will take everybody's time meter.
CoopAlone ==
  \A p, q \in Players :
    fighter[p].state = "Act" /\ fighter[p].type = "Coop" => fighter[q].state # "Com"

\* sTurnOrder is held by every player at most once, and only by players whose
\* action is due and by the one whose action ends: he is in kFighterWait again
\* while the menu still moves, but he is not asked for a command, which would
\* lose its number, before StartFrame takes his number back.
Due(p) == fighter[p].state = "Act" /\ fighter[p].time = 0
Ending(p) == /\ frame.pc \in {"Recover", "Fade", "Poisoned"} /\ frame.at = p
             /\ fighter[p].state = "Wait" /\ fighter[p].meter < Full
QueueDue ==
  \A i \in DOMAIN queue :
    /\ Due(queue[i]) \/ Ending(queue[i])
    /\ \A j \in DOMAIN queue : queue[i] = queue[j] => i = j

\* The enemy's draw of a living player ends: nothing that kills the last one,
\* be it a script or another enemy, leaves an enemy to act in the same frame.
EnemyHasTarget == frame.pc = "Pick" => \E p \in Players : Alive(p)

\* The index of the third player against a single enemy, with the slot behind
\* the team cleared between them: nothing keeps an attack from it.
Outside(target) == target \in Players /\ target > battle.last + 1

\* A player's action is performed at an enemy of the team that still stands, or
\* at all of them, however long ago it was chosen and whoever fell since, except
\* for an attack that kept a player's index from outside the team; and the
\* assertion of PAL_BattlePlayerValidateAction holds.
TargetStands ==
  LET f == fighter[frame.at]
  IN  /\ frame.pc # "Aborted"
      /\ frame.pc = "Windup" /\ f.type \in ToEnemy
           => \/ f.target = All
              \/ f.target \in Enemies /\ Standing(f.target)
              \/ f.type = "Attack" /\ Outside(f.target)

\* No effect without a piece: several players may have chosen the last one.
ItemsConserved == inv + used = Stock

\* A living player keeps a full meter until he acts, or a cooperative magic
\* takes it: giving way to the others in the menu costs nobody his turn.
MeterKept ==
  [][\A p \in Players :
       fighter[p].meter >= Full /\ Alive(p) /\ fighter'[p].meter < Full
         => \/ frame.pc \in {"Windup", "Recover"} /\ frame.at = p
            \/ frame.pc = "Windup" /\ fighter[frame.at].type = "Coop"
            \/ battle.result # "OnGoing"]_vars
=============================================================================
