---------------------------- MODULE BattleState ----------------------------
(* The state of a battle of the PAL game in its time-metered build (the      *)
(* header _common.h leaves PAL_CLASSIC undefined): the players' and the      *)
(* enemies' meters, the actions they committed, the menu on the screen, the  *)
(* position inside one video frame, and the helpers both the menu and the    *)
(* frame routine use.  Numbers are scaled: Full stands for the 100 of a full *)
(* time meter and Full - 1 for 99; magic points, damage formulas and the     *)
(* number of rounds a status lasts are nondeterministic choices.             *)
EXTENDS Integers, Sequences, FiniteSets, FiniteSetsExt

CONSTANTS NPlayers,                 \* wMaxPartyMemberIndex + 1
          NSlots,                   \* MAX_ENEMIES_IN_TEAM
          MaxHP, DyingHP,           \* a player's HP; below DyingHP he is dying
          EnemyHP,
          Full, MaxMeter,           \* a full meter; bound on a meter that keeps filling
          PlayerSpeed, EnemySpeed,  \* what one frame adds to a meter
          CastTime,                 \* frames between choosing a magic and casting it
          AttackAll,                \* players whose weapon hits every enemy
          DualEnemies,              \* enemies that may move twice
          Boss,                     \* no escape
          Ailments, Prone,          \* what an enemy's magic may inflict, and on whom
          Stock                     \* pieces of the one item, used or thrown

Players == 0..NPlayers - 1
Slots   == 0..NSlots - 1            \* indices of rgEnemy
All     == -1                       \* sTarget for "everyone"

ASSUME BattleAssumption ==
  \* MAX_PLAYERS_IN_PARTY is 3 and MAX_ENEMIES_IN_TEAM 5: a player's index
  \* that becomes a target is an index of rgEnemy, if not of the team.
  /\ NPlayers \in 1..3 /\ NSlots \in NPlayers..5
  /\ MaxHP \in Nat \ {0} /\ DyingHP \in 1..MaxHP /\ EnemyHP \in Nat \ {0}
  /\ Full \in Nat \ {0} /\ MaxMeter \in Nat /\ MaxMeter >= 2 * Full
  /\ PlayerSpeed \in Nat \ {0} /\ EnemySpeed \in Nat \ {0} /\ CastTime \in Nat \ {0}
  /\ AttackAll \subseteq Players /\ DualEnemies \subseteq Slots
  /\ Boss \in BOOLEAN /\ Ailments \subseteq {"Sleep", "Confused"}
  /\ Prone \subseteq Players /\ Stock \in Nat

VARIABLES hp,       \* PlayerRoles.rgwHP of each party member
          status,   \* rgPlayerStatus: the statuses with rounds left
          fighter,  \* rgPlayer: state, flTimeMeter and the committed action
          queue,    \* players with sTurnOrder # -1, in the order of sTurnOrder
          enemy,    \* rgEnemy
          ui,       \* UI.state, MenuState, wCurPlayerIndex, wActionType
          battle,   \* BattleResult, fEnemyCleared, iHidingTime, wMaxEnemyIndex
          frame,    \* where PAL_BattleStartFrame is, and its locals
          inv,      \* rgInventory: the pieces of the item
          used      \* history: pieces whose effect took place

vars == <<hp, status, fighter, queue, enemy, ui, battle, frame, inv, used>>
uiVars == <<fighter, queue, ui>>    \* what the menu changes

Statuses == {"Sleep", "Confused", "Puppet"}
\* "Pass" stands for Defend as well, whose only effect is on the damage.
ActionTypes == {"Pass", "Attack", "Magic", "Coop", "Flee", "Throw", "Use", "AttackMate"}
ToEnemy == {"Attack", "Magic", "Coop", "Throw"}

\* An action is only read while its player is in kFighterAct; of the meter of
\* a player who is not waiting, only whether it is full.
Idle(meter) == [state |-> "Wait", meter |-> meter, type |-> "Pass", target |-> All, time |-> 0]
\* The other fields of the menu are only read while it is open.
NoMenu == [state |-> "Wait", menu |-> "Main", cur |-> 0, type |-> "Pass"]

Alive(p)   == hp[p] # 0
Dying(p)   == hp[p] < DyingHP
Skipped(p) == ~Alive(p) /\ "Puppet" \notin status[p]   \* "Skip dead players"
Asleep(p)  == "Sleep" \in status[p]
Confused(p) == "Confused" \in status[p]

SmallerOf(a, b) == IF a < b THEN a ELSE b

\* The players of a sequence that are in the set S, in their order.
Kept(s, S) ==
  LET First[i \in 0..Len(s)] ==
        IF i = 0 THEN << >>
        ELSE IF s[i] \in S THEN Append(First[i - 1], s[i]) ELSE First[i - 1]
  IN  First[Len(s)]
Without(p) == Kept(queue, Players \ {p})

Queued(p) == \E i \in DOMAIN queue : queue[i] = p

\* PAL_GetTimeChargingSpeed is 0 while a submenu is open.
Frozen == ui.state = "Move" /\ ui.menu # "Main"

Charged(meter) == IF Frozen THEN meter ELSE SmallerOf(meter + PlayerSpeed, MaxMeter)

\* The team of this battle; the slots behind it belong to nobody.
Enemies == 0..battle.last

Standing(e) == enemy[e].there /\ enemy[e].hp > 0

\* The target of the last command if it still stands, else the first enemy
\* standing: one of those standing, and All (-1) if there is none.
PAL_BattleSelectAutoTarget ==
  LET standing == {e \in Enemies : Standing(e)}
  IN  IF standing = {} THEN {All} ELSE standing

AutoTarget(p) == IF p \in AttackAll THEN {All} ELSE PAL_BattleSelectAutoTarget
=============================================================================
