------------------------------ MODULE BattleUI ------------------------------
(* The command menu of a battle (ui/uibattle.c), as one update of the screen  *)
(* changes it, and the commands it commits (battle/fight.c).  The frame       *)
(* routine updates the menu once a frame; PAL_BattleDelay updates it again    *)
(* while an action is shown, so the menu also moves in the middle of the      *)
(* actions of the module Battle.                                              *)
EXTENDS BattleState

\* Which targets a type can carry.  A player aimed at is not told apart, but an
\* attack can keep the index a player was aimed at with: confusion that ends
\* makes it of an AttackMate, and Repeat commits it again.
Targets(type) ==
  CASE type = "Attack" -> Enemies \cup Players \cup {All}
    [] type \in {"Magic", "Coop", "Throw"} -> Enemies \cup {All}
    [] OTHER -> {All}

\* A magic that cannot be paid becomes an attack, on the first slot if it was
\* meant for all.
ValidAction(type, target) ==
  {<<type, target>>} \cup
    (IF type = "Magic" THEN {<<"Attack", IF target = All THEN 0 ELSE target>>} ELSE {})

PAL_BattleCommitAction(type, target) ==
  \E action \in ValidAction(type, target) :
    LET p    == ui.cur
        wait == IF action[1] = "Magic" THEN CastTime ELSE 0
    IN  /\ fighter' = [fighter EXCEPT ![p] =
                         [state |-> "Act", meter |-> @.meter, type |-> action[1],
                          target |-> action[2], time |-> wait]]
        /\ queue' = IF wait = 0 THEN Append(Without(p), p) ELSE Without(p)
        /\ ui' = NoMenu

(***************************************************************************)
(* No menu is open: whose turn is it?                                      *)
(***************************************************************************)
\* Mutant: a pending cooperative magic does not hold the others back.
HoldsBack_Command(p) == fighter[p].state = "Com"

HoldsBack(p) == \/ fighter[p].state = "Com"
                \/ (fighter[p].state = "Act" /\ fighter[p].type = "Coop")

\* The fastest player who is ready; his hit points are not looked at.
PAL_BattlePlayerCheckReady ==
  LET ready == {p \in Players : fighter[p].state = "Wait" /\ fighter[p].meter >= Full}
      Fastest(p) == \A q \in ready : \/ fighter[p].meter > fighter[q].meter
                                     \/ (fighter[p].meter = fighter[q].meter /\ p <= q)
  IN  IF ready = {} \/ \E p \in Players : HoldsBack(p) THEN fighter
      ELSE [fighter EXCEPT ![CHOOSE p \in ready : Fastest(p)] = [Idle(Full) EXCEPT !.state = "Com"]]

PAL_BattleUIPlayerReady(f) ==
  LET com == {p \in Players : f[p].state = "Com"}
  IN  IF com = {} THEN ui ELSE [NoMenu EXCEPT !.state = "Move", !.cur = Min(com)]

WaitForPlayer ==
  /\ ui.state = "Wait" /\ ~battle.cleared
  /\ fighter' = PAL_BattlePlayerCheckReady
  /\ ui' = PAL_BattleUIPlayerReady(fighter')
  /\ UNCHANGED <<queue>>

(***************************************************************************)
(* A menu is open: a player who cannot choose is given an action.          *)
(***************************************************************************)
Open == ui.state # "Wait"
Free == Open /\ Alive(ui.cur) /\ ~Asleep(ui.cur) /\ ~Confused(ui.cur)

AutoAttack == \E target \in AutoTarget(ui.cur) : PAL_BattleCommitAction("Attack", target)

PuppetAttacks ==
  /\ Open /\ ~Alive(ui.cur) /\ ~Skipped(ui.cur)
  /\ AutoAttack

\* "Cancel any actions if player is dead or sleeping."
CancelAction ==
  /\ Open /\ (Skipped(ui.cur) \/ (Alive(ui.cur) /\ Asleep(ui.cur)))
  /\ PAL_BattleCommitAction("Pass", All)

ConfusedAttacks ==
  /\ Open /\ Alive(ui.cur) /\ ~Asleep(ui.cur) /\ Confused(ui.cur)
  /\ PAL_BattleCommitAction("AttackMate", All)

(***************************************************************************)
(* The main menu.                                                          *)
(***************************************************************************)
InMain == Free /\ ui.state = "Move" /\ ui.menu = "Main"
InSub  == Free /\ ui.state = "Move" /\ ui.menu = "Sub"

\* PAL_BattleUIIsActionValid(kBattleUIActionCoopMagic)
CoopValid ==
  NPlayers > 1 /\ \A p \in Players :
    ~Dying(p) /\ ~Asleep(p) /\ ~Confused(p)
      /\ fighter[p].meter >= Full /\ fighter[p].state # "Act"

\* The menu goes on to choose an enemy, or to confirm "everyone".
AskTarget(type, all) ==
  /\ ui' = [ui EXCEPT !.state = IF all THEN "All" ELSE "Enemy", !.type = type]
  /\ UNCHANGED <<fighter, queue>>

SelectAttack == InMain /\ AskTarget("Attack", ui.cur \in AttackAll)

SelectCoop == InMain /\ CoopValid /\ \E all \in BOOLEAN : AskTarget("Coop", all)

\* kKeyForce picks a magic or an attack; auto attack is switched on and off at
\* any update, in every menu.
AutoCommand ==
  \/ Free /\ AutoAttack
  \/ InMain /\ \E target \in PAL_BattleSelectAutoTarget \cup {All} :
                 PAL_BattleCommitAction("Magic", target)

\* kKeyDefend, kKeyFlee, the same entries of the misc menu, and kKeyRepeat,
\* which commits whatever was committed before without the menu's checks.
CommitAtOnce ==
  \/ (InMain \/ InSub) /\ \E type \in {"Pass", "Flee"} : PAL_BattleCommitAction(type, All)
  \/ InMain /\ \E type \in ActionTypes \ {"Pass"} : \E target \in Targets(type) :
                 PAL_BattleCommitAction(type, target)

\* Mutant: the meters of the waiting players are not raised.
Raised_Not(p) == fighter[p]

\* "HACKHACK: Prevent the time meter from going below 100"
Raised(p) ==
  IF fighter[p].state = "Wait" /\ fighter[p].meter >= Full
    THEN [fighter[p] EXCEPT !.meter = @ + Full] ELSE fighter[p]

\* Mutant: the player who gives way stays in kFighterCom.
GivesWay_KeepsState(f, p, slowest) == [f EXCEPT ![p] = [@ EXCEPT !.meter = slowest - (Full - 1)]]

GivesWay(f, p, slowest) ==
  [f EXCEPT ![p] = [@ EXCEPT !.meter = slowest - (Full - 1), !.state = "Wait"]]

\* kKeyMenu in the main menu: the other ready players come first.
YieldTurn ==
  LET raised == [p \in Players |-> Raised(p)]
      others == {p \in Players \ {ui.cur} : fighter[p].state = "Wait" /\ fighter[p].meter >= Full}
  IN  /\ InMain
      /\ \A p \in Players : raised[p].meter <= MaxMeter
      /\ IF others = {} THEN fighter' = raised /\ UNCHANGED ui
         ELSE /\ fighter' = GivesWay(raised, ui.cur, Min({raised[p].meter : p \in others}))
              /\ ui' = NoMenu
      /\ UNCHANGED <<queue>>

(***************************************************************************)
(* The submenus: magic, misc, use and throw.  They stop the time.          *)
(***************************************************************************)
OpenSub ==
  /\ InMain \/ InSub
  /\ ui' = [ui EXCEPT !.menu = "Sub"]
  /\ UNCHANGED <<fighter, queue>>

CloseSub ==
  /\ InSub
  /\ ui' = [ui EXCEPT !.menu = "Main"]
  /\ UNCHANGED <<fighter, queue>>

\* A magic closes the submenu, an item does not.
SelectMagic ==
  /\ InSub
  /\ \E state \in {"Enemy", "All"} :
       ui' = [ui EXCEPT !.state = state, !.type = "Magic", !.menu = "Main"]
  /\ UNCHANGED <<fighter, queue>>

SelectItem ==
  /\ InSub /\ inv > 0
  /\ AskTarget("Use", TRUE) \/ \E all \in BOOLEAN : AskTarget("Throw", all)

(***************************************************************************)
(* Choosing the target.  The check that a cooperative magic is still       *)
(* possible passes kBattleActionCoopMagic, a number that is no             *)
(* BATTLEUIACTION, and rejects nothing.                                    *)
(***************************************************************************)
BackToMove ==
  /\ Free /\ ui.state \in {"Enemy", "All"}
  /\ ui' = [ui EXCEPT !.state = "Move", !.type = "Pass"]
  /\ UNCHANGED <<fighter, queue>>

ConfirmEnemy ==
  /\ Free /\ ui.state = "Enemy"
  /\ \E e \in Enemies :
       /\ enemy[e].there
       /\ PAL_BattleCommitAction(ui.type, e)

ConfirmAll == Free /\ ui.state = "All" /\ PAL_BattleCommitAction(ui.type, All)

\* No key, or one that only moves a cursor; and kKeyStatus, which skips the
\* rest of the update whatever became of the player.
NoCommand == UNCHANGED uiVars

PAL_BattleUIUpdate ==
  \/ WaitForPlayer
  \/ PuppetAttacks \/ CancelAction \/ ConfusedAttacks
  \/ SelectAttack \/ SelectCoop \/ AutoCommand \/ CommitAtOnce \/ YieldTurn
  \/ OpenSub \/ CloseSub \/ SelectMagic \/ SelectItem
  \/ BackToMove \/ ConfirmEnemy \/ ConfirmAll
  \/ NoCommand
=============================================================================
