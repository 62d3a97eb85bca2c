------------------------------- MODULE Battle -------------------------------
(***************************************************************************)
(* A journey with the turns of its combats and the effects that last       *)
(* through them: what a step of the journey does to both, and their own.   *)
(***************************************************************************)
EXTENDS Expedition, Effects

battleVars == <<journeyVars, turnVars, effectVars>>

BattleInit == JourneyInit /\ TurnsInit /\ EffectsInit

Aftermath == TurnsFollow /\ EffectsFollow

BattleNext ==
  \/ JourneyNext /\ Aftermath
  \/ \E p \in Players, r \in 1 .. MaxRounds :
       UNCHANGED journeyVars /\ BeginTurn(p, r) /\ TurnEffects(p, r)
  \/ UNCHANGED <<journeyVars, effectVars>> /\ TurnsNext
  \/ UNCHANGED <<journeyVars, turnVars>> /\ EffectsNext

Battles == BattleInit /\ [][BattleNext]_battleVars

BattleTypeOK == JourneyTypeOK /\ TurnsTypeOK /\ EffectsTypeOK

-----------------------------------------------------------------------------
\* Nobody who has acted is surprised; a caster never casts both a bonus-action
\* spell and another than a cantrip in one turn; a legendary option is refused
\* in the turn in which one was used and in no other, and never overdrawn.
TurnsFair ==
  /\ \A p \in acted : ~ BudgetOf(p).surprised
  /\ ~ {"bonus", "other"} \subseteq cast
  /\ active # NoOne => \A p \in Players : p \in opted <=> BudgetOf(p).token = Window
  /\ \A p \in Players : BudgetOf(p).spent <= Legends[p]
=============================================================================
