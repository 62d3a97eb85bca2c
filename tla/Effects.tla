------------------------------ MODULE Effects ------------------------------
(***************************************************************************)
(* The active effects of a campaign.  An effect puts a condition on a      *)
(* creature and owns it until it ends; it may last as long as its owner    *)
(* concentrates, and may have a deadline on the clock of the world, on the *)
(* rounds of a combat or on the turns of one participant.  A creature is   *)
(* the hero, a row of a combat, or the durable actor, which shares its     *)
(* conditions with its row of the active combat.                           *)
(***************************************************************************)
EXTENDS Turns

CONSTANTS Conditions,
          Stunning,  \* conditions that incapacitate
          MaxEffects, \* bound: effects at once; an id is free again once its
                     \* effect has ended
          Spells,    \* what puts effects on creatures
          Span       \* hours, rounds or turns that a timed effect lasts

Durable == MaxRows + 1
Creatures == 0 .. Durable
Policies == {"remove", "release"}
Timers == {"none", "clock", "round", "turn"}
EffectIds == 1 .. MaxEffects

ASSUME EffectNumbers ==
  /\ Stunning \subseteq Conditions /\ Span \in Nat \ {0}
  /\ MaxEffects \in Nat
  /\ Spells \subseteq [cond : Conditions, onEnd : Policies, onBreak : Policies,
                      timer : Timers, held : BOOLEAN]

VARIABLES live,   \* the effects that have not ended
          conds,  \* by creature, its conditions
          strayed \* kept for the properties: effects whose condition was
                  \* taken by somebody else

effectVars == <<live, conds, strayed>>

\* owner concentrates on it, unless NoOne; on holds the condition.
EffectRows ==
  [id : EffectIds, owner : Players \cup {NoOne}, on : Creatures \cup {NoOne},
   cond : Conditions, onEnd : Policies, onBreak : Policies,
   timer : Timers, at : Nat, whose : Players \cup {NoOne}]

EffectsTypeOK ==
  /\ live \subseteq EffectRows /\ conds \in [Creatures -> SUBSET Conditions]
  /\ strayed \subseteq EffectIds

EffectsInit ==
  live = {} /\ conds = [w \in Creatures |-> {}] /\ strayed = {}

-----------------------------------------------------------------------------
\* Creatures that new effects may name and whose conditions may be written.
InPlayNow(w) ==
  \/ w = Lead
  \/ w \in DOMAIN rows /\ Present(w)
  \/ w = Durable /\ actor # NoActor /\ actor.status # "absent"
Reachable == {w \in Creatures : InPlayNow(w)}

\* The actor and its row of the active combat, which are one creature.
Twins == IF ActorRow = {} THEN {} ELSE {Max(ActorRow), Durable}
Alike(w, twins) == IF w \in twins THEN twins ELSE {w}

\* Down, by hit points or by status; and down or incapacitated.
Felled(p) ==
  IF p = Lead THEN hero.life # "alive"
  ELSE /\ p \in DOMAIN rows
       /\ \/ rows[p].k.hp = 0
          \/ rows[p].k.status \in {"dead", "unconscious", "inactive", "absent"}
Stopped(p) == Felled(p) \/ conds[p] \cap Stunning # {}

-----------------------------------------------------------------------------
\* The effects whose condition goes with them, when some end and some break.
Cleaned(ended, broken) ==
  {e \in ended : e.onEnd = "remove"} \cup {e \in broken : e.onBreak = "remove"}

\* Their conditions taken from their holders, those that can be reached.
Freed(c, es, reach, twins) ==
  [w \in Creatures |->
     c[w] \ {e.cond : e \in {f \in es : f.on \in reach /\ w \in Alike(f.on, twins)}}]

\* The effects that lose a condition they have when it is taken from w.
Losing(es, w, cond, twins) ==
  {e.id : e \in {f \in es : f.cond = cond /\ f.on # NoOne
                              /\ Alike(f.on, twins) = Alike(w, twins)}}

\* Of es, those that lose theirs to one of the gone that had itself strayed.
Collateral(es, gone, twins) ==
  UNION {Losing(es, f.on, f.cond, twins) :
           f \in {g \in gone : g.id \in strayed /\ g.on # NoOne}}

\* Some effects end, some break: what nearly every step comes to.
Finish(ended, broken) ==
  LET left == live \ (ended \cup broken)
      gone == Cleaned(ended, broken)
  IN /\ live' = left
     /\ conds' = Freed(conds, gone, Reachable', Twins')
     /\ strayed' = (strayed \cap {e.id : e \in left})
                     \cup Collateral(left, gone, Twins')

-----------------------------------------------------------------------------
Base(timer, p) ==
  CASE timer = "clock" -> clock
    [] timer = "round" -> Max({1, round})
    [] timer = "turn" -> BudgetOf(p).turns + (IF active = p THEN 1 ELSE 0)
    [] OTHER -> 0
\* A round is counted in a combat only, and a turn of one who is in it.
MayAnchor(timer, p) ==
  /\ timer \in {"round", "turn"} => fighting
  /\ IF timer = "turn" THEN p # NoOne /\ InPlayNow(p) ELSE p = NoOne

\* What p concentrates on.
Focused(p) == {e \in live : p # NoOne /\ e.owner = p}

With(c, w, cond) ==
  [v \in Creatures |-> IF v \in Alike(w, Twins) THEN c[v] \cup {cond} ELSE c[v]]

\* A condition given to w that incapacitates breaks what w concentrates on.
Shaken(c, es, w, cond) ==
  {e \in es : /\ cond \in Stunning /\ e.owner \in Alike(w, Twins)
              /\ ~ Felled(e.owner) /\ c[e.owner] \cap Stunning = {}}

\* Mutant: a condition of any other effect counts as free to own.
UnownedByHand(e, freed) ==
  e.cond \in conds[e.on] => \E f \in live : f.on = e.on /\ f.cond = e.cond

\* The condition is not there, or there only because of what is replaced.
Unowned(e, freed) ==
  e.cond \in conds[e.on] => \E f \in freed : f.on = e.on /\ f.cond = e.cond

\* A new effect replaces what its owner concentrates on, may own only what
\* it puts there itself, and may not incapacitate its own owner.
CreateEffect(e) ==
  LET prior == Focused(e.owner)
      freed == Cleaned({}, prior)
      before == Freed(conds, freed, Reachable, Twins)
      shaken == Shaken(before, live \ prior, e.on, e.cond)
      after == Cleaned({}, shaken)
      left == live \ (prior \cup shaken)
  IN /\ InPlayNow(e.on) /\ MayAnchor(e.timer, e.whose)
     /\ e.owner # NoOne => InPlayNow(e.owner) /\ ~ Stopped(e.owner)
     /\ Unowned(e, freed)
     /\ e.cond \in Stunning => e.owner \notin Alike(e.on, Twins)
     /\ live' = left \cup {e}
     /\ conds' = Freed(With(before, e.on, e.cond), after, Reachable, Twins)
     /\ strayed' = (strayed \cap {f.id : f \in left})
                     \cup Collateral(left, freed, Twins)
                     \cup Collateral(left \cup {e}, after, Twins)

\* Ended by the rules or by a ruling; and concentration lost or given up.
EndActiveEffect(e) == Finish({e}, {})
BreakConcentration(e) == e.owner # NoOne /\ Finish({}, {e})

\* Its only target is gone, and the effect is not.
RemoveEffectTarget(e) ==
  LET left == live \ {e}
      gone == Cleaned({e}, {})
  IN /\ e.on # NoOne
     /\ live' = left \cup {[e EXCEPT !.on = NoOne]}
     /\ conds' = Freed(conds, gone, Reachable, Twins)
     /\ strayed' = (strayed \ {e.id}) \cup Collateral(left, gone, Twins)

\* The same duration again, from now on.
RefreshEffect(e) ==
  /\ e.timer # "none" /\ MayAnchor(e.timer, e.whose)
  /\ live' = (live \ {e})
               \cup {[e EXCEPT !.at = Base(e.timer, e.whose) + Span]}
  /\ UNCHANGED <<conds, strayed>>

\* The tools that write conditions know nothing of the effects that own them.
AddCondition(w, cond) ==
  LET shaken == Shaken(conds, live, w, cond)
      gone == Cleaned({}, shaken)
      left == live \ shaken
  IN /\ InPlayNow(w) /\ cond \notin conds[w]
     /\ live' = left
     /\ conds' = Freed(With(conds, w, cond), gone, Reachable, Twins)
     /\ strayed' = (strayed \cap {e.id : e \in left})
                     \cup Collateral(left, gone, Twins)

RemoveCondition(w, cond) ==
  /\ InPlayNow(w) /\ cond \in conds[w]
  /\ conds' = [v \in Creatures |-> IF v \in Alike(w, Twins)
                                   THEN conds[v] \ {cond} ELSE conds[v]]
  /\ strayed' = strayed \cup Losing(live, w, cond, Twins)
  /\ UNCHANGED live

\* At the start of a turn, the deadlines on rounds and then those on turns.
TurnEffects(p, r) ==
  Finish({e \in live :
            \/ e.timer = "round" /\ e.at <= r
            \/ e.timer = "turn" /\ e.whose = p
                 /\ e.at <= Beginning(p).turns + 1}, {})

Unused == EffectIds \ {e.id : e \in live}

EffectsNext ==
  \/ \E s \in Spells, owner, whose \in Players \cup {NoOne}, on \in Creatures :
       /\ Unused # {} /\ s.held = (owner # NoOne) /\ MayAnchor(s.timer, whose)
       /\ CreateEffect([id |-> Min(Unused), owner |-> owner, on |-> on,
                        cond |-> s.cond, onEnd |-> s.onEnd,
                        onBreak |-> s.onBreak, timer |-> s.timer,
                        whose |-> whose, at |-> Base(s.timer, whose) + Span])
  \/ \E e \in live : \/ EndActiveEffect(e) \/ BreakConcentration(e)
                     \/ RemoveEffectTarget(e) \/ RefreshEffect(e)
  \/ \E w \in Players, cond \in Conditions :
       AddCondition(w, cond) \/ RemoveCondition(w, cond)

-----------------------------------------------------------------------------
\* The end of a combat settles its timers, the concentration of its rows and
\* what is on them: it passes to the actor or is taken away.
CombatEnds ==
  LET timed == {e \in live : e.timer \in {"round", "turn"}}
      orphaned == {e \in live \ timed : e.owner \in DOMAIN rows /\ Here(e.owner)}
      kept == live \ (timed \cup orphaned)
      lasting == {i \in DOMAIN rows : Here(i) /\ (Claimed(i) \/ (i \in Mine /\ i = Speaker))}
      there == {e \in kept : e.on \in DOMAIN rows /\ Here(e.on)}
      gone == Cleaned(timed \cup {e \in there : e.on \notin lasting}, orphaned)
  IN /\ live' = (kept \ there) \cup
                {[e EXCEPT !.on = IF @ \in lasting THEN Durable ELSE NoOne] : e \in there}
     /\ conds' = Freed(conds, gone, Reachable, Twins)
     /\ strayed' = (strayed \cap {e.id : e \in kept}) \cup Collateral(kept, gone, Twins)

Falls(p) == ~ Felled(p) /\ Felled(p)'

\* The actor enters a combat, as it was or as a new creature; a row becomes
\* the actor's; the clock wakes the row that speaks for it.
Enters == Len(rows') > Len(rows) /\ rows'[Len(rows')].mine
Embodies == actor = NoActor /\ actor' # NoActor
Wakes == clock' # clock /\ Mine # {} /\ rows'[Speaker].k # rows[Speaker].k

\* The conditions c after the copies that such a step makes of them.
Copied(c) ==
  IF Enters THEN [c EXCEPT ![Len(rows')] = IF Fresh THEN {} ELSE c[Durable],
                           ![Durable] = IF Fresh THEN {} ELSE @]
  ELSE IF Embodies \/ Wakes THEN [c EXCEPT ![Durable] = c[Speaker']]
  ELSE c

\* What the steps of the campaign do to effects.
EffectsFollow ==
  \/ fighting /\ ~ fighting' /\ CombatEnds
  \/ LET due == {e \in live : e.timer = "clock" /\ e.at <= clock'}
         broken == {e \in live \ due : e.owner # NoOne /\ Falls(e.owner)}
         left == live \ (due \cup broken)
         gone == Cleaned(due, broken)
     IN /\ ~ (fighting /\ ~ fighting')
        /\ live' = left
        /\ conds' = Copied(Freed(conds, gone, Reachable', Twins'))
        /\ strayed' = (strayed \cap {e.id : e \in left})
             \cup Collateral(left, gone, Twins')
             \cup {e.id : e \in {f \in left : /\ Enters \/ Wakes
                                              /\ f.on = Durable
                                              /\ f.cond \notin conds'[Durable]}}

-----------------------------------------------------------------------------
Concentrating ==
  \A e \in live : e.owner # NoOne =>
    /\ InPlayNow(e.owner) /\ ~ Stopped(e.owner) /\ Focused(e.owner) = {e}

NothingOverdue ==
  \A e \in live : e.timer # "none" =>
    /\ e.at > Base(e.timer, e.whose)
    /\ e.timer \in {"round", "turn"} => fighting

LinksHold ==
  \A e \in live : e.id \notin strayed /\ e.on # NoOne =>
    /\ e.cond \in conds[e.on]
    /\ Losing(live, e.on, e.cond, Twins) \ strayed = {e.id}

TwinsAgree == \A v, w \in Twins : conds[v] = conds[w]

\* An owner concentrates on one effect at most, and never while it is down,
\* incapacitated or out of play; nothing outlives its deadline; the condition
\* of every effect is on its holder, and no two effects own the same one,
\* but for those taken by hand or lost with the actor's own copies; and the
\* actor and its row agree on their conditions.
EffectsSound == Concentrating /\ NothingOverdue /\ LinksHold /\ TwinsAgree
=============================================================================
