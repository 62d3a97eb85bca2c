---------------------------- MODULE MCAdventure ----------------------------
\* One hero and a mate, two creatures, two rests, two names for things.
EXTENDS Battle, TLC

CONSTANTS h, m, x, y, ring, armor, arrows, p, q, prone, stunned

MCSlotMax == 1 :> 1 @@ 2 :> 1
MCCost == 1 :> 2 @@ 2 :> 3
MCChars == {h, m}
MCNames == {x, y}
MCKinds == {ring, armor, arrows}
MCBonding == MCKinds
MCPackBound == {armor}
MCClinging == {armor}
MCPlaces == {p, q}
MCTireless == {1}
MCReactions == [i \in Players |-> 1]
MCLegends == [i \in Players |-> IF i = 1 THEN 2 ELSE 0]
MCConditions == {prone, stunned}
MCStunning == {stunned}
Spell(cond, onEnd, onBreak, timer, held) ==
  [cond |-> cond, onEnd |-> onEnd, onBreak |-> onBreak, timer |-> timer,
   held |-> held]
MCSpells ==
  {Spell(stunned, "remove", "remove", "none", TRUE),
   Spell(prone, "release", "remove", "clock", TRUE),
   Spell(prone, "remove", "release", "round", TRUE),
   Spell(stunned, "remove", "remove", "turn", FALSE)}
Symmetry == Permutations(MCNames)

\* The creatures, the hero's body and the hero's magic share the clock and
\* nothing else, so a run explores one of the three at a time.
CreaturesTouched == actor # NoActor \/ rows # <<>>
BodyTouched == hero # Hale(hero.full) \/ dice > 0
MagicTouched == magic # FullMagic
OneAtATime ==
  /\ ~ (CreaturesTouched /\ BodyTouched)
  /\ ~ (CreaturesTouched /\ MagicTouched)
  /\ ~ (BodyTouched /\ MagicTouched)

\* The ids of rests are interchangeable, so they are used in order.
InOrder == rests[2] # NoRest => rests[1] # NoRest

\* A creature that nothing has happened to but an effect.
Untouched(i) ==
  [rows[i].k EXCEPT !.zero = "none"] = Creature(rows[i].k.full)

\* Two creatures have no effect on one another but through the actor, so one
\* that is not the actor's stays as it came while another changes.  They meet
\* before the first hour, in the first combat or with the actor as one of them.
OneCreature ==
  /\ Len(rows) = 2 => clock = 0 /\ (fights <= 1 \/ rows[1].mine)
  /\ \A i \in DOMAIN rows :
       \/ rows[i].mine \/ Untouched(i)
       \/ \A j \in DOMAIN rows \ {i} : Untouched(j) /\ ~ rows[j].mine

\* Things meet the rest of the campaign in the combats, of which the first
\* with a shot is the first there is, and in the death of the hero.
Rowed == {i \in Ids : items[i] # NoItem}
ItemsTouched == Rowed # {} \/ bonds # {} \/ cursed # {} \/ shots # <<>>
BesideItems ==
  /\ ~ CreaturesTouched /\ ~ MagicTouched
  /\ clock = 0 /\ hero.full = 1 /\ dice = 0
  /\ hero \in {Hale(1), [Hale(1) EXCEPT !.hp = 0, !.life = "dead"]}

\* Either one quiver and its parts, or three single things with the hero,
\* unworn, or two of which one is somewhere else; nothing is left at q.
Quiver ==
  /\ hero.life = "alive" /\ fights <= 1 /\ cursed = {}
  /\ shots # <<>> => bonds = {} /\ (Len(shots) = 1 \/ place = p)
  /\ \A i, j \in Rowed : i[1] = j[1]
  /\ \A i \in Rowed : /\ items[i].kind = arrows /\ ~ items[i].worn
                      /\ items[i].fate \in {"none", "dropped"}
                      /\ items[i].holder \in {Hero, Nobody}
Outfit ==
  /\ shots = <<>> /\ fights = 0
  /\ place # p => hero.life = "alive" /\ cursed = {}
  /\ Cardinality(Rowed) <= 3
  /\ \A i \in Rowed : items[i].qty = 1 /\ (i[2] = 1 => items[<<i[1], 0>>] # NoItem)
  /\ LET away == {i \in Rowed :
                 items[i] # [HeldBy(Hero, items[i]) EXCEPT !.qty = 1]}
     IN away = {} \/ (Cardinality(away) = 1 /\ Cardinality(Rowed) <= 2)
Packed == (Quiver \/ Outfit) /\ \A i \in Rowed : items[i].at # q

\* The turns are explored with one creature at most and few things spent by
\* any of its participants.
TurnsTouched == budget # Unspent
Used(i) ==
  LET b == BudgetOf(i)
  IN Cardinality({u \in {"action", "bonus", "free", "moved", "legendary"} : b[u]})
       + b.reactions
Spendings == Used(0) + Used(1) + Used(2)
Turned == BudgetOf(0).turns + BudgetOf(1).turns + BudgetOf(2).turns
\* A creature as it comes, or put out of the fight.
Plain(i) ==
  rows[i].k \in {[Creature(1) EXCEPT !.hp = hp, !.status = status] :
                   hp \in 0 .. 1, status \in {"alive", "dead"}}
OneTurnEach ==
  /\ fights = 1 /\ clock = 0 /\ ~ ItemsTouched /\ dice = 0
  /\ Len(rows) <= 1 /\ Spendings + Turned <= 3
  /\ round = 2 => Spendings <= 1
  /\ hero \in {Hale(1), [Hale(1) EXCEPT !.hp = 0, !.life = "dying"]}
  /\ MagicTouched => Turned = 0 /\ round = 1
  /\ link = NoLink /\ actor = NoActor /\ \A i \in DOMAIN rows : Plain(i)

\* The effects are explored with nothing spent: one at a time with a deadline,
\* two without one, and one condition that nobody owns.
EffectsTouched == live # {} \/ \E i \in Creatures : conds[i] # {}
Timed == \E e \in live : e.timer \in {"round", "turn"}
Loose == {<<i, c>> \in Creatures \X Conditions :
            c \in conds[i] /\ ~ \E e \in live : e.cond = c /\ i \in Alike(e.on, Twins)}
\* The actor may also be saved, so that the clock wakes it, or vanish.
Eventful(i) ==
  /\ rows[i].mine /\ Loose = {} /\ rows[i].k.level = 0
  /\ \E e \in live : live = {e} /\ e.timer = "none" /\ e.on \notin {Lead, NoOne}
  /\ IF rows[i].k.rules = "character"
     THEN /\ fights = 1 /\ Len(rows) = 1 /\ rows[i].k.zero = "none"
          /\ rows[i].k.fail = 0 /\ rows[i].k.succ = 0 /\ ~ rows[i].k.block
     ELSE rows[i].k.zero # "bonded"
FewEffects ==
  /\ ~ MagicTouched /\ ~ ItemsTouched
  /\ budget # Unspent => (Timed \/ live = {}) /\ Len(rows) <= 1 /\ Turned <= 2 /\ Loose = {}
  /\ acted = {} /\ \A i \in DOMAIN budget : ~ budget[i].surprised
  /\ dice = 0
  /\ hero \in {Hale(1), [Hale(1) EXCEPT !.hp = 0, !.life = "dying"]}
  /\ link # NoLink => Len(rows) = 1 /\ Eventful(1)
  /\ Loose # {} => Len(rows) <= 1
  /\ Cardinality(live) = 1 => \A e \in live : e.id = 1
  /\ Cardinality(live) = 2 =>
       /\ Loose = {} /\ clock = 0 /\ Len(rows) <= 1
       /\ \A e \in live : e.timer = "none" \/ e.timer = "clock"
  /\ fights = 2 => \A i \in DOMAIN rows : rows[i].mine
  /\ \A i \in DOMAIN rows : Plain(i) \/ Eventful(i)

InBattle ==
  /\ TurnsTouched => OneTurnEach
  /\ EffectsTouched => FewEffects

\* What the run leaves aside altogether; and what it checks and does not go
\* on from, such as the state a rest leads the creatures to.
Scene == OneAtATime /\ InBattle /\ (ItemsTouched => BesideItems)
Focus ==
  /\ OneCreature /\ InOrder
  /\ CreaturesTouched \/ EffectsTouched =>
       clock <= 1 /\ hero.full = 1 /\ \A id \in RestIds : rests[id] = NoRest
  /\ BodyTouched => clock <= 4 - hero.full /\ fights <= 1
  /\ IF ItemsTouched THEN Packed ELSE place = p

\* Where there are no effects there is nothing to follow up.
MCAftermath ==
  TurnsFollow /\ IF EffectsTouched THEN EffectsFollow ELSE UNCHANGED effectVars

\* The next-state relation of Battle, the steps of each part taken where the
\* rest of the campaign leaves them to be explored.
MCNext ==
  \/ Next /\ Mourn /\ MCAftermath /\ Scene'
  \/ BesideItems /\ ItemsNext /\ UNCHANGED vars /\ MCAftermath /\ Scene'
  \/ /\ OneTurnEach \/ FewEffects
     /\ UNCHANGED journeyVars
     /\ \/ \E i \in Players, r \in 1 .. MaxRounds :
             BeginTurn(i, r) /\ TurnEffects(i, r)
        \/ TurnsNext /\ UNCHANGED effectVars
        \/ FewEffects /\ UNCHANGED turnVars /\ EffectsNext
     /\ Scene'
MCSpec == BattleInit /\ [][MCNext]_battleVars
=============================================================================
