----------------------------- MODULE Adventure -----------------------------
(***************************************************************************)
(* A campaign at play: the hero, the creatures of its combats and the      *)
(* clock they share.  Starting a combat shuts the recovery windows of the  *)
(* hero's rests; a rest and a step of the clock wake whoever is due; the   *)
(* end of a combat decides what an effect still owns.                      *)
(***************************************************************************)
EXTENDS Companions, Rests

vars == <<clock, fights, fighting, rows, actor, link,
          hero, dice, rests, window, magic>>

Init == ClockInit /\ CompanionsInit /\ RestsInit

TypeOK == ClockTypeOK /\ CompanionsTypeOK /\ RestsTypeOK

StartEncounter ==
  /\ FightStarts /\ WindowsClose
  /\ UNCHANGED <<rows, actor, link, hero, dice, rests, magic>>

CloseCombat == FightEnds /\ CompanionsLeave /\ UNCHANGED restVars

AdvanceWorldTime(hours) ==
  /\ TimePasses(hours)
  /\ HeroWaits(clock') /\ CompanionsRecover(clock')

\* Mutant: the creatures sleep through the rest.
RestOfTheHero(id) ==
  /\ ShortRest(id) \/ \E fed \in BOOLEAN : LongRest(id, fed)
  /\ UNCHANGED companionVars

Rest(id) ==
  /\ ShortRest(id) \/ \E fed \in BOOLEAN : LongRest(id, fed)
  /\ CompanionsRecover(clock')

Next ==
  \/ StartEncounter
  \/ CloseCombat
  \/ \E hours \in 1 .. MaxClock : AdvanceWorldTime(hours)
  \/ \E id \in RestIds : Rest(id)
  \/ CompanionsNext /\ UNCHANGED restVars
  \/ BodyNext /\ UNCHANGED companionVars
  \/ MagicNext /\ UNCHANGED companionVars

Spec == Init /\ [][Next]_vars

-----------------------------------------------------------------------------
\* No write ever leaves a creature in a state the engine's assertions refuse:
\* they run after the write, so one that fails loses the whole call
\* (assertCombatantLifecycle I1 to I7, I10, I11, and the clock's own check of
\* recoveries that do not belong to the row that speaks).
RowsLegal ==
  /\ \A i \in DOMAIN rows : Legal(rows[i].k, Speaks(i))
  /\ actor # NoActor => Legal(actor, TRUE)

\* The same of the hero (assertCharacterLifecycle).
HeroSound == Sound(hero)

\* Both, the creatures' and the hero's.
BodiesLegal == RowsLegal /\ HeroSound

\* While the actor stands in the active combat, the durable snapshot is what
\* its row says, whichever call wrote the row last (syncCombatantActor).
ActorMirrors == ActorRow # {} => actor = rows[Speaker].k

\* What an effect will take out of play when it ends is never dying or
\* stable: removeCombatantFromPlay calls that state unreachable and throws.
OwnedNeverDown ==
  link.policy = "remove" =>
    /\ link.on = "combatant" => Removable(rows[link.row].k)
    /\ link.on = "actor" =>
         Removable(IF ActorRow # {} THEN rows[Max(ActorRow)].k ELSE actor)

\* No stable creature, and no stable hero, is still waiting at an hour that
\* has come, whatever moved the clock there (a wait, a rest) and whether its
\* combat is over or not.
RecoveredOnTime ==
  /\ \A i \in DOMAIN rows : Speaks(i) => ~ Overdue(rows[i].k, clock)
  /\ actor # NoActor => ~ Overdue(actor, clock)
  /\ ~ MayRecover(hero, clock)

\* A body that is dead stays dead or is gone, and one that is gone from its
\* combat does not come back on the same row (I8 and I9); the hero never
\* comes back from death.
DeathIsFinal ==
  [][/\ \A i \in DOMAIN rows :
          /\ rows[i].k.status = "dead" => rows'[i].k.status \in {"dead", "absent"}
          /\ rows[i].k.status = "absent" => rows'[i].k.status = "absent"
     /\ hero.life = "dead" => hero'.life = "dead"]_vars

\* Hit Dice can be spent only at the hour the rest ended and before any
\* combat: a window still open says so by itself (the second and third checks
\* of spendRestHitDie never fire).
WindowIsNow ==
  \A id \in window : /\ rests[id].kind = "short"
                     /\ rests[id].end = clock /\ ~ fighting

\* Points made of slots and slots made of points never add up to more than
\* the hero had; only a long rest taken for the first time gives any back.
Worth(m) ==
  m.points + MapThenSumSet(LAMBDA l : l * (m.slots[l] + m.made[l]), SlotLevels)
MagicOnlyByRest ==
  [][magic' = magic \/ Worth(magic') <= Worth(magic) \/
       \E id \in RestIds : rests[id] = NoRest /\ rests'[id].kind = "long"]_vars

\* Two long rests end at least a day apart, whatever was done between them.
LongRestsApart ==
  \A a, b \in RestIds :
    a # b /\ rests[a].kind = "long" /\ rests[b].kind = "long" =>
      rests[a].end + Day <= rests[b].end \/ rests[b].end + Day <= rests[a].end

\* What rests give cannot be had twice: neither by a second long rest within a
\* day nor in a window left open (LongRestsApart, WindowIsNow).
RestsSound == LongRestsApart /\ WindowIsNow
=============================================================================
