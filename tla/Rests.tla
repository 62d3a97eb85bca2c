------------------------------- MODULE Rests -------------------------------
(***************************************************************************)
(* A hero between fights: what wounds do to the hero's hit points, what a  *)
(* short and a long rest give back, the Hit Dice spent in the window a     *)
(* short rest opens, and the spell slots and sorcery points that can be    *)
(* turned into one another.  A rest is recorded under an id of the caller, *)
(* so that a repeated call gives nothing twice.                            *)
(***************************************************************************)
EXTENDS CharacterLife, WorldClock, FiniteSetsExt

CONSTANTS HeroFulls,  \* hit point maxima of the hero
          HeroLevels, \* exhaustion levels given to the hero
          Blows,      \* damage, healing and Hit Dice
          Hours,      \* hours a recovery may take
          RestIds, Short, Long, Day, \* ids, and hours, of rests
          MaxDice, MaxPoints,
          SlotLevels, SlotMax, Cost  \* spell slots, and points for one

ASSUME HeroNumbers ==
  /\ HeroFulls \subseteq Nat \ {0} /\ HeroLevels \subseteq 0 .. 6
  /\ Blows \subseteq Nat \ {0} /\ Hours \subseteq Nat \ {0}
  /\ MaxDice \in Nat /\ MaxPoints \in Nat
ASSUME RestHours == Short \in Nat \ {0} /\ Long \in Nat \ {0} /\ Day \in Nat
ASSUME Slots == /\ SlotLevels \subseteq Nat \ {0}
                /\ SlotMax \in [SlotLevels -> Nat]
                /\ Cost \in [SlotLevels -> Nat]
\* The rules ask 2, 3, 5, 6 and 7 points for a slot of the levels 1 to 5: never
\* fewer than the slot's level, which is what converting it gives back.
ASSUME SlotCosts ==
  IsFiniteSet(SlotLevels) /\ \A l \in SlotLevels : l <= Cost[l]

VARIABLES hero,   \* the character's row
          dice,   \* Hit Dice spent
          rests,  \* by id; its kind and the hour it ended
          window, \* rests whose recovery window is open
          magic   \* sorcery points and the slots not spent yet by level

bodyVars == <<hero, dice, window>>
restVars == <<hero, dice, rests, window, magic>>

NoRest == [kind |-> "none", end |-> 0]
FullMagic == [points |-> MaxPoints, slots |-> SlotMax,
              made |-> [l \in SlotLevels |-> 0]]

RestsTypeOK ==
  /\ hero \in Rows /\ dice \in 0 .. MaxDice
  /\ rests \in [RestIds -> [kind : {"none", "short", "long"}, end : Nat]]
  /\ window \subseteq RestIds
  /\ magic \in [points : 0 .. MaxPoints, slots : [SlotLevels -> Nat],
                made : [SlotLevels -> Nat]]

Hale(full) == [hp |-> full, full |-> full, temp |-> 0, level |-> 0,
               life |-> "alive", succ |-> 0, fail |-> 0, due |-> 0,
               settled |-> FALSE, block |-> FALSE]

RestsInit ==
  /\ \E full \in HeroFulls : hero = Hale(full)
  /\ dice = 0 /\ window = {}
  /\ rests = [id \in RestIds |-> NoRest]
  /\ magic = FullMagic

-----------------------------------------------------------------------------
\* The tools that write the character's hit points.
Becomes(row) ==
  hero' = row /\ UNCHANGED <<dice, rests, window, magic>> /\ UNCHANGED clockVars

Deadlines == {clock + h : h \in Hours}

HeroHurt(n, crit, knockOut) ==
  /\ MayDamage(hero, knockOut)
  /\ \E due \in Deadlines : Becomes(Damage(hero, n, crit, knockOut, due))
HeroHealed(n) == MayHeal(hero, n) /\ Becomes(Heal(hero, n))
HeroSaves(save) ==
  MaySave(hero) /\ \E due \in Deadlines : Becomes(Save(hero, save, due))
HeroStabilized ==
  MayStabilize(hero) /\ \E due \in Deadlines : Becomes(Stabilize(hero, due))
HeroSuffocates == MaySuffocate(hero) /\ Becomes(Suffocate(hero))
HeroBreathes ==
  MayBreathe(hero) /\ \E due \in Deadlines : Becomes(Breathe(hero, due))
HeroTires(level) ==
  level # hero.level /\ \E due \in Deadlines : Becomes(Exhaust(hero, level, due))
HeroBolstered(n, replace) ==
  MayGrantTemporary(hero) /\ Becomes(GrantTemporary(hero, n, replace))

HeroRecovers(at) == hero' = IF MayRecover(hero, at) THEN Recover(hero) ELSE hero

-----------------------------------------------------------------------------
\* Mutant: only the windows that are spent close.
WindowsLinger == UNCHANGED window

\* A step of the clock, or the start of a combat, closes every window.
WindowsClose == window' = {}
HeroWaits(at) ==
  HeroRecovers(at) /\ WindowsClose /\ UNCHANGED <<dice, rests, magic>>

\* The guards both rests share, and the record of the one that is taken.
Takes(id, kind, hours) ==
  /\ rests[id] = NoRest /\ ~ fighting
  /\ TimePasses(hours)
  /\ rests' = [rests EXCEPT ![id] = [kind |-> kind, end |-> clock']]

ShortRest(id) ==
  /\ Takes(id, "short", Short)
  /\ HeroRecovers(clock')
  /\ window' = {id}
  /\ UNCHANGED <<dice, magic>>

\* Mutant: the day is counted from the start of the last rest.
RestedSinceStart(end) ==
  \E id \in RestIds : rests[id].kind = "long" /\ rests[id].end + Day > end + Long

\* The last long rest must have ended a day before this one does.
RestedSince(end) ==
  \E id \in RestIds : /\ rests[id].kind = "long"
                      /\ rests[id].end + Day > end /\ rests[id].end <= end

Rested(c) == ExpireTemporary(Heal(c, HpMax(c) - c.hp))

LongRest(id, fed) ==
  /\ hero.life # "dead" /\ hero.hp >= 1
  /\ ~ RestedSince(clock + Long)
  /\ Takes(id, "long", Long)
  /\ \E due \in Deadlines :
       hero' = Rested(IF fed /\ hero.level > 0
                      THEN Exhaust(hero, hero.level - 1, due) ELSE hero)
  /\ dice' = IF dice <= Max({1, MaxDice \div 2}) THEN 0
             ELSE dice - Max({1, MaxDice \div 2})
  /\ magic' = FullMagic
  /\ WindowsClose

\* Mutant: the dice are not counted.
SpendAnyHitDie(id, n) ==
  /\ id \in window /\ ~ fighting /\ MayHeal(hero, n)
  /\ hero' = Heal(hero, n) /\ dice' = dice + 1
  /\ UNCHANGED <<rests, window, magic>> /\ UNCHANGED clockVars

SpendHitDie(id, n) ==
  /\ id \in window /\ rests[id].kind = "short" /\ rests[id].end = clock
  /\ ~ fighting /\ dice < MaxDice /\ MayHeal(hero, n)
  /\ hero' = Heal(hero, n) /\ dice' = dice + 1
  /\ UNCHANGED <<rests, window, magic>> /\ UNCHANGED clockVars

FinishRecovery(id) ==
  /\ id \in window /\ window' = window \ {id}
  /\ UNCHANGED <<hero, dice, rests, magic>> /\ UNCHANGED clockVars

-----------------------------------------------------------------------------
\* A slot made from points goes before an ordinary one of its level.
\* Mutant: a slot made from points is not used up.
SpendOrdinary(m, l) ==
  IF m.made[l] > 0 THEN m ELSE [m EXCEPT !.slots[l] = @ - 1]

HasSlot(l) == magic.made[l] > 0 \/ magic.slots[l] > 0
Spend(m, l) == IF m.made[l] > 0 THEN [m EXCEPT !.made[l] = @ - 1]
               ELSE [m EXCEPT !.slots[l] = @ - 1]

Conjures(m) ==
  magic' = m /\ UNCHANGED <<hero, dice, rests, window>> /\ UNCHANGED clockVars

Cast(l) == HasSlot(l) /\ Conjures(Spend(magic, l))
CreateSlot(l) ==
  /\ magic.points >= Cost[l]
  /\ Conjures([magic EXCEPT !.points = @ - Cost[l], !.made[l] = @ + 1])
ConvertSlot(l) ==
  /\ HasSlot(l) /\ magic.points + l <= MaxPoints
  /\ Conjures([Spend(magic, l) EXCEPT !.points = @ + l])
SpendPoints(n) ==
  magic.points >= n /\ Conjures([magic EXCEPT !.points = @ - n])

-----------------------------------------------------------------------------
BodyNext ==
  \/ \E n \in Blows :
       \/ \E crit, knockOut \in BOOLEAN : HeroHurt(n, crit, knockOut)
       \/ HeroHealed(n)
       \/ \E replace \in BOOLEAN : HeroBolstered(n, replace)
  \/ \E save \in Saves : HeroSaves(save)
  \/ HeroStabilized \/ HeroSuffocates \/ HeroBreathes
  \/ \E level \in HeroLevels : HeroTires(level)
  \/ \E id \in RestIds : FinishRecovery(id)
                         \/ \E n \in Blows \cup {0} : SpendHitDie(id, n)

MagicNext ==
  \/ \E l \in SlotLevels : Cast(l) \/ CreateSlot(l) \/ ConvertSlot(l)
  \/ \E n \in 1 .. MaxPoints : SpendPoints(n)
=============================================================================
