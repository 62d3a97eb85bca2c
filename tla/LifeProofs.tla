----------------------------- MODULE LifeProofs -----------------------------
(***************************************************************************)
(* TLAPS proofs about what is written to a life: every write or lifecycle  *)
(* event its guard lets through takes a sound row to a sound row, and a    *)
(* legal creature to a legal one of the same rules, never one that is dead *)
(* or gone back into play; and about the hero of Adventure, for every      *)
(* number of rests, combats and creatures, whatever blows and hours are.   *)
(***************************************************************************)
EXTENDS Adventure, FiniteSetTheorems, WellFoundedInduction, TLAPS

\* The halved maximum is a number no larger than the whole.
LEMMA EffMaxFacts ==
  ASSUME NEW full \in Nat, NEW level \in 0 .. 6
  PROVE  EffMax(full, level) \in Nat /\ EffMax(full, level) <= full
<1>1. full \div 2 \in Nat /\ full \div 2 <= full
  OBVIOUS
<1> QED
  BY <1>1 DEF EffMax

\* The hit points a row can hold.
LEMMA HpMaxFacts ==
  ASSUME NEW c \in Rows
  PROVE  HpMax(c) \in Nat /\ HpMax(c) <= c.full
<1>1. c.full \in Nat /\ c.level \in 0 .. 6
  BY DEF Rows
<1> QED
  BY <1>1, EffMaxFacts DEF HpMax

\* What writeHpFields leaves in each field, and Schedule.
Fields(w, c, hp, life, succ, fail) ==
  /\ w \in Rows
  /\ w.hp = hp /\ w.full = c.full /\ w.level = c.level
  /\ w.life = life /\ w.succ = succ /\ w.fail = fail
  /\ life = "stable" => w.due = c.due /\ w.settled = c.settled
  /\ life # "stable" => w.due = 0 /\ w.settled = FALSE
  /\ life # "dead" => w.block = c.block
  /\ life = "dead" => w.block = FALSE

\* What the last write of a row leaves in each field.
LEMMA WriteFields ==
  ASSUME NEW c \in Rows, NEW hp \in Nat, NEW temp \in Nat, NEW life \in Lives,
         NEW succ \in 0 .. 3, NEW fail \in 0 .. 3
  PROVE  Fields(WriteHp(c, hp, temp, life, succ, fail), c, hp, life, succ, fail)
  BY DEF WriteHp, Kept, Rows, Fields

\* Scheduling a recovery leaves the other fields alone.
LEMMA ScheduleFields ==
  ASSUME NEW c \in Rows, NEW due \in Nat
  PROVE  LET w == Schedule(c, due) IN
         /\ w \in Rows
         /\ w.hp = c.hp /\ w.full = c.full /\ w.level = c.level
         /\ w.life = c.life /\ w.block = c.block
         /\ w.due = due /\ w.settled = FALSE
  BY DEF Schedule, Rows

\* The maximum depends on the sheet and the level alone.
LEMMA SameMax ==
  ASSUME NEW c, NEW w, w.full = c.full, w.level = c.level
  PROVE  HpMax(w) = HpMax(c)
  BY DEF HpMax

-----------------------------------------------------------------------------
\* Damage, with or without a knock out.
LEMMA DamageSound ==
  ASSUME NEW c \in Rows, Sound(c), NEW n \in Nat \ {0}, NEW crit \in BOOLEAN,
         NEW knockOut \in BOOLEAN, NEW due \in Nat \ {0}, MayDamage(c, knockOut)
  PROVE  Damage(c, n, crit, knockOut, due) \in Rows
           /\ Sound(Damage(c, n, crit, knockOut, due))
<1> DEFINE hp == IF Drops(c, n) THEN 0
                 ELSE IF c.hp = 0 THEN 0 ELSE 0 - Overflow(c, n)
           temp == c.temp - Least(c.temp, n)
           life == LifeAfter(c, n, crit, knockOut)
           counts == c.full # 0 /\ Drops(c, n)
           succ == IF counts THEN 0 ELSE c.succ
           fail == IF counts THEN 0
                   ELSE IF c.full # 0 /\ c.hp = 0 /\ n < HpMax(c)
                        THEN Failures(c, crit) ELSE c.fail
           w == WriteHp(c, hp, temp, life, succ, fail)
<1>1. /\ c.hp \in Nat /\ c.full \in Nat /\ c.temp \in Nat /\ c.life \in Lives
      /\ c.succ \in 0 .. 3 /\ c.fail \in 0 .. 3 /\ c.due \in Nat
      /\ c.settled \in BOOLEAN /\ c.block \in BOOLEAN
      /\ HpMax(c) \in Nat
  BY HpMaxFacts DEF Rows
<1>2. temp \in Nat /\ Overflow(c, n) \in Int /\ Failures(c, crit) \in 0 .. 3
  BY <1>1 DEF Least, Overflow, Failures
<1>3. hp \in Nat /\ hp <= c.hp
  BY <1>1, <1>2 DEF Drops, Overflow, Least
<1>4. life \in Lives /\ succ \in 0 .. 3 /\ fail \in 0 .. 3
  BY <1>1, <1>2 DEF LifeAfter, Lives
<1>5. Fields(w, c, hp, life, succ, fail)
  <2> HIDE DEF hp, temp, life, succ, fail
  <2> QED
    BY <1>2, <1>3, <1>4, WriteFields
<1>6. HpMax(w) = HpMax(c)
  BY <1>5, SameMax DEF Fields
<1>7. Damage(c, n, crit, knockOut, due)
        = IF knockOut /\ counts THEN Schedule(w, due) ELSE w
  BY DEF Damage
<1> HIDE DEF w
<1>8. CASE knockOut /\ counts
  <2> DEFINE v == Schedule(w, due)
  <2>1. /\ v \in Rows /\ v.hp = w.hp /\ v.full = w.full /\ v.level = w.level
        /\ v.life = w.life /\ v.block = w.block /\ v.due = due
        /\ v.settled = FALSE
    BY <1>5, ScheduleFields DEF Fields
  <2>2. life = "stable" /\ hp = 0 /\ ~ c.block
    BY <1>8 DEF LifeAfter, MayDamage
  <2>3. HpMax(v) = HpMax(c)
    BY <2>1, <1>5, SameMax DEF Fields
  <2> HIDE DEF v, hp, life
  <2>4. Sound(v)
    BY <1>1, <1>5, <2>1, <2>2, <2>3 DEF Sound, MayDamage, Fields
  <2> QED
    BY <1>7, <1>8, <2>1, <2>4 DEF v
<1>9. CASE ~ (knockOut /\ counts)
  <2>1. /\ life \in {"dying", "stable"} => hp = 0
        /\ c.full # 0 /\ hp = 0 => life # "alive"
        /\ c.block => life \in {"dying", "dead"}
        /\ life = "stable" => c.life = "stable"
        /\ c.level = 6 => life = "dead"
    BY <1>1, <1>2, <1>9 DEF LifeAfter, Drops, Overflow, Least, Sound, MayDamage,
       Lives
  <2> HIDE DEF hp, life
  <2>2. Sound(w)
    BY <1>1, <1>3, <1>5, <1>6, <2>1 DEF Sound, MayDamage, Fields
  <2> QED
    BY <1>5, <1>7, <1>9, <2>2 DEF Fields
<1> QED
  BY <1>8, <1>9

-----------------------------------------------------------------------------
\* The types of a row's fields, and of its maximum.
LEMMA RowFields ==
  ASSUME NEW c \in Rows
  PROVE  /\ c.hp \in Nat /\ c.full \in Nat /\ c.temp \in Nat
         /\ c.level \in 0 .. 6 /\ c.life \in Lives
         /\ c.succ \in 0 .. 3 /\ c.fail \in 0 .. 3 /\ c.due \in Nat
         /\ c.settled \in BOOLEAN /\ c.block \in BOOLEAN
         /\ HpMax(c) \in Nat /\ HpMax(c) <= c.full
  BY HpMaxFacts DEF Rows

\* Every write through writeHpFields is sound that keeps to the maximum, leaves
\* only a body at 0 hit points down and only a dying one blocked.
LEMMA WriteSound ==
  ASSUME NEW c \in Rows, Sound(c), NEW hp \in Nat, NEW temp \in Nat,
         NEW life \in Lives, NEW succ \in 0 .. 3, NEW fail \in 0 .. 3,
         hp <= HpMax(c),
         life \in {"dying", "stable"} => hp = 0,
         c.full # 0 /\ hp = 0 => life # "alive",
         c.block => life \in {"dying", "dead"},
         life = "stable" => c.life = "stable",
         c.level = 6 => life = "dead"
  PROVE  Sound(WriteHp(c, hp, temp, life, succ, fail))
<1> DEFINE w == WriteHp(c, hp, temp, life, succ, fail)
<1>1. Fields(w, c, hp, life, succ, fail)
  BY WriteFields
<1>2. HpMax(w) = HpMax(c)
  BY <1>1, SameMax DEF Fields
<1> HIDE DEF w
<1>3. Sound(w)
  BY <1>1, <1>2, RowFields DEF Fields, Sound
<1> QED
  BY <1>3 DEF w

\* So is one that stabilizes and schedules a recovery.
LEMMA ScheduledSound ==
  ASSUME NEW c \in Rows, Sound(c), c.level # 6, ~ c.block, NEW temp \in Nat,
         NEW due \in Nat \ {0}
  PROVE  LET w == Schedule(WriteHp(c, 0, temp, "stable", 0, 0), due) IN
         w \in Rows /\ Sound(w)
<1> DEFINE v == WriteHp(c, 0, temp, "stable", 0, 0)
           w == Schedule(v, due)
<1>1. Fields(v, c, 0, "stable", 0, 0)
  BY WriteFields DEF Lives
<1>2. v \in Rows
  BY <1>1 DEF Fields
<1> HIDE DEF v
<1>3. /\ w \in Rows /\ w.hp = v.hp /\ w.full = v.full /\ w.level = v.level
      /\ w.life = v.life /\ w.block = v.block /\ w.due = due
      /\ w.settled = FALSE
  BY <1>2, ScheduleFields
<1>4. HpMax(w) = HpMax(c)
  BY <1>1, <1>3, SameMax DEF Fields
<1> HIDE DEF w
<1>5. w \in Rows /\ Sound(w)
  BY <1>1, <1>3, <1>4, RowFields DEF Fields, Sound
<1> QED
  BY <1>5 DEF w, v

\* Healing.
LEMMA HealSound ==
  ASSUME NEW c \in Rows, Sound(c), NEW n \in Nat, MayHeal(c, n)
  PROVE  Heal(c, n) \in Rows /\ Sound(Heal(c, n)) /\ Heal(c, n).life # "dead"
<1> DEFINE hp == Least(c.hp + n, HpMax(c))
           revived == c.life # "alive" /\ hp > 0
           life == IF revived THEN "alive" ELSE c.life
           succ == IF revived THEN 0 ELSE c.succ
           fail == IF revived THEN 0 ELSE c.fail
<1>1. hp \in Nat /\ hp <= HpMax(c) /\ hp <= c.hp + n
  BY RowFields DEF Least
<1>2. life \in Lives /\ succ \in 0 .. 3 /\ fail \in 0 .. 3
  BY RowFields DEF Lives
<1>3. c.hp = 0 /\ c.block => n = 0
  BY RowFields DEF MayHeal
<1>4. /\ life \in {"dying", "stable"} => hp = 0
      /\ c.full # 0 /\ hp = 0 => life # "alive"
      /\ c.block => life \in {"dying", "dead"}
      /\ life = "stable" => c.life = "stable"
      /\ c.level # 6 /\ life # "dead"
  <2>1. c.full # 0 /\ hp = 0 /\ c.life = "alive" => FALSE
    BY RowFields, <1>1 DEF Sound, Least, Lives
  <2>2. c.block => hp = 0
    BY RowFields, <1>1, <1>3 DEF Sound, Least
  <2> QED
    BY RowFields, <1>1, <2>1, <2>2 DEF Sound, MayHeal, Lives
<1>5. Heal(c, n) = WriteHp(c, hp, c.temp, life, succ, fail)
  BY DEF Heal
<1> HIDE DEF hp, life, succ, fail
<1>6. Sound(WriteHp(c, hp, c.temp, life, succ, fail))
  BY <1>1, <1>2, <1>4, WriteSound, RowFields
<1>7. Fields(WriteHp(c, hp, c.temp, life, succ, fail), c, hp, life, succ, fail)
  BY <1>1, <1>2, WriteFields, RowFields
<1> QED
  BY <1>4, <1>5, <1>6, <1>7 DEF Fields

-----------------------------------------------------------------------------
\* A death save.
LEMMA SaveSound ==
  ASSUME NEW c \in Rows, Sound(c), NEW save \in Saves, NEW due \in Nat \ {0},
         MaySave(c)
  PROVE  Save(c, save, due) \in Rows /\ Sound(Save(c, save, due))
<1> DEFINE revives == save = "natural20" /\ ~ c.block /\ HpMax(c) > 0
           succeeds == ~ revives /\ save \in {"natural20", "success"}
           succ == IF succeeds THEN Least(3, c.succ + 1) ELSE c.succ
           fail == IF succeeds \/ revives THEN c.fail
                   ELSE Least(3, c.fail + IF save = "natural1" THEN 2 ELSE 1)
           stable == succeeds /\ succ = 3 /\ ~ c.block
           life == IF fail = 3 THEN "dead" ELSE "dying"
<1>1. /\ c.life = "dying" /\ c.hp = 0 /\ c.level # 6 /\ c.temp \in Nat
      /\ HpMax(c) \in Nat
  BY RowFields DEF Sound, MaySave
<1>2. succ \in 0 .. 3 /\ fail \in 0 .. 3 /\ life \in Lives
  BY RowFields DEF Least, Lives
<1>3. Save(c, save, due)
        = IF revives THEN WriteHp(c, Least(1, HpMax(c)), c.temp, "alive", 0, 0)
          ELSE IF stable
          THEN Schedule(WriteHp(c, c.hp, c.temp, "stable", 0, 0), due)
          ELSE WriteHp(c, c.hp, c.temp, life, succ, fail)
  BY DEF Save
<1>4. CASE revives
  <2>1. Least(1, HpMax(c)) = 1 /\ 1 <= HpMax(c)
    BY <1>1, <1>4 DEF Least
  <2>2. Sound(WriteHp(c, 1, c.temp, "alive", 0, 0))
    BY <1>1, <1>4, <2>1, WriteSound DEF Lives
  <2>3. Fields(WriteHp(c, 1, c.temp, "alive", 0, 0), c, 1, "alive", 0, 0)
    BY <1>1, WriteFields DEF Lives
  <2> QED
    BY <1>3, <1>4, <2>1, <2>2, <2>3 DEF Fields
<1>5. CASE ~ revives /\ stable
  BY <1>1, <1>3, <1>5, ScheduledSound
<1>6. CASE ~ revives /\ ~ stable
  <2> HIDE DEF succ, fail
  <2>1. life \in {"dying", "dead"}
    OBVIOUS
  <2> HIDE DEF life
  <2>2. Sound(WriteHp(c, 0, c.temp, life, succ, fail))
    BY <1>1, <1>2, <2>1, WriteSound DEF Lives
  <2>3. Fields(WriteHp(c, 0, c.temp, life, succ, fail), c, 0, life, succ, fail)
    BY <1>1, <1>2, WriteFields
  <2> QED
    BY <1>1, <1>3, <1>6, <2>2, <2>3 DEF Fields
<1> QED
  BY <1>4, <1>5, <1>6

\* First aid.
LEMMA StabilizeSound ==
  ASSUME NEW c \in Rows, Sound(c), NEW due \in Nat \ {0}, MayStabilize(c)
  PROVE  Stabilize(c, due) \in Rows /\ Sound(Stabilize(c, due))
<1>1. c.hp = 0 /\ c.level # 6 /\ ~ c.block /\ c.temp \in Nat
  BY RowFields DEF Sound, MayStabilize
<1> QED
  BY <1>1, ScheduledSound DEF Stabilize

\* Running out of breath, and getting it back.
LEMMA SuffocateSound ==
  ASSUME NEW c \in Rows, Sound(c), MaySuffocate(c)
  PROVE  Suffocate(c) \in Rows /\ Sound(Suffocate(c))
<1> DEFINE succ == IF c.life = "dying" THEN c.succ ELSE 0
           fail == IF c.life = "dying" THEN c.fail ELSE 0
           v == WriteHp(c, 0, c.temp, "dying", succ, fail)
           w == [v EXCEPT !.block = TRUE]
<1>1. succ \in 0 .. 3 /\ fail \in 0 .. 3 /\ c.temp \in Nat
  BY RowFields
<1>2. c.level # 6
  BY DEF Sound, MaySuffocate
<1> HIDE DEF succ, fail
<1>3. Fields(v, c, 0, "dying", succ, fail)
  BY <1>1, WriteFields DEF Lives
<1> HIDE DEF v
<1>4. /\ w \in Rows /\ w.hp = v.hp /\ w.full = v.full /\ w.level = v.level
      /\ w.life = v.life /\ w.due = v.due /\ w.settled = v.settled
      /\ w.block = TRUE
  BY <1>3 DEF Fields, Rows
<1>5. HpMax(w) = HpMax(c)
  BY <1>3, <1>4, SameMax DEF Fields
<1>6. Suffocate(c) = w
  BY DEF Suffocate, v, succ, fail
<1> HIDE DEF w
<1> QED
  BY <1>2, <1>3, <1>4, <1>5, <1>6, RowFields DEF Fields, Sound

\* Breathing again.
LEMMA BreatheSound ==
  ASSUME NEW c \in Rows, Sound(c), NEW due \in Nat \ {0}
  PROVE  Breathe(c, due) \in Rows /\ Sound(Breathe(c, due))
<1> DEFINE free == [c EXCEPT !.block = FALSE]
<1>1. /\ free \in Rows /\ free.hp = c.hp /\ free.full = c.full
      /\ free.level = c.level /\ free.life = c.life /\ free.due = c.due
      /\ free.settled = c.settled /\ free.block = FALSE
  BY DEF Rows
<1>2. HpMax(free) = HpMax(c)
  BY <1>1, SameMax
<1>3. Breathe(c, due) = IF c.life = "dying" /\ c.succ >= 3
                        THEN Schedule(WriteHp(free, c.hp, c.temp, "stable", 0, 0),
                                      due)
                        ELSE free
  BY DEF Breathe
<1> HIDE DEF free
<1>4. Sound(free)
  BY <1>1, <1>2 DEF Sound
<1>5. c.life = "dying" => c.hp = 0 /\ free.level # 6 /\ c.temp \in Nat
  BY <1>1, RowFields DEF Sound
<1> QED
  BY <1>1, <1>3, <1>4, <1>5, ScheduledSound

\* A new level of exhaustion.
LEMMA ExhaustSound ==
  ASSUME NEW c \in Rows, Sound(c), NEW level \in 0 .. 6, NEW due \in Nat \ {0}
  PROVE  /\ Exhaust(c, level, due) \in Rows
         /\ Sound(Exhaust(c, level, due))
         /\ c.life = "dead" => Exhaust(c, level, due).life = "dead"
         /\ level # 6 /\ c.life # "dead" => Exhaust(c, level, due).life # "dead"
         /\ ~ c.block => ~ Exhaust(c, level, due).block
<1> DEFINE hp == Least(c.hp, EffMax(c.full, level))
           downed == c.hp > 0 /\ hp = 0
           life == IF level = 6 \/ c.life = "dead" THEN "dead"
                   ELSE IF downed THEN "dying" ELSE c.life
           succ == IF downed THEN 0 ELSE c.succ
           fail == IF downed THEN 0 ELSE c.fail
           b == [c EXCEPT !.level = level]
           row == WriteHp(b, hp, c.temp, life, succ, fail)
<1>1. /\ b \in Rows /\ b.hp = c.hp /\ b.full = c.full /\ b.level = level
      /\ b.life = c.life /\ b.due = c.due /\ b.settled = c.settled
      /\ b.block = c.block
  BY DEF Rows
<1>2. EffMax(c.full, level) \in Nat
  BY RowFields, EffMaxFacts
<1>3. /\ hp \in Nat /\ hp <= EffMax(c.full, level) /\ hp <= c.hp
      /\ hp = c.hp \/ hp = EffMax(c.full, level)
  BY <1>2, RowFields DEF Least
<1>4. succ \in 0 .. 3 /\ fail \in 0 .. 3 /\ c.temp \in Nat
  BY RowFields
<1>5. /\ life \in Lives
      /\ life \in {"dying", "stable"} => hp = 0
      /\ c.full # 0 /\ hp = 0 => life # "alive"
      /\ c.block => life \in {"dying", "dead"}
      /\ life = "stable" => c.life = "stable"
      /\ level = 6 => life = "dead"
      /\ c.life = "dead" => life = "dead"
      /\ level # 6 /\ c.life # "dead" => life # "dead"
  BY <1>3, RowFields DEF Sound, Lives
<1>6. Exhaust(c, level, due)
        = IF life = "stable" /\ row.settled /\ row.due = 0 /\ HpMax(row) > 0
          THEN Schedule(row, due) ELSE row
  BY DEF Exhaust
<1> HIDE DEF b, hp, life, succ, fail
<1>7. Fields(row, b, hp, life, succ, fail)
  BY <1>1, <1>3, <1>4, <1>5, WriteFields
<1>8. HpMax(row) = EffMax(c.full, level)
  BY <1>1, <1>7 DEF Fields, HpMax
<1> HIDE DEF row
<1>9. Sound(row)
  BY <1>1, <1>3, <1>5, <1>7, <1>8, RowFields DEF Fields, Sound
<1>10. ASSUME life = "stable"
       PROVE  Schedule(row, due) \in Rows /\ Sound(Schedule(row, due))
                /\ Schedule(row, due).life = row.life
                /\ Schedule(row, due).block = row.block
  <2> DEFINE w == Schedule(row, due)
  <2>1. row \in Rows
    BY <1>7 DEF Fields
  <2>2. /\ w \in Rows /\ w.hp = row.hp /\ w.full = row.full
        /\ w.level = row.level /\ w.life = row.life /\ w.block = row.block
        /\ w.due = due /\ w.settled = FALSE
    BY <2>1, ScheduleFields
  <2>3. HpMax(w) = HpMax(row)
    BY <2>2, SameMax
  <2> HIDE DEF w
  <2>4. Sound(w)
    BY <1>7, <1>9, <1>10, <2>2, <2>3 DEF Fields, Sound
  <2> QED
    BY <2>2, <2>4 DEF w
<1> QED
  BY <1>1, <1>5, <1>6, <1>7, <1>9, <1>10 DEF Fields

\* The recovery of a stable character, at its hour.
LEMMA RecoverSound ==
  ASSUME NEW c \in Rows, Sound(c), NEW hour, MayRecover(c, hour)
  PROVE  Recover(c) \in Rows /\ Sound(Recover(c))
<1> DEFINE v == Heal(c, 1)
           w == [v EXCEPT !.due = 0, !.settled = TRUE]
<1>1. ~ c.block /\ c.life = "stable"
  BY DEF MayRecover, Sound
<1>2. v \in Rows /\ Sound(v)
  BY <1>1, HealSound DEF MayHeal
<1>3. v.hp = 0 => v.life = "stable"
  <2> DEFINE hp == Least(c.hp + 1, HpMax(c))
             life == IF c.life # "alive" /\ hp > 0 THEN "alive" ELSE c.life
             succ == IF c.life # "alive" /\ hp > 0 THEN 0 ELSE c.succ
             fail == IF c.life # "alive" /\ hp > 0 THEN 0 ELSE c.fail
  <2>1. hp \in Nat /\ life \in Lives /\ succ \in 0 .. 3 /\ fail \in 0 .. 3
    BY RowFields DEF Least, Lives
  <2>2. v = WriteHp(c, hp, c.temp, life, succ, fail)
    BY DEF Heal
  <2>3. hp = 0 => life = "stable"
    BY <1>1
  <2> HIDE DEF hp, life, succ, fail, v
  <2>4. Fields(v, c, hp, life, succ, fail)
    BY <2>1, <2>2, WriteFields, RowFields
  <2> QED
    BY <2>3, <2>4 DEF Fields
<1>4. Recover(c) = IF v.hp = 0 THEN w ELSE v
  BY DEF Recover
<1> HIDE DEF v
<1>5. CASE v.hp = 0
  <2>1. /\ w \in Rows /\ w.hp = v.hp /\ w.full = v.full /\ w.level = v.level
        /\ w.life = v.life /\ w.block = v.block /\ w.due = 0
        /\ w.settled = TRUE
    BY <1>2 DEF Rows
  <2>2. HpMax(w) = HpMax(v)
    BY <2>1, SameMax
  <2> HIDE DEF w
  <2> QED
    BY <1>2, <1>3, <1>4, <1>5, <2>1, <2>2 DEF Sound
<1> QED
  BY <1>2, <1>4, <1>5

\* Temporary hit points say nothing about life.
LEMMA TemporarySound ==
  ASSUME NEW c \in Rows, Sound(c), NEW n \in Nat
  PROVE  LET w == [c EXCEPT !.temp = n] IN
         w \in Rows /\ Sound(w) /\ w.life = c.life
<1> DEFINE w == [c EXCEPT !.temp = n]
<1>1. /\ w \in Rows /\ w.hp = c.hp /\ w.full = c.full /\ w.level = c.level
      /\ w.life = c.life /\ w.block = c.block /\ w.due = c.due
      /\ w.settled = c.settled
  BY DEF Rows
<1>2. HpMax(w) = HpMax(c)
  BY <1>1, SameMax
<1> HIDE DEF w
<1>3. w \in Rows /\ Sound(w) /\ w.life = c.life
  BY <1>1, <1>2 DEF Sound
<1> QED
  BY <1>3 DEF w

-----------------------------------------------------------------------------
\* Creatures

\* The types of a creature's fields, and of what its body can hold.
LEMMA CreatureFields ==
  ASSUME NEW k \in Combatants
  PROVE  /\ k.hp \in Nat /\ k.full \in Nat /\ k.level \in 0 .. 6
         /\ k.status \in Statuses /\ k.rules \in {"monster", "character"}
         /\ k.succ \in 0 .. 3 /\ k.fail \in 0 .. 3 /\ k.due \in Nat
         /\ k.settled \in BOOLEAN /\ k.block \in BOOLEAN
         /\ k.zero \in {"none", "vanish", "bonded"}
         /\ Capacity(k) \in Nat
<1>1. k.full \in Nat /\ k.level \in 0 .. 6
  BY DEF Combatants
<1> QED
  BY <1>1, EffMaxFacts DEF Combatants, Capacity

\* w is the creature k with the fields given, and the same body and rules.
State(w, k, hp, status, succ, fail, due, settled, block) ==
  /\ w \in Combatants
  /\ w.full = k.full /\ w.level = k.level /\ w.rules = k.rules /\ w.zero = k.zero
  /\ w.hp = hp /\ w.status = status /\ w.succ = succ /\ w.fail = fail
  /\ w.due = due /\ w.settled = settled /\ w.block = block

\* What an event may make of a creature: a legal one, of the same rules, that
\* was not dead or gone.
Event(w, k) ==
  /\ w \in Combatants /\ Legal(w, TRUE) /\ w.rules = k.rules /\ w.zero = k.zero
  /\ k.status = "dead" => w.status = "dead"
  /\ k.status = "absent" => w.status = "absent"

\* A creature of the same body and rules can hold as much, and vanishes or not.
LEMMA SameBody ==
  ASSUME NEW k, NEW w, w.full = k.full, w.level = k.level, w.zero = k.zero
  PROVE  Capacity(w) = Capacity(k) /\ (Vanishes(w) <=> Vanishes(k))
  BY DEF Capacity, Vanishes

\* The statuses an event gives.
LEMMA StatusNames ==
  /\ "alive" \in Statuses /\ "unconscious" \in Statuses /\ "dying" \in Statuses
  /\ "stable" \in Statuses /\ "dead" \in Statuses /\ "absent" \in Statuses
  BY DEF Statuses

-----------------------------------------------------------------------------
\* The building blocks.
LEMMA UnscheduledState ==
  ASSUME NEW k \in Combatants
  PROVE  State(Unscheduled(k), k, k.hp, k.status, k.succ, k.fail, 0, FALSE, k.block)
  BY DEF Unscheduled, Combatants, State

\* A creature that leaves play.
LEMMA GoneState ==
  ASSUME NEW k \in Combatants
  PROVE  State(Gone(k), k, k.hp, "absent", 0, 0, 0, FALSE, FALSE)
<1> DEFINE u == Unscheduled(k)
           status == "absent"
           none == 0
           w == [u EXCEPT !.status = status, !.succ = none, !.fail = none,
                          !.block = FALSE]
<1>1. State(u, k, k.hp, k.status, k.succ, k.fail, 0, FALSE, k.block)
  BY UnscheduledState
<1>2. status \in Statuses /\ none \in 0 .. 3
  BY StatusNames
<1>3. Gone(k) = w
  BY DEF Gone
<1> HIDE DEF u, status, none
<1>4. State(w, k, k.hp, status, none, none, 0, FALSE, FALSE)
  BY <1>1, <1>2 DEF State, Combatants
<1> QED
  BY <1>3, <1>4 DEF status, none

\* One that is up again.
LEMMA RevivedState ==
  ASSUME NEW k \in Combatants, NEW hp \in Nat
  PROVE  State(Revived(k, hp), k, hp, "alive", 0, 0, 0, FALSE, k.block)
<1> DEFINE u == Unscheduled(k)
           status == "alive"
           none == 0
           w == [u EXCEPT !.hp = hp, !.status = status, !.succ = none,
                          !.fail = none]
<1>1. State(u, k, k.hp, k.status, k.succ, k.fail, 0, FALSE, k.block)
  BY UnscheduledState
<1>2. status \in Statuses /\ none \in 0 .. 3
  BY StatusNames
<1>3. Revived(k, hp) = w
  BY DEF Revived
<1> HIDE DEF u, status, none
<1>4. State(w, k, hp, status, none, none, 0, FALSE, k.block)
  BY <1>1, <1>2 DEF State, Combatants
<1> QED
  BY <1>3, <1>4 DEF status, none

\* One that is stable and waits for its hour.
LEMMA RecoveringState ==
  ASSUME NEW k \in Combatants, NEW due \in Nat
  PROVE  State(Recovering(k, due), k, k.hp, "stable", 0, 0, due, FALSE, k.block)
<1> DEFINE status == "stable"
           none == 0
           w == [k EXCEPT !.status = status, !.succ = none, !.fail = none,
                          !.due = due, !.settled = FALSE]
<1>1. status \in Statuses /\ none \in 0 .. 3
  BY StatusNames
<1>2. Recovering(k, due) = w
  BY DEF Recovering
<1> HIDE DEF status, none
<1>3. State(w, k, k.hp, status, none, none, due, FALSE, k.block)
  BY <1>1 DEF State, Combatants
<1> QED
  BY <1>2, <1>3 DEF status, none

\* Leaving play.
LEMMA GoneLegal ==
  ASSUME NEW k \in Combatants, k.hp <= Capacity(k), Vanishes(k) => k.rules = "monster"
  PROVE  Gone(k) \in Combatants /\ Legal(Gone(k), TRUE) /\ Gone(k).rules = k.rules
           /\ Gone(k).zero = k.zero /\ Gone(k).status = "absent"
<1>1. State(Gone(k), k, k.hp, "absent", 0, 0, 0, FALSE, FALSE)
  BY GoneState
<1>2. k.hp \in Nat
  BY CreatureFields
<1> QED
  BY <1>1, <1>2, SameBody DEF State, Legal, InPlay

\* A legal creature that recovers.
LEMMA RecoveringLegal ==
  ASSUME NEW k \in Combatants, NEW due \in Nat \ {0}, k.rules = "character",
         k.hp = 0, ~ k.block, k.level # 6, ~ Vanishes(k)
  PROVE  LET w == Recovering(k, due) IN
         w \in Combatants /\ Legal(w, TRUE) /\ w.rules = k.rules /\ w.zero = k.zero
<1>1. State(Recovering(k, due), k, k.hp, "stable", 0, 0, due, FALSE, k.block)
  BY RecoveringState
<1> QED
  BY <1>1, SameBody, CreatureFields DEF State, Legal, InPlay

-----------------------------------------------------------------------------
\* A blow (adjustCombatantHp).
LEMMA StrikeLegal ==
  ASSUME NEW k \in Combatants, Legal(k, TRUE), NEW n \in Nat \ {0},
         NEW crit \in BOOLEAN, MayStrike(k)
  PROVE  Event(Strike(k, n, crit), k)
<1> DEFINE down == k.hp > 0 /\ n >= k.hp
           status == StruckStatus(k, n, crit)
           saving == k.rules = "character" /\ k.hp = 0
                       /\ k.status \in {"dying", "stable"} /\ n < Capacity(k)
           hp == IF n >= k.hp THEN 0 ELSE k.hp - n
           hurt == [Unscheduled(k) EXCEPT !.hp = IF n >= @ THEN 0 ELSE @ - n]
           block == k.block /\ status # "dead"
           succ == IF k.rules = "character" /\ down THEN 0 ELSE k.succ
           fail == IF k.rules = "character" /\ down THEN 0
                   ELSE IF saving THEN Failures(k, crit) ELSE k.fail
           w == [hurt EXCEPT !.status = status, !.block = block,
                             !.succ = succ, !.fail = fail]
<1>1. /\ k.hp \in Nat /\ k.status \in Statuses /\ k.succ \in 0 .. 3
      /\ k.fail \in 0 .. 3 /\ k.block \in BOOLEAN /\ Capacity(k) \in Nat
      /\ k.rules \in {"monster", "character"}
      /\ k.status \notin {"dead", "absent"} /\ k.level # 6
  BY CreatureFields DEF MayStrike, InPlay, Legal
<1>2. hp \in Nat /\ hp <= k.hp /\ (hp = 0 <=> n >= k.hp)
  BY <1>1
<1>3. State(hurt, k, hp, k.status, k.succ, k.fail, 0, FALSE, k.block)
  <2>1. State(Unscheduled(k), k, k.hp, k.status, k.succ, k.fail, 0, FALSE, k.block)
    BY UnscheduledState
  <2>2. hurt = [Unscheduled(k) EXCEPT !.hp = hp]
    BY <2>1 DEF State, Combatants
  <2> HIDE DEF hp, hurt
  <2> QED
    BY <1>2, <2>1, <2>2 DEF State, Combatants
<1>4. Strike(k, n, crit) = IF Vanishes(k) /\ down THEN Gone(hurt) ELSE w
  <2>1. hurt.block = k.block /\ hurt.succ = k.succ /\ hurt.fail = k.fail
    BY <1>3 DEF State
  <2>2. hurt \in Combatants
    BY <1>3 DEF State
  <2> HIDE DEF hurt
  <2>3. w = [hurt EXCEPT !.status = status, !.block = @ /\ status # "dead",
                         !.succ = IF k.rules = "character" /\ down THEN 0 ELSE @,
                         !.fail = IF k.rules = "character" /\ down THEN 0
                                  ELSE IF saving THEN Failures(k, crit) ELSE @]
    BY <2>1, <2>2 DEF Combatants
  <2> QED
    BY <2>3 DEF Strike, hurt
<1>5. /\ Failures(k, crit) \in 0 .. 3
      /\ status \in Statuses /\ block \in BOOLEAN
      /\ succ \in 0 .. 3 /\ fail \in 0 .. 3
  BY <1>1 DEF Failures, Least, StruckStatus, Statuses
<1>6. hurt \in Combatants /\ Capacity(hurt) = Capacity(k) /\ hurt.hp = hp
        /\ (Vanishes(hurt) <=> Vanishes(k)) /\ hurt.rules = k.rules
        /\ hurt.zero = k.zero
  BY <1>3 DEF State, Capacity, Vanishes
<1>7. CASE Vanishes(k) /\ down
  <2> HIDE DEF hurt
  <2> QED
    BY <1>1, <1>2, <1>4, <1>6, <1>7, GoneLegal DEF Event, Legal
<1>8. CASE ~ (Vanishes(k) /\ down)
  <2>1. State(w, k, hp, status, succ, fail, 0, FALSE, block)
    <3> HIDE DEF hp, status, succ, fail, block, hurt
    <3> QED
      BY <1>2, <1>3, <1>5 DEF State, Combatants
  <2>2. /\ status \in {"dying", "stable"} => k.rules = "character" /\ hp = 0
        /\ k.rules = "character" /\ hp = 0 => status \in {"dying", "dead"}
        /\ status # "stable" /\ status # "absent"
        /\ block => status = "dying"
        /\ hp <= Capacity(k)
        /\ Vanishes(k) => hp # 0 /\ k.rules = "monster"
    BY <1>1, <1>2, <1>8 DEF Legal, StruckStatus, Statuses
  <2> HIDE DEF hp, status, succ, fail, block, w, hurt
  <2>3. w \in Combatants /\ Legal(w, TRUE) /\ w.rules = k.rules /\ w.zero = k.zero
    BY <1>1, <1>2, <1>5, <2>1, <2>2, SameBody DEF State, Legal, InPlay
  <2> QED
    BY <1>1, <1>4, <1>8, <2>3 DEF Event
<1> QED
  BY <1>7, <1>8

-----------------------------------------------------------------------------
\* What an event in play starts from.
LEMMA InPlayFacts ==
  ASSUME NEW k \in Combatants, Legal(k, TRUE), InPlay(k)
  PROVE  /\ k.hp \in Nat /\ k.hp <= Capacity(k) /\ Capacity(k) \in Nat
         /\ k.status \in Statuses \ {"dead", "absent"} /\ k.level # 6
         /\ Vanishes(k) => k.rules = "monster" /\ k.hp # 0
         /\ k.rules = "monster" => k.status \notin {"dying", "stable"}
         /\ k.rules \in {"monster", "character"}
  BY CreatureFields DEF InPlay, Legal

\* A blow that knocks out.
LEMMA KnockedOutLegal ==
  ASSUME NEW k \in Combatants, Legal(k, TRUE), NEW n \in Nat, MayKnockOut(k, n),
         NEW due \in Nat \ {0}
  PROVE  Event(KnockedOut(k, due), k)
<1>1. InPlay(k) /\ ~ k.block /\ ~ Vanishes(k)
  BY DEF MayKnockOut
<1>2. CASE k.rules = "monster"
  <2> DEFINE u == Unscheduled(k)
             status == "unconscious"
             none == 0
             w == [u EXCEPT !.hp = none, !.status = status, !.succ = none,
                            !.fail = none]
  <2>1. State(u, k, k.hp, k.status, k.succ, k.fail, 0, FALSE, k.block)
    BY UnscheduledState
  <2>2. status \in Statuses /\ none \in 0 .. 3 /\ none \in Nat
    BY StatusNames
  <2>3. KnockedOut(k, due) = w
    BY <1>2 DEF KnockedOut
  <2> HIDE DEF u, status, none
  <2>4. State(w, k, none, status, none, none, 0, FALSE, k.block)
    BY <2>1, <2>2 DEF State, Combatants
  <2> USE DEF status, none
  <2> HIDE DEF w
  <2> QED
    BY <1>1, <1>2, <2>3, <2>4, InPlayFacts, SameBody
    DEF State, Event, Legal, InPlay
<1>3. CASE k.rules = "character"
  <2> DEFINE b == [k EXCEPT !.hp = 0]
  <2>1. /\ b \in Combatants /\ b.hp = 0 /\ b.level = k.level /\ b.rules = k.rules
        /\ b.zero = k.zero /\ b.block = k.block /\ b.full = k.full
    BY DEF Combatants
  <2>2. ~ Vanishes(b)
    BY <1>1, <2>1, SameBody
  <2> HIDE DEF b
  <2>3. LET w == Recovering(b, due) IN
        w \in Combatants /\ Legal(w, TRUE) /\ w.rules = b.rules /\ w.zero = b.zero
    BY <1>1, <1>3, <2>1, <2>2, InPlayFacts, RecoveringLegal
  <2>4. KnockedOut(k, due) = Recovering(b, due)
    BY <1>3 DEF KnockedOut, b
  <2> QED
    BY <1>1, <2>1, <2>3, <2>4 DEF Event, InPlay
<1> QED
  BY <1>1, <1>2, <1>3, InPlayFacts

\* Healing (adjustCombatantHp).
LEMMA MendLegal ==
  ASSUME NEW k \in Combatants, Legal(k, TRUE), NEW n \in Nat \ {0}, MayMend(k)
  PROVE  Event(Mend(k, n), k)
<1> DEFINE hp == Least(Capacity(k), k.hp + n)
           w == [k EXCEPT !.hp = hp]
<1>1. InPlay(k) /\ ~ k.block
  BY DEF MayMend
<1>0. k.hp \in Nat /\ k.hp <= Capacity(k) /\ Capacity(k) \in Nat
  BY <1>1, InPlayFacts
<1>2. hp \in Nat /\ hp <= Capacity(k) /\ (hp = 0 <=> Capacity(k) = 0)
  BY <1>0 DEF Least
<1>3. Mend(k, n) = IF hp > 0 /\ k.status \in {"dying", "stable"}
                   THEN Revived(k, hp) ELSE w
  BY DEF Mend
<1> HIDE DEF hp
<1>4. State(w, k, hp, k.status, k.succ, k.fail, k.due, k.settled, k.block)
  BY <1>2 DEF State, Combatants
<1>5. State(Revived(k, hp), k, hp, "alive", 0, 0, 0, FALSE, k.block)
  BY <1>2, RevivedState
<1>6. CASE hp > 0 /\ k.status \in {"dying", "stable"}
  BY <1>1, <1>2, <1>3, <1>5, <1>6, InPlayFacts, SameBody
  DEF State, Event, Legal, InPlay
<1>7. CASE ~ (hp > 0 /\ k.status \in {"dying", "stable"})
  <2>1. hp = 0 => k.hp = 0
    BY <1>0, <1>2
  <2>2. k.status \in {"dying", "stable"} => hp = 0
    BY <1>2, <1>7
  <2> HIDE DEF w
  <2> QED
    BY <1>1, <1>2, <1>3, <1>4, <1>7, <2>1, <2>2, InPlayFacts, SameBody
    DEF State, Event, Legal, InPlay
<1> QED
  BY <1>6, <1>7

\* A status the game master gives.
LEMMA DeclareLegal ==
  ASSUME NEW k \in Combatants, Legal(k, TRUE), NEW status \in Declared,
         MayDeclare(k, status)
  PROVE  Event(Declare(k, status), k)
<1> DEFINE u == Unscheduled(k)
           block == k.block /\ status # "dead"
           w == [u EXCEPT !.status = status, !.block = block]
<1>1. InPlay(k)
  BY DEF MayDeclare
<1>2. status \in Statuses \ {"dying", "stable", "absent"}
  BY DEF Declared, Statuses
<1>3. State(u, k, k.hp, k.status, k.succ, k.fail, 0, FALSE, k.block)
  BY UnscheduledState
<1>4. Declare(k, status) = w
  <2>1. u.block = k.block /\ u \in Combatants
    BY <1>3 DEF State
  <2> HIDE DEF u
  <2>2. w = [u EXCEPT !.status = status, !.block = @ /\ status # "dead"]
    BY <2>1 DEF Combatants
  <2> QED
    BY <2>2 DEF Declare, u
<1>5. block \in BOOLEAN
  BY CreatureFields
<1> HIDE DEF u, block
<1>6. State(w, k, k.hp, status, k.succ, k.fail, 0, FALSE, block)
  BY <1>2, <1>3, <1>5 DEF State, Combatants
<1> HIDE DEF w
<1>7. /\ block => status = "dying"
      /\ k.rules = "character" /\ k.hp = 0 => status = "dead"
  <2>1. k.block => k.rules = "character" /\ k.hp = 0
    BY DEF Legal
  <2>2. k.rules = "character" /\ k.hp = 0 => status = "dead"
    <3> SUFFICES ASSUME k.rules = "character", k.hp = 0, status # "dead"
                 PROVE  FALSE
      OBVIOUS
    <3>1. status \in {"alive", "unconscious", "escaped", "inactive"}
      BY DEF Declared
    <3> QED
      BY <3>1, CreatureFields DEF MayDeclare
  <2> QED
    BY <2>1, <2>2 DEF block
<1> QED
  BY <1>1, <1>2, <1>4, <1>6, <1>7, InPlayFacts, SameBody
  DEF State, Event, Legal, InPlay

\* Opting into death saves changes the rules, and nothing else; only a creature
\* that does not vanish may.
LEMMA OptInLegal ==
  ASSUME NEW k \in Combatants, Legal(k, TRUE), MayOptIn(k)
  PROVE  /\ OptIn(k) \in Combatants /\ Legal(OptIn(k), TRUE)
         /\ OptIn(k).status = k.status /\ OptIn(k).zero = k.zero
<1> DEFINE w == [k EXCEPT !.rules = "character"]
<1>1. /\ w \in Combatants /\ w.full = k.full /\ w.level = k.level
      /\ w.zero = k.zero /\ w.hp = k.hp /\ w.status = k.status
      /\ w.rules = "character" /\ w.succ = k.succ /\ w.fail = k.fail
      /\ w.due = k.due /\ w.settled = k.settled /\ w.block = k.block
  BY DEF Combatants
<1>2. OptIn(k) = w
  BY DEF OptIn
<1> HIDE DEF w
<1> QED
  BY <1>1, <1>2, CreatureFields, SameBody DEF MayOptIn, InPlay, Legal

-----------------------------------------------------------------------------
\* A dying creature: what a death save, first aid, or another blow starts from.
LEMMA SavingFacts ==
  ASSUME NEW k \in Combatants, Legal(k, TRUE), k.status = "dying"
  PROVE  /\ k.rules = "character" /\ k.hp = 0 /\ k.level # 6 /\ ~ Vanishes(k)
         /\ k.due = 0 /\ k.settled = FALSE
  BY CreatureFields DEF Legal, InPlay

\* One more tally of a dying creature that does not change its status.
LEMMA TallyLegal ==
  ASSUME NEW k \in Combatants, Legal(k, TRUE), k.status = "dying",
         NEW succ \in 0 .. 3, NEW fail \in 0 .. 3
  PROVE  Event([k EXCEPT !.succ = succ, !.fail = fail], k)
<1> DEFINE w == [k EXCEPT !.succ = succ, !.fail = fail]
<1>1. State(w, k, k.hp, k.status, succ, fail, k.due, k.settled, k.block)
  BY DEF State, Combatants
<1> HIDE DEF w
<1>2. Event(w, k)
  BY <1>1, SavingFacts, CreatureFields, SameBody DEF State, Event, Legal, InPlay
<1> QED
  BY <1>2 DEF w

\* A death save (recordCombatantDeathSave).
LEMMA SavedLegal ==
  ASSUME NEW k \in Combatants, Legal(k, TRUE), Saving(k), NEW save \in Saves,
         NEW due \in Nat \ {0}
  PROVE  Event(Saved(k, save, due), k)
<1> DEFINE revives == save = "natural20" /\ ~ k.block /\ Capacity(k) > 0
           succeeds == save \in {"natural20", "success"}
           succ == Least(3, k.succ + 1)
           fail == Least(3, k.fail + IF save = "natural1" THEN 2 ELSE 1)
           s == [k EXCEPT !.succ = succ]
           f == [k EXCEPT !.fail = fail]
           status == "dead"
           d == [k EXCEPT !.fail = fail, !.status = status, !.block = FALSE]
<1>1. /\ k.status = "dying" /\ k.rules = "character" /\ k.hp = 0 /\ k.level # 6
      /\ ~ Vanishes(k) /\ k.due = 0 /\ k.settled = FALSE
  BY SavingFacts DEF Saving
<1>2. succ \in 0 .. 3 /\ fail \in 0 .. 3 /\ status \in Statuses
  BY CreatureFields, StatusNames DEF Least
<1>3. Saved(k, save, due) =
        IF revives THEN Revived(k, Least(1, Capacity(k)))
        ELSE IF succeeds
        THEN IF succ = 3 /\ ~ k.block THEN Recovering(k, due) ELSE s
        ELSE IF fail = 3 THEN d ELSE f
  BY DEF Saved
<1> HIDE DEF succ, fail, status
<1>4. CASE revives
  <2>1. Least(1, Capacity(k)) = 1 /\ 1 <= Capacity(k)
    BY <1>4, CreatureFields DEF Least
  <2>2. State(Revived(k, 1), k, 1, "alive", 0, 0, 0, FALSE, k.block)
    BY RevivedState
  <2>3. Event(Revived(k, 1), k)
    BY <1>1, <1>4, <2>1, <2>2, SameBody DEF State, Event, Legal, InPlay
  <2> QED
    BY <1>3, <1>4, <2>1, <2>3
<1>5. ASSUME ~ k.block
      PROVE  Event(Recovering(k, due), k)
  <2>1. LET w == Recovering(k, due) IN
        w \in Combatants /\ Legal(w, TRUE) /\ w.rules = k.rules /\ w.zero = k.zero
    BY <1>1, <1>5, RecoveringLegal
  <2> QED
    BY <1>1, <2>1 DEF Event
<1>6. Event(s, k)
  <2>1. s = [k EXCEPT !.succ = succ, !.fail = k.fail] /\ k.fail \in 0 .. 3
    BY DEF Combatants
  <2> QED
    BY <1>1, <1>2, <2>1, TallyLegal
<1>7. Event(f, k)
  <2>1. f = [k EXCEPT !.succ = k.succ, !.fail = fail] /\ k.succ \in 0 .. 3
    BY DEF Combatants
  <2> QED
    BY <1>1, <1>2, <2>1, TallyLegal
<1>8. Event(d, k)
  <2>1. State(d, k, k.hp, status, k.succ, fail, k.due, k.settled, FALSE)
    BY <1>2 DEF State, Combatants
  <2> HIDE DEF d
  <2> QED
    BY <1>1, <2>1, CreatureFields, SameBody DEF State, Event, Legal, InPlay, status
<1> HIDE DEF s, f, d, revives, succeeds
<1> QED
  BY <1>3, <1>4, <1>5, <1>6, <1>7, <1>8

\* First aid.
LEMMA SteadyLegal ==
  ASSUME NEW k \in Combatants, Legal(k, TRUE), MaySteady(k), NEW due \in Nat \ {0}
  PROVE  Event(Recovering(k, due), k)
<1>1. /\ k.status = "dying" /\ k.rules = "character" /\ k.hp = 0 /\ k.level # 6
      /\ ~ Vanishes(k) /\ ~ k.block
  BY SavingFacts DEF MaySteady, Saving
<1>2. LET w == Recovering(k, due) IN
      w \in Combatants /\ Legal(w, TRUE) /\ w.rules = k.rules /\ w.zero = k.zero
  BY <1>1, RecoveringLegal
<1> QED
  BY <1>1, <1>2 DEF Event

\* Breathing again.
LEMMA GaspLegal ==
  ASSUME NEW k \in Combatants, Legal(k, TRUE), k.block, NEW due \in Nat \ {0}
  PROVE  Event(Gasp(k, due), k)
<1> DEFINE free == [k EXCEPT !.block = FALSE]
<1>1. /\ k.status = "dying" /\ k.rules = "character" /\ k.hp = 0 /\ k.level # 6
      /\ ~ Vanishes(k)
  <2>1. k.status = "dying"
    BY DEF Legal
  <2> QED
    BY <2>1, SavingFacts
<1>2. State(free, k, k.hp, k.status, k.succ, k.fail, k.due, k.settled, FALSE)
  BY DEF State, Combatants
<1>3. Gasp(k, due) = IF k.succ >= 3 THEN Recovering(free, due) ELSE free
  BY <1>1 DEF Gasp
<1> HIDE DEF free
<1>4. Event(free, k) /\ ~ Vanishes(free)
  BY <1>1, <1>2, CreatureFields, SameBody DEF State, Event, Legal, InPlay
<1>5. /\ free \in Combatants /\ free.rules = "character" /\ free.hp = 0
      /\ ~ free.block /\ free.level # 6
  BY <1>1, <1>2 DEF State
<1>6. LET w == Recovering(free, due) IN
      w \in Combatants /\ Legal(w, TRUE) /\ w.rules = free.rules
        /\ w.zero = free.zero
  BY <1>4, <1>5, RecoveringLegal
<1>7. Event(Recovering(free, due), k)
  BY <1>1, <1>2, <1>6 DEF State, Event
<1> QED
  BY <1>3, <1>4, <1>7

\* Running out of breath.
LEMMA ChokeLegal ==
  ASSUME NEW k \in Combatants, Legal(k, TRUE), MayChoke(k)
  PROVE  Event(Choke(k), k)
<1> DEFINE none == 0
           drop == [k EXCEPT !.hp = none]
           u == Unscheduled(drop)
           dead == "dead"
           dying == "dying"
           succ == IF k.status = "dying" THEN k.succ ELSE 0
           fail == IF k.status = "dying" THEN k.fail ELSE 0
           d == [u EXCEPT !.status = dead]
           b == [u EXCEPT !.status = dying, !.block = TRUE, !.succ = succ,
                          !.fail = fail]
<1>1. InPlay(k)
  BY DEF MayChoke
<1>2. /\ none \in Nat /\ dead \in Statuses /\ dying \in Statuses
      /\ succ \in 0 .. 3 /\ fail \in 0 .. 3
  BY StatusNames, CreatureFields
<1> HIDE DEF none, dead, dying
<1>3. State(drop, k, none, k.status, k.succ, k.fail, k.due, k.settled, k.block)
  BY <1>2 DEF State, Combatants
<1>4. drop \in Combatants
  BY <1>3 DEF State
<1> HIDE DEF drop
<1>5. State(u, drop, drop.hp, drop.status, drop.succ, drop.fail, 0, FALSE, drop.block)
  BY <1>4, UnscheduledState
<1> HIDE DEF u
<1>6. State(u, k, none, k.status, k.succ, k.fail, 0, FALSE, k.block)
  BY <1>3, <1>5 DEF State
<1>7. Choke(k) = IF k.block THEN k
                 ELSE IF Vanishes(k) THEN Gone(drop)
                 ELSE IF k.rules = "monster" THEN d ELSE b
  <2>1. u.succ = k.succ /\ u.fail = k.fail /\ u \in Combatants
    BY <1>6 DEF State
  <2>2. b = [u EXCEPT !.status = dying, !.block = TRUE,
                      !.succ = IF k.status = "dying" THEN @ ELSE 0,
                      !.fail = IF k.status = "dying" THEN @ ELSE 0]
    BY <2>1 DEF Combatants
  <2> QED
    BY <2>2 DEF Choke, none, dead, dying, drop, u
<1>8. CASE k.block
  <2>1. Event(k, k)
    BY DEF Event
  <2> QED
    BY <1>7, <1>8, <2>1
<1>9. CASE ~ k.block /\ Vanishes(k)
  <2>1. Event(Gone(drop), k)
    <3>1. drop.hp = 0 /\ drop.rules = "monster" /\ Capacity(drop) = Capacity(k)
            /\ drop.rules = k.rules /\ drop.zero = k.zero
      BY <1>1, <1>3, <1>9, InPlayFacts, SameBody DEF State, none
    <3>2. drop.hp <= Capacity(drop)
      <4>1. Capacity(k) \in Nat
        BY CreatureFields
      <4> QED
        BY <3>1, <4>1
    <3> QED
      BY <1>1, <1>4, <3>1, <3>2, GoneLegal DEF Event, InPlay
  <2> QED
    BY <1>7, <1>9, <2>1
<1>10. CASE ~ k.block /\ ~ Vanishes(k) /\ k.rules = "monster"
  <2>1. State(d, k, none, dead, k.succ, k.fail, 0, FALSE, k.block)
    BY <1>2, <1>6 DEF State, Combatants
  <2> HIDE DEF d
  <2>2. Event(d, k)
    BY <1>1, <1>10, <2>1, InPlayFacts, SameBody
    DEF State, Event, Legal, InPlay, none, dead
  <2> QED
    BY <1>7, <1>10, <2>2
<1>11. CASE ~ k.block /\ ~ Vanishes(k) /\ k.rules = "character"
  <2> HIDE DEF succ, fail
  <2>1. State(b, k, none, dying, succ, fail, 0, FALSE, TRUE)
    BY <1>2, <1>6 DEF State, Combatants
  <2> HIDE DEF b
  <2>2. Event(b, k)
    BY <1>1, <1>11, <2>1, InPlayFacts, SameBody
    DEF State, Event, Legal, InPlay, none, dying
  <2> QED
    BY <1>7, <1>11, <2>2
<1> QED
  BY <1>1, <1>8, <1>9, <1>10, <1>11, InPlayFacts

-----------------------------------------------------------------------------
\* A new level of exhaustion (adjustCombatantExhaustion).
LEMMA TireLegal ==
  ASSUME NEW k \in Combatants, Legal(k, TRUE), NEW level \in 0 .. 6,
         MayTire(k, level), NEW due \in Nat \ {0}
  PROVE  Event(Tire(k, level, due), k)
<1> DEFINE most == EffMax(k.full, level)
           hp == Least(k.hp, most)
           row == [k EXCEPT !.level = level, !.hp = hp]
           u == Unscheduled(row)
           left == IF k.hp > 0 /\ row.hp = 0 THEN Collapse(row) ELSE row
           dead == "dead"
           d == [u EXCEPT !.status = dead, !.block = FALSE]
           t == [left EXCEPT !.due = due, !.settled = FALSE]
<1>1. /\ k.hp \in Nat /\ k.level \in 0 .. 6 /\ k.status \in Statuses
      /\ k.status # "absent"
      /\ k.rules \in {"monster", "character"} /\ k.succ \in 0 .. 3
      /\ k.fail \in 0 .. 3 /\ k.block \in BOOLEAN /\ k.settled \in BOOLEAN
      /\ k.due \in Nat /\ k.full \in Nat
  BY CreatureFields DEF MayTire
<1>2. most \in Nat
  BY <1>1, EffMaxFacts
<1>3. hp \in Nat /\ hp <= k.hp /\ hp <= most
  BY <1>1, <1>2 DEF Least
<1>4. Tire(k, level, due) =
        IF k.status = "dead" THEN row
        ELSE IF level = 6 THEN d
        ELSE IF k.settled /\ Capacity(row) > 0 THEN t ELSE left
  <2>1. row = [k EXCEPT !.level = level, !.hp = Least(@, EffMax(k.full, level))]
    BY DEF Combatants
  <2> QED
    BY <2>1 DEF Tire
<1>5. k.status = "dead" /\ Vanishes(k) => level = 6 \/ hp > 0
  BY DEF MayTire
<1> HIDE DEF most, hp
<1>6. /\ row \in Combatants /\ row.full = k.full /\ row.level = level
      /\ row.rules = k.rules /\ row.zero = k.zero /\ row.hp = hp
      /\ row.status = k.status /\ row.succ = k.succ /\ row.fail = k.fail
      /\ row.due = k.due /\ row.settled = k.settled /\ row.block = k.block
  BY <1>1, <1>3 DEF Combatants
<1> HIDE DEF row
<1>7. Capacity(row) = most /\ (Vanishes(row) <=> Vanishes(k))
  BY <1>6 DEF Capacity, Vanishes, most
<1>8. ASSUME \/ k.status = "dead" /\ (Vanishes(k) => level = 6 \/ hp > 0)
             \/ level # 6 /\ k.status # "dead" /\ (k.hp > 0 => hp > 0)
      PROVE  Event(row, k)
  <2>1. hp = 0 => k.hp = 0 \/ k.status = "dead"
    BY <1>1, <1>3, <1>8
  <2> QED
    BY <1>1, <1>3, <1>6, <1>7, <1>8, <2>1 DEF Event, Legal, InPlay
<1>9. ASSUME k.status # "dead", level = 6
      PROVE  Event(d, k)
  <2>1. State(u, row, hp, k.status, k.succ, k.fail, 0, FALSE, k.block)
    BY <1>6, UnscheduledState
  <2>2. dead \in Statuses
    BY StatusNames
  <2> HIDE DEF u, dead
  <2>3. State(d, row, hp, dead, k.succ, k.fail, 0, FALSE, FALSE)
    BY <2>1, <2>2 DEF State, Combatants
  <2> HIDE DEF d
  <2>4. Capacity(d) = most /\ (Vanishes(d) <=> Vanishes(k))
    BY <1>7, <2>3, <1>6, SameBody DEF State
  <2> QED
    BY <1>1, <1>3, <1>6, <1>9, <2>3, <2>4 DEF State, Event, Legal, InPlay, dead
<1>10. ASSUME k.status # "dead", level # 6, k.hp > 0, hp = 0
       PROVE  Event(Collapse(row), k) /\ k.status # "stable"
  <2>1. k.status # "stable" /\ k.status # "dying" /\ ~ k.block
    BY <1>1, <1>10 DEF Legal
  <2>2. CASE Vanishes(row)
    <3>1. row.hp <= Capacity(row) /\ row.rules = "monster"
      BY <1>3, <1>6, <1>7, <2>2 DEF Legal
    <3>2. Event(Gone(row), k)
      BY <1>1, <1>6, <1>10, <3>1, GoneLegal DEF Event
    <3> QED
      BY <2>1, <2>2, <3>2 DEF Collapse
  <2>3. CASE ~ Vanishes(row)
    <3> DEFINE status == IF k.rules = "character" THEN "dying" ELSE "dead"
               none == 0
               w == [u EXCEPT !.status = status, !.succ = none, !.fail = none]
    <3>1. State(u, row, hp, k.status, k.succ, k.fail, 0, FALSE, k.block)
      BY <1>6, UnscheduledState
    <3>2. status \in Statuses /\ none \in 0 .. 3
      BY StatusNames
    <3>3. Collapse(row) = w
      BY <1>6, <2>3 DEF Collapse
    <3> HIDE DEF u, status, none
    <3>4. State(w, row, hp, status, none, none, 0, FALSE, k.block)
      BY <3>1, <3>2 DEF State, Combatants
    <3> HIDE DEF w
    <3>5. Capacity(w) = most /\ (Vanishes(w) <=> Vanishes(k))
      BY <1>7, <3>4, <1>6, SameBody DEF State
    <3>6. Event(w, k)
      BY <1>1, <1>3, <1>6, <1>7, <1>10, <2>1, <2>3, <3>4, <3>5
      DEF State, Event, Legal, InPlay, status, none
    <3> QED
      BY <2>1, <3>3, <3>6
  <2> QED
    BY <2>2, <2>3
<1>11. ASSUME k.status # "dead", level # 6
       PROVE  Event(left, k)
  BY <1>6, <1>8, <1>10, <1>11, <1>1, <1>3
<1>12. ASSUME k.status # "dead", level # 6, k.settled
       PROVE  Event(t, k)
  <2>1. k.status = "stable" /\ k.hp = 0 /\ k.rules = "character"
    BY <1>12 DEF Legal
  <2>2. left = row
    BY <2>1
  <2>3. Event(row, k)
    BY <1>8, <1>12, <2>1
  <2> DEFINE v == [row EXCEPT !.due = due, !.settled = FALSE]
  <2>4. State(v, row, hp, k.status, k.succ, k.fail, due, FALSE, k.block)
    BY <1>6 DEF State, Combatants
  <2> HIDE DEF v
  <2>5. Capacity(v) = Capacity(row) /\ (Vanishes(v) <=> Vanishes(row))
    BY <2>4, SameBody DEF State
  <2>6. Event(v, k)
    BY <1>6, <2>1, <2>3, <2>4, <2>5 DEF State, Event, Legal, InPlay
  <2> QED
    BY <2>2, <2>6 DEF v
<1> HIDE DEF left, t, d
<1> QED
  BY <1>4, <1>5, <1>8, <1>9, <1>11, <1>12

\* The recovery of a stable creature, at its hour.
LEMMA RousedLegal ==
  ASSUME NEW k \in Combatants, Legal(k, TRUE), NEW hour, Overdue(k, hour)
  PROVE  Event(Roused(k), k)
<1> DEFINE w == [k EXCEPT !.due = 0, !.settled = TRUE]
<1>1. k.status = "stable" /\ k.hp = 0 /\ k.rules = "character" /\ k.level # 6
        /\ ~ k.block /\ ~ Vanishes(k) /\ Capacity(k) \in Nat
  BY CreatureFields DEF Overdue, Legal, InPlay
<1>2. State(w, k, k.hp, k.status, k.succ, k.fail, 0, TRUE, k.block)
  BY DEF State, Combatants
<1>3. Roused(k) = IF Capacity(k) = 0 THEN w
                  ELSE Revived(k, Least(1, Capacity(k)))
  BY DEF Roused
<1> HIDE DEF w
<1>4. Event(w, k)
  BY <1>1, <1>2, SameBody DEF State, Event, Legal, InPlay
<1>5. ASSUME Capacity(k) # 0
      PROVE  Event(Revived(k, Least(1, Capacity(k))), k)
  <2>1. Least(1, Capacity(k)) = 1 /\ 1 <= Capacity(k)
    BY <1>1, <1>5 DEF Least
  <2>2. State(Revived(k, 1), k, 1, "alive", 0, 0, 0, FALSE, k.block)
    BY RevivedState
  <2> QED
    BY <1>1, <2>1, <2>2, SameBody DEF State, Event, Legal, InPlay
<1> QED
  BY <1>3, <1>4, <1>5

-----------------------------------------------------------------------------
\* A new creature.
LEMMA CreatureLegal ==
  ASSUME NEW full \in Nat \ {0}
  PROVE  Creature(full) \in Combatants /\ Legal(Creature(full), TRUE)
<1>1. /\ Creature(full) \in Combatants
      /\ Creature(full).hp = full /\ Creature(full).full = full
      /\ Creature(full).level = 0 /\ Creature(full).status = "alive"
      /\ Creature(full).rules = "monster" /\ Creature(full).due = 0
      /\ Creature(full).settled = FALSE /\ Creature(full).block = FALSE
      /\ Creature(full).zero = "none"
  BY StatusNames DEF Creature, Combatants
<1>2. Capacity(Creature(full)) = full
  BY <1>1 DEF Capacity, EffMax
<1> QED
  BY <1>1, <1>2 DEF Legal, Vanishes, InPlay

\* A row that no longer speaks for its creature and keeps no recovery.
LEMMA UnscheduledLegal ==
  ASSUME NEW k \in Combatants, NEW owner \in BOOLEAN, Legal(k, owner)
  PROVE  /\ Unscheduled(k) \in Combatants /\ Legal(Unscheduled(k), FALSE)
         /\ Unscheduled(k).status = k.status
<1>1. State(Unscheduled(k), k, k.hp, k.status, k.succ, k.fail, 0, FALSE, k.block)
  BY UnscheduledState
<1> QED
  BY <1>1, SameBody DEF State, Legal, InPlay

\* A rule for 0 hit points that is given to a creature that may have it.
LEMMA RuledLegal ==
  ASSUME NEW k \in Combatants, Legal(k, TRUE), NEW zero \in {"none", "vanish", "bonded"},
         zero # "none" => k.rules = "monster"
                          /\ (k.hp > 0 \/ (k.status = "dead" /\ k.level = 6)
                              \/ k.status = "absent")
  PROVE  LET w == [k EXCEPT !.zero = IF zero = "none" THEN @ ELSE zero] IN
         /\ w \in Combatants /\ Legal(w, TRUE)
         /\ w.rules = k.rules /\ w.status = k.status
<1> DEFINE z == IF zero = "none" THEN k.zero ELSE zero
           w == [k EXCEPT !.zero = z]
<1>1. z \in {"none", "vanish", "bonded"}
  BY CreatureFields
<1>2. w = [k EXCEPT !.zero = IF zero = "none" THEN @ ELSE zero]
  BY DEF Combatants
<1>3. z # "none" => k.rules = "monster"
                    /\ (k.hp = 0 => k.status = "absent"
                                    \/ (k.status = "dead" /\ k.level = 6))
  BY CreatureFields DEF Legal, Vanishes
<1> HIDE DEF z
<1>4. /\ w \in Combatants /\ w.full = k.full /\ w.level = k.level /\ w.hp = k.hp
      /\ w.status = k.status /\ w.rules = k.rules /\ w.succ = k.succ
      /\ w.fail = k.fail /\ w.due = k.due /\ w.settled = k.settled
      /\ w.block = k.block /\ w.zero = z
  BY <1>1 DEF Combatants
<1> HIDE DEF w
<1>5. Capacity(w) = Capacity(k)
  BY <1>4 DEF Capacity
<1>6. w \in Combatants /\ Legal(w, TRUE) /\ w.rules = k.rules /\ w.status = k.status
  BY <1>3, <1>4, <1>5 DEF Legal, Vanishes, InPlay
<1> QED
  BY <1>2, <1>6

-----------------------------------------------------------------------------
\* The hero

\* The rests on record ended in the past, long ones a day apart, and a window
\* that is open says when.
RestsKept ==
  /\ rests \in [RestIds -> [kind : {"none", "short", "long"}, end : Nat]]
  /\ \A id \in RestIds : rests[id].end <= clock
  /\ window \subseteq RestIds

\* The inductive invariant of the hero.
HInv == /\ clock \in Nat
        /\ hero \in Rows /\ HeroSound
        /\ RestsKept /\ LongRestsApart /\ WindowIsNow

-----------------------------------------------------------------------------
\* A new campaign has a sound hero and no rests.
LEMMA HInit == Init => HInv
<1> SUFFICES ASSUME Init PROVE HInv
  OBVIOUS
<1> USE DEF Init, RestsInit, ClockInit
<1>1. hero \in Rows /\ HeroSound
  <2>1. PICK full \in HeroFulls : hero = Hale(full)
    OBVIOUS
  <2>2. full \in Nat \ {0}
    BY HeroNumbers
  <2>3. /\ hero \in Rows /\ hero.full = full /\ hero.hp = full
        /\ hero.level = 0 /\ hero.life = "alive" /\ ~ hero.block
        /\ ~ hero.settled /\ hero.due = 0
    BY <2>1, <2>2 DEF Hale, Rows, Lives
  <2>4. HpMax(hero) = full
    BY <2>3 DEF HpMax, EffMax
  <2> QED
    BY <2>2, <2>3, <2>4 DEF HeroSound, Sound
<1>2. RestsKept /\ LongRestsApart /\ WindowIsNow
  BY DEF RestsKept, LongRestsApart, WindowIsNow, NoRest
<1> QED
  BY <1>1, <1>2 DEF HInv

\* The hours a recovery is due at come after the clock's.
LEMMA DeadlineFacts ==
  ASSUME clock \in Nat, NEW due \in Deadlines
  PROVE  due \in Nat \ {0}
  BY HeroNumbers DEF Deadlines

\* The dead stay dead through every write of the hero's row.
LEMMA DeadStays ==
  ASSUME NEW c \in Rows, NEW n \in Nat, c.life = "dead"
  PROVE  ~ MayHeal(c, n) /\ ~ MaySave(c) /\ ~ MayStabilize(c)
           /\ ~ MaySuffocate(c) /\ \A hour : ~ MayRecover(c, hour)
           /\ \A knockOut : ~ MayDamage(c, knockOut)
  BY DEF MayHeal, MaySave, MayStabilize, MaySuffocate, MayRecover, MayDamage

\* What a step may do to the hero: leave a sound row, and the dead dead.
HeroGoesOn ==
  /\ hero' \in Rows /\ Sound(hero')
  /\ hero.life = "dead" => hero'.life = "dead"

\* Every tool that writes the hero's hit points.
LEMMA BodyKeepsHero ==
  ASSUME HInv, BodyNext
  PROVE  HeroGoesOn
<1> USE DEF HInv, HeroSound, HeroGoesOn
<1>0. \A due \in Deadlines : due \in Nat \ {0}
  BY DeadlineFacts
<1>1. ASSUME NEW n \in Blows, NEW crit \in BOOLEAN, NEW knockOut \in BOOLEAN,
             HeroHurt(n, crit, knockOut)
      PROVE  HeroGoesOn
  <2>1. PICK due \in Deadlines : hero' = Damage(hero, n, crit, knockOut, due)
    BY <1>1 DEF HeroHurt, Becomes
  <2>2. MayDamage(hero, knockOut) /\ n \in Nat \ {0}
    BY <1>1, HeroNumbers DEF HeroHurt
  <2>3. Damage(hero, n, crit, knockOut, due) \in Rows
          /\ Sound(Damage(hero, n, crit, knockOut, due))
    BY <1>0, <2>2, DamageSound
  <2> QED
    BY <2>1, <2>2, <2>3 DEF MayDamage
<1>2. ASSUME NEW n \in Nat, MayHeal(hero, n), hero' = Heal(hero, n)
      PROVE  HeroGoesOn
  BY <1>2, HealSound DEF MayHeal
<1>3. ASSUME NEW n \in Blows, NEW replace \in BOOLEAN, HeroBolstered(n, replace)
      PROVE  HeroGoesOn
  <2>1. n \in Nat
    BY HeroNumbers
  <2>2. hero' = [hero EXCEPT !.temp = n] \/ hero' = hero
    BY <1>3 DEF HeroBolstered, Becomes, GrantTemporary
  <2> QED
    BY <2>1, <2>2, TemporarySound
<1>4. ASSUME NEW save \in Saves, HeroSaves(save)
      PROVE  HeroGoesOn
  <2>1. PICK due \in Deadlines : hero' = Save(hero, save, due)
    BY <1>4 DEF HeroSaves, Becomes
  <2>2. MaySave(hero)
    BY <1>4 DEF HeroSaves
  <2> QED
    BY <1>0, <2>1, <2>2, SaveSound DEF MaySave
<1>5. ASSUME HeroStabilized
      PROVE  HeroGoesOn
  <2>1. PICK due \in Deadlines : hero' = Stabilize(hero, due)
    BY <1>5 DEF HeroStabilized, Becomes
  <2>2. MayStabilize(hero)
    BY <1>5 DEF HeroStabilized
  <2> QED
    BY <1>0, <2>1, <2>2, StabilizeSound DEF MayStabilize
<1>6. ASSUME HeroSuffocates
      PROVE  HeroGoesOn
  BY <1>6, SuffocateSound DEF HeroSuffocates, Becomes, MaySuffocate
<1>7. ASSUME HeroBreathes
      PROVE  HeroGoesOn
  <2>1. PICK due \in Deadlines : hero' = Breathe(hero, due)
    BY <1>7 DEF HeroBreathes, Becomes
  <2>2. hero.life # "dead"
    BY <1>7 DEF HeroBreathes, MayBreathe, Sound
  <2> QED
    BY <1>0, <2>1, <2>2, BreatheSound
<1>8. ASSUME NEW level \in HeroLevels, HeroTires(level)
      PROVE  HeroGoesOn
  <2>1. PICK due \in Deadlines : hero' = Exhaust(hero, level, due)
    BY <1>8 DEF HeroTires, Becomes
  <2>2. level \in 0 .. 6
    BY HeroNumbers
  <2> QED
    BY <1>0, <2>1, <2>2, ExhaustSound
<1>9. ASSUME NEW id \in RestIds, FinishRecovery(id)
      PROVE  HeroGoesOn
  BY <1>9 DEF FinishRecovery
<1>10. ASSUME NEW n \in Blows, HeroHealed(n)
       PROVE  HeroGoesOn
  BY <1>2, <1>10, HeroNumbers DEF HeroHealed, Becomes
<1>11. ASSUME NEW id \in RestIds, NEW n \in Blows \cup {0}, SpendHitDie(id, n)
       PROVE  HeroGoesOn
  <2>1. n \in Nat
    BY HeroNumbers
  <2> QED
    BY <1>2, <1>11, <2>1 DEF SpendHitDie
<1> QED
  BY <1>1, <1>3, <1>4, <1>5, <1>6, <1>7, <1>8, <1>9, <1>10, <1>11
  DEF BodyNext

\* The clock, or a short rest, wakes a stable hero.
LEMMA WaitKeepsHero ==
  ASSUME HInv, NEW at, HeroRecovers(at)
  PROVE  HeroGoesOn
  BY RecoverSound DEF HInv, HeroSound, HeroGoesOn, HeroRecovers, MayRecover

\* A long rest, fed or not.
LEMMA LongRestKeepsHero ==
  ASSUME HInv, NEW id \in RestIds, NEW fed \in BOOLEAN, LongRest(id, fed)
  PROVE  HeroGoesOn
<1> USE DEF HInv, HeroSound, HeroGoesOn
<1>1. PICK due \in Deadlines :
        hero' = Rested(IF fed /\ hero.level > 0
                       THEN Exhaust(hero, hero.level - 1, due) ELSE hero)
  BY DEF LongRest
<1> DEFINE c == IF fed /\ hero.level > 0
                THEN Exhaust(hero, hero.level - 1, due) ELSE hero
           n == HpMax(c) - c.hp
           w == Heal(c, n)
<1>2. /\ hero.life # "dead" /\ hero.hp >= 1 /\ hero.life = "alive" /\ ~ hero.block
      /\ hero.level \in 0 .. 5
  <2>1. hero.life \in Lives /\ hero.level \in 0 .. 6 /\ hero.hp \in Nat
    BY RowFields
  <2> QED
    BY <2>1 DEF LongRest, Sound, Lives
<1>3. c \in Rows /\ Sound(c) /\ c.life # "dead" /\ ~ c.block
  <2>1. due \in Nat \ {0}
    BY DeadlineFacts
  <2>2. ASSUME hero.level > 0
        PROVE  LET e == Exhaust(hero, hero.level - 1, due) IN
               e \in Rows /\ Sound(e) /\ e.life # "dead" /\ ~ e.block
    <3>1. hero.level - 1 \in 0 .. 6 /\ hero.level - 1 # 6
      BY <1>2, <2>2
    <3> QED
      BY <1>2, <2>1, <3>1, ExhaustSound
  <2> QED
    BY <1>2, <2>2
<1> HIDE DEF c
<1>4. c.hp \in Nat /\ HpMax(c) \in Nat /\ c.hp <= HpMax(c)
  BY <1>3, RowFields DEF Sound
<1>5. n \in Nat
  BY <1>4
<1>7. w \in Rows /\ Sound(w)
  <2> HIDE DEF n
  <2> QED
    BY <1>3, <1>5, HealSound DEF MayHeal
<1> HIDE DEF w
<1>8. hero' = [w EXCEPT !.temp = 0]
  BY <1>1 DEF Rested, ExpireTemporary, c, w, n
<1> QED
  BY <1>2, <1>7, <1>8, TemporarySound

-----------------------------------------------------------------------------
\* What a step may do to the rests and the clock, as far as they are the
\* hero's: nothing; shut windows; let time pass and shut them; or record one
\* rest that ends now.
RestsStand == clock' = clock /\ rests' = rests
Shuts == /\ clock' \in Nat /\ clock <= clock' /\ rests' = rests /\ window' = {}

\* Rests that stay as they are are still kept, and as far apart.
LEMMA StandKeeps ==
  ASSUME HInv, RestsStand, window' \subseteq window, fighting' = fighting
  PROVE  /\ clock' \in Nat /\ RestsKept' /\ LongRestsApart' /\ WindowIsNow'
  BY DEF HInv, RestsStand, RestsKept, LongRestsApart, WindowIsNow

\* A step that shuts every window.
LEMMA ShutKeeps ==
  ASSUME HInv, Shuts
  PROVE  /\ clock' \in Nat /\ RestsKept' /\ LongRestsApart' /\ WindowIsNow'
<1> USE DEF HInv, Shuts
<1>1. \A id \in RestIds : rests[id].end \in Nat
  BY DEF RestsKept
<1>2. RestsKept'
  BY <1>1 DEF RestsKept
<1> QED
  BY <1>2 DEF LongRestsApart, WindowIsNow

\* A rest that is taken.
LEMMA TakeKeeps ==
  ASSUME HInv, NEW id \in RestIds, NEW kind \in {"short", "long"},
         NEW hours \in Nat, Takes(id, kind, hours),
         kind = "long" => ~ RestedSince(clock + hours),
         window' \subseteq {id}, kind = "long" => window' = {}
  PROVE  /\ clock' \in Nat /\ RestsKept' /\ LongRestsApart' /\ WindowIsNow'
<1> USE DEF HInv
<1>1. /\ clock' = clock + hours /\ clock' \in Nat /\ clock <= clock'
      /\ rests[id] = NoRest /\ fighting' = FALSE
      /\ rests' = [rests EXCEPT ![id] = [kind |-> kind, end |-> clock']]
  BY DEF Takes, TimePasses, RestsKept
<1>2. /\ \A other \in RestIds : rests[other].end \in Nat
      /\ rests'[id].kind = kind /\ rests'[id].end = clock'
      /\ \A other \in RestIds \ {id} : rests'[other] = rests[other]
  BY <1>1 DEF RestsKept
<1>3. RestsKept'
  <2>1. rests' \in [RestIds -> [kind : {"none", "short", "long"}, end : Nat]]
    BY <1>1 DEF RestsKept
  <2>2. \A other \in RestIds : rests'[other].end <= clock'
    BY <1>1, <1>2 DEF RestsKept
  <2> QED
    BY <2>1, <2>2 DEF RestsKept
<1>4. LongRestsApart'
  <2>1. SUFFICES ASSUME NEW a \in RestIds, NEW b \in RestIds, a # b,
                        rests'[a].kind = "long", rests'[b].kind = "long"
                 PROVE  \/ rests'[a].end + Day <= rests'[b].end
                        \/ rests'[b].end + Day <= rests'[a].end
    BY DEF LongRestsApart
  <2>2. CASE a # id /\ b # id
    BY <1>2, <2>1, <2>2 DEF LongRestsApart
  <2>3. ASSUME NEW c \in RestIds \ {id}, rests[c].kind = "long", kind = "long"
        PROVE  rests[c].end + Day <= clock'
    <3>1. rests[c].end \in Nat /\ rests[c].end <= clock /\ Day \in Nat
      BY RestHours DEF RestsKept
    <3> QED
      BY <1>1, <2>3, <3>1 DEF RestedSince
  <2> QED
    BY <1>2, <2>1, <2>2, <2>3
<1>5. WindowIsNow'
  BY <1>1, <1>2 DEF WindowIsNow
<1> QED
  BY <1>1, <1>3, <1>4, <1>5

\* No tool that writes a creature moves the clock, or starts or ends a combat.
LEMMA CreaturesKeepTime ==
  ASSUME CompanionsNext
  PROVE  UNCHANGED clockVars
<1>1. ASSUME NEW i \in DOMAIN rows, Act(i)
      PROVE  UNCHANGED clockVars
  <2>1. ASSUME NEW k, Write(i, k)
        PROVE  UNCHANGED clockVars
    BY <2>1 DEF Write
  <2>2. CASE \E n \in Wounds, crit \in BOOLEAN : Hurt(i, n, crit)
    BY <2>1, <2>2 DEF Hurt
  <2>3. CASE \E n \in Wounds : KnockOut(i, n) \/ Treat(i, n)
    BY <2>1, <2>3 DEF KnockOut, Treat
  <2>4. CASE \E status \in Declared : SetStatus(i, status)
    BY <2>1, <2>4 DEF SetStatus
  <2>5. CASE OptIntoDeathSaves(i)
    BY <2>1, <2>5 DEF OptIntoDeathSaves
  <2>6. CASE \E save \in Saves : DeathSave(i, save)
    BY <2>1, <2>6 DEF DeathSave
  <2>7. CASE Steady(i) \/ Drop(i) \/ Breath(i)
    BY <2>1, <2>7 DEF Steady, Drop, Breath
  <2>8. CASE \E level \in Levels : AdjustExhaustion(i, level)
    BY <2>1, <2>8 DEF AdjustExhaustion
  <2> QED
    BY <1>1, <2>2, <2>3, <2>4, <2>5, <2>6, <2>7, <2>8 DEF Act
<1>2. ASSUME NEW full, Join(full) \/ Enter(full)
      PROVE  UNCHANGED clockVars
  BY <1>2 DEF Join, Enter
<1>3. ASSUME NEW i, NEW zero, NEW policy, NEW claims,
             StartEffect(i, zero, policy, claims)
      PROVE  UNCHANGED clockVars
  BY <1>3 DEF StartEffect
<1>4. CASE EndEffect
  BY <1>4 DEF EndEffect
<1>5. CASE Recast
  BY <1>5 DEF Recast
<1> QED
  BY <1>1, <1>2, <1>3, <1>4, <1>5 DEF CompanionsNext

\* One step of the campaign keeps the hero sound and the rests kept, and does
\* not raise the dead.
LEMMA HStep ==
  ASSUME HInv, Next
  PROVE  HInv' /\ HeroGoesOn
<1> SUFFICES /\ HeroGoesOn
             /\ clock' \in Nat /\ RestsKept' /\ LongRestsApart' /\ WindowIsNow'
  BY DEF HInv, HeroGoesOn, HeroSound
<1>0. ASSUME hero' = hero
      PROVE  HeroGoesOn
  BY <1>0 DEF HInv, HeroSound, HeroGoesOn
<1>1. CASE StartEncounter
  <2>1. Shuts /\ hero' = hero
    BY <1>1 DEF StartEncounter, FightStarts, WindowsClose, Shuts, HInv
  <2> QED
    BY <1>0, <2>1, ShutKeeps
<1>2. CASE CloseCombat
  <2>1. RestsStand /\ hero' = hero /\ window' = window /\ window = {}
    BY <1>2 DEF CloseCombat, FightEnds, restVars, RestsStand, HInv, WindowIsNow,
       RestsKept
  <2>2. WindowIsNow' /\ RestsKept' /\ LongRestsApart' /\ clock' \in Nat
    BY <2>1 DEF HInv, RestsStand, RestsKept, LongRestsApart, WindowIsNow
  <2> QED
    BY <1>0, <2>1, <2>2
<1>3. ASSUME NEW hours \in 1 .. MaxClock, AdvanceWorldTime(hours)
      PROVE  /\ HeroGoesOn /\ clock' \in Nat
             /\ RestsKept' /\ LongRestsApart' /\ WindowIsNow'
  <2>1. hours \in Nat
    BY ClockBounds
  <2>2. Shuts /\ HeroRecovers(clock')
    BY <1>3, <2>1 DEF AdvanceWorldTime, TimePasses, HeroWaits, WindowsClose,
       Shuts, HInv
  <2> QED
    BY <2>2, ShutKeeps, WaitKeepsHero
<1>4. ASSUME NEW id \in RestIds, Rest(id)
      PROVE  /\ HeroGoesOn /\ clock' \in Nat
             /\ RestsKept' /\ LongRestsApart' /\ WindowIsNow'
  <2>1. CASE ShortRest(id)
    <3>1. Short \in Nat
      BY RestHours
    <3>2. Takes(id, "short", Short) /\ HeroRecovers(clock') /\ window' = {id}
      BY <2>1 DEF ShortRest
    <3> QED
      BY <3>1, <3>2, TakeKeeps, WaitKeepsHero
  <2>2. ASSUME NEW fed \in BOOLEAN, LongRest(id, fed)
        PROVE  /\ HeroGoesOn /\ clock' \in Nat
               /\ RestsKept' /\ LongRestsApart' /\ WindowIsNow'
    <3>1. Long \in Nat
      BY RestHours
    <3>2. Takes(id, "long", Long) /\ ~ RestedSince(clock + Long) /\ window' = {}
      BY <2>2 DEF LongRest, WindowsClose
    <3>3. HeroGoesOn
      BY <2>2, LongRestKeepsHero
    <3> QED
      BY <3>1, <3>2, <3>3, TakeKeeps
  <2> QED
    BY <1>4, <2>1, <2>2 DEF Rest
<1>5. CASE CompanionsNext /\ UNCHANGED restVars
  <2>1. UNCHANGED clockVars
    BY <1>5, CreaturesKeepTime
  <2>2. RestsStand /\ hero' = hero /\ window' = window /\ fighting' = fighting
    BY <1>5, <2>1 DEF restVars, clockVars, RestsStand
  <2> QED
    BY <1>0, <2>2, StandKeeps
<1>6. CASE BodyNext
  <2>1. RestsStand /\ fighting' = fighting /\ window' \subseteq window
    BY <1>6 DEF BodyNext, HeroHurt, HeroHealed, HeroBolstered, HeroSaves,
       HeroStabilized, HeroSuffocates, HeroBreathes, HeroTires, FinishRecovery,
       SpendHitDie, Becomes, clockVars, RestsStand
  <2> QED
    BY <1>6, <2>1, StandKeeps, BodyKeepsHero
<1>7. CASE MagicNext
  <2>1. RestsStand /\ fighting' = fighting /\ window' = window /\ hero' = hero
    BY <1>7 DEF MagicNext, Cast, CreateSlot, ConvertSlot, SpendPoints, Conjures,
       clockVars, RestsStand
  <2> QED
    BY <1>0, <2>1, StandKeeps
<1> QED
  BY <1>1, <1>2, <1>3, <1>4, <1>5, <1>6, <1>7 DEF Next

-----------------------------------------------------------------------------
\* The assertions the engine runs after every write of the hero never fail
\* (assertCharacterLifecycle), whatever is done to the hero and in what order.
THEOREM HeroStaysSound == Spec => []HeroSound
<1>1. HInv /\ UNCHANGED vars => HInv'
  BY DEF HInv, HeroSound, RestsKept, LongRestsApart, WindowIsNow, vars
<1> QED
  BY HInit, HStep, <1>1, PTL DEF Spec, HInv

\* No two long rests end less than a day apart, whatever was done between them
\* (the 24-hour check of completeLongRest), and a recovery window that is open
\* belongs to a short rest that ended this very hour, with no combat active
\* (spendRestHitDie).
THEOREM RestsStaySound == Spec => []RestsSound
<1>1. HInv /\ UNCHANGED vars => HInv'
  BY DEF HInv, HeroSound, RestsKept, LongRestsApart, WindowIsNow, vars
<1>2. HInv => RestsSound
  BY DEF HInv, RestsSound
<1> QED
  BY HInit, HStep, <1>1, <1>2, PTL DEF Spec

\* The hero's half of DeathIsFinal: no tool, no rest and no hour brings the
\* dead hero back (I8 of assertCharacterLifecycle).
THEOREM DeadHeroStaysDead ==
  Spec => [][hero.life = "dead" => hero'.life = "dead"]_vars
<1>1. HInv /\ UNCHANGED vars => HInv'
  BY DEF HInv, HeroSound, RestsKept, LongRestsApart, WindowIsNow, vars
<1>2. HInv /\ [Next]_vars => [hero.life = "dead" => hero'.life = "dead"]_vars
  BY HStep DEF HeroGoesOn, vars
<1> QED
  BY HInit, HStep, <1>1, <1>2, PTL DEF Spec
-----------------------------------------------------------------------------
\* Induction over a set of numbers, and sums over a finite set: what a fold
\* comes to, whichever element it takes first.
LEMMA Counted ==
  ASSUME NEW T \in SUBSET Nat, 0 \in T, \A n \in T : n + 1 \in T
  PROVE  T = Nat
<1> DEFINE less == {ss \in Nat \X Nat : ss[1] < ss[2]}
           U == Nat \ T
<1>1. IsWellFoundedOn(less, Nat)
  BY NatLessThanWellFounded DEF OpToRel
<1>2. SUFFICES ASSUME U # {}
               PROVE  FALSE
  OBVIOUS
<1> HIDE DEF less
<1>3. PICK n \in U : \A m \in U : <<m, n>> \notin less
  BY <1>1, <1>2, WFMin
<1>4. n \in Nat /\ n \notin T /\ n # 0
  BY <1>3
<1>5. n - 1 \in Nat /\ <<n - 1, n>> \in less
  BY <1>4 DEF less
<1>6. n - 1 \in T
  BY <1>3, <1>5
<1>7. (n - 1) + 1 \in T
  BY <1>6
<1> QED
  BY <1>4, <1>7

\* One element taken out of a finite set.
LEMMA OneOut ==
  ASSUME NEW S, IsFiniteSet(S), NEW s \in SUBSET S, NEW x \in s
  PROVE  /\ IsFiniteSet(s) /\ Cardinality(s) \in Nat \ {0}
         /\ s \ {x} \in SUBSET S
         /\ Cardinality(s \ {x}) = Cardinality(s) - 1
<1>1. IsFiniteSet(s) /\ Cardinality(s) \in Nat
  BY FS_Subset, FS_CardinalityType
<1>2. Cardinality(s) # 0
  BY <1>1, FS_EmptySet
<1>3. Cardinality(s \ {x}) = Cardinality(s) - 1
  BY <1>1, FS_RemoveElement
<1> QED
  BY <1>1, <1>2, <1>3

One(s) == CHOOSE x \in s : TRUE

\* it sums g over every subset of S, taking one element after the other.
Sums(it, g, S) ==
  it = [s \in SUBSET S |-> IF s = {} THEN 0 ELSE g[One(s)] + it[s \ {One(s)}]]

LEMMA OneIsIn == \A s : s # {} => One(s) \in s
  BY DEF One

LEMMA SumsExist ==
  ASSUME NEW S, IsFiniteSet(S), NEW g
  PROVE  \E it : Sums(it, g, S)
<1> DEFINE Upto(it, n) ==
             \A s \in SUBSET S : Cardinality(s) <= n =>
               it[s] = IF s = {} THEN 0 ELSE g[One(s)] + it[s \ {One(s)}]
           T == {n \in Nat : \E it : Upto(it, n)}
<1>0. \A s \in SUBSET S : Cardinality(s) \in Nat /\ (Cardinality(s) = 0 <=> s = {})
  BY FS_Subset, FS_CardinalityType, FS_EmptySet
<1>1. 0 \in T
  <2> DEFINE it == [s \in SUBSET S |-> 0]
  <2>1. Upto(it, 0)
    BY <1>0
  <2> QED
    BY <2>1
<1>2. ASSUME NEW n \in T PROVE n + 1 \in T
  <2>1. PICK old : Upto(old, n)
    BY <1>2
  <2> DEFINE it == [s \in SUBSET S |-> IF Cardinality(s) <= n THEN old[s]
                                       ELSE g[One(s)] + old[s \ {One(s)}]]
  <2>2. ASSUME NEW s \in SUBSET S, Cardinality(s) <= n + 1
        PROVE  it[s] = IF s = {} THEN 0 ELSE g[One(s)] + it[s \ {One(s)}]
    <3>1. CASE s = {}
      <4>1. Cardinality(s) <= n
        BY <1>0, <1>2, <3>1
      <4> QED
        BY <2>1, <3>1, <4>1
    <3>2. CASE s # {}
      <4>1. /\ s \ {One(s)} \in SUBSET S
            /\ Cardinality(s \ {One(s)}) = Cardinality(s) - 1
        BY <3>2, OneIsIn, OneOut
      <4>2. Cardinality(s) \in Nat /\ n \in Nat
        BY <1>0, <1>2
      <4>3. Cardinality(s \ {One(s)}) <= n
        BY <2>2, <4>1, <4>2
      <4>4. it[s \ {One(s)}] = old[s \ {One(s)}]
        BY <4>1, <4>3
      <4>5. it[s] = g[One(s)] + old[s \ {One(s)}]
        BY <2>1, <3>2
      <4> QED
        BY <3>2, <4>4, <4>5
    <3> QED
      BY <3>1, <3>2
  <2> HIDE DEF it
  <2>3. Upto(it, n + 1)
    BY <2>2
  <2>4. n + 1 \in Nat
    BY <1>2
  <2> HIDE DEF Upto
  <2>5. \E new : Upto(new, n + 1)
    BY <2>3
  <2> QED
    BY <2>4, <2>5
<1> HIDE DEF T
<1>3. T = Nat
  <2>1. T \subseteq Nat
    BY DEF T
  <2> QED
    BY <1>1, <1>2, <2>1, Counted
<1>4. Cardinality(S) \in T
  BY <1>0, <1>3
<1>5. PICK it : Upto(it, Cardinality(S))
  BY <1>4 DEF T
<1> DEFINE all == [s \in SUBSET S |-> it[s]]
<1>6. ASSUME NEW s \in SUBSET S
      PROVE  all[s] = IF s = {} THEN 0 ELSE g[One(s)] + all[s \ {One(s)}]
  <2>1. Cardinality(s) <= Cardinality(S)
    BY FS_Subset
  <2>2. s \ {One(s)} \in SUBSET S
    OBVIOUS
  <2> QED
    BY <1>5, <2>1, <2>2
<1>7. Sums(all, g, S)
  BY <1>6 DEF Sums
<1> QED
  BY <1>7

\* A sum is a number.
LEMMA SumIsInt ==
  ASSUME NEW S, IsFiniteSet(S), NEW g, \A x \in S : g[x] \in Int,
         NEW it, Sums(it, g, S)
  PROVE  \A s \in SUBSET S : it[s] \in Int
<1>0. \A s \in SUBSET S : Cardinality(s) \in Nat /\ (Cardinality(s) = 0 <=> s = {})
  BY FS_Subset, FS_CardinalityType, FS_EmptySet
<1>1. \A s \in SUBSET S : it[s] = IF s = {} THEN 0 ELSE g[One(s)] + it[s \ {One(s)}]
  BY DEF Sums
<1> DEFINE T == {n \in Nat : \A s \in SUBSET S : Cardinality(s) = n => it[s] \in Int}
<1>2. 0 \in T
  <2>1. \A s \in SUBSET S : Cardinality(s) = 0 => it[s] = 0
    BY <1>0, <1>1
  <2> QED
    BY <2>1
<1>3. ASSUME NEW n \in T, NEW s \in SUBSET S, Cardinality(s) = n + 1
      PROVE  it[s] \in Int
  <2>1. s # {}
    BY <1>0, <1>3
  <2>2. One(s) \in s
    BY <2>1, OneIsIn
  <2>3. s \ {One(s)} \in SUBSET S /\ Cardinality(s \ {One(s)}) = n
    BY <1>3, <2>2, OneOut
  <2>4. it[s \ {One(s)}] \in Int
    BY <2>3
  <2>5. g[One(s)] \in Int
    BY <2>2
  <2>6. it[s] = g[One(s)] + it[s \ {One(s)}]
    BY <1>1, <2>1
  <2> QED
    BY <2>4, <2>5, <2>6
<1>4. ASSUME NEW n \in T PROVE n + 1 \in T
  BY <1>3
<1> HIDE DEF T
<1>5. T = Nat
  <2>1. T \subseteq Nat
    BY DEF T
  <2> QED
    BY <1>2, <1>4, <2>1, Counted
<1> QED
  BY <1>0, <1>5 DEF T

\* Any element may be taken out of it first.
LEMMA SumTakesOut ==
  ASSUME NEW S, IsFiniteSet(S), NEW g, \A x \in S : g[x] \in Int,
         NEW it, Sums(it, g, S)
  PROVE  \A s \in SUBSET S : \A x \in s : it[s] = g[x] + it[s \ {x}]
<1>0. \A s \in SUBSET S : it[s] \in Int
  BY SumIsInt
<1>1. \A s \in SUBSET S : s # {} => it[s] = g[One(s)] + it[s \ {One(s)}]
  BY DEF Sums
<1> DEFINE Out(s) == \A x \in s : it[s] = g[x] + it[s \ {x}]
           T == {n \in Nat : \A s \in SUBSET S : Cardinality(s) = n => Out(s)}
<1>2. 0 \in T
  <2>1. \A s \in SUBSET S : Cardinality(s) = 0 => s = {}
    BY FS_Subset, FS_EmptySet
  <2> QED
    BY <2>1
<1>3. ASSUME NEW n \in T, NEW s \in SUBSET S, Cardinality(s) = n + 1, NEW x \in s
      PROVE  it[s] = g[x] + it[s \ {x}]
  <2> DEFINE y == One(s)
  <2>1. y \in s /\ it[s] = g[y] + it[s \ {y}]
    BY <1>1, OneIsIn
  <2>2. ASSUME NEW z \in s PROVE s \ {z} \in SUBSET S /\ Out(s \ {z})
    <3>1. s \ {z} \in SUBSET S /\ Cardinality(s \ {z}) = n
      BY <1>3, OneOut
    <3> QED
      BY <3>1
  <2> HIDE DEF y
  <2>3. CASE x = y
    BY <2>1, <2>3
  <2>4. CASE x # y
    <3>1. it[s \ {y}] = g[x] + it[(s \ {y}) \ {x}]
      BY <2>1, <2>2, <2>4
    <3>2. it[s \ {x}] = g[y] + it[(s \ {x}) \ {y}]
      BY <2>1, <2>2, <2>4
    <3>3. (s \ {y}) \ {x} = (s \ {x}) \ {y}
      OBVIOUS
    <3>4. (s \ {y}) \ {x} \in SUBSET S
      OBVIOUS
    <3>5. g[x] \in Int /\ g[y] \in Int /\ it[(s \ {y}) \ {x}] \in Int
      BY <1>0, <2>1, <3>4
    <3> DEFINE z == it[(s \ {y}) \ {x}]
    <3>6. it[s] = g[y] + (g[x] + z) /\ it[s \ {x}] = g[y] + z
      BY <2>1, <3>1, <3>2, <3>3
    <3> HIDE DEF z
    <3> QED
      BY <3>5, <3>6 DEF z
  <2> QED
    BY <2>3, <2>4
<1>4. ASSUME NEW n \in T PROVE n + 1 \in T
  BY <1>3
<1> HIDE DEF T
<1>5. T = Nat
  <2>1. T \subseteq Nat
    BY DEF T
  <2> QED
    BY <1>2, <1>4, <2>1, Counted
<1>6. \A s \in SUBSET S : Cardinality(s) \in Nat
  BY FS_Subset, FS_CardinalityType
<1> QED
  BY <1>5, <1>6 DEF T

\* Sums of the same numbers are the same.
LEMMA SumsAgree ==
  ASSUME NEW S, IsFiniteSet(S), NEW g, NEW h,
         NEW it, Sums(it, g, S), NEW jt, Sums(jt, h, S)
  PROVE  \A s \in SUBSET S : (\A x \in s : g[x] = h[x]) => it[s] = jt[s]
<1>1. \A s \in SUBSET S :
        /\ it[s] = IF s = {} THEN 0 ELSE g[One(s)] + it[s \ {One(s)}]
        /\ jt[s] = IF s = {} THEN 0 ELSE h[One(s)] + jt[s \ {One(s)}]
  BY DEF Sums
<1> DEFINE Same(s) == (\A x \in s : g[x] = h[x]) => it[s] = jt[s]
           T == {n \in Nat : \A s \in SUBSET S : Cardinality(s) = n => Same(s)}
<1>2. 0 \in T
  <2>1. \A s \in SUBSET S : Cardinality(s) = 0 => s = {}
    BY FS_Subset, FS_EmptySet
  <2> QED
    BY <1>1, <2>1
<1>3. ASSUME NEW n \in T, NEW s \in SUBSET S, Cardinality(s) = n + 1,
             \A x \in s : g[x] = h[x]
      PROVE  it[s] = jt[s]
  <2>1. CASE s = {}
    BY <1>1, <2>1
  <2>2. CASE s # {}
    <3>1. One(s) \in s
      BY <2>2, OneIsIn
    <3>2. s \ {One(s)} \in SUBSET S /\ Cardinality(s \ {One(s)}) = n
      BY <1>3, <3>1, OneOut
    <3>3. it[s \ {One(s)}] = jt[s \ {One(s)}]
      BY <1>3, <3>2
    <3> QED
      BY <1>1, <1>3, <2>2, <3>1, <3>3
  <2> QED
    BY <2>1, <2>2
<1>4. ASSUME NEW n \in T PROVE n + 1 \in T
  BY <1>3
<1> HIDE DEF T
<1>5. T = Nat
  <2>1. T \subseteq Nat
    BY DEF T
  <2> QED
    BY <1>2, <1>4, <2>1, Counted
<1>6. \A s \in SUBSET S : Cardinality(s) \in Nat
  BY FS_Subset, FS_CardinalityType
<1> QED
  BY <1>5, <1>6 DEF T

\* Two sums that differ in one number.
LEMMA SumsDiffer ==
  ASSUME NEW S, IsFiniteSet(S), NEW g, \A x \in S : g[x] \in Int,
         NEW h, \A x \in S : h[x] \in Int,
         NEW it, Sums(it, g, S), NEW jt, Sums(jt, h, S),
         NEW l \in S, \A x \in S \ {l} : g[x] = h[x]
  PROVE  it[S] \in Int /\ jt[S] = it[S] + h[l] - g[l]
<1>1. it[S] = g[l] + it[S \ {l}] /\ jt[S] = h[l] + jt[S \ {l}]
  BY SumTakesOut
<1>2. it[S] \in Int /\ it[S \ {l}] \in Int /\ jt[S \ {l}] \in Int
  <2>1. S \in SUBSET S /\ S \ {l} \in SUBSET S
    OBVIOUS
  <2> QED
    BY <2>1, SumIsInt
<1>3. it[S \ {l}] = jt[S \ {l}]
  BY SumsAgree
<1> QED
  BY <1>1, <1>2, <1>3

\* What the operator of the library computes is such a sum.
Valued(m) == [l \in SlotLevels |-> l * (m.slots[l] + m.made[l])]

LEMMA WorthIsSum ==
  ASSUME NEW m, IsFiniteSet(SlotLevels)
  PROVE  \E it : Sums(it, Valued(m), SlotLevels) /\ Worth(m) = m.points + it[SlotLevels]
<1> DEFINE op(l) == l * (m.slots[l] + m.made[l])
           E(it) == it = [s \in SUBSET SlotLevels |->
                            IF s = {} THEN 0 ELSE op(One(s)) + it[s \ {One(s)}]]
           iter == CHOOSE it : E(it)
<1>1. Worth(m) = m.points + iter[SlotLevels]
  BY DEF Worth, MapThenSumSet, MapThenFoldSet, One
<1>2. ASSUME NEW it PROVE E(it) <=> Sums(it, Valued(m), SlotLevels)
  <2>1. \A s \in SUBSET SlotLevels : s # {} => Valued(m)[One(s)] = op(One(s))
    BY OneIsIn DEF Valued
  <2> DEFINE F == [s \in SUBSET SlotLevels |->
                            IF s = {} THEN 0 ELSE op(One(s)) + it[s \ {One(s)}]]
             G == [s \in SUBSET SlotLevels |->
                     IF s = {} THEN 0 ELSE Valued(m)[One(s)] + it[s \ {One(s)}]]
  <2> HIDE DEF op
  <2>2. F = G
    BY <2>1
  <2> QED
    BY <2>2 DEF Sums
<1> HIDE DEF E
<1>3. \E it : E(it)
  BY <1>2, SumsExist
<1>4. E(iter)
  BY <1>3
<1> QED
  BY <1>1, <1>2, <1>4

-----------------------------------------------------------------------------
\* Magic: what is spent is worth no less than what it is turned into.
Purses == [points : Nat, slots : [SlotLevels -> Nat], made : [SlotLevels -> Nat]]

LEMMA WorthMoves ==
  ASSUME NEW m \in Purses, NEW w \in Purses, NEW l \in SlotLevels,
         \A k \in SlotLevels \ {l} : w.slots[k] = m.slots[k] /\ w.made[k] = m.made[k]
  PROVE  /\ Worth(m) \in Int
         /\ Worth(w) - w.points =
              Worth(m) - m.points + Valued(w)[l] - Valued(m)[l]
<1>1. ASSUME NEW p \in Purses PROVE \A k \in SlotLevels : Valued(p)[k] \in Int
  <2> SUFFICES ASSUME NEW k \in SlotLevels PROVE Valued(p)[k] \in Int
    OBVIOUS
  <2>1. k \in Nat /\ p.slots[k] \in Nat /\ p.made[k] \in Nat
    BY Slots DEF Purses
  <2>2. k * (p.slots[k] + p.made[k]) \in Int
    BY <2>1
  <2> QED
    BY <2>2 DEF Valued
<1>2. PICK it : Sums(it, Valued(m), SlotLevels) /\ Worth(m) = m.points + it[SlotLevels]
  BY SlotCosts, WorthIsSum
<1>3. PICK jt : Sums(jt, Valued(w), SlotLevels) /\ Worth(w) = w.points + jt[SlotLevels]
  BY SlotCosts, WorthIsSum
<1>4. \A k \in SlotLevels \ {l} : Valued(m)[k] = Valued(w)[k]
  BY DEF Valued
<1>5. it[SlotLevels] \in Int
      /\ jt[SlotLevels] = it[SlotLevels] + Valued(w)[l] - Valued(m)[l]
  BY <1>1, <1>2, <1>3, <1>4, SlotCosts, SumsDiffer
<1>6. m.points \in Nat /\ w.points \in Nat /\ Valued(w)[l] \in Int /\ Valued(m)[l] \in Int
  BY <1>1 DEF Purses
<1> DEFINE a == it[SlotLevels]
           b == jt[SlotLevels]
           x == Valued(w)[l]
           y == Valued(m)[l]
           p == m.points
           q == w.points
<1>7. a \in Int /\ b = a + x - y /\ x \in Int /\ y \in Int /\ p \in Nat /\ q \in Nat
      /\ Worth(m) = p + a /\ Worth(w) = q + b
  BY <1>2, <1>3, <1>5, <1>6
<1> HIDE DEF a, b, x, y, p, q
<1>8. p + a \in Int /\ (q + b) - q = (p + a) - p + x - y
  BY <1>7
<1> QED
  BY <1>7, <1>8 DEF x, y, p, q

\* A slot spent is one slot of its level fewer, made of points or not.
LEMMA SpendFacts ==
  ASSUME NEW m \in Purses, NEW l \in SlotLevels, m.made[l] > 0 \/ m.slots[l] > 0
  PROVE  LET w == Spend(m, l) IN
         /\ w \in Purses /\ w.points = m.points
         /\ \A k \in SlotLevels \ {l} : w.slots[k] = m.slots[k] /\ w.made[k] = m.made[k]
         /\ w.slots[l] + w.made[l] = m.slots[l] + m.made[l] - 1
<1>1. /\ m.points \in Nat /\ m.slots[l] \in Nat /\ m.made[l] \in Nat
      /\ m.slots \in [SlotLevels -> Nat] /\ m.made \in [SlotLevels -> Nat]
  BY DEF Purses
<1>2. CASE m.made[l] > 0
  <2> DEFINE made == [m.made EXCEPT ![l] = @ - 1]
             w == [m EXCEPT !.made = made]
  <2>1. Spend(m, l) = w
    BY <1>2 DEF Spend, Purses
  <2>2. made \in [SlotLevels -> Nat] /\ made[l] = m.made[l] - 1
        /\ \A k \in SlotLevels \ {l} : made[k] = m.made[k]
    BY <1>1, <1>2
  <2> HIDE DEF made
  <2>3. w \in Purses /\ w.points = m.points /\ w.slots = m.slots /\ w.made = made
    BY <2>2 DEF Purses
  <2> HIDE DEF w
  <2> QED
    BY <1>1, <2>1, <2>2, <2>3
<1>3. CASE ~ (m.made[l] > 0)
  <2> DEFINE slots == [m.slots EXCEPT ![l] = @ - 1]
             w == [m EXCEPT !.slots = slots]
  <2>1. Spend(m, l) = w
    BY <1>3 DEF Spend, Purses
  <2>2. slots \in [SlotLevels -> Nat] /\ slots[l] = m.slots[l] - 1
        /\ \A k \in SlotLevels \ {l} : slots[k] = m.slots[k]
    BY <1>1, <1>3
  <2> HIDE DEF slots
  <2>3. w \in Purses /\ w.points = m.points /\ w.made = m.made /\ w.slots = slots
    BY <2>2 DEF Purses
  <2> HIDE DEF w
  <2> QED
    BY <1>1, <2>1, <2>2, <2>3
<1> QED
  BY <1>2, <1>3

\* One level of slots changes in number by one, or not, and the points with it.
LEMMA WorthOfOne ==
  ASSUME NEW m \in Purses, NEW w \in Purses, NEW l \in SlotLevels,
         \A k \in SlotLevels \ {l} : w.slots[k] = m.slots[k] /\ w.made[k] = m.made[k],
         NEW d \in Int,
         w.slots[l] + w.made[l] = m.slots[l] + m.made[l] + d,
         w.points + l * d <= m.points
  PROVE  Worth(w) <= Worth(m)
<1> DEFINE n == m.slots[l] + m.made[l]
           a == Worth(m)
           b == Worth(w)
           p == m.points
           q == w.points
<1>1. l \in Nat /\ n \in Nat /\ p \in Nat /\ q \in Nat
  BY Slots DEF Purses
<1>2. Valued(m)[l] = l * n /\ Valued(w)[l] = l * (n + d)
  BY DEF Valued
<1>3. a \in Int /\ b \in Int
  BY WorthMoves
<1>4. b - q = a - p + Valued(w)[l] - Valued(m)[l]
  BY WorthMoves
<1>5. q + l * d <= p
  OBVIOUS
<1> HIDE DEF n, a, b, p, q
<1>6. l * (n + d) = l * n + l * d /\ l * n \in Int /\ l * d \in Int
  BY <1>1
<1>7. b - q = a - p + (l * n + l * d) - l * n
  BY <1>2, <1>4, <1>6
<1> DEFINE x == l * n
           y == l * d
<1>8. x \in Int /\ y \in Int /\ b - q = a - p + (x + y) - x /\ q + y <= p
  BY <1>5, <1>6, <1>7
<1> HIDE DEF x, y
<1>9. b <= a
  BY <1>1, <1>3, <1>8
<1> QED
  BY <1>9 DEF a, b

\* What the hero's magic is between two steps, and what one of them may do.
Purse == magic \in [points : 0 .. MaxPoints, slots : [SlotLevels -> Nat],
                    made : [SlotLevels -> Nat]]
MagicSpent ==
  magic' = magic \/ Worth(magic') <= Worth(magic) \/
    \E id \in RestIds : rests[id] = NoRest /\ rests'[id].kind = "long"

LEMMA PurseFacts ==
  ASSUME Purse
  PROVE  magic \in Purses /\ magic.points <= MaxPoints
  BY HeroNumbers DEF Purse, Purses

\* Casting a spell of a level.
LEMMA CastKeeps ==
  ASSUME Purse, NEW l \in SlotLevels, Cast(l)
  PROVE  Purse' /\ Worth(magic') <= Worth(magic)
<1> DEFINE w == Spend(magic, l)
<1>1. magic \in Purses /\ magic.points <= MaxPoints /\ magic' = w
      /\ (magic.made[l] > 0 \/ magic.slots[l] > 0)
  BY PurseFacts DEF Cast, HasSlot, Conjures
<1>2. /\ w \in Purses /\ w.points = magic.points
      /\ \A k \in SlotLevels \ {l} :
           w.slots[k] = magic.slots[k] /\ w.made[k] = magic.made[k]
      /\ w.slots[l] + w.made[l] = magic.slots[l] + magic.made[l] - 1
  BY <1>1, SpendFacts
<1> HIDE DEF w
<1>3. l \in Nat /\ magic.points \in Nat /\ magic.slots[l] \in Nat /\ magic.made[l] \in Nat
  BY <1>1, Slots DEF Purses
<1>4. w.slots[l] + w.made[l] = magic.slots[l] + magic.made[l] + (0 - 1)
      /\ w.points + l * (0 - 1) <= magic.points
  BY <1>2, <1>3
<1>5. Worth(w) <= Worth(magic)
  BY <1>1, <1>2, <1>4, 0 - 1 \in Int, WorthOfOne
<1>6. w \in [points : 0 .. MaxPoints, slots : [SlotLevels -> Nat],
             made : [SlotLevels -> Nat]]
  BY <1>1, <1>2, HeroNumbers DEF Purses
<1> QED
  BY <1>1, <1>5, <1>6 DEF Purse

\* Points turned into a slot.
LEMMA CreateSlotKeeps ==
  ASSUME Purse, NEW l \in SlotLevels, CreateSlot(l)
  PROVE  Purse' /\ Worth(magic') <= Worth(magic)
<1> DEFINE made == [magic.made EXCEPT ![l] = @ + 1]
           p == magic.points - Cost[l]
           w == [[magic EXCEPT !.points = p] EXCEPT !.made = made]
<1>1. magic \in Purses /\ magic.points <= MaxPoints /\ magic.points >= Cost[l]
  BY PurseFacts DEF CreateSlot
<1>2. magic' = w
  BY <1>1 DEF CreateSlot, Conjures, Purses
<1>3. /\ l \in Nat /\ Cost[l] \in Nat /\ l <= Cost[l] /\ MaxPoints \in Nat
      /\ magic.points \in Nat /\ magic.slots[l] \in Nat /\ magic.made[l] \in Nat
  BY <1>1, Slots, SlotCosts, HeroNumbers DEF Purses
<1>4. p \in Nat /\ p <= MaxPoints /\ p + l <= magic.points
  BY <1>1, <1>3
<1>5. made \in [SlotLevels -> Nat] /\ made[l] = magic.made[l] + 1
      /\ \A k \in SlotLevels \ {l} : made[k] = magic.made[k]
  BY <1>1, <1>3 DEF Purses
<1> HIDE DEF p, made
<1>6. w \in Purses /\ w.points = p /\ w.slots = magic.slots /\ w.made = made
  BY <1>1, <1>4, <1>5 DEF Purses
<1> HIDE DEF w
<1>7. w.slots[l] + w.made[l] = magic.slots[l] + magic.made[l] + 1
      /\ w.points + l * 1 <= magic.points
  BY <1>3, <1>4, <1>5, <1>6
<1>8. Worth(w) <= Worth(magic)
  BY <1>1, <1>5, <1>6, <1>7, 1 \in Int, WorthOfOne
<1>9. w \in [points : 0 .. MaxPoints, slots : [SlotLevels -> Nat],
             made : [SlotLevels -> Nat]]
  BY <1>3, <1>4, <1>6 DEF Purses
<1> QED
  BY <1>2, <1>8, <1>9 DEF Purse

\* A slot turned into points.
LEMMA ConvertSlotKeeps ==
  ASSUME Purse, NEW l \in SlotLevels, ConvertSlot(l)
  PROVE  Purse' /\ Worth(magic') <= Worth(magic)
<1> DEFINE v == Spend(magic, l)
           p == v.points + l
           w == [v EXCEPT !.points = p]
<1>1. /\ magic \in Purses /\ magic.points + l <= MaxPoints
      /\ magic.made[l] > 0 \/ magic.slots[l] > 0
  BY PurseFacts DEF ConvertSlot, HasSlot
<1>2. /\ v \in Purses /\ v.points = magic.points
      /\ \A k \in SlotLevels \ {l} :
           v.slots[k] = magic.slots[k] /\ v.made[k] = magic.made[k]
      /\ v.slots[l] + v.made[l] = magic.slots[l] + magic.made[l] - 1
  BY <1>1, SpendFacts
<1>3. magic' = w
  BY DEF ConvertSlot, Conjures
<1> HIDE DEF v
<1>4. l \in Nat /\ magic.points \in Nat /\ magic.slots[l] \in Nat /\ magic.made[l] \in Nat
      /\ MaxPoints \in Nat
  BY <1>1, Slots, HeroNumbers DEF Purses
<1>5. p \in Nat /\ p <= MaxPoints /\ p = magic.points + l
  BY <1>1, <1>2, <1>4
<1> HIDE DEF p
<1>6. w \in Purses /\ w.points = p /\ w.slots = v.slots /\ w.made = v.made
  BY <1>2, <1>5 DEF Purses
<1> HIDE DEF w
<1>7. w.slots[l] + w.made[l] = magic.slots[l] + magic.made[l] + (0 - 1)
      /\ w.points + l * (0 - 1) <= magic.points
  BY <1>2, <1>4, <1>5, <1>6
<1>8. Worth(w) <= Worth(magic)
  BY <1>1, <1>2, <1>6, <1>7, 0 - 1 \in Int, WorthOfOne
<1>9. w \in [points : 0 .. MaxPoints, slots : [SlotLevels -> Nat],
             made : [SlotLevels -> Nat]]
  BY <1>4, <1>5, <1>6 DEF Purses
<1> QED
  BY <1>3, <1>8, <1>9 DEF Purse

\* Points spent on anything else: the slots are worth what they were.
LEMMA SpendPointsKeeps ==
  ASSUME Purse, NEW n \in 1 .. MaxPoints, SpendPoints(n)
  PROVE  Purse' /\ Worth(magic') <= Worth(magic)
<1> DEFINE p == magic.points - n
           w == [magic EXCEPT !.points = p]
<1>1. magic \in Purses /\ magic.points <= MaxPoints /\ magic.points >= n
      /\ magic' = w /\ n \in Nat /\ MaxPoints \in Nat
  BY PurseFacts, HeroNumbers DEF SpendPoints, Conjures
<1>2. p \in Nat /\ p <= magic.points
  BY <1>1 DEF Purses
<1> HIDE DEF p
<1>3. w \in Purses /\ w.points = p /\ w.slots = magic.slots /\ w.made = magic.made
  BY <1>1, <1>2 DEF Purses
<1>4. w \in [points : 0 .. MaxPoints, slots : [SlotLevels -> Nat],
             made : [SlotLevels -> Nat]]
  BY <1>1, <1>2, <1>3 DEF Purses
<1> HIDE DEF w
<1>5. Valued(w) = Valued(magic)
  BY <1>3 DEF Valued
<1>6. PICK it : Sums(it, Valued(magic), SlotLevels)
                  /\ Worth(magic) = magic.points + it[SlotLevels]
  BY SlotCosts, WorthIsSum
<1>7. PICK jt : Sums(jt, Valued(w), SlotLevels) /\ Worth(w) = w.points + jt[SlotLevels]
  BY SlotCosts, WorthIsSum
<1>8. \A k \in SlotLevels : Valued(magic)[k] \in Int
  <2> SUFFICES ASSUME NEW k \in SlotLevels PROVE Valued(magic)[k] \in Int
    OBVIOUS
  <2>1. k \in Nat /\ magic.slots[k] \in Nat /\ magic.made[k] \in Nat
    BY <1>1, Slots DEF Purses
  <2>2. k * (magic.slots[k] + magic.made[k]) \in Int
    BY <2>1
  <2> QED
    BY <2>2 DEF Valued
<1>9. it[SlotLevels] \in Int /\ jt[SlotLevels] = it[SlotLevels]
  <2>1. SlotLevels \in SUBSET SlotLevels
    OBVIOUS
  <2>2. it[SlotLevels] \in Int
    BY <1>6, <1>8, <2>1, SlotCosts, SumIsInt
  <2>3. jt[SlotLevels] = it[SlotLevels]
    BY <1>5, <1>6, <1>7, <2>1, SlotCosts, SumsAgree
  <2> QED
    BY <2>2, <2>3
<1> DEFINE s == it[SlotLevels]
           q == magic.points
<1>10. Worth(w) = p + s /\ Worth(magic) = q + s /\ s \in Int /\ p <= q
       /\ p \in Nat /\ q \in Nat
  BY <1>1, <1>2, <1>3, <1>6, <1>7, <1>9 DEF Purses
<1> HIDE DEF s, q
<1>11. Worth(w) <= Worth(magic)
  BY <1>10
<1> QED
  BY <1>1, <1>4, <1>11 DEF Purse

\* A long rest fills the purse, and is recorded the first time under its id.
LEMMA LongRestFills ==
  ASSUME NEW id \in RestIds, NEW fed \in BOOLEAN, LongRest(id, fed),
         rests \in [RestIds -> [kind : {"none", "short", "long"}, end : Nat]]
  PROVE  Purse' /\ rests[id] = NoRest /\ rests'[id].kind = "long"
<1>1. /\ magic' = FullMagic /\ rests[id] = NoRest
      /\ rests' = [rests EXCEPT ![id] = [kind |-> "long", end |-> clock']]
  BY DEF LongRest, Takes
<1>2. FullMagic \in [points : 0 .. MaxPoints, slots : [SlotLevels -> Nat],
                     made : [SlotLevels -> Nat]]
  BY Slots, HeroNumbers DEF FullMagic
<1> QED
  BY <1>1, <1>2 DEF Purse

\* Every other step of the campaign leaves the magic alone.
LEMMA MagicStep ==
  ASSUME Purse, rests \in [RestIds -> [kind : {"none", "short", "long"}, end : Nat]],
         Next
  PROVE  Purse' /\ MagicSpent
<1>0. ASSUME magic' = magic
      PROVE  Purse' /\ MagicSpent
  BY <1>0 DEF Purse, MagicSpent
<1>1. CASE StartEncounter
  BY <1>0, <1>1 DEF StartEncounter
<1>2. CASE CloseCombat
  BY <1>0, <1>2 DEF CloseCombat, restVars
<1>3. CASE \E hours \in 1 .. MaxClock : AdvanceWorldTime(hours)
  BY <1>0, <1>3 DEF AdvanceWorldTime, HeroWaits
<1>4. ASSUME NEW id \in RestIds, Rest(id)
      PROVE  Purse' /\ MagicSpent
  <2>1. CASE ShortRest(id)
    BY <1>0, <2>1 DEF ShortRest
  <2>2. CASE \E fed \in BOOLEAN : LongRest(id, fed)
    BY <2>2, LongRestFills DEF MagicSpent
  <2> QED
    BY <1>4, <2>1, <2>2 DEF Rest
<1>5. CASE CompanionsNext /\ UNCHANGED restVars
  BY <1>0, <1>5 DEF restVars
<1>6. CASE BodyNext /\ UNCHANGED companionVars
  BY <1>0, <1>6 DEF BodyNext, HeroHurt, HeroHealed, HeroBolstered, HeroSaves,
     HeroStabilized, HeroSuffocates, HeroBreathes, HeroTires, FinishRecovery,
     SpendHitDie, Becomes
<1>7. CASE MagicNext /\ UNCHANGED companionVars
  <2>1. CASE \E l \in SlotLevels : Cast(l) \/ CreateSlot(l) \/ ConvertSlot(l)
    BY <2>1, CastKeeps, CreateSlotKeeps, ConvertSlotKeeps DEF MagicSpent
  <2>2. CASE \E n \in 1 .. MaxPoints : SpendPoints(n)
    BY <2>2, SpendPointsKeeps DEF MagicSpent
  <2> QED
    BY <1>7, <2>1, <2>2 DEF MagicNext
<1> QED
  BY <1>1, <1>2, <1>3, <1>4, <1>5, <1>6, <1>7 DEF Next

\* Points made of slots and slots made of points never add up to more than the
\* hero had; only a long rest recorded for the first time gives any back
\* (spendSpellSlot, flexibleCasting, spendUsage).
THEOREM MagicStaysSpent == Spec => MagicOnlyByRest
<1>1. Init => HInv /\ Purse
  <2>1. Init => Purse
    BY Slots, HeroNumbers DEF Init, RestsInit, FullMagic, Purse
  <2> QED
    BY <2>1, HInit
<1>2. ASSUME HInv /\ Purse, [Next]_vars
      PROVE  (HInv /\ Purse)' /\ [MagicSpent]_vars
  <2>1. rests \in [RestIds -> [kind : {"none", "short", "long"}, end : Nat]]
    BY <1>2 DEF HInv, RestsKept
  <2>2. CASE Next
    BY <1>2, <2>1, <2>2, HStep, MagicStep
  <2>3. CASE UNCHANGED vars
    BY <1>2, <2>3 DEF HInv, HeroSound, RestsKept, LongRestsApart, WindowIsNow,
       Purse, vars
  <2> QED
    BY <1>2, <2>2, <2>3
<1>3. MagicSpent => (magic' = magic \/ Worth(magic') <= Worth(magic) \/
        \E id \in RestIds : rests[id] = NoRest /\ rests'[id].kind = "long")
  BY DEF MagicSpent
<1> QED
  BY <1>1, <1>2, PTL DEF Spec, MagicOnlyByRest, MagicSpent
=============================================================================
