--------------------------- MODULE CharacterLife ---------------------------
(***************************************************************************)
(* Hit points of a character: damage and healing with temporary hit        *)
(* points, dying, death saves, stability and its recovery, suffocation and *)
(* exhaustion.  Every write is an operator from a row to a row, together   *)
(* with the guard that refuses it.  Time is counted in hours.              *)
(***************************************************************************)
EXTENDS Integers

Lives == {"alive", "dying", "stable", "dead"}
Least(a, b) == IF a <= b THEN a ELSE b

\* full is the sheet's maximum; due is the hour a stable character recovers,
\* 0 if none is scheduled; settled that recovery brought nothing back.
Rows == [hp : Nat, full : Nat, temp : Nat, level : 0 .. 6, life : Lives,
         succ : 0 .. 3, fail : 0 .. 3, due : Nat, settled : BOOLEAN,
         block : BOOLEAN]

\* Exhaustion halves the maximum from its fourth level on.
EffMax(full, level) == IF level >= 4 THEN full \div 2 ELSE full
HpMax(c) == EffMax(c.full, c.level)

Kept(c, life) == IF life = "stable" THEN c.due ELSE 0

\* writeHpFields: only a stable row keeps a recovery, only a dying one a block.
WriteHp(c, hp, temp, life, succ, fail) ==
  [c EXCEPT !.hp = hp, !.temp = temp, !.life = life,
            !.succ = succ, !.fail = fail, !.due = Kept(c, life),
            !.settled = life = "stable" /\ @,
            !.block = @ /\ life # "dead"]

Schedule(c, due) == [c EXCEPT !.due = due, !.settled = FALSE]

-----------------------------------------------------------------------------
\* Damage, which temporary hit points soak first; at 0 hit points the event
\* itself costs death saves, and the whole of it is compared to the maximum.
Overflow(c, n) == n - Least(c.temp, n) - c.hp
Drops(c, n) == c.hp > 0 /\ Overflow(c, n) >= 0
Failures(c, crit) == Least(3, c.fail + IF crit THEN 2 ELSE 1)

MayDamage(c, knockOut) ==
  c.life # "dead" /\ (knockOut => ~ c.block /\ c.hp > 0)

LifeAfter(c, n, crit, knockOut) ==
  IF c.full = 0 THEN c.life
  ELSE IF Drops(c, n)
  THEN IF knockOut THEN "stable"
       ELSE IF HpMax(c) > 0 /\ Overflow(c, n) >= HpMax(c) THEN "dead"
       ELSE "dying"
  ELSE IF c.hp = 0
  THEN IF n >= HpMax(c) \/ Failures(c, crit) = 3 THEN "dead" ELSE "dying"
  ELSE c.life

\* The recovery of a character knocked out is due at the hour given.
Damage(c, n, crit, knockOut, due) ==
  LET counts == c.full # 0 /\ Drops(c, n)
      hurt == WriteHp(c, IF Drops(c, n) THEN 0
                         ELSE IF c.hp = 0 THEN 0 ELSE 0 - Overflow(c, n),
                c.temp - Least(c.temp, n), LifeAfter(c, n, crit, knockOut),
                IF counts THEN 0 ELSE c.succ,
                IF counts THEN 0
                ELSE IF c.full # 0 /\ c.hp = 0 /\ n < HpMax(c)
                     THEN Failures(c, crit) ELSE c.fail)
  IN IF knockOut /\ counts THEN Schedule(hurt, due) ELSE hurt

\* Mutant: the dead are not told from the living.
MayHealAnyone(c, n) == n > 0 => ~ c.block

MayHeal(c, n) == c.life # "dead" /\ (n > 0 => ~ c.block)
Heal(c, n) ==
  LET hp == Least(c.hp + n, HpMax(c))
      revived == c.life # "alive" /\ hp > 0
  IN WriteHp(c, hp, c.temp, IF revived THEN "alive" ELSE c.life,
             IF revived THEN 0 ELSE c.succ, IF revived THEN 0 ELSE c.fail)

-----------------------------------------------------------------------------
\* What a death save comes to: a natural 20, a natural 1, or a total judged
\* against 10.
Saves == {"natural20", "success", "failure", "natural1"}

MaySave(c) == c.life = "dying"
Save(c, save, due) ==
  LET revives == save = "natural20" /\ ~ c.block /\ HpMax(c) > 0
      succeeds == ~ revives /\ save \in {"natural20", "success"}
      succ == IF succeeds THEN Least(3, c.succ + 1) ELSE c.succ
      fail == IF succeeds \/ revives THEN c.fail
              ELSE Least(3, c.fail + IF save = "natural1" THEN 2 ELSE 1)
      stable == succeeds /\ succ = 3 /\ ~ c.block
  IN IF revives THEN WriteHp(c, Least(1, HpMax(c)), c.temp, "alive", 0, 0)
     ELSE IF stable
     THEN Schedule(WriteHp(c, c.hp, c.temp, "stable", 0, 0), due)
     ELSE WriteHp(c, c.hp, c.temp, IF fail = 3 THEN "dead" ELSE "dying",
                  succ, fail)

MayStabilize(c) == c.life = "dying" /\ ~ c.block
Stabilize(c, due) ==
  Schedule(WriteHp(c, c.hp, c.temp, "stable", 0, 0), due)

MaySuffocate(c) == c.life # "dead" /\ ~ c.block
Suffocate(c) ==
  LET dying == c.life = "dying"
  IN [WriteHp(c, 0, c.temp, "dying", IF dying THEN c.succ ELSE 0,
              IF dying THEN c.fail ELSE 0) EXCEPT !.block = TRUE]

\* Mutant: no recovery is scheduled.
BreatheUnscheduled(c, due) ==
  IF c.life = "dying" /\ c.succ >= 3
  THEN WriteHp([c EXCEPT !.block = FALSE], c.hp, c.temp, "stable", 0, 0)
  ELSE [c EXCEPT !.block = FALSE]

\* Breathing again turns three successes made meanwhile into stability.
MayBreathe(c) == c.block
Breathe(c, due) ==
  LET free == [c EXCEPT !.block = FALSE]
  IN IF c.life = "dying" /\ c.succ >= 3
     THEN Schedule(WriteHp(free, c.hp, c.temp, "stable", 0, 0), due)
     ELSE free

\* A new level clamps the hit points, the sixth kills; a recovery that had
\* brought nothing back is scheduled afresh once there is something to regain.
Exhaust(c, level, due) ==
  LET hp == Least(c.hp, EffMax(c.full, level))
      downed == c.hp > 0 /\ hp = 0
      life == IF level = 6 \/ c.life = "dead" THEN "dead"
              ELSE IF downed THEN "dying" ELSE c.life
      row == WriteHp([c EXCEPT !.level = level], hp, c.temp, life,
                     IF downed THEN 0 ELSE c.succ, IF downed THEN 0 ELSE c.fail)
  IN IF life = "stable" /\ row.settled /\ row.due = 0 /\ HpMax(row) > 0
     THEN Schedule(row, due) ELSE row

\* The recovery of a stable character at its hour: one hit point, if any fits.
MayRecover(c, hour) ==
  c.life = "stable" /\ c.hp = 0 /\ ~ c.settled /\ c.due # 0 /\ c.due <= hour
Recover(c) ==
  IF Heal(c, 1).hp = 0 THEN [Heal(c, 1) EXCEPT !.due = 0, !.settled = TRUE]
  ELSE Heal(c, 1)

MayGrantTemporary(c) == c.life # "dead"
GrantTemporary(c, n, replace) ==
  IF c.temp = 0 \/ replace THEN [c EXCEPT !.temp = n] ELSE c
ExpireTemporary(c) == [c EXCEPT !.temp = 0]

-----------------------------------------------------------------------------
\* assertCharacterLifecycle: what every write above must leave behind (I1 to
\* I7; that death is final, I8, is a property of steps).
Sound(c) ==
  /\ c.level = 6 => c.life = "dead"
  /\ c.life \in {"dying", "stable"} => c.hp = 0
  /\ c.full # 0 /\ c.hp = 0 => c.life # "alive"
  /\ c.block => c.life = "dying"
  /\ c.hp <= HpMax(c)
  /\ c.life = "stable" => (c.settled <=> c.due = 0)
  /\ c.life # "stable" => ~ c.settled /\ c.due = 0
=============================================================================
