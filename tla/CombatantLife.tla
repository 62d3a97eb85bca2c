--------------------------- MODULE CombatantLife ---------------------------
(***************************************************************************)
(* The life of a combatant: one operator per lifecycle event, each with    *)
(* the guard that refuses it.  A combatant dies by the rules of a monster, *)
(* or is dying, saved and stabilized by those of a character; a summoned   *)
(* one may leave play at 0 hit points instead.  The checks the code makes  *)
(* on every new state are Legal, a promise and not a guard.                *)
(***************************************************************************)
EXTENDS CharacterLife

Statuses == {"alive", "unconscious", "escaped", "inactive", "dying", "stable",
             "dead", "absent"}
\* zero is what the creature's own rules say of 0 hit points: nothing, that it
\* vanishes, or that it vanishes and stays bonded to its summoner.
Combatants == [hp : Nat, full : Nat, level : 0 .. 6, status : Statuses,
               rules : {"monster", "character"}, succ : 0 .. 3, fail : 0 .. 3,
               due : Nat, settled : BOOLEAN, block : BOOLEAN,
               zero : {"none", "vanish", "bonded"}]

Creature(full) ==
  [hp |-> full, full |-> full, level |-> 0, status |-> "alive",
   rules |-> "monster", succ |-> 0, fail |-> 0, due |-> 0, settled |-> FALSE,
   block |-> FALSE, zero |-> "none"]

Capacity(k) == EffMax(k.full, k.level)
InPlay(k) == k.status \notin {"dead", "absent"}
Vanishes(k) == k.zero # "none"

Unscheduled(k) == [k EXCEPT !.due = 0, !.settled = FALSE]
Recovering(k, due) ==
  [k EXCEPT !.status = "stable", !.succ = 0, !.fail = 0, !.due = due,
            !.settled = FALSE]
Revived(k, hp) ==
  [Unscheduled(k) EXCEPT !.hp = hp, !.status = "alive", !.succ = 0, !.fail = 0]
Gone(k) ==
  [Unscheduled(k) EXCEPT !.status = "absent", !.succ = 0, !.fail = 0,
                         !.block = FALSE]
\* At 0 hit points without a blow.
Collapse(k) ==
  IF Vanishes(k) THEN Gone(k)
  ELSE [Unscheduled(k) EXCEPT
          !.status = IF k.rules = "character" THEN "dying" ELSE "dead",
          !.succ = 0, !.fail = 0]

-----------------------------------------------------------------------------
MayStrike(k) == InPlay(k)

\* A blow the character survives or not, and one that meets a monster.
StruckStatus(k, n, crit) ==
  IF k.rules = "monster"
  THEN IF n >= k.hp /\ (k.hp > 0 \/ k.status = "unconscious")
       THEN "dead" ELSE k.status
  ELSE IF k.hp > 0
  THEN IF n < k.hp THEN k.status
       ELSE IF n > k.hp /\ n - k.hp >= Capacity(k) THEN "dead" ELSE "dying"
  ELSE IF k.status \in {"dying", "stable"}
  THEN IF n >= Capacity(k) \/ Failures(k, crit) = 3 THEN "dead" ELSE "dying"
  ELSE k.status

Strike(k, n, crit) ==
  LET down == k.hp > 0 /\ n >= k.hp
      status == StruckStatus(k, n, crit)
      saving == k.rules = "character" /\ k.hp = 0
                  /\ k.status \in {"dying", "stable"} /\ n < Capacity(k)
      hurt == [Unscheduled(k) EXCEPT !.hp = IF n >= @ THEN 0 ELSE @ - n]
  IN IF Vanishes(k) /\ down THEN Gone(hurt)
     ELSE [hurt EXCEPT
             !.status = status,
             !.block = @ /\ status # "dead",
             !.succ = IF k.rules = "character" /\ down THEN 0 ELSE @,
             !.fail = IF k.rules = "character" /\ down THEN 0
                      ELSE IF saving THEN Failures(k, crit) ELSE @]

\* A blow to 0 that knocks out: a monster unconscious, a character stable.
MayKnockOut(k, n) ==
  InPlay(k) /\ k.hp > 0 /\ n >= k.hp /\ ~ k.block /\ ~ Vanishes(k)
KnockedOut(k, due) ==
  IF k.rules = "monster"
  THEN [Unscheduled(k) EXCEPT !.hp = 0, !.status = "unconscious",
                              !.succ = 0, !.fail = 0]
  ELSE Recovering([k EXCEPT !.hp = 0], due)

MayMend(k) == InPlay(k) /\ ~ k.block
Mend(k, n) ==
  LET hp == Least(Capacity(k), k.hp + n)
  IN IF hp > 0 /\ k.status \in {"dying", "stable"} THEN Revived(k, hp)
     ELSE [k EXCEPT !.hp = hp]

\* A status the game master gives.
Declared == {"alive", "unconscious", "escaped", "inactive", "dead"}
MayDeclare(k, status) ==
  /\ InPlay(k) /\ status # k.status
  /\ k.rules = "character" =>
       /\ status = "alive" => k.hp > 0
       /\ status \in {"unconscious", "escaped", "inactive"} =>
            k.status = "alive" /\ k.hp > 0
Declare(k, status) ==
  [Unscheduled(k) EXCEPT !.status = status, !.block = @ /\ status # "dead"]

MayOptIn(k) == InPlay(k) /\ k.hp > 0 /\ ~ Vanishes(k)
OptIn(k) == [k EXCEPT !.rules = "character"]

-----------------------------------------------------------------------------
Saving(k) == k.rules = "character" /\ k.status = "dying"

Saved(k, save, due) ==
  LET revives == save = "natural20" /\ ~ k.block /\ Capacity(k) > 0
      succeeds == save \in {"natural20", "success"}
      succ == Least(3, k.succ + 1)
      fail == Least(3, k.fail + IF save = "natural1" THEN 2 ELSE 1)
  IN IF revives THEN Revived(k, Least(1, Capacity(k)))
     ELSE IF succeeds
     THEN IF succ = 3 /\ ~ k.block THEN Recovering(k, due)
          ELSE [k EXCEPT !.succ = succ]
     ELSE IF fail = 3
     THEN [k EXCEPT !.fail = fail, !.status = "dead", !.block = FALSE]
     ELSE [k EXCEPT !.fail = fail]

MaySteady(k) == Saving(k) /\ ~ k.block

\* Out of breath; a second drop changes nothing.
MayChoke(k) == InPlay(k)
Choke(k) ==
  LET drop == [k EXCEPT !.hp = 0]
  IN IF k.block THEN k
     ELSE IF Vanishes(k) THEN Gone(drop)
     ELSE IF k.rules = "monster"
     THEN [Unscheduled(drop) EXCEPT !.status = "dead"]
     ELSE [Unscheduled(drop) EXCEPT
             !.status = "dying", !.block = TRUE,
             !.succ = IF k.status = "dying" THEN @ ELSE 0,
             !.fail = IF k.status = "dying" THEN @ ELSE 0]

Gasp(k, due) ==
  LET free == [k EXCEPT !.block = FALSE]
  IN IF k.status = "dying" /\ k.succ >= 3 THEN Recovering(free, due) ELSE free


\* A creature that vanishes at 0 hit points cannot lie there dead.
MayTire(k, level) ==
  /\ k.status # "absent" /\ level # k.level
  /\ k.status = "dead" /\ Vanishes(k) =>
       level = 6 \/ Least(k.hp, EffMax(k.full, level)) > 0
Tire(k, level, due) ==
  LET row == [k EXCEPT !.level = level, !.hp = Least(@, EffMax(k.full, level))]
      left == IF k.hp > 0 /\ row.hp = 0 THEN Collapse(row) ELSE row
  IN IF k.status = "dead" THEN row
     ELSE IF level = 6
     THEN [Unscheduled(row) EXCEPT !.status = "dead", !.block = FALSE]
     ELSE IF k.settled /\ Capacity(row) > 0
     THEN [left EXCEPT !.due = due, !.settled = FALSE]
     ELSE left

Overdue(k, hour) == k.status = "stable" /\ k.due # 0 /\ k.due <= hour
Roused(k) ==
  IF Capacity(k) = 0 THEN [k EXCEPT !.due = 0, !.settled = TRUE]
  ELSE Revived(k, Least(1, Capacity(k)))

-----------------------------------------------------------------------------
\* assertCombatantLifecycle, I1 to I11; owner says that the row is the one
\* that speaks for its creature.
Legal(k, owner) ==
  /\ k.level = 6 => ~ InPlay(k)
  /\ k.status \in {"dying", "stable"} => k.rules = "character" /\ k.hp = 0
  /\ k.rules = "character" /\ k.hp = 0 =>
       k.status \in {"dying", "stable", "dead", "absent"}
  /\ k.block => k.status = "dying"
  /\ k.hp <= Capacity(k)
  /\ k.due # 0 => k.status = "stable" /\ owner /\ ~ k.settled
  /\ k.settled => k.status = "stable"
  /\ k.status = "stable" /\ owner => k.due # 0 \/ k.settled
  /\ k.status = "absent" => k.succ = 0 /\ k.fail = 0
  /\ Vanishes(k) => /\ k.rules = "monster"
                    /\ k.hp = 0 => k.status = "absent"
                                   \/ (k.status = "dead" /\ k.level = 6)
=============================================================================
