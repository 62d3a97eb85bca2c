----------------------------- MODULE Companions -----------------------------
(***************************************************************************)
(* The creatures of combat and one that outlives it.  A combatant is a row *)
(* of one combat and is never deleted; the durable campaign actor is kept  *)
(* apart, copied into a new row when it is admitted to a combat and copied *)
(* back from the row that speaks for it after every write.  An effect may  *)
(* own a creature: it sets what happens to it at 0 hit points, names the   *)
(* actor it becomes, and takes it out of play, or lets it go, when it ends.*)
(***************************************************************************)
EXTENDS CombatantLife, WorldClock, Sequences, FiniteSetsExt

CONSTANTS NoActor,
          Fulls,    \* hit points creatures come with
          Levels,   \* exhaustion levels given
          Wounds,   \* damage and healing
          Rolls,    \* hours a recovery may take
          Reclaim,  \* a new creature may claim an actor that has rows
          MaxRows   \* bound: combatants of the campaign

ASSUME ReclaimIsFlag == Reclaim \in BOOLEAN
ASSUME CompanionNumbers ==
  /\ Fulls \subseteq Nat \ {0} /\ Levels \subseteq 0 .. 6
  /\ Wounds \subseteq Nat \ {0} /\ Rolls \subseteq Nat \ {0}
  /\ MaxRows \in Nat
ASSUME NoActorIsNone == NoActor \notin Combatants

VARIABLES rows,  \* [in: its combat, mine: it is the actor's, k: its state]
          actor, \* the durable snapshot
          link   \* what the effect owns

companionVars == <<rows, actor, link>>

NoLink == [on |-> "nothing", row |-> 0, claims |-> FALSE, policy |-> "release"]
Links == [on : {"nothing", "combatant", "actor"}, row : 0 .. MaxRows,
          claims : BOOLEAN, policy : {"remove", "release"}]

CompanionsTypeOK ==
  /\ rows \in Seq([in : 1 .. MaxFights, mine : BOOLEAN, k : Combatants])
  /\ Len(rows) <= MaxRows
  /\ actor = NoActor \/ actor \in Combatants
  /\ link \in Links

CompanionsInit == rows = <<>> /\ actor = NoActor /\ link = NoLink

-----------------------------------------------------------------------------
\* The actor's row that speaks for it: the newest, as rows are only added to
\* the newest combat.
Mine == {i \in DOMAIN rows : rows[i].mine}
Speaker == Max(Mine)
Speaks(i) == ~ rows[i].mine \/ i = Speaker

Here(i) == fighting /\ rows[i].in = fights
Present(i) == Here(i) /\ rows[i].k.status # "absent"
OwnsActor == link.claims \/ link.on = "actor"
Owns(i) == \/ link.on = "combatant" /\ link.row = i
           \/ rows[i].mine /\ OwnsActor

Due == {clock + r : r \in Rolls}

\* Mutant: the actor is not copied back.
PutRowOnly(i, k) == rows' = [rows EXCEPT ![i].k = k] /\ actor' = actor

\* A row's new state, and the actor's if the row speaks for it.
Put(i, k) ==
  /\ rows' = [rows EXCEPT ![i].k = k]
  /\ actor' = IF rows[i].mine /\ i = Speaker THEN k ELSE actor

\* A creature that vanishes at 0 hit points ends what owns it; a bonded one
\* stays owned while it is absent.
Settle(i, k) ==
  link' = IF /\ k.status = "absent" /\ rows[i].k.status # "absent"
             /\ k.zero = "vanish" /\ Owns(i)
          THEN NoLink ELSE link

Write(i, k) == Put(i, k) /\ Settle(i, k) /\ UNCHANGED clockVars

-----------------------------------------------------------------------------
Join(full) ==
  /\ fighting /\ Len(rows) < MaxRows
  /\ rows' = Append(rows, [in |-> fights, mine |-> FALSE, k |-> Creature(full)])
  /\ UNCHANGED <<actor, link>> /\ UNCHANGED clockVars

\* The actor as it enters a combat: as it stands, up again if it had left the
\* last one, and a new creature if it was absent.
Entering(k) ==
  [k EXCEPT !.status =
     IF k.level = 6 THEN "dead"
     ELSE IF k.hp = 0
     THEN IF k.rules = "character"
          THEN IF @ \in {"stable", "dead"} THEN @ ELSE "dying"
          ELSE IF @ = "dead" THEN "dead" ELSE "unconscious"
     ELSE IF @ \in {"escaped", "inactive"} THEN "alive" ELSE @]

\* Mutant: an older row keeps its recovery.
RetiredDue == rows

\* A row that no longer speaks keeps no recovery.
Retired ==
  [i \in DOMAIN rows |-> IF rows[i].mine THEN [rows[i] EXCEPT !.k = Unscheduled(@)]
                         ELSE rows[i]]

MayEnter ==
  actor # NoActor =>
    /\ actor.status = "absent" => ~ OwnsActor
    /\ actor.status # "absent" =>
         (Vanishes(actor) /\ actor.hp = 0 => actor.level = 6)

Fresh == actor = NoActor \/ actor.status = "absent"

Enter(full) ==
  LET k == IF Fresh THEN Creature(full) ELSE Entering(actor)
  IN /\ fighting /\ Len(rows) < MaxRows /\ MayEnter
     /\ ~ \E i \in Mine : Present(i)
     /\ rows' = Append(Retired, [in |-> fights, mine |-> TRUE, k |-> k])
     /\ actor' = k
     /\ UNCHANGED link /\ UNCHANGED clockVars

-----------------------------------------------------------------------------
\* One operation per tool that writes a combatant of the active combat.
Hurt(i, n, crit) ==
  Present(i) /\ MayStrike(rows[i].k) /\ Write(i, Strike(rows[i].k, n, crit))

KnockOut(i, n) ==
  /\ Present(i) /\ MayKnockOut(rows[i].k, n)
  /\ \E due \in Due : Write(i, KnockedOut(rows[i].k, due))

Treat(i, n) == Present(i) /\ MayMend(rows[i].k) /\ Write(i, Mend(rows[i].k, n))

SetStatus(i, status) ==
  /\ Present(i) /\ MayDeclare(rows[i].k, status)
  /\ Write(i, Declare(rows[i].k, status))

\* Mutant: whoever owns the creature is not asked.
OptInUnasked(i) == Present(i) /\ MayOptIn(rows[i].k) /\ Write(i, OptIn(rows[i].k))

OptIntoDeathSaves(i) ==
  /\ Present(i) /\ MayOptIn(rows[i].k)
  /\ ~ (Owns(i) /\ link.policy = "remove")
  /\ Write(i, OptIn(rows[i].k))

DeathSave(i, save) ==
  /\ Present(i) /\ Saving(rows[i].k)
  /\ \E due \in Due : Write(i, Saved(rows[i].k, save, due))

Steady(i) ==
  /\ Present(i) /\ MaySteady(rows[i].k)
  /\ \E due \in Due : Write(i, Recovering(rows[i].k, due))

Drop(i) == Present(i) /\ MayChoke(rows[i].k) /\ Write(i, Choke(rows[i].k))

Breath(i) ==
  /\ Present(i) /\ rows[i].k.block
  /\ \E due \in Due : Write(i, Gasp(rows[i].k, due))

AdjustExhaustion(i, level) ==
  /\ Present(i) /\ MayTire(rows[i].k, level)
  /\ \E due \in Due : Write(i, Tire(rows[i].k, level, due))

-----------------------------------------------------------------------------
\* What the clock does, to at: every row that speaks and is due recovers.
CompanionsRecover(at) ==
  LET wakes(i) == Speaks(i) /\ Overdue(rows[i].k, at)
      row(i) == IF wakes(i) THEN Roused(rows[i].k) ELSE rows[i].k
  IN /\ rows' = [i \in DOMAIN rows |-> [rows[i] EXCEPT !.k = row(i)]]
     /\ actor' = IF Mine # {} /\ wakes(Speaker) THEN row(Speaker) ELSE actor
     /\ UNCHANGED link

\* The end of a combat: what an effect owns and names an actor outlives it,
\* what it owns and does not name is let go.
Claimed(i) == link.on = "combatant" /\ link.row = i /\ link.claims

CompanionsLeave ==
  LET durable == {i \in DOMAIN rows : Here(i) /\ (Claimed(i) \/ i \in Mine)}
  IN /\ \A i \in durable : i \in Mine \/ ~ Here(Speaker)
     /\ actor' = IF durable = {} THEN actor ELSE rows[Speaker].k
     /\ link' = IF link.on # "combatant" THEN link
                ELSE IF link.claims THEN [link EXCEPT !.on = "actor", !.row = 0]
                ELSE NoLink
     /\ UNCHANGED rows

-----------------------------------------------------------------------------
\* A new effect takes a combatant as its own.  A creature that may be dying
\* cannot be one that is to be taken out of play.
MayOwn(k, zero, policy) ==
  LET rule == IF zero = "none" THEN k.zero ELSE zero
  IN /\ zero # "none" /\ Vanishes(k) => zero = k.zero
     /\ k.rules = "character" => rule = "none" /\ policy = "release"
     /\ rule # "none" => k.hp > 0 \/ (k.status = "dead" /\ k.level = 6)

StartEffect(i, zero, policy, claims) ==
  LET k == [rows[i].k EXCEPT !.zero = IF zero = "none" THEN @ ELSE zero]
      durable == claims \/ rows[i].mine
      voice == IF Mine = {} THEN i ELSE Speaker
      spoken == IF voice = i THEN k ELSE rows[voice].k
  IN /\ link.on = "nothing" /\ Present(i) /\ MayOwn(rows[i].k, zero, policy)
     /\ k.zero = "bonded" => durable
     /\ durable /\ ~ rows[i].mine => Mine = {} \/ Reclaim
     /\ rows' = [rows EXCEPT ![i].k = k,
                             ![voice].mine = @ \/ durable]
     /\ actor' = IF durable THEN spoken ELSE actor
     /\ link' = [on |-> "combatant", row |-> i, claims |-> durable,
                 policy |-> policy]
     /\ UNCHANGED clockVars

Removable(k) == k.status \notin {"dying", "stable"}
Removed(k) == IF k.status = "absent" THEN k ELSE Gone(k)

\* The actor leaves through its row of the active combat if it has one.
ActorRow == {i \in Mine : Here(i)}

EndEffect ==
  /\ link.on # "nothing"
  /\ \/ link.policy = "release" /\ UNCHANGED <<rows, actor>>
     \/ /\ link.policy = "remove" /\ link.on = "combatant"
        /\ Removable(rows[link.row].k)
        /\ Put(link.row, Removed(rows[link.row].k))
     \/ /\ link.policy = "remove" /\ link.on = "actor" /\ ActorRow # {}
        /\ Removable(rows[Max(ActorRow)].k)
        /\ Put(Max(ActorRow), Removed(rows[Max(ActorRow)].k))
     \/ /\ link.policy = "remove" /\ link.on = "actor" /\ ActorRow = {}
        /\ Removable(actor)
        /\ actor' = Removed(actor) /\ UNCHANGED rows
  /\ link' = NoLink
  /\ UNCHANGED clockVars

\* Only its spell brings back a bonded creature that has vanished.
Recast ==
  /\ actor # NoActor /\ OwnsActor /\ ActorRow = {}
  /\ actor.status = "absent" /\ actor.zero = "bonded"
  /\ actor.level < 6 /\ Capacity(actor) > 0
  /\ actor' = [actor EXCEPT !.status = "alive", !.hp = Capacity(actor)]
  /\ UNCHANGED <<rows, link>> /\ UNCHANGED clockVars

-----------------------------------------------------------------------------
Act(i) ==
  \/ \E n \in Wounds, crit \in BOOLEAN : Hurt(i, n, crit)
  \/ \E n \in Wounds : KnockOut(i, n) \/ Treat(i, n)
  \/ \E status \in Declared : SetStatus(i, status)
  \/ OptIntoDeathSaves(i)
  \/ \E save \in Saves : DeathSave(i, save)
  \/ Steady(i) \/ Drop(i) \/ Breath(i)
  \/ \E level \in Levels : AdjustExhaustion(i, level)

CompanionsNext ==
  \/ \E full \in Fulls : Join(full) \/ Enter(full)
  \/ \E i \in DOMAIN rows :
       \/ Act(i)
       \/ \E zero \in {"none", "vanish", "bonded"},
             policy \in {"remove", "release"}, claims \in BOOLEAN :
            StartEffect(i, zero, policy, claims)
  \/ EndEffect
  \/ Recast
=============================================================================
