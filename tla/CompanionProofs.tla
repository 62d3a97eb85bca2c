--------------------------- MODULE CompanionProofs ---------------------------
(***************************************************************************)
(* TLAPS proofs about the creatures of Adventure, for every number of rows,*)
(* of combats and of hit points.                                           *)
(***************************************************************************)
EXTENDS LifeProofs, WellFoundedInduction, SequenceTheorems

Typed ==
  /\ clock \in Nat /\ fights \in Nat /\ fighting \in BOOLEAN
  /\ rows \in Seq([in : Nat, mine : BOOLEAN, k : Combatants])
  /\ actor = NoActor \/ actor \in Combatants
  /\ link \in [on : {"nothing", "combatant", "actor"}, row : Nat,
               claims : BOOLEAN, policy : {"remove", "release"}]

\* Rows are added to the newest combat.
Ordered ==
  \A i \in DOMAIN rows :
    /\ rows[i].in <= fights
    /\ \A j \in DOMAIN rows : i < j => rows[i].in <= rows[j].in

\* Of the actor's rows only the one that speaks is in play where it can be hurt.
Alone == \A i \in Mine : Present(i) => i = Speaker

\* There is an actor once there is a row for it.
Embodied == actor # NoActor <=> Mine # {}

\* What an effect owns is there.
Linked ==
  /\ link.on = "combatant" => link.row \in DOMAIN rows /\ Here(link.row)
  /\ OwnsActor => Mine # {}
  /\ link.on = "nothing" => ~ link.claims /\ link.policy = "release"

\* An actor that was claimed is the creature that was owned, and what is to be
\* removed does not die by the rules of a character.
Tamed ==
  Reclaim = FALSE =>
    /\ link.on = "combatant" /\ link.claims => link.row \in Mine /\ link.row = Speaker
    /\ link.policy = "remove" =>
         /\ link.on = "combatant" => rows[link.row].k.rules = "monster"
         /\ link.on = "actor" => actor.rules = "monster"

\* Between combats the actor may come back or be taken away, but not while its
\* last row is down and waits for an hour.
Echoed ==
  Mine # {} /\ rows[Speaker].k.status \in {"dying", "stable"} =>
    actor = rows[Speaker].k

\* The inductive invariant of the creatures.
CInv == /\ Typed /\ Ordered /\ RowsLegal /\ Alone /\ Embodied /\ ActorMirrors
        /\ Echoed /\ Linked /\ Tamed

-----------------------------------------------------------------------------
\* The newest of some rows.
LEMMA MaxFacts ==
  ASSUME NEW n \in Nat, NEW S \in SUBSET (1 .. n), S # {}
  PROVE  Max(S) \in S /\ \A y \in S : y <= Max(S)
<1> DEFINE T == {n - y : y \in S}
           less == {ss \in Nat \X Nat : ss[1] < ss[2]}
<1>1. T \subseteq Nat /\ T # {}
  <2>1. \A y \in S : n - y \in Nat
    OBVIOUS
  <2>2. PICK y \in S : TRUE
    OBVIOUS
  <2>3. n - y \in T
    BY <2>2
  <2> QED
    BY <2>1, <2>3
<1>2. IsWellFoundedOn(less, Nat)
  BY NatLessThanWellFounded DEF OpToRel
<1> HIDE DEF T, less
<1>3. PICK x \in T : \A y \in T : <<y, x>> \notin less
  BY <1>1, <1>2, WFMin
<1> USE DEF T, less
<1>4. PICK m \in S : x = n - m
  OBVIOUS
<1>5. \A y \in S : y <= m
  <2> SUFFICES ASSUME NEW y \in S
               PROVE  y <= m
    OBVIOUS
  <2>1. n - y \in T /\ n - y \in Nat /\ x \in Nat
    BY <1>1
  <2>2. <<n - y, x>> \notin less
    BY <1>3, <2>1
  <2>3. ~ (n - y < x)
    BY <2>1, <2>2
  <2> QED
    BY <1>4, <2>3
<1>6. Max(S) \in S /\ \A y \in S : Max(S) >= y
  <2>1. \E z \in S : \A y \in S : z >= y
    BY <1>5
  <2> QED
    BY <2>1 DEF Max
<1> QED
  BY <1>6

\* The row that speaks for the actor is its newest.
LEMMA SpeakerFacts ==
  ASSUME Typed, Mine # {}
  PROVE  /\ Speaker \in Mine /\ Speaker \in DOMAIN rows /\ rows[Speaker].mine
         /\ \A i \in Mine : i <= Speaker
<1>1. Len(rows) \in Nat /\ Mine \in SUBSET (1 .. Len(rows))
  BY DEF Typed, Mine
<1>2. Speaker \in Mine /\ \A i \in Mine : i <= Speaker
  BY <1>1, MaxFacts DEF Speaker
<1> QED
  BY <1>2 DEF Mine

\* The types of a row's fields.
LEMMA RowTyped ==
  ASSUME Typed, NEW i \in DOMAIN rows
  PROVE  rows[i].in \in Nat /\ rows[i].mine \in BOOLEAN /\ rows[i].k \in Combatants
<1> DEFINE R == [in : Nat, mine : BOOLEAN, k : Combatants]
<1>1. rows \in Seq(R)
  BY DEF Typed
<1> HIDE DEF R
<1>2. rows[i] \in R
  BY <1>1
<1> QED
  BY <1>2 DEF R

\* Rows that are somewhere else in name only keep the same speaker.
LEMMA SameRows ==
  ASSUME DOMAIN rows' = DOMAIN rows,
         \A i \in DOMAIN rows : rows'[i].mine = rows[i].mine
  PROVE  Mine' = Mine /\ Speaker' = Speaker
<1>1. Mine' = Mine
  BY DEF Mine
<1> QED
  BY <1>1 DEF Speaker

\* A creature of the active combat speaks for itself.
LEMMA PresentSpeaks ==
  ASSUME CInv, NEW i \in DOMAIN rows, Present(i)
  PROVE  Speaks(i)
  BY DEF CInv, Alone, Speaks, Mine

\* What Put does, row by row.
LEMMA PutFacts ==
  ASSUME Typed, NEW i \in DOMAIN rows, NEW k \in Combatants, Put(i, k)
  PROVE  /\ rows' \in Seq([in : Nat, mine : BOOLEAN, k : Combatants])
         /\ Len(rows') = Len(rows) /\ DOMAIN rows' = DOMAIN rows
         /\ \A j \in DOMAIN rows :
              /\ rows'[j].in = rows[j].in /\ rows'[j].mine = rows[j].mine
              /\ rows'[j].k = IF j = i THEN k ELSE rows[j].k
         /\ Mine' = Mine /\ Speaker' = Speaker
<1> DEFINE R == [in : Nat, mine : BOOLEAN, k : Combatants]
           r == [rows[i] EXCEPT !.k = k]
<1>1. rows \in Seq(R) /\ rows[i] \in R
  <2>1. rows \in Seq(R)
    BY DEF Typed
  <2> HIDE DEF R
  <2> QED
    BY <2>1
<1>2. r \in R /\ r.in = rows[i].in /\ r.mine = rows[i].mine /\ r.k = k
  BY <1>1
<1>3. rows' = [rows EXCEPT ![i] = r] /\ i \in 1 .. Len(rows)
        /\ DOMAIN rows = 1 .. Len(rows)
  BY <1>1 DEF Put
<1> HIDE DEF r, R
<1>4. /\ rows' \in Seq(R) /\ Len(rows') = Len(rows) /\ DOMAIN rows' = DOMAIN rows
      /\ \A j \in DOMAIN rows : rows'[j] = IF j = i THEN r ELSE rows[j]
  <2>1. /\ rows' \in Seq(R) /\ Len(rows') = Len(rows)
        /\ \A j \in 1 .. Len(rows) : rows'[j] = IF j = i THEN r ELSE rows[j]
    BY <1>1, <1>2, <1>3, ExceptSeq
  <2> QED
    BY <1>3, <2>1
<1>5. \A j \in DOMAIN rows :
        /\ rows'[j].in = rows[j].in /\ rows'[j].mine = rows[j].mine
        /\ rows'[j].k = IF j = i THEN k ELSE rows[j].k
  BY <1>2, <1>4
<1>6. Mine' = Mine /\ Speaker' = Speaker
  BY <1>4, <1>5, SameRows
<1> QED
  BY <1>4, <1>5, <1>6 DEF R

-----------------------------------------------------------------------------
\* A legal state written to a row that speaks keeps the invariant, if what is
\* to be removed keeps the rules of a monster and the effect stays or goes.
LEMMA PutKeeps ==
  ASSUME CInv, NEW i \in DOMAIN rows, NEW k \in Combatants, Put(i, k),
         Legal(k, TRUE), Speaks(i),
         rows[i].k.status = "absent" => k.status = "absent",
         Reclaim = FALSE /\ link.policy = "remove" /\ Owns(i) => k.rules = "monster",
         link' = link \/ link' = NoLink, UNCHANGED clockVars
  PROVE  CInv'
<1>1. /\ rows' \in Seq([in : Nat, mine : BOOLEAN, k : Combatants])
      /\ Len(rows') = Len(rows) /\ DOMAIN rows' = DOMAIN rows
      /\ \A j \in DOMAIN rows :
           /\ rows'[j].in = rows[j].in /\ rows'[j].mine = rows[j].mine
           /\ rows'[j].k = IF j = i THEN k ELSE rows[j].k
      /\ Mine' = Mine /\ Speaker' = Speaker
  BY PutFacts DEF CInv
<1>2. /\ clock' = clock /\ fights' = fights /\ fighting' = fighting
      /\ \A j \in DOMAIN rows : Here(j)' <=> Here(j)
  BY <1>1 DEF clockVars, Here
<1>3. actor' = IF rows[i].mine /\ i = Speaker THEN k ELSE actor
  BY DEF Put
<1>4. rows[i].mine => i = Speaker /\ i \in Mine
  BY DEF Speaks, Mine
<1>5. Typed'
  <2>1. NoLink \in [on : {"nothing", "combatant", "actor"}, row : Nat,
                    claims : BOOLEAN, policy : {"remove", "release"}]
    BY DEF NoLink
  <2> QED
    BY <1>1, <1>2, <1>3, <2>1 DEF CInv, Typed
<1>6. Ordered'
  BY <1>1, <1>2 DEF CInv, Ordered
<1>7. RowsLegal'
  <2>1. \A j \in DOMAIN rows : Legal(rows'[j].k, Speaks(j)')
    <3> SUFFICES ASSUME NEW j \in DOMAIN rows
                 PROVE  Legal(rows'[j].k, Speaks(j)')
      OBVIOUS
    <3>1. Speaks(j)' = Speaks(j)
      BY <1>1 DEF Speaks
    <3>2. Legal(rows[j].k, Speaks(j))
      BY DEF CInv, RowsLegal
    <3>3. Speaks(i) = TRUE
      BY DEF Speaks
    <3> QED
      BY <1>1, <3>1, <3>2, <3>3
  <2>2. actor' # NoActor => Legal(actor', TRUE)
    BY <1>3 DEF CInv, RowsLegal
  <2> QED
    BY <1>1, <2>1, <2>2 DEF RowsLegal
<1>8. Alone'
  BY <1>1, <1>2 DEF CInv, Alone, Present, Mine
<1>9. Embodied'
  BY <1>1, <1>3, <1>4, NoActorIsNone DEF CInv, Embodied
<1>10. ActorMirrors'
  <2>1. ActorRow' = ActorRow
    BY <1>1, <1>2 DEF ActorRow, Mine
  <2>2. ActorRow # {} => Speaker \in DOMAIN rows
    BY SpeakerFacts DEF ActorRow, CInv
  <2> QED
    BY <1>1, <1>3, <1>4, <2>1, <2>2, SpeakerFacts
    DEF CInv, ActorMirrors, ActorRow
<1>11. Linked'
  BY <1>1, <1>2 DEF CInv, Linked, OwnsActor, NoLink
<1>12. Tamed'
  <2>0. ASSUME link' = NoLink
        PROVE  Tamed'
    <3>1. link'.on = "nothing" /\ link'.policy = "release"
      BY <2>0 DEF NoLink
    <3> QED
      BY <3>1 DEF Tamed
  <2> SUFFICES ASSUME Reclaim = FALSE, link' = link
               PROVE  Tamed'
    BY <2>0 DEF Tamed
  <2>1. link.on = "combatant" /\ link.claims => link.row \in Mine /\ link.row = Speaker
    BY DEF CInv, Tamed
  <2>2. link.policy = "remove" /\ link.on = "combatant" =>
          rows'[link.row].k.rules = "monster"
    BY <1>1 DEF CInv, Tamed, Linked, Owns
  <2>3. link.policy = "remove" /\ link.on = "actor" => actor'.rules = "monster"
    <3> SUFFICES ASSUME link.policy = "remove", link.on = "actor"
                 PROVE  actor'.rules = "monster"
      OBVIOUS
    <3>1. actor.rules = "monster"
      BY DEF CInv, Tamed
    <3>2. rows[i].mine => k.rules = "monster"
      BY DEF Owns, OwnsActor
    <3> QED
      BY <1>3, <3>1, <3>2
  <2> QED
    BY <1>1, <2>1, <2>2, <2>3 DEF Tamed
<1>13. Echoed'
  <2>1. Mine # {} => Speaker \in DOMAIN rows /\ rows[Speaker].mine
    BY SpeakerFacts DEF CInv
  <2>2. Mine # {} =>
          /\ i = Speaker => actor' = rows'[Speaker].k
          /\ i # Speaker => actor' = actor /\ rows'[Speaker].k = rows[Speaker].k
    BY <1>1, <1>3, <2>1
  <2> QED
    BY <1>1, <2>2 DEF CInv, Echoed
<1> QED
  BY <1>5, <1>6, <1>7, <1>8, <1>9, <1>10, <1>11, <1>12, <1>13 DEF CInv

\* What an effect owns and is to be removed keeps to the rules of a monster.
LEMMA OwnedTame ==
  ASSUME CInv, Reclaim = FALSE, link.policy = "remove",
         NEW i \in DOMAIN rows, Owns(i), Present(i)
  PROVE  rows[i].k.rules = "monster"
<1> USE DEF CInv
<1>1. CASE link.on = "combatant" /\ link.row = i
  BY <1>1 DEF Tamed
<1>2. CASE rows[i].mine /\ OwnsActor
  <2>1. i \in Mine /\ i = Speaker
    BY <1>2 DEF Mine, Alone
  <2>2. CASE link.on = "actor"
    <3>1. i \in ActorRow
      BY <2>1 DEF ActorRow, Present
    <3>2. actor = rows[i].k
      BY <2>1, <3>1 DEF ActorMirrors
    <3> QED
      BY <2>2, <3>2 DEF Tamed
  <2>3. CASE link.on # "actor"
    <3>1. link.claims /\ link.on = "combatant"
      BY <1>2, <2>3 DEF OwnsActor, Linked, Typed
    <3> QED
      BY <2>1, <3>1 DEF Tamed
  <2> QED
    BY <2>2, <2>3
<1> QED
  BY <1>1, <1>2 DEF Owns

\* One tool of combat writes one creature of the active combat.
LEMMA WriteKeeps ==
  ASSUME CInv, NEW i \in DOMAIN rows, Present(i), NEW k, Write(i, k),
         k \in Combatants, Legal(k, TRUE),
         link.policy = "remove" /\ Owns(i) => k.rules = rows[i].k.rules
  PROVE  CInv'
<1>1. Put(i, k) /\ UNCHANGED clockVars /\ (link' = link \/ link' = NoLink)
  BY DEF Write, Settle
<1>2. Speaks(i)
  BY PresentSpeaks
<1>3. rows[i].k.status # "absent"
  BY DEF Present
<1>4. Reclaim = FALSE /\ link.policy = "remove" /\ Owns(i) => k.rules = "monster"
  BY OwnedTame
<1> QED
  BY <1>1, <1>2, <1>3, <1>4, PutKeeps

\* The creature a tool finds in the active combat.
LEMMA PresentFacts ==
  ASSUME CInv, NEW i \in DOMAIN rows, Present(i)
  PROVE  rows[i].k \in Combatants /\ Legal(rows[i].k, TRUE)
<1>1. rows[i].k \in Combatants
  BY RowTyped DEF CInv
<1>2. Legal(rows[i].k, Speaks(i)) /\ Speaks(i) = TRUE
  BY PresentSpeaks DEF CInv, RowsLegal, Speaks
<1> QED
  BY <1>1, <1>2

\* A lifecycle event of a creature of the active combat.
LEMMA EventKeeps ==
  ASSUME CInv, NEW i \in DOMAIN rows, Present(i), NEW k, Write(i, k),
         Event(k, rows[i].k)
  PROVE  CInv'
  BY WriteKeeps DEF Event

\* What a step may do to the bodies of combat.
BodiesGoOn ==
  \A i \in DOMAIN rows :
    /\ rows[i].k.status = "dead" => rows'[i].k.status \in {"dead", "absent"}
    /\ rows[i].k.status = "absent" => rows'[i].k.status = "absent"

\* A step that writes one row by an event, or by one that keeps the status.
LEMMA PutGoesOn ==
  ASSUME Typed, NEW i \in DOMAIN rows, NEW k \in Combatants, Put(i, k),
         rows[i].k.status = "dead" => k.status \in {"dead", "absent"},
         rows[i].k.status = "absent" => k.status = "absent"
  PROVE  BodiesGoOn
  BY PutFacts DEF BodiesGoOn

\* An event of one creature leaves the dead dead and the gone gone.
LEMMA EventGoesOn ==
  ASSUME CInv, NEW i \in DOMAIN rows, NEW k, Write(i, k), Event(k, rows[i].k)
  PROVE  BodiesGoOn
  BY PutGoesOn DEF Event, Write, CInv

-----------------------------------------------------------------------------
\* The hours a recovery is due at.
LEMMA DueFacts ==
  ASSUME CInv, NEW due \in Due
  PROVE  due \in Nat \ {0}
  BY CompanionNumbers DEF Due, CInv, Typed

\* Every tool that writes a combatant.
LEMMA ActKeeps ==
  ASSUME CInv, NEW i \in DOMAIN rows, Act(i)
  PROVE  CInv' /\ BodiesGoOn
<1> DEFINE c == rows[i].k
<1>1. ASSUME Present(i)
      PROVE  c \in Combatants /\ Legal(c, TRUE)
  BY <1>1, PresentFacts
<1>2. ASSUME Present(i), NEW k, Write(i, k), Event(k, c)
      PROVE  CInv' /\ BodiesGoOn
  BY <1>2, EventKeeps, EventGoesOn
<1> HIDE DEF c
<1>3. ASSUME NEW n \in Wounds, NEW crit \in BOOLEAN, Hurt(i, n, crit)
      PROVE  CInv' /\ BodiesGoOn
  <2>1. Present(i) /\ MayStrike(c) /\ Write(i, Strike(c, n, crit))
    BY <1>3 DEF Hurt, c
  <2>2. Event(Strike(c, n, crit), c)
    BY <1>1, <2>1, CompanionNumbers, StrikeLegal
  <2> QED
    BY <1>2, <2>1, <2>2
<1>4. ASSUME NEW n \in Wounds, KnockOut(i, n)
      PROVE  CInv' /\ BodiesGoOn
  <2>1. PICK due \in Due : Write(i, KnockedOut(c, due))
    BY <1>4 DEF KnockOut, c
  <2>2. Present(i) /\ MayKnockOut(c, n)
    BY <1>4 DEF KnockOut, c
  <2>3. Event(KnockedOut(c, due), c)
    BY <1>1, <2>2, CompanionNumbers, DueFacts, KnockedOutLegal
  <2> QED
    BY <1>2, <2>1, <2>2, <2>3
<1>5. ASSUME NEW n \in Wounds, Treat(i, n)
      PROVE  CInv' /\ BodiesGoOn
  <2>1. Present(i) /\ MayMend(c) /\ Write(i, Mend(c, n))
    BY <1>5 DEF Treat, c
  <2>2. Event(Mend(c, n), c)
    BY <1>1, <2>1, CompanionNumbers, MendLegal
  <2> QED
    BY <1>2, <2>1, <2>2
<1>6. ASSUME NEW status \in Declared, SetStatus(i, status)
      PROVE  CInv' /\ BodiesGoOn
  <2>1. Present(i) /\ MayDeclare(c, status) /\ Write(i, Declare(c, status))
    BY <1>6 DEF SetStatus, c
  <2>2. Event(Declare(c, status), c)
    BY <1>1, <2>1, DeclareLegal
  <2> QED
    BY <1>2, <2>1, <2>2
<1>7. ASSUME OptIntoDeathSaves(i)
      PROVE  CInv' /\ BodiesGoOn
  <2>1. Present(i) /\ MayOptIn(c) /\ Write(i, OptIn(c))
          /\ ~ (Owns(i) /\ link.policy = "remove")
    BY <1>7 DEF OptIntoDeathSaves, c
  <2>2. OptIn(c) \in Combatants /\ Legal(OptIn(c), TRUE) /\ OptIn(c).status = c.status
    BY <1>1, <2>1, OptInLegal
  <2>3. CInv'
    BY <2>1, <2>2, WriteKeeps
  <2>4. BodiesGoOn
    BY <2>1, <2>2, PutGoesOn DEF Write, CInv, c
  <2> QED
    BY <2>3, <2>4
<1>8. ASSUME NEW save \in Saves, DeathSave(i, save)
      PROVE  CInv' /\ BodiesGoOn
  <2>1. PICK due \in Due : Write(i, Saved(c, save, due))
    BY <1>8 DEF DeathSave, c
  <2>2. Present(i) /\ Saving(c)
    BY <1>8 DEF DeathSave, c
  <2>3. Event(Saved(c, save, due), c)
    BY <1>1, <2>2, DueFacts, SavedLegal
  <2> QED
    BY <1>2, <2>1, <2>2, <2>3
<1>9. ASSUME Steady(i)
      PROVE  CInv' /\ BodiesGoOn
  <2>1. PICK due \in Due : Write(i, Recovering(c, due))
    BY <1>9 DEF Steady, c
  <2>2. Present(i) /\ MaySteady(c)
    BY <1>9 DEF Steady, c
  <2>3. Event(Recovering(c, due), c)
    BY <1>1, <2>2, DueFacts, SteadyLegal
  <2> QED
    BY <1>2, <2>1, <2>2, <2>3
<1>10. ASSUME Drop(i)
       PROVE  CInv' /\ BodiesGoOn
  <2>1. Present(i) /\ MayChoke(c) /\ Write(i, Choke(c))
    BY <1>10 DEF Drop, c
  <2>2. Event(Choke(c), c)
    BY <1>1, <2>1, ChokeLegal
  <2> QED
    BY <1>2, <2>1, <2>2
<1>11. ASSUME Breath(i)
       PROVE  CInv' /\ BodiesGoOn
  <2>1. PICK due \in Due : Write(i, Gasp(c, due))
    BY <1>11 DEF Breath, c
  <2>2. Present(i) /\ c.block
    BY <1>11 DEF Breath, c
  <2>3. Event(Gasp(c, due), c)
    BY <1>1, <2>2, DueFacts, GaspLegal
  <2> QED
    BY <1>2, <2>1, <2>2, <2>3
<1>12. ASSUME NEW level \in Levels, AdjustExhaustion(i, level)
       PROVE  CInv' /\ BodiesGoOn
  <2>1. PICK due \in Due : Write(i, Tire(c, level, due))
    BY <1>12 DEF AdjustExhaustion, c
  <2>2. Present(i) /\ MayTire(c, level)
    BY <1>12 DEF AdjustExhaustion, c
  <2>3. Event(Tire(c, level, due), c)
    BY <1>1, <2>2, CompanionNumbers, DueFacts, TireLegal
  <2> QED
    BY <1>2, <2>1, <2>2, <2>3
<1> QED
  BY <1>3, <1>4, <1>5, <1>6, <1>7, <1>8, <1>9, <1>10, <1>11, <1>12 DEF Act

-----------------------------------------------------------------------------
\* A new row at the end.
LEMMA AppendFacts ==
  ASSUME NEW s, NEW R, s \in Seq(R), NEW r \in R
  PROVE  /\ Append(s, r) \in Seq(R)
         /\ Len(Append(s, r)) = Len(s) + 1 /\ Len(s) \in Nat
         /\ DOMAIN s = 1 .. Len(s) /\ DOMAIN Append(s, r) = 1 .. Len(s) + 1
         /\ \A i \in 1 .. Len(s) : Append(s, r)[i] = s[i]
         /\ Append(s, r)[Len(s) + 1] = r
  OBVIOUS

\* A creature joins a combat: it speaks for itself and nothing owns it.
LEMMA JoinKeeps ==
  ASSUME CInv, NEW full \in Fulls, Join(full)
  PROVE  CInv' /\ BodiesGoOn
<1> DEFINE R == [in : Nat, mine : BOOLEAN, k : Combatants]
           r == [in |-> fights, mine |-> FALSE, k |-> Creature(full)]
<1>1. Creature(full) \in Combatants /\ Legal(Creature(full), TRUE)
  BY CompanionNumbers, CreatureLegal
<1>2. r \in R /\ r.in = fights /\ r.mine = FALSE /\ r.k = Creature(full)
  BY <1>1 DEF CInv, Typed
<1>3. rows \in Seq(R)
  BY DEF CInv, Typed
<1>4. rows' = Append(rows, r) /\ fighting /\ UNCHANGED <<actor, link, clock, fights, fighting>>
  BY DEF Join, clockVars
<1> HIDE DEF R, r
<1>0. PICK n : n = Len(rows)
  OBVIOUS
<1>5. /\ rows' \in Seq(R) /\ n \in Nat /\ Len(rows') = n + 1
      /\ DOMAIN rows = 1 .. n /\ DOMAIN rows' = 1 .. n + 1
      /\ \A i \in DOMAIN rows : rows'[i] = rows[i]
      /\ rows'[n + 1] = r
  BY <1>0, <1>2, <1>3, <1>4, AppendFacts
<1>6. \A i \in DOMAIN rows' : i \in DOMAIN rows \/ i = n + 1
  BY <1>5
<1>7. Mine' = Mine /\ Speaker' = Speaker
  <2>1. Mine' = Mine
    BY <1>2, <1>5, <1>6 DEF Mine
  <2> QED
    BY <2>1 DEF Speaker
<1>8. \A i \in DOMAIN rows : (Here(i)' <=> Here(i)) /\ (Speaks(i)' <=> Speaks(i))
  BY <1>4, <1>5, <1>7 DEF Here, Speaks
<1>9. Typed'
  BY <1>4, <1>5 DEF CInv, Typed, R
<1>10. Ordered'
  <2>1. \A i \in DOMAIN rows : rows[i].in \in Nat
    BY RowTyped DEF CInv
  <2>2. \A i \in DOMAIN rows' : rows'[i].in <= fights
    BY <1>2, <1>5, <1>6 DEF CInv, Ordered, Typed
  <2>3. \A i \in DOMAIN rows', j \in DOMAIN rows' :
          i < j => rows'[i].in <= rows'[j].in
    BY <1>2, <1>5, <1>6, <2>2 DEF CInv, Ordered
  <2> QED
    BY <1>4, <2>2, <2>3 DEF Ordered
<1>11. RowsLegal'
  <2>1. \A i \in DOMAIN rows : Legal(rows'[i].k, Speaks(i)')
    <3> SUFFICES ASSUME NEW i \in DOMAIN rows
                 PROVE  Legal(rows'[i].k, Speaks(i)')
      OBVIOUS
    <3>1. Speaks(i)' = Speaks(i)
      BY <1>5, <1>7 DEF Speaks
    <3> QED
      BY <1>5, <3>1 DEF CInv, RowsLegal
  <2>2. Legal(rows'[n + 1].k, Speaks(n + 1)')
    <3>1. rows'[n + 1].mine = FALSE /\ rows'[n + 1].k = Creature(full)
      BY <1>2, <1>5
    <3>2. Speaks(n + 1)' = TRUE
      BY <3>1 DEF Speaks
    <3> QED
      BY <1>1, <3>1, <3>2
  <2>3. actor' # NoActor => Legal(actor', TRUE)
    BY <1>4 DEF CInv, RowsLegal
  <2>4. ASSUME NEW i \in DOMAIN rows'
        PROVE  Legal(rows'[i].k, Speaks(i)')
    BY <1>6, <2>1, <2>2
  <2> QED
    BY <2>3, <2>4 DEF RowsLegal
<1>12. Alone' /\ Embodied'
  BY <1>4, <1>5, <1>7, <1>8 DEF CInv, Alone, Embodied, Present, Mine
<1>13. ActorMirrors'
  <2>1. ActorRow' = ActorRow
    BY <1>7, <1>8 DEF ActorRow, Mine
  <2>2. ActorRow # {} => Speaker \in DOMAIN rows
    BY SpeakerFacts DEF ActorRow, CInv
  <2> QED
    BY <1>4, <1>5, <1>7, <2>1, <2>2 DEF CInv, ActorMirrors
<1>14. Linked'
  BY <1>4, <1>5, <1>7, <1>8 DEF CInv, Linked, OwnsActor
<1>15. Tamed'
  BY <1>4, <1>5, <1>7 DEF CInv, Tamed, Linked
<1>16. BodiesGoOn
  BY <1>5 DEF BodiesGoOn
<1>17. Echoed'
  BY <1>4, <1>5, <1>7, SpeakerFacts DEF CInv, Echoed
<1> QED
  BY <1>9, <1>10, <1>11, <1>12, <1>13, <1>14, <1>15, <1>16, <1>17 DEF CInv

-----------------------------------------------------------------------------
\* The actor as it enters a combat is as legal as it was.
LEMMA EnteringLegal ==
  ASSUME NEW k \in Combatants, Legal(k, TRUE), k.status # "absent",
         Vanishes(k) /\ k.hp = 0 => k.level = 6
  PROVE  /\ Entering(k) \in Combatants /\ Legal(Entering(k), TRUE)
         /\ Entering(k).rules = k.rules
<1> DEFINE status ==
             IF k.level = 6 THEN "dead"
             ELSE IF k.hp = 0
             THEN IF k.rules = "character"
                  THEN IF k.status \in {"stable", "dead"} THEN k.status ELSE "dying"
                  ELSE IF k.status = "dead" THEN "dead" ELSE "unconscious"
             ELSE IF k.status \in {"escaped", "inactive"} THEN "alive" ELSE k.status
           w == [k EXCEPT !.status = status]
<1>1. status \in Statuses
  BY CreatureFields, StatusNames
<1>2. Entering(k) = w
  BY DEF Entering, Combatants
<1>3. /\ status # "absent"
      /\ k.level = 6 => status = "dead"
      /\ status \in {"dying", "stable"} => k.rules = "character" /\ k.hp = 0
      /\ k.rules = "character" /\ k.hp = 0 => status \in {"dying", "stable", "dead"}
      /\ k.status = "dying" => status = "dying"
      /\ k.status = "stable" <=> status = "stable"
      /\ k.hp = 0 /\ Vanishes(k) => status = "dead" /\ k.level = 6
  <2>1. k.status \in {"dying", "stable"} => k.rules = "character" /\ k.hp = 0
          /\ k.level # 6
    BY CreatureFields DEF Legal, InPlay
  <2>2. k.rules = "character" /\ k.hp = 0 =>
          k.status \in {"dying", "stable", "dead"}
    BY DEF Legal
  <2>3. k.hp \in Nat /\ k.level \in 0 .. 6
    BY CreatureFields
  <2> QED
    BY <2>1, <2>2, <2>3
<1> HIDE DEF status
<1>4. State(w, k, k.hp, status, k.succ, k.fail, k.due, k.settled, k.block)
  BY <1>1 DEF State, Combatants
<1> HIDE DEF w
<1>5. w \in Combatants /\ Legal(w, TRUE) /\ w.rules = k.rules
  BY <1>3, <1>4, CreatureFields, SameBody DEF State, Legal, InPlay
<1> QED
  BY <1>2, <1>5

\* The rows left behind keep everything but the recovery they no longer answer
\* for.
LEMMA RetiredFacts ==
  ASSUME Typed, RowsLegal
  PROVE  /\ Retired \in Seq([in : Nat, mine : BOOLEAN, k : Combatants])
         /\ Len(Retired) = Len(rows) /\ DOMAIN Retired = DOMAIN rows
         /\ \A i \in DOMAIN rows :
              /\ Retired[i].in = rows[i].in /\ Retired[i].mine = rows[i].mine
              /\ Retired[i].k.status = rows[i].k.status
              /\ Retired[i].k.rules = rows[i].k.rules
              /\ rows[i].mine => Legal(Retired[i].k, FALSE)
              /\ ~ rows[i].mine => Legal(Retired[i].k, TRUE)
<1> DEFINE R == [in : Nat, mine : BOOLEAN, k : Combatants]
           n == Len(rows)
<1>1. rows \in Seq(R) /\ n \in Nat /\ DOMAIN rows = 1 .. n
  BY DEF Typed
<1>2. ASSUME NEW i \in 1 .. n
      PROVE  /\ Retired[i] \in R
             /\ Retired[i].in = rows[i].in /\ Retired[i].mine = rows[i].mine
             /\ Retired[i].k.status = rows[i].k.status
             /\ Retired[i].k.rules = rows[i].k.rules
             /\ rows[i].mine => Legal(Retired[i].k, FALSE)
             /\ ~ rows[i].mine => Legal(Retired[i].k, TRUE)
  <2> DEFINE c == rows[i].k
             r == [rows[i] EXCEPT !.k = Unscheduled(c)]
  <2>1. rows[i] \in R /\ c \in Combatants /\ rows[i].mine \in BOOLEAN
    <3> HIDE DEF R
    <3>1. rows[i] \in R
      BY <1>1
    <3> QED
      BY <1>1, <3>1, RowTyped
  <2>2. Legal(c, Speaks(i)) /\ Speaks(i) \in BOOLEAN
    BY <1>1 DEF RowsLegal, Speaks
  <2>3. /\ Unscheduled(c) \in Combatants /\ Legal(Unscheduled(c), FALSE)
        /\ Unscheduled(c).status = c.status
    BY <2>1, <2>2, UnscheduledLegal
  <2>4. Unscheduled(c).rules = c.rules
    BY <2>1, UnscheduledState DEF State
  <2>5. r = [rows[i] EXCEPT !.k = Unscheduled(@)]
    BY <2>1
  <2>6. Retired[i] = IF rows[i].mine THEN r ELSE rows[i]
    BY <1>1, <2>5 DEF Retired
  <2>7. /\ r \in R /\ r.in = rows[i].in /\ r.mine = rows[i].mine
        /\ r.k = Unscheduled(c)
    BY <2>1, <2>3
  <2>8. ~ rows[i].mine => Legal(c, TRUE)
    <3>1. ~ rows[i].mine => Speaks(i) = TRUE
      BY DEF Speaks
    <3> QED
      BY <2>2, <3>1
  <2> HIDE DEF r, R
  <2> QED
    BY <2>1, <2>3, <2>4, <2>6, <2>7, <2>8
<1> HIDE DEF R
<1>3. Retired \in [1 .. n -> R] /\ DOMAIN Retired = 1 .. n
  BY <1>1, <1>2 DEF Retired
<1>4. Retired \in Seq(R) /\ Len(Retired) = n
  BY <1>1, <1>3
<1> QED
  BY <1>1, <1>2, <1>3, <1>4 DEF R

\* The actor enters a combat through a new row, which speaks from then on.
LEMMA EnterKeeps ==
  ASSUME CInv, NEW full \in Fulls, Enter(full)
  PROVE  CInv' /\ BodiesGoOn
<1> DEFINE R == [in : Nat, mine : BOOLEAN, k : Combatants]
           c == IF Fresh THEN Creature(full) ELSE Entering(actor)
           r == [in |-> fights, mine |-> TRUE, k |-> c]
<1>1. /\ fighting /\ MayEnter /\ ~ \E i \in Mine : Present(i)
      /\ rows' = Append(Retired, r) /\ actor' = c
      /\ UNCHANGED <<link, clock, fights, fighting>>
  BY DEF Enter, clockVars
<1>2. c \in Combatants /\ Legal(c, TRUE) /\ (~ Fresh => c.rules = actor.rules)
  <2>1. CASE Fresh
    BY <2>1, CompanionNumbers, CreatureLegal
  <2>2. CASE ~ Fresh
    <3>1. /\ actor # NoActor /\ actor \in Combatants /\ Legal(actor, TRUE)
          /\ actor.status # "absent"
          /\ Vanishes(actor) /\ actor.hp = 0 => actor.level = 6
      BY <1>1, <2>2 DEF Fresh, MayEnter, CInv, Typed, RowsLegal
    <3> QED
      BY <2>2, <3>1, EnteringLegal
  <2> QED
    BY <2>1, <2>2
<1>3. Fresh /\ actor # NoActor => ~ OwnsActor
  BY <1>1 DEF Fresh, MayEnter
<1> HIDE DEF c
<1>4. r \in R /\ r.in = fights /\ r.mine = TRUE /\ r.k = c
  BY <1>2 DEF CInv, Typed
<1>5. /\ Retired \in Seq(R) /\ Len(Retired) = Len(rows)
      /\ DOMAIN Retired = DOMAIN rows
      /\ \A i \in DOMAIN rows :
           /\ Retired[i].in = rows[i].in /\ Retired[i].mine = rows[i].mine
           /\ Retired[i].k.status = rows[i].k.status
           /\ Retired[i].k.rules = rows[i].k.rules
           /\ rows[i].mine => Legal(Retired[i].k, FALSE)
           /\ ~ rows[i].mine => Legal(Retired[i].k, TRUE)
  BY RetiredFacts DEF CInv
<1> HIDE DEF R, r
<1>0. PICK n : n = Len(rows)
  OBVIOUS
<1>6. /\ rows' \in Seq(R) /\ n \in Nat /\ Len(rows') = n + 1
      /\ DOMAIN rows = 1 .. n /\ DOMAIN rows' = 1 .. n + 1
      /\ \A i \in DOMAIN rows : rows'[i] = Retired[i]
      /\ rows'[n + 1].in = fights /\ rows'[n + 1].mine = TRUE
      /\ rows'[n + 1].k = c
  BY <1>0, <1>1, <1>4, <1>5, AppendFacts
<1>7. \A i \in DOMAIN rows' : i \in DOMAIN rows \/ i = n + 1
  BY <1>6
<1>8. Mine' = Mine \cup {n + 1} /\ Speaker' = n + 1
  <2>0. \A i \in DOMAIN rows : rows'[i].mine <=> rows[i].mine
    <3> SUFFICES ASSUME NEW i \in DOMAIN rows
                 PROVE  rows'[i].mine <=> rows[i].mine
      OBVIOUS
    <3>1. rows'[i] = Retired[i] /\ Retired[i].mine = rows[i].mine
      BY <1>5, <1>6
    <3> QED
      BY <3>1
  <2>1. Mine' = Mine \cup {n + 1}
    <3>1. \A i : i \in Mine' <=> i \in Mine \/ i = n + 1
      BY <1>6, <1>7, <2>0 DEF Mine
    <3> QED
      BY <3>1
  <2>2. Mine' \in SUBSET (1 .. n + 1) /\ Mine' # {} /\ n + 1 \in Nat
    BY <1>6, <2>1 DEF Mine
  <2>3. Max(Mine') \in Mine' /\ \A y \in Mine' : y <= Max(Mine')
    BY <2>2, MaxFacts
  <2>4. Max(Mine') = n + 1
    <3>1. n + 1 <= Max(Mine')
      BY <2>1, <2>3
    <3>2. Max(Mine') \in 1 .. n + 1
      BY <2>2, <2>3
    <3> QED
      BY <1>6, <3>1, <3>2
  <2> QED
    BY <2>1, <2>4 DEF Speaker
<1>9. \A i \in DOMAIN rows : (Here(i)' <=> Here(i)) /\ (Present(i)' <=> Present(i))
  BY <1>1, <1>5, <1>6 DEF Here, Present
<1>10. Typed'
  BY <1>1, <1>2, <1>6 DEF CInv, Typed, R
<1>11. Ordered'
  <2>1. \A i \in DOMAIN rows : rows'[i].in = rows[i].in
    BY <1>5, <1>6
  <2>2. \A i \in DOMAIN rows' : rows'[i].in <= fights
    BY <1>6, <1>7, <2>1 DEF CInv, Ordered, Typed
  <2>3. \A i \in DOMAIN rows', j \in DOMAIN rows' :
          i < j => rows'[i].in <= rows'[j].in
    BY <1>6, <1>7, <2>1, <2>2 DEF CInv, Ordered
  <2> QED
    BY <1>1, <2>2, <2>3 DEF Ordered
<1>12. RowsLegal'
  <2>1. ASSUME NEW i \in DOMAIN rows
        PROVE  Legal(rows'[i].k, Speaks(i)')
    <3>1. rows[i].mine \in BOOLEAN
      BY RowTyped DEF CInv
    <3>2. CASE rows[i].mine
      <4>1. i # n + 1
        BY <1>6
      <4>3. rows'[i] = Retired[i] /\ Retired[i].mine = rows[i].mine
        BY <1>5, <1>6
      <4>2. Speaks(i)' = FALSE
        BY <1>8, <3>2, <4>1, <4>3 DEF Speaks
      <4> QED
        BY <1>5, <1>6, <3>2, <4>2
    <3>3. CASE ~ rows[i].mine
      <4>1. ~ rows'[i].mine
        BY <1>5, <1>6, <3>3
      <4>2. Speaks(i)' = TRUE
        BY <4>1 DEF Speaks
      <4> QED
        BY <1>5, <1>6, <3>3, <4>2
    <3> QED
      BY <3>1, <3>2, <3>3
  <2>2. Legal(rows'[n + 1].k, Speaks(n + 1)')
    <3>1. Speaks(n + 1)' = TRUE
      BY <1>8 DEF Speaks
    <3> QED
      BY <1>2, <1>6, <3>1
  <2>3. ASSUME NEW i \in DOMAIN rows'
        PROVE  Legal(rows'[i].k, Speaks(i)')
    BY <1>7, <2>1, <2>2
  <2>4. Legal(actor', TRUE)
    BY <1>1, <1>2
  <2> QED
    BY <2>3, <2>4 DEF RowsLegal
<1>13. Alone'
  <2>1. ASSUME NEW i \in Mine', Present(i)'
        PROVE  i = Speaker'
    BY <1>1, <1>8, <1>9, <2>1 DEF Mine
  <2> QED
    BY <2>1 DEF Alone
<1>14. Embodied'
  BY <1>1, <1>2, <1>8, NoActorIsNone DEF Embodied
<1>15. ActorMirrors'
  BY <1>1, <1>6, <1>8 DEF ActorMirrors
<1>16. Linked'
  BY <1>1, <1>6, <1>7, <1>8, <1>9 DEF CInv, Linked, OwnsActor
<1>17. Tamed'
  <2> SUFFICES ASSUME Reclaim = FALSE
               PROVE  Tamed'
    BY DEF Tamed
  <2>1. ~ (link.on = "combatant" /\ link.claims)
    <3> SUFFICES ASSUME link.on = "combatant", link.claims
                 PROVE  FALSE
      OBVIOUS
    <3>1. link.row \in Mine /\ link.row = Speaker /\ Here(link.row) /\ OwnsActor
      BY DEF CInv, Tamed, Linked, OwnsActor
    <3>2. actor = rows[link.row].k
      BY <3>1 DEF CInv, ActorMirrors, ActorRow
    <3>3. ~ Fresh
      BY <1>3, <3>1 DEF Fresh, CInv, Linked, Embodied
    <3>4. Present(link.row)
      BY <3>1, <3>2, <3>3 DEF Present, Fresh
    <3> QED
      BY <1>1, <3>1, <3>4
  <2>2. link.policy = "remove" /\ link.on = "combatant" =>
          rows'[link.row].k.rules = "monster"
    BY <1>5, <1>6 DEF CInv, Tamed, Linked
  <2>3. link.policy = "remove" /\ link.on = "actor" => actor'.rules = "monster"
    <3> SUFFICES ASSUME link.policy = "remove", link.on = "actor"
                 PROVE  actor'.rules = "monster"
      OBVIOUS
    <3>1. ~ Fresh
      BY <1>3 DEF Fresh, CInv, Linked, Embodied, OwnsActor
    <3>2. actor.rules = "monster"
      BY DEF CInv, Tamed
    <3> QED
      BY <1>1, <1>2, <3>1, <3>2
  <2> QED
    BY <1>1, <2>1, <2>2, <2>3 DEF Tamed
<1>18. BodiesGoOn
  BY <1>5, <1>6 DEF BodiesGoOn
<1>19. Echoed'
  BY <1>1, <1>6, <1>8 DEF Echoed
<1> QED
  BY <1>10, <1>11, <1>12, <1>13, <1>14, <1>15, <1>16, <1>17, <1>18, <1>19
  DEF CInv

-----------------------------------------------------------------------------
\* What a new effect may own, it may rule.
LEMMA OwnLegal ==
  ASSUME NEW k \in Combatants, Legal(k, TRUE), NEW zero \in {"none", "vanish", "bonded"},
         NEW policy \in {"remove", "release"}, MayOwn(k, zero, policy)
  PROVE  LET w == [k EXCEPT !.zero = IF zero = "none" THEN @ ELSE zero] IN
         /\ w \in Combatants /\ Legal(w, TRUE)
         /\ w.rules = k.rules /\ w.status = k.status
         /\ policy = "remove" => w.rules = "monster"
<1>1. k.rules \in {"monster", "character"} /\ k.hp \in Nat
  BY CreatureFields
<1>2. k.rules = "character" => zero = "none" /\ policy = "release"
  BY DEF MayOwn
<1>3. zero # "none" => k.rules = "monster"
                       /\ (k.hp > 0 \/ (k.status = "dead" /\ k.level = 6)
                           \/ k.status = "absent")
  BY <1>1, <1>2 DEF MayOwn
<1>4. LET w == [k EXCEPT !.zero = IF zero = "none" THEN @ ELSE zero] IN
      /\ w \in Combatants /\ Legal(w, TRUE)
      /\ w.rules = k.rules /\ w.status = k.status
  BY <1>3, RuledLegal
<1> QED
  BY <1>1, <1>2, <1>4

\* A new effect takes a creature as its own.
LEMMA StartEffectKeeps ==
  ASSUME CInv, NEW i \in DOMAIN rows, NEW zero \in {"none", "vanish", "bonded"},
         NEW policy \in {"remove", "release"}, NEW claims \in BOOLEAN,
         StartEffect(i, zero, policy, claims)
  PROVE  CInv' /\ BodiesGoOn
<1> DEFINE k == [rows[i].k EXCEPT !.zero = IF zero = "none" THEN @ ELSE zero]
           durable == claims \/ rows[i].mine
           voice == IF Mine = {} THEN i ELSE Speaker
           spoken == IF voice = i THEN k ELSE rows[voice].k
           newly == Mine = {} /\ durable
<1>1. /\ Present(i) /\ MayOwn(rows[i].k, zero, policy)
      /\ durable /\ ~ rows[i].mine => Mine = {} \/ Reclaim
      /\ rows' = [rows EXCEPT ![i].k = k, ![voice].mine = @ \/ durable]
      /\ actor' = IF durable THEN spoken ELSE actor
      /\ link' = [on |-> "combatant", row |-> i, claims |-> durable,
                  policy |-> policy]
      /\ UNCHANGED <<clock, fights, fighting>>
  BY DEF StartEffect, clockVars
<1>2. rows[i].mine \in BOOLEAN /\ durable \in BOOLEAN
  BY RowTyped DEF CInv
<1>3. /\ k \in Combatants /\ Legal(k, TRUE) /\ k.status = rows[i].k.status
      /\ policy = "remove" => k.rules = "monster"
  <2>1. PICK c : c = rows[i].k
    OBVIOUS
  <2>2. c \in Combatants /\ Legal(c, TRUE) /\ MayOwn(c, zero, policy)
    BY <1>1, <2>1, PresentFacts
  <2>3. LET w == [c EXCEPT !.zero = IF zero = "none" THEN @ ELSE zero] IN
        /\ w \in Combatants /\ Legal(w, TRUE)
        /\ w.rules = c.rules /\ w.status = c.status
        /\ policy = "remove" => w.rules = "monster"
    BY <2>2, OwnLegal
  <2>4. k = [c EXCEPT !.zero = IF zero = "none" THEN @ ELSE zero]
    BY <2>1
  <2> HIDE DEF k
  <2> QED
    BY <2>1, <2>3, <2>4
<1>4. rows[i].mine => i = Speaker /\ i \in Mine
  BY <1>1 DEF CInv, Alone, Mine
<1>5. voice \in DOMAIN rows /\ (Mine # {} => voice = Speaker /\ rows[voice].mine)
  BY SpeakerFacts DEF CInv
<1>6. Mine = {} => \A j \in DOMAIN rows : rows[j].mine = FALSE
  <2> SUFFICES ASSUME Mine = {}, NEW j \in DOMAIN rows
               PROVE  rows[j].mine = FALSE
    OBVIOUS
  <2>1. rows[j].mine \in BOOLEAN
    BY RowTyped DEF CInv
  <2> QED
    BY <2>1 DEF Mine
<1>7. rows' = [rows EXCEPT ![i].k = k, ![voice].mine = rows[voice].mine \/ durable]
  <2> HIDE DEF k, durable
  <2> QED
    BY <1>1, <1>5
<1> HIDE DEF k, durable, voice, newly
<1>8. rows[voice].mine \/ durable \in BOOLEAN
  BY <1>2, <1>5, RowTyped DEF CInv
<1>9. /\ rows' \in Seq([in : Nat, mine : BOOLEAN, k : Combatants])
      /\ Len(rows') = Len(rows) /\ DOMAIN rows' = DOMAIN rows
      /\ \A j \in DOMAIN rows :
           /\ rows'[j].in = rows[j].in
           /\ rows'[j].mine = IF j = voice THEN rows[voice].mine \/ durable
                             ELSE rows[j].mine
           /\ rows'[j].k = IF j = i THEN k ELSE rows[j].k
  <2>1. PICK b \in BOOLEAN : b = (rows[voice].mine \/ durable)
    BY <1>8
  <2>2. rows' = [rows EXCEPT ![i].k = k, ![voice].mine = b]
    BY <1>7, <2>1
  <2>3. k \in Combatants /\ voice \in DOMAIN rows /\ Typed
    BY <1>3, <1>5 DEF CInv
  <2>4. /\ rows' \in Seq([in : Nat, mine : BOOLEAN, k : Combatants])
        /\ Len(rows') = Len(rows) /\ DOMAIN rows' = DOMAIN rows
        /\ \A j \in DOMAIN rows :
             /\ rows'[j].in = rows[j].in
             /\ rows'[j].mine = IF j = voice THEN b ELSE rows[j].mine
             /\ rows'[j].k = IF j = i THEN k ELSE rows[j].k
    <3> DEFINE R == [in : Nat, mine : BOOLEAN, k : Combatants]
               r == [rows[i] EXCEPT !.k = k]
               s == [rows EXCEPT ![i] = r]
               t == [s[voice] EXCEPT !.mine = b]
    <3>1. rows \in Seq(R)
      BY <2>3 DEF Typed
    <3>2. i \in 1 .. Len(rows) /\ voice \in 1 .. Len(rows) /\ DOMAIN rows = 1 .. Len(rows)
      BY <2>3, <3>1
    <3>3. rows' = [s EXCEPT ![voice] = t]
      BY <2>2
    <3>4. r \in R /\ r.in = rows[i].in /\ r.mine = rows[i].mine /\ r.k = k
      <4>1. rows[i] \in R
        <5> HIDE DEF R
        <5> QED
          BY <3>1
      <4> QED
        BY <4>1, <2>3
    <3> HIDE DEF r
    <3>5. /\ s \in Seq(R) /\ Len(s) = Len(rows)
          /\ \A j \in 1 .. Len(rows) : s[j] = IF j = i THEN r ELSE rows[j]
      <4> HIDE DEF R
      <4> QED
        BY <3>1, <3>2, <3>4, ExceptSeq
    <3> HIDE DEF s
    <3>6. t \in R /\ t.in = s[voice].in /\ t.mine = b /\ t.k = s[voice].k
      <4>1. s[voice] \in R
        <5> HIDE DEF R
        <5> QED
          BY <3>2, <3>5
      <4> QED
        BY <4>1
    <3> HIDE DEF t
    <3>7. /\ rows' \in Seq(R) /\ Len(rows') = Len(rows)
          /\ \A j \in 1 .. Len(rows) : rows'[j] = IF j = voice THEN t ELSE s[j]
      <4>1. s \in Seq(R) /\ voice \in 1 .. Len(s) /\ t \in R /\ Len(s) = Len(rows)
        BY <3>2, <3>5, <3>6
      <4> HIDE DEF R
      <4>2. /\ [s EXCEPT ![voice] = t] \in Seq(R) /\ Len([s EXCEPT ![voice] = t]) = Len(s)
            /\ \A j \in 1 .. Len(s) :
                 [s EXCEPT ![voice] = t][j] = IF j = voice THEN t ELSE s[j]
        BY <4>1, ExceptSeq
      <4> QED
        BY <3>3, <4>1, <4>2
    <3>8. DOMAIN rows' = DOMAIN rows
      <4> HIDE DEF R
      <4> QED
        BY <3>2, <3>7
    <3>9. ASSUME NEW j \in DOMAIN rows
          PROVE  /\ rows'[j].in = rows[j].in
                 /\ rows'[j].mine = IF j = voice THEN b ELSE rows[j].mine
                 /\ rows'[j].k = IF j = i THEN k ELSE rows[j].k
      <4>1. s[j] = IF j = i THEN r ELSE rows[j]
        BY <3>2, <3>5
      <4>2. rows'[j] = IF j = voice THEN t ELSE s[j]
        BY <3>2, <3>7
      <4>3. /\ s[j].in = rows[j].in /\ s[j].mine = rows[j].mine
            /\ s[j].k = IF j = i THEN k ELSE rows[j].k
        BY <3>4, <4>1
      <4> QED
        BY <3>6, <4>2, <4>3
    <3> QED
      BY <3>7, <3>8, <3>9
  <2> QED
    BY <2>1, <2>4
<1>10. ASSUME newly
       PROVE  /\ Mine' = {i} /\ Speaker' = i /\ actor' = k
              /\ \A j \in DOMAIN rows : Speaks(j)' = Speaks(j)
  <2>1. Mine = {} /\ durable /\ voice = i /\ spoken = k
    BY <1>10 DEF newly, voice
  <2>2. \A j \in DOMAIN rows : rows'[j].mine <=> j = i
    <3> SUFFICES ASSUME NEW j \in DOMAIN rows
                 PROVE  rows'[j].mine <=> j = i
      OBVIOUS
    <3>1. CASE j = i
      BY <1>9, <2>1, <3>1
    <3>2. CASE j # i
      BY <1>6, <1>9, <2>1, <3>2
    <3> QED
      BY <3>1, <3>2
  <2>3. Mine' = {i}
    BY <1>9, <2>2 DEF Mine
  <2>4. Speaker' = i
    <3>1. Len(rows) \in Nat /\ {i} \in SUBSET (1 .. Len(rows))
      BY DEF CInv, Typed
    <3>2. Max({i}) \in {i}
      BY <3>1, MaxFacts
    <3> QED
      BY <2>3, <3>2 DEF Speaker
  <2>5. ASSUME NEW j \in DOMAIN rows
        PROVE  Speaks(j)' = Speaks(j)
    <3>1. ~ rows[j].mine
      BY <1>6, <2>1
    <3>2. Speaks(j) = TRUE
      BY <3>1 DEF Speaks
    <3>3. Speaks(j)' = TRUE
      BY <2>2, <2>4 DEF Speaks
    <3> QED
      BY <3>2, <3>3
  <2>6. actor' = k
    BY <1>1, <2>1
  <2> QED
    BY <2>3, <2>4, <2>5, <2>6
<1>11. ASSUME ~ newly
       PROVE  /\ Mine' = Mine /\ Speaker' = Speaker
              /\ \A j \in DOMAIN rows : Speaks(j)' = Speaks(j)
              /\ durable => Mine # {} /\ actor' = rows'[Speaker].k
              /\ ~ durable => actor' = actor /\ i \notin Mine
  <2>1. \A j \in DOMAIN rows : rows'[j].mine = rows[j].mine
    <3> SUFFICES ASSUME NEW j \in DOMAIN rows
                 PROVE  rows'[j].mine = rows[j].mine
      OBVIOUS
    <3>1. rows[voice].mine \in BOOLEAN
      BY <1>5, RowTyped DEF CInv
    <3>2. (rows[voice].mine \/ durable) = rows[voice].mine
      BY <1>2, <1>5, <1>11, <3>1 DEF newly
    <3> QED
      BY <1>9, <3>2
  <2>2. Mine' = Mine /\ Speaker' = Speaker
    BY <1>9, <2>1, SameRows
  <2>3. \A j \in DOMAIN rows : Speaks(j)' = Speaks(j)
    BY <2>1, <2>2 DEF Speaks
  <2>4. durable => Mine # {} /\ actor' = rows'[Speaker].k
    BY <1>1, <1>5, <1>9, <1>11 DEF newly
  <2>5. ~ durable => actor' = actor /\ i \notin Mine
    BY <1>1 DEF durable, Mine
  <2> QED
    BY <2>2, <2>3, <2>4, <2>5
<1>12. /\ link'.on = "combatant" /\ link'.row = i /\ link'.claims = durable
       /\ link'.policy = policy
  BY <1>1
<1>13. \A j \in DOMAIN rows : /\ (Here(j)' <=> Here(j))
                              /\ rows'[j].k.status = rows[j].k.status
  BY <1>1, <1>3, <1>9 DEF Here
<1>14. actor' = actor \/ actor' = k \/ (Mine # {} /\ actor' = rows'[Speaker].k)
  BY <1>2, <1>10, <1>11
<1>15. ASSUME NEW j \in DOMAIN rows
       PROVE  rows'[j].k \in Combatants /\ Legal(rows'[j].k, Speaks(j)')
  <2>1. Speaks(j)' = Speaks(j)
    BY <1>10, <1>11
  <2>2. Legal(rows[j].k, Speaks(j)) /\ rows[j].k \in Combatants
    BY RowTyped DEF CInv, RowsLegal
  <2>3. Speaks(i) = TRUE
    BY <1>1, PresentSpeaks DEF Speaks
  <2> QED
    BY <1>3, <1>9, <2>1, <2>2, <2>3
<1>16. actor' # NoActor => actor' \in Combatants /\ Legal(actor', TRUE)
  <2>1. CASE actor' = actor
    BY <2>1 DEF CInv, Typed, RowsLegal
  <2>2. CASE actor' = k
    BY <1>3, <2>2
  <2>3. CASE Mine # {} /\ actor' = rows'[Speaker].k
    <3>1. Speaker \in DOMAIN rows /\ Speaks(Speaker) = TRUE
      BY <2>3, SpeakerFacts DEF CInv, Speaks
    <3>2. Legal(rows[Speaker].k, TRUE) /\ rows[Speaker].k \in Combatants
      BY <3>1, RowTyped DEF CInv, RowsLegal
    <3> QED
      BY <1>3, <1>9, <2>3, <3>1, <3>2
  <2> QED
    BY <1>14, <2>1, <2>2, <2>3
<1>17. Typed'
  <2>1. link' \in [on : {"nothing", "combatant", "actor"}, row : Nat,
                   claims : BOOLEAN, policy : {"remove", "release"}]
    <3>1. i \in Nat
      BY DEF CInv, Typed
    <3> QED
      BY <1>1, <1>2, <3>1
  <2> QED
    BY <1>1, <1>9, <1>16, <2>1 DEF CInv, Typed
<1>18. Ordered'
  <2>1. /\ DOMAIN rows' = DOMAIN rows /\ fights' = fights
        /\ \A j \in DOMAIN rows : rows'[j].in = rows[j].in
    BY <1>1, <1>9
  <2> QED
    BY <2>1 DEF CInv, Ordered
<1>19. RowsLegal'
  BY <1>9, <1>15, <1>16 DEF RowsLegal
<1>20. Alone'
  <2>1. ASSUME NEW j \in Mine', Present(j)'
        PROVE  j = Speaker'
    <3>1. CASE newly
      BY <1>10, <2>1, <3>1
    <3>2. CASE ~ newly
      BY <1>11, <1>13, <2>1, <3>2 DEF CInv, Alone, Present, Mine
    <3> QED
      BY <3>1, <3>2
  <2> QED
    BY <2>1 DEF Alone
<1>21. Embodied'
  <2>1. CASE newly
    BY <1>3, <1>10, <2>1, NoActorIsNone DEF Embodied
  <2>2. CASE ~ newly /\ durable
    <3>1. Speaker \in DOMAIN rows
      BY <1>11, <2>2, SpeakerFacts DEF CInv
    <3> QED
      BY <1>11, <1>15, <2>2, <3>1, NoActorIsNone DEF Embodied
  <2>3. CASE ~ newly /\ ~ durable
    BY <1>11, <2>3 DEF CInv, Embodied
  <2> QED
    BY <2>1, <2>2, <2>3
<1>22. ActorMirrors'
  <2>1. CASE newly
    BY <1>9, <1>10, <2>1 DEF ActorMirrors
  <2>2. CASE ~ newly /\ durable
    BY <1>11, <2>2 DEF ActorMirrors
  <2>3. CASE ~ newly /\ ~ durable
    <3>1. ActorRow' = ActorRow
      BY <1>11, <1>13, <2>3 DEF ActorRow, Mine
    <3>2. ActorRow # {} => Speaker \in DOMAIN rows /\ Speaker # i
      BY <1>11, <2>3, SpeakerFacts DEF ActorRow, CInv
    <3> QED
      BY <1>9, <1>11, <2>3, <3>1, <3>2 DEF CInv, ActorMirrors
  <2> QED
    BY <2>1, <2>2, <2>3
<1>23. Linked'
  <2>1. Here(i)'
    BY <1>1, <1>13 DEF Present
  <2>2. durable => Mine' # {}
    BY <1>10, <1>11
  <2> QED
    BY <1>9, <1>12, <2>1, <2>2 DEF Linked, OwnsActor
<1>24. Tamed'
  <2> SUFFICES ASSUME Reclaim = FALSE
               PROVE  Tamed'
    BY DEF Tamed
  <2>1. durable => i \in Mine' /\ i = Speaker'
    <3>1. CASE newly
      BY <1>10, <3>1
    <3>2. CASE ~ newly
      BY <1>1, <1>4, <1>11, <3>2
    <3> QED
      BY <3>1, <3>2
  <2>2. policy = "remove" => rows'[i].k.rules = "monster"
    BY <1>3, <1>9
  <2> QED
    BY <1>12, <2>1, <2>2 DEF Tamed
<1>25. BodiesGoOn
  BY <1>13 DEF BodiesGoOn
<1>26. Echoed'
  <2>1. CASE newly
    BY <1>9, <1>10, <2>1 DEF Echoed
  <2>2. CASE ~ newly /\ durable
    BY <1>11, <2>2 DEF Echoed
  <2>3. CASE ~ newly /\ ~ durable
    <3>1. Mine # {} => Speaker \in DOMAIN rows /\ Speaker # i
      BY <1>11, <2>3, SpeakerFacts DEF CInv
    <3> QED
      BY <1>9, <1>11, <2>3, <3>1 DEF CInv, Echoed
  <2> QED
    BY <2>1, <2>2, <2>3
<1> QED
  BY <1>17, <1>18, <1>19, <1>20, <1>21, <1>22, <1>23, <1>24, <1>25, <1>26
  DEF CInv
-----------------------------------------------------------------------------
\* An effect that lets go of what it owned changes nothing else.
LEMMA LetGoKeeps ==
  ASSUME CInv, UNCHANGED <<rows, actor, clock, fights, fighting>>, link' = NoLink
  PROVE  CInv'
<1>1. /\ link'.on = "nothing" /\ link'.claims = FALSE /\ link'.policy = "release"
      /\ link' \in [on : {"nothing", "combatant", "actor"}, row : Nat,
                    claims : BOOLEAN, policy : {"remove", "release"}]
  BY DEF NoLink
<1>2. Mine' = Mine /\ Speaker' = Speaker
  <2>1. Mine' = Mine
    BY DEF Mine
  <2> QED
    BY <2>1 DEF Speaker
<1>3. Typed' /\ Ordered' /\ Embodied' /\ Echoed'
  BY <1>1, <1>2 DEF CInv, Typed, Ordered, Embodied, Echoed
<1>4. RowsLegal'
  <2>1. ASSUME NEW j \in DOMAIN rows
        PROVE  Legal(rows'[j].k, Speaks(j)')
    <3>1. Speaks(j)' = Speaks(j)
      BY <1>2 DEF Speaks
    <3> QED
      BY <3>1 DEF CInv, RowsLegal
  <2> QED
    BY <2>1 DEF CInv, RowsLegal
<1>5. Alone' /\ ActorMirrors'
  <2>1. ActorRow' = ActorRow
    BY <1>2 DEF ActorRow, Here
  <2> QED
    BY <1>2, <2>1 DEF CInv, Alone, ActorMirrors, Present, Here
<1>6. Linked' /\ Tamed'
  BY <1>1 DEF Linked, Tamed, OwnsActor
<1> QED
  BY <1>3, <1>4, <1>5, <1>6 DEF CInv

\* The actor changes while it is in no combat: what it becomes is legal, and no
\* row of its own is down.
LEMMA AwayKeeps ==
  ASSUME CInv, ActorRow = {}, actor # NoActor,
         actor.status \notin {"dying", "stable"},
         actor' \in Combatants, Legal(actor', TRUE), actor'.rules = actor.rules,
         link' = link \/ link' = NoLink,
         UNCHANGED <<rows, clock, fights, fighting>>
  PROVE  CInv'
<1>1. Mine' = Mine /\ Speaker' = Speaker
  <2>1. Mine' = Mine
    BY DEF Mine
  <2> QED
    BY <2>1 DEF Speaker
<1>2. Typed'
  <2>1. NoLink \in [on : {"nothing", "combatant", "actor"}, row : Nat,
                    claims : BOOLEAN, policy : {"remove", "release"}]
    BY DEF NoLink
  <2> QED
    BY <2>1 DEF CInv, Typed
<1>3. Ordered' /\ Embodied'
  BY <1>1, NoActorIsNone DEF CInv, Ordered, Embodied
<1>4. RowsLegal'
  <2>1. ASSUME NEW j \in DOMAIN rows
        PROVE  Legal(rows'[j].k, Speaks(j)')
    <3>1. Speaks(j)' = Speaks(j)
      BY <1>1 DEF Speaks
    <3> QED
      BY <3>1 DEF CInv, RowsLegal
  <2> QED
    BY <2>1 DEF RowsLegal
<1>5. Alone' /\ ActorMirrors'
  <2>1. ActorRow' = {}
    BY <1>1 DEF ActorRow, Here
  <2> QED
    BY <1>1, <2>1 DEF CInv, Alone, ActorMirrors, Present, Here
<1>6. Echoed'
  <2>1. ~ (Mine # {} /\ rows[Speaker].k.status \in {"dying", "stable"})
    BY DEF CInv, Echoed
  <2> QED
    BY <1>1, <2>1 DEF Echoed
<1>7. CASE link' = NoLink
  <2>1. link'.on = "nothing" /\ link'.claims = FALSE /\ link'.policy = "release"
    BY <1>7 DEF NoLink
  <2>2. Linked' /\ Tamed'
    BY <2>1 DEF Linked, Tamed, OwnsActor
  <2> QED
    BY <1>2, <1>3, <1>4, <1>5, <1>6, <2>2 DEF CInv
<1>8. CASE link' = link
  <2>1. Linked' /\ Tamed'
    BY <1>1, <1>8 DEF CInv, Linked, Tamed, OwnsActor, Here
  <2> QED
    BY <1>2, <1>3, <1>4, <1>5, <1>6, <2>1 DEF CInv
<1> QED
  BY <1>7, <1>8

\* The row of the actor in the active combat is the one that speaks for it.
LEMMA ActorRowFacts ==
  ASSUME CInv, ActorRow # {}
  PROVE  /\ Max(ActorRow) = Speaker /\ Speaker \in DOMAIN rows /\ Here(Speaker)
         /\ actor = rows[Speaker].k
<1>1. PICK i \in ActorRow : TRUE
  OBVIOUS
<1>2. i \in Mine /\ i \in DOMAIN rows /\ Here(i)
  BY <1>1 DEF ActorRow, Mine
<1>3. Speaker \in Mine /\ Speaker \in DOMAIN rows /\ i <= Speaker
  BY <1>2, SpeakerFacts DEF CInv
<1>4. Here(Speaker)
  <2>1. rows[Speaker].in \in Nat /\ rows[i].in = fights /\ fighting /\ fights \in Nat
    BY <1>2, <1>3, RowTyped DEF CInv, Typed, Here
  <2>2. i \in Nat /\ Speaker \in Nat
    BY <1>2, <1>3 DEF CInv, Typed
  <2>3. rows[i].in <= rows[Speaker].in /\ rows[Speaker].in <= fights
    <3>1. CASE i = Speaker
      BY <2>1, <3>1
    <3>2. CASE i # Speaker
      <4>1. i < Speaker
        BY <1>3, <2>2, <3>2
      <4> QED
        BY <1>2, <1>3, <4>1 DEF CInv, Ordered
    <3> QED
      BY <3>1, <3>2
  <2> QED
    BY <2>1, <2>3 DEF Here
<1>5. Speaker \in ActorRow
  BY <1>3, <1>4 DEF ActorRow
<1>6. Len(rows) \in Nat /\ ActorRow \in SUBSET (1 .. Len(rows))
  BY DEF CInv, Typed, ActorRow, Mine
<1>7. Max(ActorRow) \in ActorRow /\ Speaker <= Max(ActorRow)
  BY <1>5, <1>6, MaxFacts
<1>8. Max(ActorRow) <= Speaker
  BY <1>7, SpeakerFacts DEF ActorRow, CInv
<1>9. Max(ActorRow) = Speaker
  <2>1. \A y \in ActorRow : y \in Nat
    BY DEF CInv, Typed, ActorRow, Mine
  <2>2. Speaker \in Nat /\ Max(ActorRow) \in Nat
    BY <1>5, <1>7, <2>1
  <2> QED
    BY <1>7, <1>8, <2>2
<1> QED
  BY <1>3, <1>4, <1>9 DEF CInv, ActorMirrors

\* A creature that is taken out of play is legal, and one that has left stays.
LEMMA RemovedLegal ==
  ASSUME NEW k \in Combatants, Legal(k, TRUE)
  PROVE  /\ Removed(k) \in Combatants /\ Legal(Removed(k), TRUE)
         /\ Removed(k).rules = k.rules /\ Removed(k).status = "absent"
<1>1. k.hp <= Capacity(k) /\ (Vanishes(k) => k.rules = "monster")
  BY DEF Legal
<1> QED
  BY <1>1, GoneLegal DEF Removed

\* Taking the creature of a row of the active combat out of play.
LEMMA RemovalKeeps ==
  ASSUME CInv, NEW i \in DOMAIN rows, Here(i), Put(i, Removed(rows[i].k)),
         link.policy = "remove", Owns(i), link' = NoLink, UNCHANGED clockVars
  PROVE  CInv' /\ BodiesGoOn
<1> DEFINE k == rows[i].k
<1>1. k \in Combatants
  BY RowTyped DEF CInv
<1>2. CASE Present(i)
  <2>1. Legal(k, TRUE) /\ Speaks(i)
    BY <1>2, PresentFacts, PresentSpeaks
  <2> HIDE DEF k
  <2>2. /\ Removed(k) \in Combatants /\ Legal(Removed(k), TRUE)
        /\ Removed(k).rules = k.rules /\ Removed(k).status = "absent"
    BY <1>1, <2>1, RemovedLegal
  <2>3. Reclaim = FALSE => k.rules = "monster"
    BY <1>2, OwnedTame DEF k
  <2>4. Put(i, Removed(k))
    BY DEF k
  <2>5. CInv'
    BY <2>1, <2>2, <2>3, <2>4, PutKeeps
  <2>6. BodiesGoOn
    BY <2>2, <2>4, PutGoesOn DEF CInv
  <2> QED
    BY <2>5, <2>6
<1>3. CASE ~ Present(i)
  <2>1. Removed(k) = k
    BY <1>3 DEF Present, Removed
  <2>2. Put(i, k)
    BY <2>1
  <2>3. i \in Mine /\ i = Speaker => actor = k
    <3> SUFFICES ASSUME i \in Mine, i = Speaker
                 PROVE  actor = k
      OBVIOUS
    <3>1. i \in ActorRow
      BY DEF ActorRow
    <3> QED
      BY <3>1 DEF CInv, ActorMirrors
  <2>4. actor' = actor
    BY <2>2, <2>3 DEF Put, Mine
  <2>5. rows' = rows
    <3>1. \A j \in DOMAIN rows : [rows EXCEPT ![i].k = k][j] = rows[j]
      <4> SUFFICES ASSUME NEW j \in DOMAIN rows
                   PROVE  [rows EXCEPT ![i].k = k][j] = rows[j]
        OBVIOUS
      <4>1. rows[i] \in [in : Nat, mine : BOOLEAN, k : Combatants]
        <5> DEFINE R == [in : Nat, mine : BOOLEAN, k : Combatants]
        <5>1. rows \in Seq(R)
          BY DEF CInv, Typed
        <5> HIDE DEF R
        <5>2. rows[i] \in R
          BY <5>1
        <5> QED
          BY <5>2 DEF R
      <4>2. [rows[i] EXCEPT !.k = k] = rows[i]
        BY <4>1
      <4>3. CASE j = i
        BY <4>2, <4>3
      <4>4. CASE j # i
        BY <4>4
      <4> QED
        BY <4>3, <4>4
    <3>2. rows = [j \in DOMAIN rows |-> rows[j]]
      BY DEF CInv, Typed
    <3>3. rows' = [rows EXCEPT ![i].k = k]
      BY <2>2 DEF Put
    <3> QED
      BY <3>1, <3>2, <3>3
  <2>6. CInv'
    BY <2>4, <2>5, LetGoKeeps DEF clockVars
  <2>7. BodiesGoOn
    BY <2>5 DEF BodiesGoOn
  <2> QED
    BY <2>6, <2>7
<1> QED
  BY <1>2, <1>3

\* The end of an effect.
LEMMA EndEffectKeeps ==
  ASSUME CInv, EndEffect
  PROVE  CInv' /\ BodiesGoOn
<1>1. link' = NoLink /\ UNCHANGED clockVars
  BY DEF EndEffect
<1>2. CASE link.policy = "release" /\ UNCHANGED <<rows, actor>>
  <2>1. CInv'
    BY <1>1, <1>2, LetGoKeeps DEF clockVars
  <2>2. BodiesGoOn
    BY <1>2 DEF BodiesGoOn
  <2> QED
    BY <2>1, <2>2
<1>3. CASE /\ link.policy = "remove" /\ link.on = "combatant"
           /\ Put(link.row, Removed(rows[link.row].k))
  <2>1. link.row \in DOMAIN rows /\ Here(link.row) /\ Owns(link.row)
    BY <1>3 DEF CInv, Linked, Owns
  <2> QED
    BY <1>1, <1>3, <2>1, RemovalKeeps
<1>4. CASE /\ link.policy = "remove" /\ link.on = "actor" /\ ActorRow # {}
           /\ Put(Max(ActorRow), Removed(rows[Max(ActorRow)].k))
  <2>1. PICK i : i = Max(ActorRow)
    OBVIOUS
  <2>2. i = Speaker /\ i \in DOMAIN rows /\ Here(i)
    BY <1>4, <2>1, ActorRowFacts
  <2>3. rows[i].mine
    BY <1>4, <2>2, SpeakerFacts DEF ActorRow, CInv
  <2>4. Owns(i)
    BY <1>4, <2>3 DEF Owns, OwnsActor
  <2> QED
    BY <1>1, <1>4, <2>1, <2>2, <2>4, RemovalKeeps
<1>5. CASE /\ link.policy = "remove" /\ link.on = "actor" /\ ActorRow = {}
           /\ Removable(actor) /\ actor' = Removed(actor) /\ UNCHANGED rows
  <2>1. actor # NoActor
    BY <1>5 DEF CInv, Linked, OwnsActor, Embodied
  <2>2. actor \in Combatants /\ Legal(actor, TRUE)
    BY <2>1 DEF CInv, Typed, RowsLegal
  <2>3. /\ Removed(actor) \in Combatants /\ Legal(Removed(actor), TRUE)
        /\ Removed(actor).rules = actor.rules
    BY <2>2, RemovedLegal
  <2>4. CInv'
    BY <1>1, <1>5, <2>1, <2>3, AwayKeeps DEF Removable, clockVars
  <2>5. BodiesGoOn
    BY <1>5 DEF BodiesGoOn
  <2> QED
    BY <2>4, <2>5
<1> QED
  BY <1>2, <1>3, <1>4, <1>5 DEF EndEffect

\* The spell that brings the bonded creature back.
LEMMA RecastKeeps ==
  ASSUME CInv, Recast
  PROVE  CInv' /\ BodiesGoOn
<1> DEFINE status == "alive"
           full == Capacity(actor)
           w == [actor EXCEPT !.status = status, !.hp = full]
<1>1. /\ actor # NoActor /\ ActorRow = {} /\ actor.status = "absent"
      /\ actor.zero = "bonded" /\ actor.level < 6 /\ Capacity(actor) > 0
      /\ actor' = w /\ UNCHANGED <<rows, link, clock, fights, fighting>>
  BY DEF Recast, clockVars
<1>2. actor \in Combatants /\ Legal(actor, TRUE)
  BY <1>1 DEF CInv, Typed, RowsLegal
<1>3. full \in Nat /\ status \in Statuses /\ full > 0
  BY <1>1, <1>2, CreatureFields, StatusNames
<1>4. /\ actor.due = 0 /\ actor.settled = FALSE /\ actor.block = FALSE
      /\ actor.rules = "monster" /\ actor.level # 6
  BY <1>1, <1>2, CreatureFields DEF Legal, Vanishes
<1> HIDE DEF status, full
<1>5. State(w, actor, full, status, actor.succ, actor.fail, actor.due,
            actor.settled, actor.block)
  BY <1>2, <1>3 DEF State, Combatants
<1> HIDE DEF w
<1>6. w \in Combatants /\ Legal(w, TRUE) /\ w.rules = actor.rules
  <2>1. Capacity(w) = full
    BY <1>5, SameBody DEF State, full
  <2>2. w.status = "alive"
    BY <1>5 DEF State, status
  <2> QED
    BY <1>3, <1>4, <1>5, <2>1, <2>2 DEF State, Legal, InPlay
<1>7. CInv'
  BY <1>1, <1>6, AwayKeeps
<1>8. BodiesGoOn
  BY <1>1 DEF BodiesGoOn
<1> QED
  BY <1>7, <1>8
-----------------------------------------------------------------------------
\* What the clock makes of a creature, and what that does to the rows.
Woken(i, at) == IF Speaks(i) /\ Overdue(rows[i].k, at) THEN Roused(rows[i].k)
                ELSE rows[i].k

\* A creature that is woken is legal and of the same rules, and the dead sleep
\* on.
LEMMA WokenFacts ==
  ASSUME CInv, NEW i \in DOMAIN rows, NEW at
  PROVE  /\ Woken(i, at) \in Combatants /\ Legal(Woken(i, at), Speaks(i))
         /\ Woken(i, at).rules = rows[i].k.rules
         /\ rows[i].k.status = "dead" => Woken(i, at).status = "dead"
         /\ rows[i].k.status = "absent" => Woken(i, at).status = "absent"
<1> DEFINE k == rows[i].k
<1>1. k \in Combatants /\ Legal(k, Speaks(i))
  BY RowTyped DEF CInv, RowsLegal
<1>2. CASE Speaks(i) /\ Overdue(k, at)
  <2>1. Speaks(i) = TRUE
    BY <1>2 DEF Speaks
  <2>2. Legal(k, TRUE) /\ Overdue(k, at)
    BY <1>1, <1>2, <2>1
  <2>3. Woken(i, at) = Roused(k)
    BY <1>2 DEF Woken
  <2> HIDE DEF k
  <2>4. Event(Roused(k), k)
    BY <1>1, <2>2, RousedLegal
  <2> QED
    BY <2>1, <2>3, <2>4 DEF Event, k
<1>3. CASE ~ (Speaks(i) /\ Overdue(k, at))
  BY <1>1, <1>3 DEF Woken
<1> QED
  BY <1>2, <1>3

\* The hours pass for the creatures: those that are due recover, wherever they
\* are, and the actor with the row that speaks for it.
LEMMA RecoverKeeps ==
  ASSUME CInv, NEW at, CompanionsRecover(at), clock' \in Nat,
         UNCHANGED <<fights, fighting>>
  PROVE  CInv' /\ BodiesGoOn
<1> DEFINE R == [in : Nat, mine : BOOLEAN, k : Combatants]
<1>1. /\ rows' = [i \in DOMAIN rows |-> [rows[i] EXCEPT !.k = Woken(i, at)]]
      /\ actor' = IF Mine # {} /\ Speaks(Speaker) /\ Overdue(rows[Speaker].k, at)
                  THEN Woken(Speaker, at) ELSE actor
      /\ link' = link
  BY DEF CompanionsRecover, Woken
<1>2. /\ DOMAIN rows' = DOMAIN rows
      /\ \A i \in DOMAIN rows :
           /\ rows'[i] \in R /\ rows'[i].in = rows[i].in
           /\ rows'[i].mine = rows[i].mine /\ rows'[i].k = Woken(i, at)
  <2>1. ASSUME NEW i \in DOMAIN rows
        PROVE  /\ rows'[i] \in R /\ rows'[i].in = rows[i].in
               /\ rows'[i].mine = rows[i].mine /\ rows'[i].k = Woken(i, at)
    <3> DEFINE w == Woken(i, at)
               r == [rows[i] EXCEPT !.k = w]
    <3>1. rows[i] \in R
      <4>1. rows \in Seq(R)
        BY DEF CInv, Typed
      <4> HIDE DEF R
      <4> QED
        BY <4>1
    <3>2. w \in Combatants
      BY WokenFacts
    <3>3. rows'[i] = r
      BY <1>1
    <3> HIDE DEF w
    <3>4. r \in R /\ r.in = rows[i].in /\ r.mine = rows[i].mine /\ r.k = w
      BY <3>1, <3>2
    <3> HIDE DEF r, R
    <3> QED
      BY <3>3, <3>4 DEF w
  <2>2. DOMAIN rows' = DOMAIN rows
    BY <1>1
  <2> QED
    BY <2>1, <2>2
<1>3. rows' \in Seq(R)
  <2>1. PICK n \in Nat : DOMAIN rows = 1 .. n
    BY DEF CInv, Typed
  <2>2. rows' = [i \in 1 .. n |-> rows'[i]]
    BY <1>1, <2>1
  <2> HIDE DEF R
  <2> QED
    BY <1>2, <2>1, <2>2
<1> HIDE DEF R
<1>4. \A i \in DOMAIN rows : rows'[i].mine = rows[i].mine
  BY <1>2
<1>5. Mine' = Mine /\ Speaker' = Speaker
  BY <1>2, <1>4, SameRows
<1>6. \A i \in DOMAIN rows : (Here(i)' <=> Here(i)) /\ Speaks(i)' = Speaks(i)
  BY <1>2, <1>5 DEF Here, Speaks
<1>7. Mine # {} =>
        /\ Speaker \in DOMAIN rows /\ Speaks(Speaker) = TRUE
        /\ actor' = IF Overdue(rows[Speaker].k, at) THEN rows'[Speaker].k ELSE actor
        /\ ~ Overdue(rows[Speaker].k, at) => rows'[Speaker].k = rows[Speaker].k
  <2> SUFFICES ASSUME Mine # {}
               PROVE  /\ Speaker \in DOMAIN rows /\ Speaks(Speaker) = TRUE
                      /\ actor' = IF Overdue(rows[Speaker].k, at)
                                  THEN rows'[Speaker].k ELSE actor
                      /\ ~ Overdue(rows[Speaker].k, at) =>
                           rows'[Speaker].k = rows[Speaker].k
    OBVIOUS
  <2>1. Speaker \in DOMAIN rows /\ Speaks(Speaker) = TRUE
    BY SpeakerFacts DEF CInv, Speaks
  <2>2. rows'[Speaker].k = Woken(Speaker, at)
    BY <1>2, <2>1
  <2>3. ~ Overdue(rows[Speaker].k, at) => Woken(Speaker, at) = rows[Speaker].k
    BY DEF Woken
  <2> QED
    BY <1>1, <2>1, <2>2, <2>3
<1>8. ASSUME NEW i \in DOMAIN rows
      PROVE  Legal(rows'[i].k, Speaks(i)') /\ rows'[i].k \in Combatants
  BY <1>2, <1>6, WokenFacts
<1>9. actor' # NoActor => actor' \in Combatants /\ Legal(actor', TRUE)
  <2>1. CASE actor' = actor
    BY <2>1 DEF CInv, Typed, RowsLegal
  <2>2. CASE Mine # {} /\ actor' = rows'[Speaker].k
    <3>1. PICK j \in DOMAIN rows : j = Speaker
      BY <1>7, <2>2
    <3>2. Speaks(j) = TRUE
      BY <1>7, <2>2, <3>1
    <3>3. Legal(rows'[j].k, TRUE) /\ rows'[j].k \in Combatants
      BY <1>6, <1>8, <3>2
    <3> QED
      BY <2>2, <3>1, <3>3
  <2> QED
    BY <1>1, <1>7, <2>1, <2>2
<1>10. Typed'
  BY <1>1, <1>3, <1>9 DEF CInv, Typed, R
<1>11. Ordered'
  BY <1>2 DEF CInv, Ordered
<1>12. RowsLegal'
  BY <1>2, <1>8, <1>9 DEF RowsLegal
<1>13. Embodied'
  <2>1. CASE Mine = {}
    BY <1>1, <1>5, <2>1 DEF CInv, Embodied
  <2>2. CASE Mine # {}
    <3>1. actor # NoActor /\ rows'[Speaker].k # NoActor
      BY <1>7, <1>8, <2>2, NoActorIsNone DEF CInv, Embodied
    <3> QED
      BY <1>5, <1>7, <2>2, <3>1 DEF Embodied
  <2> QED
    BY <2>1, <2>2
<1>14. ASSUME NEW i \in DOMAIN rows
       PROVE  rows'[i].k.status # "absent" => rows[i].k.status # "absent"
  BY <1>2, WokenFacts
<1>15. Alone'
  <2>1. ASSUME NEW i \in Mine', Present(i)'
        PROVE  i = Speaker'
    <3>1. i \in Mine /\ i \in DOMAIN rows /\ Here(i)
      BY <1>5, <1>6, <2>1 DEF Mine, Present
    <3>2. Present(i)
      BY <1>14, <2>1, <3>1 DEF Present
    <3> QED
      BY <1>5, <3>1, <3>2 DEF CInv, Alone
  <2> QED
    BY <2>1 DEF Alone
<1>16. ActorMirrors' /\ Echoed'
  <2>1. ActorRow' = ActorRow
    BY <1>5, <1>6 DEF ActorRow, Mine
  <2>2. ActorRow # {} => Mine # {}
    BY DEF ActorRow
  <2>3. ActorRow # {} => actor' = rows'[Speaker].k
    BY <1>7, <2>2 DEF CInv, ActorMirrors
  <2>4. Mine # {} /\ rows'[Speaker].k.status \in {"dying", "stable"} =>
          actor' = rows'[Speaker].k
    BY <1>7 DEF CInv, Echoed
  <2> QED
    BY <1>5, <2>1, <2>3, <2>4 DEF ActorMirrors, Echoed
<1>17. Linked'
  BY <1>1, <1>2, <1>5, <1>6 DEF CInv, Linked, OwnsActor
<1>18. Tamed'
  <2> SUFFICES ASSUME Reclaim = FALSE
               PROVE  Tamed'
    BY DEF Tamed
  <2>1. link.policy = "remove" /\ link.on = "combatant" =>
          rows'[link.row].k.rules = "monster"
    <3> SUFFICES ASSUME link.policy = "remove", link.on = "combatant"
                 PROVE  rows'[link.row].k.rules = "monster"
      OBVIOUS
    <3>1. link.row \in DOMAIN rows
      BY DEF CInv, Linked
    <3>2. rows[link.row].k.rules = "monster"
      BY DEF CInv, Tamed
    <3>3. rows'[link.row].k.rules = rows[link.row].k.rules
      BY <1>2, <3>1, WokenFacts
    <3> QED
      BY <3>2, <3>3
  <2>2. link.policy = "remove" /\ link.on = "actor" => actor'.rules = "monster"
    <3> SUFFICES ASSUME link.policy = "remove", link.on = "actor"
                 PROVE  actor'.rules = "monster"
      OBVIOUS
    <3>1. actor.rules = "monster" /\ Mine # {}
      BY DEF CInv, Tamed, Linked, OwnsActor
    <3>2. Speaker \in DOMAIN rows
      BY <1>7, <3>1
    <3>3. CASE Overdue(rows[Speaker].k, at)
      <4>1. rows[Speaker].k.status = "stable"
        BY <3>3 DEF Overdue
      <4>2. actor = rows[Speaker].k
        BY <3>1, <4>1 DEF CInv, Echoed
      <4>3. rows'[Speaker].k.rules = rows[Speaker].k.rules
        BY <1>2, <3>2, WokenFacts
      <4> QED
        BY <1>7, <3>1, <3>3, <4>2, <4>3
    <3>4. CASE ~ Overdue(rows[Speaker].k, at)
      BY <1>7, <3>1, <3>4
    <3> QED
      BY <3>3, <3>4
  <2> QED
    BY <1>1, <1>5, <2>1, <2>2 DEF CInv, Tamed
<1>19. BodiesGoOn
  BY <1>2, WokenFacts DEF BodiesGoOn
<1> QED
  BY <1>10, <1>11, <1>12, <1>13, <1>15, <1>16, <1>17, <1>18, <1>19 DEF CInv

\* A new combat has no rows yet, so the actor stands in none.
LEMMA EncounterKeeps ==
  ASSUME CInv, FightStarts, UNCHANGED companionVars
  PROVE  CInv' /\ BodiesGoOn
<1>1. /\ ~ fighting /\ fights' = fights + 1 /\ fighting' = TRUE
      /\ UNCHANGED <<clock, rows, actor, link>>
  BY DEF FightStarts, companionVars
<1>2. /\ fights \in Nat
      /\ \A i \in DOMAIN rows : rows[i].in \in Nat /\ rows[i].in <= fights
  BY RowTyped DEF CInv, Typed, Ordered
<1>3. \A i \in DOMAIN rows : ~ Here(i) /\ ~ Here(i)'
  BY <1>1, <1>2 DEF Here
<1>4. Mine' = Mine /\ Speaker' = Speaker
  <2>1. Mine' = Mine
    BY <1>1 DEF Mine
  <2> QED
    BY <2>1 DEF Speaker
<1>5. Typed' /\ Embodied' /\ Echoed'
  BY <1>1, <1>4 DEF CInv, Typed, Embodied, Echoed
<1>6. Ordered'
  BY <1>1, <1>2 DEF CInv, Ordered
<1>7. RowsLegal'
  <2>1. ASSUME NEW j \in DOMAIN rows
        PROVE  Legal(rows'[j].k, Speaks(j)')
    <3>1. Speaks(j)' = Speaks(j)
      BY <1>1, <1>4 DEF Speaks
    <3> QED
      BY <1>1, <3>1 DEF CInv, RowsLegal
  <2> QED
    BY <1>1, <2>1 DEF CInv, RowsLegal
<1>8. Alone' /\ ActorMirrors'
  <2>1. ActorRow' = {}
    BY <1>1, <1>3 DEF ActorRow, Mine
  <2>2. \A i \in Mine' : ~ Present(i)'
    BY <1>1, <1>3 DEF Present, Mine
  <2> QED
    BY <2>1, <2>2 DEF Alone, ActorMirrors
<1>9. Linked' /\ Tamed'
  <2>1. link.on # "combatant"
    BY <1>3 DEF CInv, Linked
  <2> QED
    BY <1>1, <1>4, <2>1 DEF CInv, Linked, Tamed, OwnsActor
<1>10. BodiesGoOn
  BY <1>1 DEF BodiesGoOn
<1> QED
  BY <1>5, <1>6, <1>7, <1>8, <1>9, <1>10 DEF CInv

\* A combat ends: what an effect claims outlives it as the actor.
LEMMA CloseKeeps ==
  ASSUME CInv, FightEnds, CompanionsLeave
  PROVE  CInv' /\ BodiesGoOn
<1> DEFINE durable == {i \in DOMAIN rows : Here(i) /\ (Claimed(i) \/ i \in Mine)}
<1>1. /\ actor' = IF durable = {} THEN actor ELSE rows[Speaker].k
      /\ link' = IF link.on # "combatant" THEN link
                 ELSE IF link.claims THEN [link EXCEPT !.on = "actor", !.row = 0]
                 ELSE NoLink
      /\ fighting' = FALSE /\ UNCHANGED <<clock, fights, rows>>
  BY DEF FightEnds, CompanionsLeave
<1>2. Mine' = Mine /\ Speaker' = Speaker
  <2>1. Mine' = Mine
    BY <1>1 DEF Mine
  <2> QED
    BY <2>1 DEF Speaker
<1>3. durable # {} => Mine # {}
  BY DEF Claimed, CInv, Linked, OwnsActor
<1>4. Mine # {} => Speaker \in DOMAIN rows /\ Speaks(Speaker) = TRUE
  BY SpeakerFacts DEF CInv, Speaks
<1>5. \A i \in DOMAIN rows : ~ Here(i)'
  BY <1>1 DEF Here
<1>6. \/ link' = link /\ link.on # "combatant"
      \/ link' = NoLink
      \/ /\ link.on = "combatant" /\ link.claims = TRUE
         /\ link'.on = "actor" /\ link'.row = 0 /\ link'.claims = TRUE
         /\ link'.policy = link.policy
  BY <1>1 DEF CInv, Typed
<1>7. actor' = actor \/ (durable # {} /\ Mine # {} /\ actor' = rows[Speaker].k)
  BY <1>1, <1>3
<1>8. actor' # NoActor => actor' \in Combatants /\ Legal(actor', TRUE)
  <2>1. CASE actor' = actor
    BY <2>1 DEF CInv, Typed, RowsLegal
  <2>2. CASE Mine # {} /\ actor' = rows[Speaker].k
    BY <1>4, <2>2, RowTyped DEF CInv, RowsLegal
  <2> QED
    BY <1>7, <2>1, <2>2
<1>9. Typed'
  <2>1. link' \in [on : {"nothing", "combatant", "actor"}, row : Nat,
                   claims : BOOLEAN, policy : {"remove", "release"}]
    BY <1>1 DEF CInv, Typed, NoLink
  <2> QED
    BY <1>1, <1>8, <2>1 DEF CInv, Typed
<1>10. Ordered'
  BY <1>1 DEF CInv, Ordered
<1>11. RowsLegal'
  <2>1. ASSUME NEW j \in DOMAIN rows
        PROVE  Legal(rows'[j].k, Speaks(j)')
    <3>1. Speaks(j)' = Speaks(j)
      BY <1>1, <1>2 DEF Speaks
    <3> QED
      BY <1>1, <3>1 DEF CInv, RowsLegal
  <2> QED
    BY <1>1, <1>8, <2>1 DEF RowsLegal
<1>12. Alone' /\ ActorMirrors'
  <2>1. ActorRow' = {}
    BY <1>1, <1>5 DEF ActorRow, Mine
  <2>2. \A i \in Mine' : ~ Present(i)'
    BY <1>1, <1>5 DEF Present, Mine
  <2> QED
    BY <2>1, <2>2 DEF Alone, ActorMirrors
<1>13. Embodied'
  <2>1. Mine # {} => rows[Speaker].k # NoActor
    BY <1>4, RowTyped, NoActorIsNone DEF CInv
  <2> QED
    BY <1>2, <1>7, <2>1 DEF CInv, Embodied
<1>14. Echoed'
  BY <1>1, <1>2, <1>7 DEF CInv, Echoed
<1>15. Linked' /\ Tamed'
  <2>1. CASE link' = NoLink
    <3>1. link'.on = "nothing" /\ link'.claims = FALSE /\ link'.policy = "release"
      BY <2>1 DEF NoLink
    <3> QED
      BY <3>1 DEF Linked, Tamed, OwnsActor
  <2>2. CASE link' = link /\ link.on # "combatant"
    <3>1. Linked'
      BY <1>2, <2>2 DEF CInv, Linked, OwnsActor
    <3>2. ASSUME Reclaim = FALSE, link.policy = "remove", link.on = "actor"
          PROVE  actor'.rules = "monster"
      <4>1. actor.rules = "monster"
        BY <3>2 DEF CInv, Tamed
      <4>2. durable # {} => ActorRow # {}
        BY <3>2 DEF Claimed, ActorRow
      <4>3. durable # {} => actor = rows[Speaker].k
        BY <4>2 DEF CInv, ActorMirrors
      <4> QED
        BY <1>7, <4>1, <4>3
    <3> QED
      BY <2>2, <3>1, <3>2 DEF Tamed
  <2>3. CASE /\ link.on = "combatant" /\ link.claims = TRUE
             /\ link'.on = "actor" /\ link'.row = 0 /\ link'.claims = TRUE
             /\ link'.policy = link.policy
    <3>1. Mine # {}
      BY <2>3 DEF CInv, Linked, OwnsActor
    <3>2. ASSUME Reclaim = FALSE, link.policy = "remove"
          PROVE  actor'.rules = "monster"
      <4>1. link.row = Speaker /\ link.row \in DOMAIN rows /\ Here(link.row)
              /\ rows[link.row].k.rules = "monster"
        BY <2>3, <3>2 DEF CInv, Tamed, Linked
      <4>2. link.row \in durable
        BY <2>3, <4>1 DEF Claimed
      <4> QED
        BY <1>1, <4>1, <4>2
    <3>3. Linked'
      BY <1>2, <2>3, <3>1 DEF Linked, OwnsActor
    <3>4. Tamed'
      BY <2>3, <3>2 DEF Tamed
    <3> QED
      BY <3>3, <3>4
  <2> QED
    BY <1>6, <2>1, <2>2, <2>3
<1>16. BodiesGoOn
  BY <1>1 DEF BodiesGoOn
<1> QED
  BY <1>9, <1>10, <1>11, <1>12, <1>13, <1>14, <1>15, <1>16 DEF CInv
-----------------------------------------------------------------------------
\* A step that leaves the creatures and the clock alone.
LEMMA StillKeeps ==
  ASSUME CInv, UNCHANGED <<rows, actor, link, clock, fights, fighting>>
  PROVE  CInv' /\ BodiesGoOn
<1>1. Mine' = Mine /\ Speaker' = Speaker
  <2>1. Mine' = Mine
    BY DEF Mine
  <2> QED
    BY <2>1 DEF Speaker
<1>2. ActorRow' = ActorRow
  BY <1>1 DEF ActorRow, Here
<1>3. RowsLegal'
  <2>1. ASSUME NEW j \in DOMAIN rows
        PROVE  Legal(rows'[j].k, Speaks(j)')
    <3>1. Speaks(j)' = Speaks(j)
      BY <1>1 DEF Speaks
    <3> QED
      BY <3>1 DEF CInv, RowsLegal
  <2> QED
    BY <2>1 DEF CInv, RowsLegal
<1>4. Typed' /\ Ordered' /\ Embodied' /\ Echoed'
  BY <1>1 DEF CInv, Typed, Ordered, Embodied, Echoed
<1>5. Alone' /\ ActorMirrors'
  BY <1>1, <1>2 DEF CInv, Alone, ActorMirrors, Present, Here
<1>6. Linked' /\ Tamed'
  BY <1>1 DEF CInv, Linked, Tamed, OwnsActor, Here
<1>7. BodiesGoOn
  BY DEF BodiesGoOn
<1> QED
  BY <1>3, <1>4, <1>5, <1>6, <1>7 DEF CInv

\* A new campaign has no creatures.
LEMMA CInit == Init => CInv
<1> SUFFICES ASSUME Init
             PROVE  CInv
  OBVIOUS
<1>1. /\ clock = 0 /\ fights = 0 /\ fighting = FALSE /\ rows = <<>>
      /\ actor = NoActor /\ link = NoLink
  BY DEF Init, ClockInit, CompanionsInit
<1>2. DOMAIN rows = {} /\ Mine = {}
  BY <1>1 DEF Mine
<1>3. Typed
  <2> DEFINE R == [in : Nat, mine : BOOLEAN, k : Combatants]
  <2>1. link \in [on : {"nothing", "combatant", "actor"}, row : Nat,
                  claims : BOOLEAN, policy : {"remove", "release"}]
    BY <1>1 DEF NoLink
  <2> HIDE DEF R
  <2>2. rows \in Seq(R)
    BY <1>1
  <2> QED
    BY <1>1, <2>1, <2>2 DEF Typed, R
<1>4. Ordered /\ RowsLegal /\ Alone /\ Embodied
  BY <1>1, <1>2 DEF Ordered, RowsLegal, Alone, Embodied
<1>5. ActorMirrors /\ Echoed
  BY <1>2 DEF ActorMirrors, ActorRow, Echoed
<1>6. link.on = "nothing" /\ link.claims = FALSE /\ link.policy = "release"
  BY <1>1 DEF NoLink
<1>7. Linked /\ Tamed
  BY <1>6 DEF Linked, Tamed, OwnsActor
<1> QED
  BY <1>3, <1>4, <1>5, <1>7 DEF CInv

\* What the game master and the players do to the creatures.
LEMMA CompanionsKeep ==
  ASSUME CInv, CompanionsNext
  PROVE  CInv' /\ BodiesGoOn
<1>1. ASSUME NEW full \in Fulls, Join(full) \/ Enter(full)
      PROVE  CInv' /\ BodiesGoOn
  BY <1>1, JoinKeeps, EnterKeeps
<1>2. ASSUME NEW i \in DOMAIN rows, Act(i)
      PROVE  CInv' /\ BodiesGoOn
  BY <1>2, ActKeeps
<1>3. ASSUME NEW i \in DOMAIN rows, NEW zero \in {"none", "vanish", "bonded"},
             NEW policy \in {"remove", "release"}, NEW claims \in BOOLEAN,
             StartEffect(i, zero, policy, claims)
      PROVE  CInv' /\ BodiesGoOn
  BY <1>3, StartEffectKeeps
<1>4. CASE EndEffect
  BY <1>4, EndEffectKeeps
<1>5. CASE Recast
  BY <1>5, RecastKeeps
<1> QED
  BY <1>1, <1>2, <1>3, <1>4, <1>5 DEF CompanionsNext

\* One step of the campaign keeps the creatures in order.
LEMMA CStep ==
  ASSUME CInv, Next
  PROVE  CInv' /\ BodiesGoOn
<1>1. CASE StartEncounter
  BY <1>1, EncounterKeeps DEF StartEncounter, companionVars
<1>2. CASE CloseCombat
  BY <1>2, CloseKeeps DEF CloseCombat
<1>3. ASSUME NEW hours \in 1 .. MaxClock, AdvanceWorldTime(hours)
      PROVE  CInv' /\ BodiesGoOn
  <2>1. clock' \in Nat /\ UNCHANGED <<fights, fighting>>
    BY <1>3, ClockBounds DEF AdvanceWorldTime, TimePasses, CInv, Typed
  <2> QED
    BY <1>3, <2>1, RecoverKeeps DEF AdvanceWorldTime
<1>4. ASSUME NEW id \in RestIds, Rest(id)
      PROVE  CInv' /\ BodiesGoOn
  <2>1. TimePasses(Short) \/ TimePasses(Long)
    BY <1>4 DEF Rest, ShortRest, LongRest, Takes
  <2>2. clock' \in Nat /\ UNCHANGED <<fights, fighting>>
    BY <2>1, RestHours DEF TimePasses, CInv, Typed
  <2> QED
    BY <1>4, <2>2, RecoverKeeps DEF Rest
<1>5. CASE CompanionsNext
  BY <1>5, CompanionsKeep
<1>6. CASE BodyNext /\ UNCHANGED companionVars
  <2>1. UNCHANGED clockVars
    BY <1>6 DEF BodyNext, HeroHurt, HeroHealed, HeroBolstered, HeroSaves,
       HeroStabilized, HeroSuffocates, HeroBreathes, HeroTires, FinishRecovery,
       SpendHitDie, Becomes
  <2> QED
    BY <1>6, <2>1, StillKeeps DEF companionVars, clockVars
<1>7. CASE MagicNext /\ UNCHANGED companionVars
  <2>1. UNCHANGED clockVars
    BY <1>7 DEF MagicNext, Cast, CreateSlot, ConvertSlot, SpendPoints, Conjures
  <2> QED
    BY <1>7, <2>1, StillKeeps DEF companionVars, clockVars
<1> QED
  BY <1>1, <1>2, <1>3, <1>4, <1>5, <1>6, <1>7 DEF Next

\* What an effect is to take out of play is a monster, so it is neither dying
\* nor stable.
LEMMA Removables == CInv /\ Reclaim = FALSE => OwnedNeverDown
<1> SUFFICES ASSUME CInv, Reclaim = FALSE, link.policy = "remove"
             PROVE  /\ link.on = "combatant" => Removable(rows[link.row].k)
                    /\ link.on = "actor" =>
                         Removable(IF ActorRow # {} THEN rows[Max(ActorRow)].k
                                   ELSE actor)
  BY DEF OwnedNeverDown
<1>0. ASSUME NEW k, NEW owner, Legal(k, owner), k.rules = "monster"
      PROVE  Removable(k)
  BY <1>0 DEF Legal, Removable
<1>1. ASSUME link.on = "combatant"
      PROVE  Removable(rows[link.row].k)
  <2>1. link.row \in DOMAIN rows /\ rows[link.row].k.rules = "monster"
    BY <1>1 DEF CInv, Linked, Tamed
  <2>2. Legal(rows[link.row].k, Speaks(link.row))
    BY <2>1 DEF CInv, RowsLegal
  <2> QED
    BY <1>0, <2>1, <2>2
<1>2. ASSUME link.on = "actor"
      PROVE  Removable(IF ActorRow # {} THEN rows[Max(ActorRow)].k ELSE actor)
  <2>1. actor.rules = "monster" /\ actor # NoActor
    BY <1>2 DEF CInv, Linked, Tamed, OwnsActor, Embodied
  <2>2. Removable(actor)
    BY <1>0, <2>1 DEF CInv, RowsLegal
  <2>3. ActorRow # {} => rows[Max(ActorRow)].k = actor
    BY ActorRowFacts
  <2> QED
    BY <2>2, <2>3
<1> QED
  BY <1>1, <1>2

\* A step that is no step of the campaign.
LEMMA CStutter == CInv /\ UNCHANGED vars => CInv'
  BY StillKeeps DEF vars

-----------------------------------------------------------------------------
\* Hours
\* The hour a write leaves a creature to wait for: the one it waited for, the
\* one it is given, or none.
Waits(w, k, due) == w.due \in {0, k.due, due}

LEMMA StrikeWaits ==
  ASSUME NEW k \in Combatants, NEW n, NEW crit
  PROVE  Strike(k, n, crit).due = 0
<1> DEFINE hurt == [Unscheduled(k) EXCEPT !.hp = IF n >= @ THEN 0 ELSE @ - n]
<1>1. hurt.due = 0 /\ DOMAIN hurt = DOMAIN k /\ "due" \in DOMAIN k
  BY DEF Unscheduled, Combatants
<1>2. \A a, b, c, d : [hurt EXCEPT !.status = a, !.block = b, !.succ = c, !.fail = d].due = 0
  <2> HIDE DEF hurt
  <2> QED BY <1>1
<1>3. Gone(hurt).due = 0
  BY <1>1 DEF Gone, Unscheduled, Combatants
<1> HIDE DEF hurt
<1> QED
  BY <1>2, <1>3 DEF Strike, hurt

LEMMA KnockedWaits ==
  ASSUME NEW k \in Combatants, NEW due
  PROVE  Waits(KnockedOut(k, due), k, due)
BY DEF Waits, KnockedOut, Unscheduled, Recovering, Combatants

LEMMA MendWaits ==
  ASSUME NEW k \in Combatants, NEW n
  PROVE  Waits(Mend(k, n), k, 0)
BY DEF Waits, Mend, Unscheduled, Revived, Combatants

LEMMA DeclareWaits ==
  ASSUME NEW k \in Combatants, NEW s
  PROVE  Waits(Declare(k, s), k, 0)
BY DEF Waits, Declare, Unscheduled, Combatants

LEMMA OptInWaits ==
  ASSUME NEW k \in Combatants
  PROVE  Waits(OptIn(k), k, 0)
BY DEF Waits, OptIn, Combatants

LEMMA SavedWaits ==
  ASSUME NEW k \in Combatants, NEW due, NEW save
  PROVE  Waits(Saved(k, save, due), k, due)
BY DEF Waits, Saved, Revived, Unscheduled, Recovering, Combatants

LEMMA RecoveringWaits ==
  ASSUME NEW k \in Combatants, NEW due
  PROVE  Recovering(k, due).due = due
BY DEF Recovering, Combatants

LEMMA ChokeWaits ==
  ASSUME NEW k \in Combatants
  PROVE  Waits(Choke(k), k, 0)
BY DEF Waits, Choke, Gone, Unscheduled, Combatants

LEMMA GaspWaits ==
  ASSUME NEW k \in Combatants, NEW due
  PROVE  Waits(Gasp(k, due), k, due)
BY DEF Waits, Gasp, Recovering, Combatants

LEMMA TireWaits ==
  ASSUME NEW k \in Combatants, NEW due, NEW level
  PROVE  Waits(Tire(k, level, due), k, due)
<1> DEFINE row == [k EXCEPT !.level = level, !.hp = Least(@, EffMax(k.full, level))]
<1>1. row.due = k.due /\ DOMAIN row = DOMAIN k /\ "due" \in DOMAIN k
  BY DEF Combatants
<1> HIDE DEF row
<1>2. Unscheduled(row).due = 0 /\ DOMAIN Unscheduled(row) = DOMAIN k
  BY <1>1 DEF Unscheduled
<1>3. Gone(row).due = 0 /\ DOMAIN Gone(row) = DOMAIN k
  BY <1>1, <1>2 DEF Gone
<1>4. Collapse(row).due = 0 /\ DOMAIN Collapse(row) = DOMAIN k
  BY <1>1, <1>2, <1>3 DEF Collapse
<1> DEFINE left == IF k.hp > 0 /\ row.hp = 0 THEN Collapse(row) ELSE row
<1>5. left.due \in {0, k.due} /\ DOMAIN left = DOMAIN k
  BY <1>1, <1>4
<1> HIDE DEF left
<1>6. [left EXCEPT !.due = due, !.settled = FALSE].due = due
  BY <1>1, <1>5
<1>7. [Unscheduled(row) EXCEPT !.status = "dead", !.block = FALSE].due = 0
  BY <1>1, <1>2
<1> QED
  BY <1>1, <1>5, <1>6, <1>7 DEF Waits, Tire, row, left

LEMMA RousedWaits ==
  ASSUME NEW k \in Combatants
  PROVE  Roused(k).due = 0
BY DEF Roused, Revived, Unscheduled, Combatants

LEMMA GoneWaits ==
  ASSUME NEW k \in Combatants
  PROVE  Gone(k).due = 0 /\ Unscheduled(k).due = 0
BY DEF Gone, Unscheduled, Combatants


-----------------------------------------------------------------------------
\* The hero's writes.
LEMMA WriteWaits ==
  ASSUME NEW c, "due" \in DOMAIN c, NEW hp, NEW temp, NEW life, NEW succ, NEW fail
  PROVE  LET w == WriteHp(c, hp, temp, life, succ, fail)
         IN w.due \in {0, c.due} /\ DOMAIN w = DOMAIN c
BY DEF WriteHp, Kept

LEMMA ScheduleWaits ==
  ASSUME NEW c, "due" \in DOMAIN c, NEW due
  PROVE  Schedule(c, due).due = due
BY DEF Schedule

LEMMA HealWaits ==
  ASSUME NEW c \in Rows, NEW n
  PROVE  Heal(c, n).due \in {0, c.due} /\ DOMAIN Heal(c, n) = DOMAIN c
<1>1. "due" \in DOMAIN c
  BY DEF Rows
<1> QED
  BY <1>1, WriteWaits DEF Heal

LEMMA DamageWaits ==
  ASSUME NEW c \in Rows, NEW n, NEW crit, NEW knockOut, NEW due
  PROVE  Waits(Damage(c, n, crit, knockOut, due), c, due)
<1>1. "due" \in DOMAIN c
  BY DEF Rows
<1>2. ASSUME NEW hp, NEW temp, NEW life, NEW succ, NEW fail
      PROVE  LET w == WriteHp(c, hp, temp, life, succ, fail)
             IN w.due \in {0, c.due} /\ Schedule(w, due).due = due
  BY <1>1, WriteWaits, ScheduleWaits
<1> QED
  BY <1>2 DEF Damage, Waits

LEMMA SaveWaits ==
  ASSUME NEW c \in Rows, NEW save, NEW due
  PROVE  Waits(Save(c, save, due), c, due)
<1>1. "due" \in DOMAIN c
  BY DEF Rows
<1>2. ASSUME NEW hp, NEW temp, NEW life, NEW succ, NEW fail
      PROVE  LET w == WriteHp(c, hp, temp, life, succ, fail)
             IN w.due \in {0, c.due} /\ Schedule(w, due).due = due
  BY <1>1, WriteWaits, ScheduleWaits
<1> QED
  BY <1>2 DEF Save, Waits

LEMMA StabilizeWaits ==
  ASSUME NEW c \in Rows, NEW due
  PROVE  Stabilize(c, due).due = due
<1>1. "due" \in DOMAIN c
  BY DEF Rows
<1> QED
  BY <1>1, WriteWaits, ScheduleWaits DEF Stabilize

LEMMA SuffocateWaits ==
  ASSUME NEW c \in Rows
  PROVE  Suffocate(c).due \in {0, c.due}
<1>1. "due" \in DOMAIN c
  BY DEF Rows
<1>2. ASSUME NEW hp, NEW temp, NEW life, NEW succ, NEW fail
      PROVE  [WriteHp(c, hp, temp, life, succ, fail) EXCEPT !.block = TRUE].due \in {0, c.due}
  <2> DEFINE w == WriteHp(c, hp, temp, life, succ, fail)
  <2>1. w.due \in {0, c.due} /\ "due" \in DOMAIN w
    BY <1>1, WriteWaits
  <2> HIDE DEF w
  <2>2. [w EXCEPT !.block = TRUE].due \in {0, c.due}
    BY <2>1
  <2> QED
    BY <2>2 DEF w
<1> QED
  BY <1>2 DEF Suffocate

LEMMA BreatheWaits ==
  ASSUME NEW c \in Rows, NEW due
  PROVE  Waits(Breathe(c, due), c, due)
<1> DEFINE free == [c EXCEPT !.block = FALSE]
<1>1. "due" \in DOMAIN free /\ free.due = c.due
  BY DEF Rows
<1> HIDE DEF free
<1>2. ASSUME NEW hp, NEW temp, NEW life, NEW succ, NEW fail
      PROVE  Schedule(WriteHp(free, hp, temp, life, succ, fail), due).due = due
  BY <1>1, WriteWaits, ScheduleWaits
<1>3. Breathe(c, due) = IF c.life = "dying" /\ c.succ >= 3
                        THEN Schedule(WriteHp(free, c.hp, c.temp, "stable", 0, 0), due)
                        ELSE free
  BY DEF Breathe, free
<1> QED
  BY <1>1, <1>2, <1>3 DEF Waits

LEMMA ExhaustWaits ==
  ASSUME NEW c \in Rows, NEW level, NEW due
  PROVE  Waits(Exhaust(c, level, due), c, due)
<1> DEFINE worn == [c EXCEPT !.level = level]
<1>1. "due" \in DOMAIN worn /\ worn.due = c.due
  BY DEF Rows
<1> HIDE DEF worn
<1>2. ASSUME NEW hp, NEW temp, NEW life, NEW succ, NEW fail
      PROVE  LET w == WriteHp(worn, hp, temp, life, succ, fail)
             IN w.due \in {0, c.due} /\ Schedule(w, due).due = due
  BY <1>1, WriteWaits, ScheduleWaits
<1> QED
  BY <1>2 DEF Exhaust, Waits, worn

LEMMA RecoverWaits ==
  ASSUME NEW c \in Rows, Sound(c), NEW hour, MayRecover(c, hour)
  PROVE  Recover(c).due = 0
<1> DEFINE h == Heal(c, 1)
<1>1. DOMAIN h = DOMAIN c /\ "due" \in DOMAIN c
  BY HealWaits DEF Rows
<1>2. h.hp = 0 => Recover(c).due = 0
  <2> HIDE DEF h
  <2>1. [h EXCEPT !.due = 0, !.settled = TRUE].due = 0
    BY <1>1
  <2> QED
    BY <2>1 DEF Recover, h
<1>3. h.hp # 0 => h.due = 0
  <2> DEFINE hp == Least(c.hp + 1, HpMax(c))
  <2>1. hp \in Nat
    BY HpMaxFacts DEF Rows, Least
  <2>2. c.life = "stable" /\ c.temp \in Nat /\ c.succ \in 0 .. 3 /\ c.fail \in 0 .. 3
    BY DEF MayRecover, Rows
  <2>3. "alive" \in Lives /\ "stable" \in Lives
    BY DEF Lives
  <2> HIDE DEF hp
  <2>4. ASSUME hp > 0
        PROVE  h = WriteHp(c, hp, c.temp, "alive", 0, 0)
    BY <2>2, <2>4 DEF Heal, hp
  <2>5. ASSUME ~ hp > 0
        PROVE  h = WriteHp(c, hp, c.temp, "stable", c.succ, c.fail)
    BY <2>2, <2>5 DEF Heal, hp
  <2>6. ASSUME hp > 0
        PROVE  h.due = 0
    <3>1. Fields(WriteHp(c, hp, c.temp, "alive", 0, 0), c, hp, "alive", 0, 0)
      BY <2>1, <2>2, <2>3, WriteFields
    <3> QED
      BY <2>4, <2>6, <3>1 DEF Fields
  <2>7. ~ hp > 0 => h.hp = 0
    <3>0. Fields(WriteHp(c, hp, c.temp, "stable", c.succ, c.fail), c, hp, "stable",
                 c.succ, c.fail)
      BY <2>1, <2>2, <2>3, WriteFields
    <3>1. ASSUME ~ hp > 0
          PROVE  h.hp = hp
      BY <2>5, <3>0, <3>1 DEF Fields
    <3> QED
      BY <2>1, <3>1
  <2> QED
    BY <2>6, <2>7
<1> QED
  BY <1>2, <1>3 DEF Recover

-----------------------------------------------------------------------------
\* Nobody waits for an hour that has come.
Ahead(due) == due = 0 \/ due > clock
\* The hours that are given lie ahead.
LEMMA GivenAhead ==
  ASSUME clock \in Nat
  PROVE  (\A due \in Due : Ahead(due)) /\ (\A due \in Deadlines : Ahead(due))
BY CompanionNumbers, HeroNumbers DEF Due, Deadlines, Ahead

\* The hero after whatever is done without the clock.
LEMMA BodyOnTime ==
  ASSUME HInv, Ahead(hero.due), BodyNext
  PROVE  Ahead(hero'.due)
<1>0. hero \in Rows /\ clock \in Nat /\ Ahead(0) /\ \A due \in Deadlines : Ahead(due)
  BY GivenAhead DEF HInv, Ahead
<1>1. ASSUME NEW n \in Blows, NEW crit \in BOOLEAN, NEW knockOut \in BOOLEAN,
             HeroHurt(n, crit, knockOut)
      PROVE  Ahead(hero'.due)
  <2>1. PICK due \in Deadlines : hero' = Damage(hero, n, crit, knockOut, due)
    BY <1>1 DEF HeroHurt, Becomes
  <2> QED
    BY <1>0, <2>1, DamageWaits DEF Waits
<1>2. ASSUME NEW n \in Blows, HeroHealed(n)
      PROVE  Ahead(hero'.due)
  BY <1>0, <1>2, HealWaits DEF HeroHealed, Becomes
<1>3. ASSUME NEW n \in Blows, NEW replace \in BOOLEAN, HeroBolstered(n, replace)
      PROVE  Ahead(hero'.due)
  <2>1. GrantTemporary(hero, n, replace).due = hero.due
    BY <1>0 DEF GrantTemporary, Rows
  <2> QED
    BY <1>3, <2>1 DEF HeroBolstered, Becomes
<1>4. ASSUME NEW save \in Saves, HeroSaves(save)
      PROVE  Ahead(hero'.due)
  <2>1. PICK due \in Deadlines : hero' = Save(hero, save, due)
    BY <1>4 DEF HeroSaves, Becomes
  <2> QED
    BY <1>0, <2>1, SaveWaits DEF Waits
<1>5. ASSUME HeroStabilized
      PROVE  Ahead(hero'.due)
  <2>1. PICK due \in Deadlines : hero' = Stabilize(hero, due)
    BY <1>5 DEF HeroStabilized, Becomes
  <2> QED
    BY <1>0, <2>1, StabilizeWaits
<1>6. ASSUME HeroSuffocates
      PROVE  Ahead(hero'.due)
  BY <1>0, <1>6, SuffocateWaits DEF HeroSuffocates, Becomes
<1>7. ASSUME HeroBreathes
      PROVE  Ahead(hero'.due)
  <2>1. PICK due \in Deadlines : hero' = Breathe(hero, due)
    BY <1>7 DEF HeroBreathes, Becomes
  <2> QED
    BY <1>0, <2>1, BreatheWaits DEF Waits
<1>8. ASSUME NEW level \in HeroLevels, HeroTires(level)
      PROVE  Ahead(hero'.due)
  <2>1. PICK due \in Deadlines : hero' = Exhaust(hero, level, due)
    BY <1>8 DEF HeroTires, Becomes
  <2> QED
    BY <1>0, <2>1, ExhaustWaits DEF Waits
<1>9. ASSUME NEW id \in RestIds, NEW n \in Blows \cup {0}, SpendHitDie(id, n)
      PROVE  Ahead(hero'.due)
  BY <1>0, <1>9, HealWaits DEF SpendHitDie
<1>10. ASSUME NEW id \in RestIds, FinishRecovery(id)
       PROVE  Ahead(hero'.due)
  BY <1>10 DEF FinishRecovery
<1> QED
  BY <1>1, <1>2, <1>3, <1>4, <1>5, <1>6, <1>7, <1>8, <1>9, <1>10 DEF BodyNext

\* Hours pass: whoever waited for one of them recovers.
LEMMA HeroOnTime ==
  ASSUME HInv, clock' \in Nat, HeroRecovers(clock')
  PROVE  Ahead(hero.due)' 
<1>1. hero \in Rows /\ Sound(hero) /\ hero.due \in Nat
  BY DEF HInv, HeroSound, Rows
<1>2. CASE MayRecover(hero, clock')
  BY <1>1, <1>2, RecoverWaits DEF HeroRecovers, Ahead
<1>3. CASE ~ MayRecover(hero, clock')
  <2>1. hero' = hero
    BY <1>3 DEF HeroRecovers
  <2>2. hero.due # 0 => hero.life = "stable" /\ hero.hp = 0 /\ ~ hero.settled
    BY <1>1 DEF Sound
  <2> QED
    BY <1>1, <1>3, <2>1, <2>2 DEF MayRecover, Ahead
<1> QED
  BY <1>2, <1>3

\* A long rest finds the hero alive, who waits for nothing.
LEMMA AliveWaits ==
  ASSUME NEW c \in Rows, c.life = "alive", NEW level, NEW due
  PROVE  Exhaust(c, level, due).due = 0
<1> DEFINE worn == [c EXCEPT !.level = level]
           hp == Least(c.hp, EffMax(c.full, level))
           downed == c.hp > 0 /\ hp = 0
           life == IF level = 6 THEN "dead" ELSE IF downed THEN "dying" ELSE "alive"
           row == WriteHp(worn, hp, c.temp, life,
                          IF downed THEN 0 ELSE c.succ, IF downed THEN 0 ELSE c.fail)
<1>1. "due" \in DOMAIN worn
  BY DEF Rows
<1>2. life # "stable"
  OBVIOUS
<1>3. Exhaust(c, level, due) = row
  BY <1>2 DEF Exhaust
<1>4. row.due = 0
  <2> HIDE DEF worn, life, hp, downed
  <2> QED
    BY <1>1, <1>2 DEF WriteHp, Kept
<1> QED
  BY <1>3, <1>4

LEMMA RestedOnTime ==
  ASSUME HInv, NEW id \in RestIds, NEW fed \in BOOLEAN, LongRest(id, fed)
  PROVE  hero'.due = 0
<1>1. hero \in Rows /\ Sound(hero)
  BY DEF HInv, HeroSound
<1>2. hero.life = "alive" /\ hero.due = 0
  <2>1. hero.life \in Lives /\ hero.hp \in Nat /\ hero.level \in 0 .. 6
    BY <1>1, RowFields
  <2> QED
    BY <1>1, <2>1 DEF LongRest, Sound, Lives
<1>3. PICK due \in Deadlines :
        hero' = Rested(IF fed /\ hero.level > 0
                       THEN Exhaust(hero, hero.level - 1, due) ELSE hero)
  BY DEF LongRest
<1> DEFINE c == IF fed /\ hero.level > 0
                THEN Exhaust(hero, hero.level - 1, due) ELSE hero
<1>4. c.due = 0
  BY <1>1, <1>2, AliveWaits
<1>5. c \in Rows
  <2>1. due \in Nat \ {0}
    BY DeadlineFacts DEF HInv
  <2>2. ASSUME hero.level > 0
        PROVE  Exhaust(hero, hero.level - 1, due) \in Rows
    <3>1. hero.level \in 0 .. 6
      BY <1>1, RowFields
    <3>2. hero.level - 1 \in 0 .. 6
      BY <2>2, <3>1
    <3> QED
      BY <1>1, <2>1, <3>2, ExhaustSound
  <2> QED
    BY <1>1, <2>2
<1> HIDE DEF c
<1>6. Heal(c, HpMax(c) - c.hp).due = 0 /\ "due" \in DOMAIN Heal(c, HpMax(c) - c.hp)
  BY <1>4, <1>5, HealWaits DEF Rows
<1>7. Rested(c).due = 0
  <2> DEFINE w == Heal(c, HpMax(c) - c.hp)
  <2>1. w.due = 0 /\ "due" \in DOMAIN w
    BY <1>6
  <2> HIDE DEF w
  <2>2. ExpireTemporary(w).due = 0
    BY <2>1 DEF ExpireTemporary
  <2> QED
    BY <2>2 DEF Rested, w
<1> QED
  BY <1>3, <1>7 DEF c

-----------------------------------------------------------------------------
\* The creatures.  An actor that waits for an hour has a row that waits for it.
Echoes(i) == rows[i].mine /\ rows[i].k.due = actor.due
BeastsOnTime ==
  /\ \A i \in DOMAIN rows : Ahead(rows[i].k.due)
  /\ actor # NoActor => Ahead(actor.due)
  /\ actor # NoActor /\ actor.due # 0 => \E i \in DOMAIN rows : Echoes(i)

OnTime == BeastsOnTime /\ Ahead(hero.due)

LEMMA EchoAfter ==
  ASSUME NEW j, j \in DOMAIN rows', rows'[j].mine, rows'[j].k.due = actor'.due
  PROVE  (\E i \in DOMAIN rows : Echoes(i))'
BY DEF Echoes

\* It is the one that speaks for it.
LEMMA EchoSpeaks ==
  ASSUME CInv, actor # NoActor, actor.due # 0, NEW i \in DOMAIN rows, Echoes(i)
  PROVE  i = Speaker
BY DEF CInv, RowsLegal, Legal, Speaks, Echoes

\* One row is written, and the actor with it.
LEMMA PutOnTime ==
  ASSUME CInv, BeastsOnTime, NEW i \in DOMAIN rows, NEW k, Put(i, k), Ahead(k.due),
         clock' = clock
  PROVE  BeastsOnTime'
<1> DEFINE R == [in : Nat, mine : BOOLEAN, k : Combatants]
           r == [rows[i] EXCEPT !.k = k]
<1>1. r.k = k /\ r.mine = rows[i].mine
  <2>1. rows \in Seq(R)
    BY DEF CInv, Typed
  <2> HIDE DEF R
  <2>2. rows[i] \in R
    BY <2>1
  <2> QED
    BY <2>2 DEF R
<1>2. rows' = [rows EXCEPT ![i] = r]
  BY DEF Put
<1> HIDE DEF r
<1>3. DOMAIN rows' = DOMAIN rows
      /\ \A j \in DOMAIN rows : /\ rows'[j].k = IF j = i THEN k ELSE rows[j].k
                                /\ rows'[j].mine = rows[j].mine
  BY <1>1, <1>2
<1>4. actor' = IF rows[i].mine /\ i = Speaker THEN k ELSE actor
  BY DEF Put
<1>5. CASE rows[i].mine /\ i = Speaker
  <2>1. Echoes(i)'
    BY <1>3, <1>4, <1>5 DEF Echoes
  <2> QED
    BY <1>3, <1>4, <1>5, <2>1 DEF BeastsOnTime, Ahead
<1>6. CASE ~ (rows[i].mine /\ i = Speaker)
  <2>1. actor' = actor
    BY <1>4, <1>6
  <2>2. ASSUME actor # NoActor, actor.due # 0
        PROVE  \E j \in DOMAIN rows : Echoes(j)'
    <3>1. PICK j \in DOMAIN rows : Echoes(j)
      BY <2>2 DEF BeastsOnTime
    <3>2. j = Speaker /\ j # i
      BY <1>6, <2>2, <3>1, EchoSpeaks DEF Echoes
    <3> QED
      BY <1>3, <2>1, <3>1, <3>2 DEF Echoes
  <2> QED
    BY <1>3, <2>1, <2>2 DEF BeastsOnTime, Ahead
<1> QED
  BY <1>5, <1>6

LEMMA ActOnTime ==
  ASSUME CInv, BeastsOnTime, NEW i \in DOMAIN rows, Act(i)
  PROVE  BeastsOnTime'
<1> DEFINE c == rows[i].k
<1>1. c \in Combatants /\ Ahead(c.due) /\ Ahead(0) /\ \A due \in Due : Ahead(due)
  BY RowTyped, GivenAhead DEF CInv, Typed, BeastsOnTime, Ahead
<1>2. ASSUME NEW k, Write(i, k), Ahead(k.due)
      PROVE  BeastsOnTime'
  BY <1>2, PutOnTime DEF Write, clockVars, CInv
<1> HIDE DEF c
<1>3. ASSUME NEW n \in Wounds, NEW crit \in BOOLEAN, Hurt(i, n, crit)
      PROVE  BeastsOnTime'
  BY <1>1, <1>2, <1>3, StrikeWaits DEF Hurt, c
<1>4. ASSUME NEW n \in Wounds, KnockOut(i, n)
      PROVE  BeastsOnTime'
  <2>1. PICK due \in Due : Write(i, KnockedOut(c, due))
    BY <1>4 DEF KnockOut, c
  <2> QED
    BY <1>1, <1>2, <2>1, KnockedWaits DEF Waits
<1>5. ASSUME NEW n \in Wounds, Treat(i, n)
      PROVE  BeastsOnTime'
  <2>1. Ahead(Mend(c, n).due)
    BY <1>1, MendWaits DEF Waits
  <2> QED
    BY <1>2, <1>5, <2>1 DEF Treat, c
<1>6. ASSUME NEW status \in Declared, SetStatus(i, status)
      PROVE  BeastsOnTime'
  <2>1. Ahead(Declare(c, status).due)
    BY <1>1, DeclareWaits DEF Waits
  <2> QED
    BY <1>2, <1>6, <2>1 DEF SetStatus, c
<1>7. ASSUME OptIntoDeathSaves(i)
      PROVE  BeastsOnTime'
  <2>1. Ahead(OptIn(c).due)
    BY <1>1, OptInWaits DEF Waits
  <2> QED
    BY <1>2, <1>7, <2>1 DEF OptIntoDeathSaves, c
<1>8. ASSUME NEW save \in Saves, DeathSave(i, save)
      PROVE  BeastsOnTime'
  <2>1. PICK due \in Due : Write(i, Saved(c, save, due))
    BY <1>8 DEF DeathSave, c
  <2> QED
    BY <1>1, <1>2, <2>1, SavedWaits DEF Waits
<1>9. ASSUME Steady(i)
      PROVE  BeastsOnTime'
  <2>1. PICK due \in Due : Write(i, Recovering(c, due))
    BY <1>9 DEF Steady, c
  <2> QED
    BY <1>1, <1>2, <2>1, RecoveringWaits
<1>10. ASSUME Drop(i)
       PROVE  BeastsOnTime'
  <2>1. Ahead(Choke(c).due)
    BY <1>1, ChokeWaits DEF Waits
  <2> QED
    BY <1>2, <1>10, <2>1 DEF Drop, c
<1>11. ASSUME Breath(i)
       PROVE  BeastsOnTime'
  <2>1. PICK due \in Due : Write(i, Gasp(c, due))
    BY <1>11 DEF Breath, c
  <2> QED
    BY <1>1, <1>2, <2>1, GaspWaits DEF Waits
<1>12. ASSUME NEW level \in Levels, AdjustExhaustion(i, level)
       PROVE  BeastsOnTime'
  <2>1. PICK due \in Due : Write(i, Tire(c, level, due))
    BY <1>12 DEF AdjustExhaustion, c
  <2> QED
    BY <1>1, <1>2, <2>1, TireWaits DEF Waits
<1> QED
  BY <1>3, <1>4, <1>5, <1>6, <1>7, <1>8, <1>9, <1>10, <1>11, <1>12 DEF Act

LEMMA JoinOnTime ==
  ASSUME CInv, BeastsOnTime, NEW full, Join(full)
  PROVE  BeastsOnTime'
<1> DEFINE r == [in |-> fights, mine |-> FALSE, k |-> Creature(full)]
           n == Len(rows)
<1>1. r.k.due = 0
  BY DEF Creature
<1>2. rows' = Append(rows, r) /\ actor' = actor /\ clock' = clock
  BY DEF Join, clockVars
<1> HIDE DEF r
<1>3. n \in Nat /\ DOMAIN rows = 1 .. n /\ DOMAIN rows' = 1 .. (n + 1)
      /\ rows'[n + 1] = r /\ \A i \in 1 .. n : rows'[i] = rows[i]
  BY <1>2 DEF CInv, Typed
<1> HIDE DEF n
<1>4. \A i \in DOMAIN rows' : i \in DOMAIN rows \/ i = n + 1
  BY <1>3
<1>5. \A i \in DOMAIN rows : i \in DOMAIN rows' /\ (Echoes(i) => Echoes(i)')
  BY <1>2, <1>3 DEF Echoes
<1> QED
  BY <1>1, <1>2, <1>3, <1>4, <1>5 DEF BeastsOnTime, Ahead

LEMMA EnterOnTime ==
  ASSUME CInv, BeastsOnTime, NEW full, Enter(full)
  PROVE  BeastsOnTime'
<1> DEFINE k == IF Fresh THEN Creature(full) ELSE Entering(actor)
           r == [in |-> fights, mine |-> TRUE, k |-> k]
           n == Len(Retired)
<1>1. Ahead(k.due)
  <2>1. Creature(full).due = 0
    BY DEF Creature
  <2>2. ASSUME actor # NoActor
        PROVE  Entering(actor).due = actor.due
    BY <2>2 DEF Entering, Combatants, CInv, Typed
  <2> QED
    BY <2>1, <2>2 DEF Fresh, BeastsOnTime, Ahead
<1>2. rows' = Append(Retired, r) /\ actor' = k /\ clock' = clock
  BY DEF Enter, clockVars
<1>3. Retired \in Seq([in : Nat, mine : BOOLEAN, k : Combatants])
        /\ DOMAIN Retired = DOMAIN rows
  BY RetiredFacts DEF CInv
<1>4. r.k = k /\ r.mine
  OBVIOUS
<1> HIDE DEF r, k
<1>5. n \in Nat /\ DOMAIN Retired = 1 .. n /\ DOMAIN rows' = 1 .. (n + 1)
      /\ rows'[n + 1] = r /\ \A i \in 1 .. n : rows'[i] = Retired[i]
  BY <1>2, <1>3
<1> HIDE DEF n
<1>6. \A i \in DOMAIN rows' : i \in DOMAIN rows \/ i = n + 1
  BY <1>3, <1>5
<1>7. ASSUME NEW i \in DOMAIN rows
      PROVE  Ahead(Retired[i].k.due)
  <2> DEFINE u == Unscheduled(rows[i].k)
             q == [rows[i] EXCEPT !.k = u]
             R == [in : Nat, mine : BOOLEAN, k : Combatants]
  <2>1. Retired[i] = IF rows[i].mine THEN q ELSE rows[i]
    BY DEF Retired
  <2>2. u.due = 0
    BY RowTyped, GoneWaits DEF CInv
  <2>3. q.k = u
    <3>1. rows \in Seq(R)
      BY DEF CInv, Typed
    <3> HIDE DEF u, R
    <3>2. rows[i] \in R
      BY <3>1
    <3> QED
      BY <3>2 DEF R
  <2> HIDE DEF u, q, R
  <2> QED
    BY <2>1, <2>2, <2>3 DEF BeastsOnTime, Ahead
<1>8. (\E i \in DOMAIN rows : Echoes(i))'
  <2>1. n + 1 \in DOMAIN rows' /\ rows'[n + 1].mine /\ rows'[n + 1].k.due = actor'.due
    BY <1>2, <1>4, <1>5
  <2> QED
    BY <2>1, EchoAfter
<1> QED
  BY <1>1, <1>2, <1>3, <1>4, <1>5, <1>6, <1>7, <1>8 DEF BeastsOnTime, Ahead

LEMMA StartOnTime ==
  ASSUME CInv, BeastsOnTime, NEW i \in DOMAIN rows, NEW zero, NEW policy, NEW claims,
         StartEffect(i, zero, policy, claims)
  PROVE  BeastsOnTime'
<1> DEFINE R == [in : Nat, mine : BOOLEAN, k : Combatants]
           k == [rows[i].k EXCEPT !.zero = IF zero = "none" THEN @ ELSE zero]
           durable == claims \/ rows[i].mine
           voice == IF Mine = {} THEN i ELSE Speaker
           one == [rows EXCEPT ![i].k = k]
           two == [one EXCEPT ![voice].mine = @ \/ durable]
<1>1. voice \in DOMAIN rows
  BY SpeakerFacts DEF CInv
<1>2. k.due = rows[i].k.due
  BY RowTyped DEF CInv, Combatants
<1>3. \A j \in DOMAIN rows : rows[j] \in R
  <2>1. rows \in Seq(R)
    BY DEF CInv, Typed
  <2> HIDE DEF R
  <2> QED
    BY <2>1
<1>4. rows' = two /\ clock' = clock
      /\ actor' = IF durable THEN IF voice = i THEN k ELSE rows[voice].k ELSE actor
  BY DEF StartEffect, clockVars
<1> HIDE DEF k, durable, voice
<1>5. DOMAIN one = DOMAIN rows
      /\ \A j \in DOMAIN rows : /\ one[j].k = IF j = i THEN k ELSE rows[j].k
                                /\ one[j].mine = rows[j].mine
                                /\ DOMAIN one[j] = DOMAIN rows[j]
  BY <1>3
<1>6. \A j \in DOMAIN rows : "k" \in DOMAIN one[j] /\ "mine" \in DOMAIN one[j]
  BY <1>3, <1>5
<1> HIDE DEF one, R
<1>7. /\ DOMAIN two = DOMAIN rows
      /\ \A j \in DOMAIN rows :
           /\ two[j].k = one[j].k
           /\ two[j].mine = IF j = voice THEN one[j].mine \/ durable ELSE one[j].mine
  BY <1>1, <1>5, <1>6
<1> HIDE DEF two
<1>8. ASSUME durable
      PROVE  (\E j \in DOMAIN rows : Echoes(j))'
  <2>1. /\ voice \in DOMAIN rows' /\ rows'[voice].mine
        /\ rows'[voice].k.due = actor'.due
    BY <1>1, <1>2, <1>4, <1>5, <1>7, <1>8
  <2> QED
    BY <2>1, EchoAfter
<1>9. ASSUME ~ durable, actor # NoActor, actor.due # 0
      PROVE  (\E j \in DOMAIN rows : Echoes(j))'
  <2>1. PICK j \in DOMAIN rows : Echoes(j)
    BY <1>9 DEF BeastsOnTime
  <2>2. j \in DOMAIN rows' /\ rows'[j].mine /\ rows'[j].k.due = actor'.due
    BY <1>2, <1>4, <1>5, <1>7, <1>9, <2>1 DEF Echoes
  <2> QED
    BY <2>2, EchoAfter
<1> QED
  BY <1>1, <1>2, <1>4, <1>5, <1>7, <1>8, <1>9 DEF BeastsOnTime, Ahead

LEMMA EndOnTime ==
  ASSUME CInv, BeastsOnTime, EndEffect
  PROVE  BeastsOnTime'
<1>1. clock' = clock /\ Ahead(0)
  BY DEF EndEffect, clockVars, Ahead
<1>2. ASSUME NEW i \in DOMAIN rows, Put(i, Removed(rows[i].k))
      PROVE  BeastsOnTime'
  <2>1. Ahead(Removed(rows[i].k).due)
    BY <1>1, RowTyped, GoneWaits DEF Removed, BeastsOnTime, CInv
  <2> QED
    BY <1>1, <1>2, <2>1, PutOnTime DEF CInv
<1>3. CASE UNCHANGED <<rows, actor>>
  BY <1>1, <1>3 DEF BeastsOnTime, Ahead, Echoes
<1>4. CASE link.on = "combatant" /\ Put(link.row, Removed(rows[link.row].k))
  BY <1>2, <1>4 DEF CInv, Linked
<1>5. CASE ActorRow # {} /\ Put(Max(ActorRow), Removed(rows[Max(ActorRow)].k))
  BY <1>2, <1>5, ActorRowFacts
<1>6. CASE link.on = "actor" /\ actor' = Removed(actor) /\ UNCHANGED rows
  <2>1. actor \in Combatants /\ actor # NoActor
    BY <1>6 DEF CInv, Typed, Linked, OwnsActor, Embodied
  <2>2. Removed(actor).due = 0
    BY <2>1, GoneWaits DEF Removed, CInv, RowsLegal, Legal
  <2> QED
    BY <1>1, <1>6, <2>2 DEF BeastsOnTime, Ahead
<1> QED
  BY <1>3, <1>4, <1>5, <1>6 DEF EndEffect

LEMMA RecastOnTime ==
  ASSUME CInv, BeastsOnTime, Recast
  PROVE  BeastsOnTime'
<1>1. actor \in Combatants /\ rows' = rows /\ clock' = clock
  BY DEF CInv, Typed, Recast, clockVars
<1>2. actor'.due = actor.due /\ actor.due = 0
  BY <1>1 DEF Recast, Combatants, CInv, RowsLegal, Legal
<1> QED
  BY <1>1, <1>2 DEF BeastsOnTime, Ahead

LEMMA CompanionsOnTime ==
  ASSUME CInv, BeastsOnTime, CompanionsNext
  PROVE  BeastsOnTime'
BY ActOnTime, JoinOnTime, EnterOnTime, StartOnTime, EndOnTime, RecastOnTime
DEF CompanionsNext

\* The combat is over; the actor is what its row says.
LEMMA LeaveOnTime ==
  ASSUME CInv, BeastsOnTime, CompanionsLeave, clock' = clock
  PROVE  BeastsOnTime'
<1> DEFINE durable == {i \in DOMAIN rows : Here(i) /\ (Claimed(i) \/ i \in Mine)}
<1>1. rows' = rows /\ actor' = IF durable = {} THEN actor ELSE rows[Speaker].k
  BY DEF CompanionsLeave
<1>2. durable # {} => Mine # {}
  BY DEF Claimed, CInv, Linked, OwnsActor
<1>3. Mine # {} => Speaker \in DOMAIN rows
  BY SpeakerFacts DEF CInv
<1>4. durable = {} => actor' = actor
  BY <1>1
<1>5. durable # {} => Ahead(actor'.due) /\ \E i \in DOMAIN rows : Echoes(i)'
  BY <1>1, <1>2, <1>3, SpeakerFacts DEF BeastsOnTime, CInv, Echoes
<1>6. actor' = actor => \A i \in DOMAIN rows : Echoes(i) => Echoes(i)'
  BY <1>1 DEF Echoes
<1> HIDE DEF durable
<1> QED
  BY <1>1, <1>4, <1>5, <1>6 DEF BeastsOnTime, Ahead

\* Hours pass: whoever waited for one of them recovers, and the actor with the
\* row that speaks for it, because while it waits it is what that row says.
LEMMA RecoverOnTime ==
  ASSUME CInv, BeastsOnTime, clock' \in Nat, CompanionsRecover(clock')
  PROVE  BeastsOnTime'
<1> DEFINE w(i) == Woken(i, clock')
           after(due) == due = 0 \/ due > clock'
<1>1. ASSUME NEW i \in DOMAIN rows
      PROVE  after(w(i).due)
  <2> DEFINE k == rows[i].k
  <2>1. k \in Combatants /\ Legal(k, Speaks(i)) /\ k.due \in Nat
    BY RowTyped, CreatureFields DEF CInv, RowsLegal
  <2>2. CASE Speaks(i) /\ Overdue(k, clock')
    BY <2>1, <2>2, RousedWaits DEF Woken
  <2>3. CASE ~ (Speaks(i) /\ Overdue(k, clock'))
    <3>1. w(i) = k
      BY <2>3 DEF Woken
    <3> HIDE DEF k
    <3>2. k.due # 0 => k.status = "stable" /\ Speaks(i)
      BY <2>1 DEF Legal
    <3> QED
      BY <2>1, <2>3, <3>1, <3>2 DEF Overdue
  <2> QED
    BY <2>2, <2>3
<1>2. \A i \in DOMAIN rows : rows'[i].k = w(i) /\ rows'[i].mine = rows[i].mine
  <2> SUFFICES ASSUME NEW i \in DOMAIN rows
               PROVE  rows'[i].k = w(i) /\ rows'[i].mine = rows[i].mine
    OBVIOUS
  <2> DEFINE R == [in : Nat, mine : BOOLEAN, k : Combatants]
             x == w(i)
  <2>1. rows \in Seq(R)
    BY DEF CInv, Typed
  <2>2. rows'[i] = [rows[i] EXCEPT !.k = x]
    BY DEF CompanionsRecover, Woken
  <2> HIDE DEF R, x
  <2>3. rows[i] \in R
    BY <2>1
  <2>4. [rows[i] EXCEPT !.k = x].k = x /\ [rows[i] EXCEPT !.k = x].mine = rows[i].mine
    BY <2>3 DEF R
  <2> QED
    BY <2>2, <2>4 DEF x
<1>3. DOMAIN rows' = DOMAIN rows
  BY DEF CompanionsRecover
<1>4. actor' = IF Mine # {} /\ Speaks(Speaker) /\ Overdue(rows[Speaker].k, clock')
               THEN w(Speaker) ELSE actor
  BY DEF CompanionsRecover, Woken
<1>5. CASE Mine # {} /\ Speaks(Speaker) /\ Overdue(rows[Speaker].k, clock')
  <2>1. Speaker \in DOMAIN rows
    BY <1>5, SpeakerFacts DEF CInv
  <2>2. actor'.due = 0
    BY <1>4, <1>5, <2>1, RowTyped, RousedWaits DEF CInv, Woken
  <2> QED
    BY <1>1, <1>2, <1>3, <2>2 DEF BeastsOnTime, Ahead
<1>6. CASE ~ (Mine # {} /\ Speaks(Speaker) /\ Overdue(rows[Speaker].k, clock'))
  <2>1. actor' = actor
    BY <1>4, <1>6
  <2>2. ASSUME actor # NoActor, actor.due # 0
        PROVE  after(actor.due) /\ \E i \in DOMAIN rows : Echoes(i)'
    <3>1. PICK i \in DOMAIN rows : Echoes(i)
      BY <2>2 DEF BeastsOnTime
    <3>2. i = Speaker /\ Mine # {} /\ Speaks(Speaker)
      BY <2>2, <3>1, EchoSpeaks DEF Echoes, Mine, Speaks
    <3>3. w(i) = rows[i].k
      BY <1>6, <3>2 DEF Woken
    <3>4. Echoes(i)'
      BY <1>2, <2>1, <3>1, <3>3 DEF Echoes
    <3>5. after(actor.due)
      BY <1>1, <3>1, <3>3 DEF Echoes
    <3> QED
      BY <3>4, <3>5
  <2> QED
    BY <1>1, <1>2, <1>3, <2>1, <2>2 DEF BeastsOnTime, Ahead
<1> QED
  BY <1>5, <1>6

-----------------------------------------------------------------------------
\* Hours pass for all of them.
LEMMA TimeInit == Init => OnTime
<1> SUFFICES ASSUME Init
             PROVE  OnTime
  OBVIOUS
<1>1. rows = <<>> /\ actor = NoActor /\ \E full \in HeroFulls : hero = Hale(full)
  BY DEF Init, CompanionsInit, RestsInit
<1>2. hero.due = 0
  BY <1>1 DEF Hale
<1> QED
  BY <1>1, <1>2 DEF OnTime, BeastsOnTime, Ahead

LEMMA TimeStep ==
  ASSUME CInv, HInv, OnTime, Next
  PROVE  OnTime'
<1> USE DEF OnTime
<1>1. CASE UNCHANGED <<rows, actor, hero, clock>>
  BY <1>1 DEF BeastsOnTime, Ahead, Echoes
<1>2. CASE StartEncounter
  BY <1>1, <1>2 DEF StartEncounter, FightStarts
<1>3. CASE CloseCombat
  <2>1. CompanionsLeave /\ clock' = clock /\ hero' = hero
    BY <1>3 DEF CloseCombat, FightEnds, restVars
  <2> QED
    BY <2>1, LeaveOnTime DEF Ahead
<1>4. ASSUME NEW hours \in 1 .. MaxClock, AdvanceWorldTime(hours)
      PROVE  OnTime'
  <2>1. clock' \in Nat
    BY <1>4, ClockBounds DEF AdvanceWorldTime, TimePasses, CInv, Typed
  <2>2. HeroRecovers(clock') /\ CompanionsRecover(clock')
    BY <1>4 DEF AdvanceWorldTime, HeroWaits
  <2> QED
    BY <2>1, <2>2, HeroOnTime, RecoverOnTime
<1>5. ASSUME NEW id \in RestIds, Rest(id)
      PROVE  OnTime'
  <2>1. CompanionsRecover(clock')
    BY <1>5 DEF Rest
  <2>2. TimePasses(Short) \/ TimePasses(Long)
    BY <1>5 DEF Rest, ShortRest, LongRest, Takes
  <2>3. clock' \in Nat
    BY <2>2, RestHours DEF TimePasses, CInv, Typed
  <2>4. ShortRest(id) => Ahead(hero.due)'
    BY <2>3, HeroOnTime DEF ShortRest
  <2>5. ASSUME NEW fed \in BOOLEAN, LongRest(id, fed)
        PROVE  Ahead(hero.due)'
    BY <2>5, RestedOnTime DEF Ahead
  <2>6. Ahead(hero.due)'
    BY <1>5, <2>4, <2>5 DEF Rest
  <2> QED
    BY <2>1, <2>3, <2>6, RecoverOnTime
<1>6. CASE CompanionsNext /\ UNCHANGED restVars
  <2>1. clock' = clock /\ hero' = hero
    BY <1>6, CreaturesKeepTime DEF clockVars, restVars
  <2> QED
    BY <1>6, <2>1, CompanionsOnTime DEF Ahead
<1>7. CASE BodyNext /\ UNCHANGED companionVars
  <2>1. clock' = clock
    BY <1>7 DEF BodyNext, HeroHurt, HeroHealed, HeroBolstered, HeroSaves,
       HeroStabilized, HeroSuffocates, HeroBreathes, HeroTires, FinishRecovery,
       SpendHitDie, Becomes, clockVars
  <2>2. Ahead(hero'.due)
    BY <1>7, BodyOnTime
  <2>3. BeastsOnTime'
    BY <1>7, <2>1 DEF BeastsOnTime, Ahead, Echoes, companionVars
  <2> QED
    BY <2>1, <2>2, <2>3 DEF Ahead
<1>8. CASE MagicNext /\ UNCHANGED companionVars
  <2>1. clock' = clock /\ hero' = hero
    BY <1>8 DEF MagicNext, Cast, CreateSlot, ConvertSlot, SpendPoints, Conjures,
       clockVars
  <2> QED
    BY <1>1, <1>8, <2>1 DEF companionVars
<1> QED
  BY <1>2, <1>3, <1>4, <1>5, <1>6, <1>7, <1>8 DEF Next

LEMMA NobodyOverdue ==
  ASSUME CInv, HInv, OnTime
  PROVE  RecoveredOnTime
<1>1. ASSUME NEW i \in DOMAIN rows
      PROVE  ~ Overdue(rows[i].k, clock)
  <2>1. rows[i].k.due \in Nat /\ clock \in Nat
    BY RowTyped, CreatureFields DEF CInv, Typed
  <2> QED
    BY <2>1 DEF OnTime, BeastsOnTime, Ahead, Overdue
<1>2. ASSUME actor # NoActor
      PROVE  ~ Overdue(actor, clock)
  <2>1. actor.due \in Nat /\ clock \in Nat
    BY <1>2, CreatureFields DEF CInv, Typed
  <2> QED
    BY <1>2, <2>1 DEF OnTime, BeastsOnTime, Ahead, Overdue
<1>3. ~ MayRecover(hero, clock)
  <2>1. hero.due \in Nat /\ clock \in Nat
    BY DEF HInv, Rows
  <2> QED
    BY <2>1 DEF OnTime, Ahead, MayRecover
<1> QED
  BY <1>1, <1>2, <1>3 DEF RecoveredOnTime

-----------------------------------------------------------------------------
\* The clock and the combats within their bounds.
WithinTime == clock <= MaxClock /\ fights <= MaxFights /\ (fighting => fights >= 1)

\* The rows are of combats that were started, and no more than there may be.
Placed == Len(rows) <= MaxRows /\ \A i \in DOMAIN rows : rows[i].in >= 1

\* Only what owns a combatant names its row.
Named == link.on # "combatant" => link.row = 0

Diced == dice \in 0 .. MaxDice

Bounded == WithinTime /\ Placed /\ Named /\ Diced /\ Purse

LEMMA TimeIsKept ==
  ASSUME Typed, WithinTime, Next
  PROVE  WithinTime'
<1>0. UNCHANGED clockVars => WithinTime'
  BY DEF WithinTime, clockVars
<1>1. CASE StartEncounter
  BY <1>1, ClockBounds DEF StartEncounter, FightStarts, Typed, WithinTime
<1>2. CASE CloseCombat
  BY <1>2 DEF CloseCombat, FightEnds, WithinTime
<1>3. ASSUME NEW hours, TimePasses(hours)
      PROVE  WithinTime'
  BY <1>3 DEF TimePasses, WithinTime
<1>4. ASSUME NEW hours, AdvanceWorldTime(hours)
      PROVE  WithinTime'
  BY <1>3, <1>4 DEF AdvanceWorldTime
<1>5. ASSUME NEW id, Rest(id)
      PROVE  WithinTime'
  <2>1. TimePasses(Short) \/ TimePasses(Long)
    BY <1>5 DEF Rest, ShortRest, LongRest, Takes
  <2> QED
    BY <1>3, <2>1
<1>6. CASE CompanionsNext
  BY <1>0, <1>6, CreaturesKeepTime
<1>7. CASE BodyNext
  <2>1. UNCHANGED clockVars
    BY <1>7 DEF BodyNext, HeroHurt, HeroHealed, HeroBolstered, HeroSaves,
       HeroStabilized, HeroSuffocates, HeroBreathes, HeroTires, FinishRecovery,
       SpendHitDie, Becomes
  <2> QED
    BY <1>0, <2>1
<1>8. CASE MagicNext
  <2>1. UNCHANGED clockVars
    BY <1>8 DEF MagicNext, Cast, CreateSlot, ConvertSlot, SpendPoints, Conjures
  <2> QED
    BY <1>0, <2>1
<1> QED
  BY <1>1, <1>2, <1>4, <1>5, <1>6, <1>7, <1>8 DEF Next

LEMMA GreaterOfTwo ==
  ASSUME NEW a \in Nat, NEW b \in Nat
  PROVE  Max({a, b}) \in {a, b}
<1>1. \E x \in {a, b} : \A y \in {a, b} : x >= y
  OBVIOUS
<1> QED
  BY <1>1 DEF Max

\* Half the Hit Dice come back with a long rest.
LEMMA DiceStep ==
  ASSUME Diced, Next
  PROVE  Diced'
<1> USE DEF Diced
<1>1. MaxDice \in Nat /\ dice \in Nat /\ dice <= MaxDice
  BY HeroNumbers
<1>2. ASSUME NEW id, NEW fed, LongRest(id, fed)
      PROVE  Diced'
  <2> DEFINE back == Max({1, MaxDice \div 2})
  <2>1. MaxDice \div 2 \in Nat
    BY <1>1
  <2>2. back \in Nat
    BY <2>1, GreaterOfTwo
  <2>3. dice' = IF dice <= back THEN 0 ELSE dice - back
    BY <1>2 DEF LongRest
  <2> HIDE DEF back
  <2> QED
    BY <1>1, <2>2, <2>3
<1>3. ASSUME NEW id, NEW n, SpendHitDie(id, n)
      PROVE  Diced'
  BY <1>1, <1>3 DEF SpendHitDie
<1>4. ASSUME NEW id, Rest(id)
      PROVE  Diced'
  BY <1>2, <1>4 DEF Rest, ShortRest
<1>5. ASSUME BodyNext
      PROVE  Diced'
  BY <1>3, <1>5 DEF BodyNext, HeroHurt, HeroHealed, HeroBolstered, HeroSaves,
     HeroStabilized, HeroSuffocates, HeroBreathes, HeroTires, FinishRecovery, Becomes
<1>6. ASSUME MagicNext
      PROVE  Diced'
  BY <1>6 DEF MagicNext, Cast, CreateSlot, ConvertSlot, SpendPoints, Conjures
<1>7. ASSUME NEW hours, AdvanceWorldTime(hours)
      PROVE  Diced'
  BY <1>7 DEF AdvanceWorldTime, HeroWaits
<1>8. StartEncounter \/ CloseCombat \/ UNCHANGED restVars => Diced'
  BY DEF StartEncounter, CloseCombat, restVars
<1> QED
  BY <1>4, <1>5, <1>6, <1>7, <1>8 DEF Next

-----------------------------------------------------------------------------
\* The rows stay in the combats they are of.
Stay == /\ DOMAIN rows' = DOMAIN rows
        /\ \A i \in DOMAIN rows : rows'[i].in = rows[i].in

\* And they are whose they were.
Undisturbed == Stay /\ \A i \in DOMAIN rows : rows'[i].mine = rows[i].mine

LEMMA StayPlaced ==
  ASSUME CInv, CInv', Placed, Stay
  PROVE  Placed'
<1> DEFINE n == Len(rows)
           m == Len(rows')
<1>1. n \in Nat /\ DOMAIN rows = 1 .. n /\ m \in Nat /\ DOMAIN rows' = 1 .. m
  BY DEF CInv, Typed
<1>2. n = m
  BY <1>1 DEF Stay
<1> QED
  BY <1>2 DEF Stay, Placed

LEMMA PutStays ==
  ASSUME Typed, NEW i \in DOMAIN rows, NEW k, Put(i, k)
  PROVE  Undisturbed
<1> DEFINE R == [in : Nat, mine : BOOLEAN, k : Combatants]
           r == [rows[i] EXCEPT !.k = k]
<1>1. rows \in Seq(R)
  BY DEF Typed
<1>2. rows[i] \in R
  <2> HIDE DEF R
  <2> QED
    BY <1>1
<1>3. r.in = rows[i].in /\ r.mine = rows[i].mine
  BY <1>2
<1>4. rows' = [rows EXCEPT ![i] = r]
  BY DEF Put
<1> HIDE DEF r, R
<1> QED
  BY <1>3, <1>4 DEF Stay, Undisturbed

\* A row more, of the active combat.
LEMMA MorePlaced ==
  ASSUME CInv, WithinTime, Placed, NEW s, s \in Seq([in : Nat, mine : BOOLEAN, k : Combatants]),
         Len(s) = Len(rows), DOMAIN s = DOMAIN rows,
         \A i \in DOMAIN rows : s[i].in = rows[i].in,
         NEW r \in [in : Nat, mine : BOOLEAN, k : Combatants],
         r.in = fights, rows' = Append(s, r), fighting, Len(rows) < MaxRows
  PROVE  Placed'
<1> DEFINE R == [in : Nat, mine : BOOLEAN, k : Combatants]
<1> HIDE DEF R
<1>1. /\ Len(rows') = Len(s) + 1 /\ Len(s) \in Nat
      /\ DOMAIN s = 1 .. Len(s) /\ DOMAIN rows' = 1 .. Len(s) + 1
      /\ \A i \in 1 .. Len(s) : rows'[i] = s[i]
      /\ rows'[Len(s) + 1] = r
  <2>1. s \in Seq(R) /\ r \in R
    BY DEF R
  <2> QED
    BY <2>1, AppendFacts
<1>2. \A i \in DOMAIN rows' : rows'[i].in >= 1
  <2> SUFFICES ASSUME NEW i \in DOMAIN rows'
               PROVE  rows'[i].in >= 1
    OBVIOUS
  <2>1. CASE i \in DOMAIN rows
    BY <1>1, <2>1 DEF Placed
  <2>2. CASE i = Len(s) + 1
    BY <1>1, <2>2 DEF WithinTime
  <2> QED
    BY <1>1, <2>1, <2>2
<1>3. Len(rows') <= MaxRows
  BY <1>1, CompanionNumbers
<1> QED
  BY <1>2, <1>3 DEF Placed

LEMMA JoinPlaced ==
  ASSUME CInv, WithinTime, Placed, NEW full \in Fulls, Join(full)
  PROVE  Placed' /\ link' = link
<1> DEFINE r == [in |-> fights, mine |-> FALSE, k |-> Creature(full)]
<1>1. r \in [in : Nat, mine : BOOLEAN, k : Combatants] /\ r.in = fights
  <2>1. Creature(full) \in Combatants
    BY CompanionNumbers, CreatureLegal
  <2> QED
    BY <2>1 DEF CInv, Typed
<1>2. rows' = Append(rows, r) /\ fighting /\ Len(rows) < MaxRows /\ link' = link
  BY DEF Join
<1>3. rows \in Seq([in : Nat, mine : BOOLEAN, k : Combatants])
  BY DEF CInv, Typed
<1> HIDE DEF r
<1> QED
  BY <1>1, <1>2, <1>3, MorePlaced

LEMMA EnterPlaced ==
  ASSUME CInv, CInv', WithinTime, Placed, NEW full \in Fulls, Enter(full)
  PROVE  Placed' /\ link' = link
<1> DEFINE k == IF Fresh THEN Creature(full) ELSE Entering(actor)
           r == [in |-> fights, mine |-> TRUE, k |-> k]
<1>1. /\ rows' = Append(Retired, r) /\ fighting /\ Len(rows) < MaxRows
      /\ link' = link /\ actor' = k
  BY DEF Enter
<1> HIDE DEF k
<1>2. Mine' # {}
  <2>1. Len(Retired) + 1 \in DOMAIN rows' /\ rows'[Len(Retired) + 1] = r
    <3>1. Retired \in Seq([in : Nat, mine : BOOLEAN, k : Combatants])
      BY RetiredFacts DEF CInv
    <3> QED
      BY <1>1, <3>1
  <2> QED
    BY <2>1 DEF Mine
<1>3. k \in Combatants
  BY <1>1, <1>2 DEF CInv, Typed, Embodied
<1>4. r \in [in : Nat, mine : BOOLEAN, k : Combatants] /\ r.in = fights
  BY <1>3 DEF CInv, Typed
<1>5. /\ Retired \in Seq([in : Nat, mine : BOOLEAN, k : Combatants])
      /\ Len(Retired) = Len(rows) /\ DOMAIN Retired = DOMAIN rows
      /\ \A i \in DOMAIN rows : Retired[i].in = rows[i].in
  BY RetiredFacts DEF CInv
<1> HIDE DEF r
<1> QED
  BY <1>1, <1>4, <1>5, MorePlaced

LEMMA StartStays ==
  ASSUME CInv, NEW i \in DOMAIN rows, NEW zero, NEW policy, NEW claims,
         StartEffect(i, zero, policy, claims)
  PROVE  Stay /\ link'.on = "combatant"
<1> DEFINE R == [in : Nat, mine : BOOLEAN, k : Combatants]
           k == [rows[i].k EXCEPT !.zero = IF zero = "none" THEN @ ELSE zero]
           durable == claims \/ rows[i].mine
           voice == IF Mine = {} THEN i ELSE Speaker
           one == [rows EXCEPT ![i].k = k]
           two == [one EXCEPT ![voice].mine = @ \/ durable]
<1>1. \A j \in DOMAIN rows : rows[j] \in R
  <2>1. rows \in Seq(R)
    BY DEF CInv, Typed
  <2> HIDE DEF R
  <2> QED
    BY <2>1
<1>2. rows' = two /\ link'.on = "combatant"
  BY DEF StartEffect
<1> HIDE DEF k, durable, voice
<1>3. DOMAIN one = DOMAIN rows
      /\ \A j \in DOMAIN rows : one[j].in = rows[j].in /\ DOMAIN one[j] = DOMAIN rows[j]
  BY <1>1
<1>4. \A j \in DOMAIN rows : "in" \in DOMAIN one[j]
  BY <1>1, <1>3
<1> HIDE DEF one, R
<1>5. DOMAIN two = DOMAIN rows /\ \A j \in DOMAIN rows : two[j].in = one[j].in
  BY <1>3, <1>4
<1> HIDE DEF two
<1> QED
  BY <1>2, <1>3, <1>5 DEF Stay

LEMMA ActStays ==
  ASSUME CInv, NEW i \in DOMAIN rows, Act(i)
  PROVE  Undisturbed /\ (link' = link \/ link' = NoLink)
<1>1. ASSUME NEW k, Write(i, k)
      PROVE  Undisturbed /\ (link' = link \/ link' = NoLink)
  BY <1>1, PutStays DEF Write, Settle, CInv
<1>2. ASSUME NEW n \in Wounds, NEW crit \in BOOLEAN, Hurt(i, n, crit)
      PROVE  Undisturbed /\ (link' = link \/ link' = NoLink)
  BY <1>1, <1>2 DEF Hurt
<1>3. ASSUME NEW n \in Wounds, KnockOut(i, n) \/ Treat(i, n)
      PROVE  Undisturbed /\ (link' = link \/ link' = NoLink)
  BY <1>1, <1>3 DEF KnockOut, Treat
<1>4. ASSUME NEW status \in Declared, SetStatus(i, status)
      PROVE  Undisturbed /\ (link' = link \/ link' = NoLink)
  BY <1>1, <1>4 DEF SetStatus
<1>5. ASSUME OptIntoDeathSaves(i)
      PROVE  Undisturbed /\ (link' = link \/ link' = NoLink)
  BY <1>1, <1>5 DEF OptIntoDeathSaves
<1>6. ASSUME NEW save \in Saves, DeathSave(i, save)
      PROVE  Undisturbed /\ (link' = link \/ link' = NoLink)
  BY <1>1, <1>6 DEF DeathSave
<1>7. ASSUME Steady(i) \/ Drop(i) \/ Breath(i)
      PROVE  Undisturbed /\ (link' = link \/ link' = NoLink)
  BY <1>1, <1>7 DEF Steady, Drop, Breath
<1>8. ASSUME NEW level \in Levels, AdjustExhaustion(i, level)
      PROVE  Undisturbed /\ (link' = link \/ link' = NoLink)
  BY <1>1, <1>8 DEF AdjustExhaustion
<1> QED
  BY <1>2, <1>3, <1>4, <1>5, <1>6, <1>7, <1>8 DEF Act

LEMMA EndStays ==
  ASSUME CInv, EndEffect
  PROVE  Undisturbed /\ link' = NoLink
<1>1. rows' = rows => Undisturbed
  BY DEF Stay, Undisturbed
<1>2. CASE link.on = "combatant" /\ Put(link.row, Removed(rows[link.row].k))
  BY <1>2, PutStays DEF CInv, Linked, EndEffect
<1>3. CASE ActorRow # {} /\ Put(Max(ActorRow), Removed(rows[Max(ActorRow)].k))
  BY <1>3, PutStays, ActorRowFacts DEF CInv, EndEffect
<1> QED
  BY <1>1, <1>2, <1>3 DEF EndEffect

LEMMA CompanionsPlaced ==
  ASSUME CInv, CInv', WithinTime, Placed, Named, CompanionsNext
  PROVE  Placed' /\ Named'
<1>1. ASSUME Stay, link' = link \/ link' = NoLink \/ link'.on = "combatant"
      PROVE  Placed' /\ Named'
  BY <1>1, StayPlaced DEF Named, NoLink
<1>2. ASSUME NEW full \in Fulls, Join(full) \/ Enter(full)
      PROVE  Placed' /\ Named'
  BY <1>2, JoinPlaced, EnterPlaced DEF Named
<1>3. ASSUME NEW i \in DOMAIN rows, Act(i)
      PROVE  Placed' /\ Named'
  BY <1>1, <1>3, ActStays DEF Undisturbed
<1>4. ASSUME NEW i \in DOMAIN rows, NEW zero, NEW policy, NEW claims,
             StartEffect(i, zero, policy, claims)
      PROVE  Placed' /\ Named'
  BY <1>1, <1>4, StartStays
<1>5. EndEffect => Placed' /\ Named'
  BY <1>1, EndStays DEF Undisturbed
<1>6. Recast => Placed' /\ Named'
  BY <1>1 DEF Recast, Stay
<1> QED
  BY <1>2, <1>3, <1>4, <1>5, <1>6 DEF CompanionsNext

LEMMA RecoveryStays ==
  ASSUME CInv, NEW at, CompanionsRecover(at)
  PROVE  Undisturbed /\ link' = link
<1> DEFINE R == [in : Nat, mine : BOOLEAN, k : Combatants]
<1>1. /\ rows' = [i \in DOMAIN rows |-> [rows[i] EXCEPT !.k = Woken(i, at)]]
      /\ link' = link
  BY DEF CompanionsRecover, Woken
<1>2. ASSUME NEW i \in DOMAIN rows
      PROVE  rows'[i].in = rows[i].in /\ rows'[i].mine = rows[i].mine
  <2> DEFINE w == Woken(i, at)
  <2>1. rows \in Seq(R)
    BY DEF CInv, Typed
  <2>2. rows[i] \in R
    <3> HIDE DEF R
    <3> QED
      BY <2>1
  <2>3. rows'[i] = [rows[i] EXCEPT !.k = w]
    BY <1>1
  <2> HIDE DEF w
  <2> QED
    BY <2>2, <2>3
<1> QED
  BY <1>1, <1>2 DEF Stay, Undisturbed

LEMMA PlacedStep ==
  ASSUME CInv, WithinTime, Placed, Named, Next
  PROVE  Placed' /\ Named'
<1>0. CInv'
  BY CStep
<1>1. ASSUME rows' = rows, link' = link
      PROVE  Placed' /\ Named'
  BY <1>1 DEF Placed, Named
<1>2. CASE StartEncounter
  BY <1>1, <1>2 DEF StartEncounter
<1>3. ASSUME CloseCombat
      PROVE  Placed' /\ Named'
  <2>1. rows' = rows /\ link' = IF link.on # "combatant" THEN link
                     ELSE IF link.claims THEN [link EXCEPT !.on = "actor", !.row = 0]
                     ELSE NoLink
    BY <1>3 DEF CloseCombat, CompanionsLeave
  <2>2. [link EXCEPT !.on = "actor", !.row = 0].row = 0
    BY DEF CInv, Typed
  <2> QED
    BY <2>1, <2>2 DEF Placed, Named, NoLink
<1>4. ASSUME NEW at, CompanionsRecover(at)
      PROVE  Placed' /\ Named'
  BY <1>0, <1>4, RecoveryStays, StayPlaced DEF Named, Undisturbed
<1>5. ASSUME NEW hours, AdvanceWorldTime(hours)
      PROVE  Placed' /\ Named'
  BY <1>4, <1>5 DEF AdvanceWorldTime
<1>6. ASSUME NEW id, Rest(id)
      PROVE  Placed' /\ Named'
  BY <1>4, <1>6 DEF Rest
<1>7. CASE CompanionsNext
  BY <1>0, <1>7, CompanionsPlaced
<1>8. UNCHANGED companionVars => Placed' /\ Named'
  BY <1>1 DEF companionVars
<1> QED
  BY <1>2, <1>3, <1>5, <1>6, <1>7, <1>8 DEF Next

-----------------------------------------------------------------------------
LEMMA BoundedInit == Init => Bounded
<1> SUFFICES ASSUME Init
             PROVE  Bounded
  OBVIOUS
<1>1. /\ clock = 0 /\ fights = 0 /\ fighting = FALSE /\ rows = <<>> /\ link = NoLink
      /\ dice = 0 /\ magic = FullMagic
  BY DEF Init, ClockInit, CompanionsInit, RestsInit
<1>2. WithinTime
  BY <1>1, ClockBounds DEF WithinTime
<1>3. Placed /\ Named
  BY <1>1, CompanionNumbers DEF Placed, Named, NoLink
<1>4. Diced
  BY <1>1, HeroNumbers DEF Diced
<1>5. Purse
  BY <1>1, HeroNumbers, Slots DEF Purse, FullMagic
<1> QED
  BY <1>2, <1>3, <1>4, <1>5 DEF Bounded

LEMMA BoundedStep ==
  ASSUME CInv, HInv, Bounded, Next
  PROVE  Bounded'
<1>1. WithinTime' /\ Placed' /\ Named' /\ Diced'
  BY TimeIsKept, PlacedStep, DiceStep DEF Bounded, CInv
<1>2. Purse'
  BY MagicStep DEF Bounded, HInv, RestsKept
<1> QED
  BY <1>1, <1>2 DEF Bounded

LEMMA BoundedStill == Bounded /\ UNCHANGED vars => Bounded'
BY DEF Bounded, WithinTime, Placed, Named, Diced, Purse, vars

LEMMA RowsBounded ==
  ASSUME CInv, Bounded
  PROVE  CompanionsTypeOK
<1> DEFINE R == [in : 1 .. MaxFights, mine : BOOLEAN, k : Combatants]
           n == Len(rows)
<1>1. n \in Nat /\ DOMAIN rows = 1 .. n /\ rows = [i \in 1 .. n |-> rows[i]]
  BY DEF CInv, Typed
<1>2. ASSUME NEW i \in 1 .. n
      PROVE  rows[i] \in R
  <2> DEFINE Q == [in : Nat, mine : BOOLEAN, k : Combatants]
  <2>1. rows \in Seq(Q)
    BY DEF CInv, Typed
  <2>2. rows[i] \in Q
    <3> HIDE DEF Q
    <3> QED
      BY <1>1, <2>1
  <2>3. rows[i].in \in 1 .. MaxFights
    BY <1>1, <2>2, ClockBounds DEF CInv, Typed, Ordered, Bounded, WithinTime, Placed
  <2> QED
    BY <2>2, <2>3
<1>3. rows \in Seq(R)
  <2> HIDE DEF R
  <2> QED
    BY <1>1, <1>2
<1>4. link \in Links
  <2>1. link \in [on : {"nothing", "combatant", "actor"}, row : Nat,
                  claims : BOOLEAN, policy : {"remove", "release"}]
    BY DEF CInv, Typed
  <2>2. link.on = "combatant" => link.row \in 1 .. n /\ n <= MaxRows
    BY <1>1 DEF CInv, Linked, Bounded, Placed
  <2>3. link.row \in 0 .. MaxRows
    BY <1>1, <2>1, <2>2, CompanionNumbers DEF Bounded, Named
  <2> QED
    BY <2>1, <2>3 DEF Links
<1> QED
  BY <1>3, <1>4 DEF CompanionsTypeOK, CInv, Typed, Bounded, Placed

LEMMA TypesBounded ==
  ASSUME CInv, HInv, Bounded
  PROVE  TypeOK
<1>1. ClockTypeOK
  BY ClockBounds DEF ClockTypeOK, CInv, Typed, Bounded, WithinTime
<1>2. RestsTypeOK
  BY DEF RestsTypeOK, HInv, RestsKept, WindowIsNow, Bounded, Diced, Purse
<1> QED
  BY <1>1, <1>2, RowsBounded DEF TypeOK

-----------------------------------------------------------------------------
\* No write of a combatant, of the durable actor or of the clock ever leaves a
\* creature in a state assertCombatantLifecycle or the clock's own check
\* refuses, for any number of creatures, combats, hit points and hours.
THEOREM RowsStayLegal == Spec => []RowsLegal
<1>1. CInv => RowsLegal
  BY DEF CInv
<1> QED
  BY CInit, CStep, CStutter, <1>1, PTL DEF Spec

\* No call leaves a creature or the hero in a state the engine's assertions
\* refuse (assertCombatantLifecycle, assertCharacterLifecycle).
THEOREM BodiesStayLegal == Spec => []BodiesLegal
<1>1. RowsLegal /\ HeroSound => BodiesLegal
  BY DEF BodiesLegal
<1> QED
  BY RowsStayLegal, HeroStaysSound, <1>1, PTL

\* While the actor stands in the active combat its snapshot is what its row
\* says, whatever wrote the row (syncCombatantActor).
THEOREM ActorStaysMirrored == Spec => []ActorMirrors
<1>1. CInv => ActorMirrors
  BY DEF CInv
<1> QED
  BY CInit, CStep, CStutter, <1>1, PTL DEF Spec

\* Where a new creature cannot claim an actor that has rows of its own, what an
\* effect takes out of play when it ends is never dying or stable
\* (removeCombatantFromPlay).
THEOREM OwnedStaysUp ==
  ASSUME Reclaim = FALSE
  PROVE  Spec => []OwnedNeverDown
<1>1. CInv => OwnedNeverDown
  BY Removables
<1> QED
  BY CInit, CStep, CStutter, <1>1, PTL DEF Spec

\* The dead stay dead or are gone, the gone do not come back on the same row,
\* and the dead hero stays dead (I8 and I9 of both lifecycles).
THEOREM DeathStaysFinal == Spec => DeathIsFinal
<1>1. CInv /\ HInv /\ [Next]_vars =>
        [/\ \A i \in DOMAIN rows :
              /\ rows[i].k.status = "dead" => rows'[i].k.status \in {"dead", "absent"}
              /\ rows[i].k.status = "absent" => rows'[i].k.status = "absent"
         /\ hero.life = "dead" => hero'.life = "dead"]_vars
  BY CStep, HStep DEF BodiesGoOn, HeroGoesOn
<1>2. HInv /\ UNCHANGED vars => HInv'
  BY DEF HInv, HeroSound, RestsKept, LongRestsApart, WindowIsNow, vars
<1> QED
  BY CInit, CStep, CStutter, HInit, HStep, <1>1, <1>2, PTL
  DEF Spec, DeathIsFinal

\* No stable creature, actor or hero still waits at an hour that has come,
\* whatever moved the clock there and wherever they are
\* (resolveCombatantRecoveries, resolveStableRecoveries).
THEOREM EverybodyRecovers == Spec => []RecoveredOnTime
<1>1. CInv /\ HInv /\ OnTime /\ UNCHANGED vars => OnTime' /\ HInv'
  BY DEF OnTime, BeastsOnTime, Ahead, Echoes, HInv, HeroSound, RestsKept,
     LongRestsApart, WindowIsNow, vars
<1> QED
  BY CInit, CStep, CStutter, HInit, HStep, TimeInit, TimeStep, NobodyOverdue, <1>1, PTL
  DEF Spec

LEMMA BoundsStay == Spec => []Bounded
<1>1. CInv /\ HInv /\ UNCHANGED vars => HInv'
  BY DEF HInv, HeroSound, RestsKept, LongRestsApart, WindowIsNow, vars
<1> QED
  BY CInit, CStep, CStutter, HInit, HStep, BoundedInit, BoundedStep, BoundedStill,
     <1>1, PTL DEF Spec

\* The clock, the rows, what owns them, the hero's Hit Dice, points and slots
\* stay within their types and bounds through any campaign: a row is always of
\* a combat that was started, a long rest never gives back more Hit Dice than
\* were spent, and points converted never overflow their maximum.
THEOREM TypesStayOK == Spec => []TypeOK
<1>1. CInv /\ HInv /\ UNCHANGED vars => HInv'
  BY DEF HInv, HeroSound, RestsKept, LongRestsApart, WindowIsNow, vars
<1> QED
  BY CInit, CStep, CStutter, HInit, HStep, BoundsStay, TypesBounded, <1>1, PTL DEF Spec
=============================================================================
