-------------------------- MODULE TurnEngineProofs --------------------------
(***************************************************************************)
(* TLAPS proofs about TurnEngine, for every set of turns, every bound and  *)
(* every history of upgrades: its types, and that only accepted candidates *)
(* reach the database and a pending replay can be resumed.                 *)
(***************************************************************************)
EXTENDS TurnRefinement, FiniteSetTheorems, SequenceTheorems, TLAPS

-----------------------------------------------------------------------------
\* What the tools of a candidate may have changed since the turn began: the
\* chronology row, and this candidate's own state writes.
Touched(s, w) ==
  /\ s.replay = disk.replay
  /\ s.canon.trace = disk.canon.trace
  /\ s.canon.rulings = disk.canon.rulings
  /\ s.canon.world \in {disk.canon.world, disk.canon.world \cup w}

\* Outside a turn nothing is uncommitted; within one, both savepoints can
\* still bring back what the disk holds, and the turn has no trace yet.
Savepoints ==
  /\ ~ InTurn => db = disk
  /\ InTurn =>
       /\ before = disk.canon
       /\ Touched(attemptDb, {})
       /\ Touched(db, {Candidate})
       /\ disk.canon.trace[turn] = NoCand

\* A snapshot that a dispute may restore has the traces of every turn but the
\* one it would take back.
SnapshotLacksTurn ==
  disk.replay.status = "available" =>
    /\ disk.replay.turn \in Turns
    /\ disk.replay.before.trace =
         [disk.canon.trace EXCEPT ![disk.replay.turn] = NoCand]

\* What an opening writes only adds up.
OnlyForward ==
  Pending(disk) => /\ disk.canon.schema >= disk.replay.hash.schema
                   /\ disk.canon.party >= disk.replay.hash.party

\* What the committed store satisfies.
Committed ==
  /\ OnlyAcceptedWrites /\ PendingResumable
  /\ SnapshotLacksTurn /\ OnlyForward

\* The inductive invariant.
IInv == TypeOK /\ Committed /\ Savepoints

-----------------------------------------------------------------------------
\* The stores the operations build are stores.

LEMMA CandsFacts ==
  /\ NoCand \in Cands /\ Player \in Cands
  /\ Ordinals \subseteq Nat
  /\ (Runs \cup {0}) \subseteq Nat
<1>1. MaxAttempts \in Nat /\ 1 <= MaxAttempts
  BY BoundsAssumption
<1>2. NoCand \in Cands /\ Player \in Cands
  BY <1>1 DEF NoCand, Player, Cands
<1>3. Cardinality(Turns) \in Nat
  BY TurnsAssumption, FS_CardinalityType
<1>4. Ordinals \subseteq Nat
  BY <1>3 DEF Ordinals
<1> QED BY <1>2, <1>4, RunsAssumption

LEMMA EmptyStoreType == EmptyStore \in Stores
<1>1. EmptyCanon \in Canons
  BY CandsFacts DEF EmptyCanon, Canons
<1> QED BY <1>1 DEF EmptyStore, Stores, Replays

LEMMA WithCanonType ==
  ASSUME NEW s \in Stores, NEW c \in Canons
  PROVE  [s EXCEPT !.canon = c] \in Stores
BY DEF Stores

LEMMA ResolvedType ==
  ASSUME NEW c \in Canons, NEW t \in Turns, NEW n \in Nat
  PROVE  Resolved(c, t, n) \in Canons
BY DEF Canons, Resolved

LEMMA RolledBackType ==
  ASSUME disk \in Stores, NEW t \in Turns
  PROVE  RolledBack(t) \in Stores
BY DEF Stores, RolledBack

LEMMA ChangedType ==
  ASSUME NEW s \in Stores
  PROVE  Changed(s) \in Stores
<1> DEFINE c == [s.canon EXCEPT !.changes = @ + 1]
<1>1. s.canon \in Canons
  BY DEF Stores
<1>2. c \in Canons
  BY <1>1 DEF Canons
<1>3. Changed(s) = [s EXCEPT !.canon = c]
  BY DEF Changed
<1> HIDE DEF c
<1> QED BY <1>2, <1>3, WithCanonType

LEMMA AfterToolsType ==
  ASSUME NEW s \in Stores, Candidate \in Cands, NEW r \in AfterTools(s)
  PROVE  r \in Stores
<1> DEFINE c == [s.canon EXCEPT !.world = @ \cup {Candidate}]
<1>1. s.canon \in Canons
  BY DEF Stores
<1>2. c \in Canons
  BY <1>1 DEF Canons
<1>3. r \in {s, [s EXCEPT !.canon = c]}
  BY DEF AfterTools
<1> HIDE DEF c
<1> QED BY <1>2, <1>3, WithCanonType

LEMMA AcceptedType ==
  ASSUME NEW s \in Stores, Candidate \in Cands, turn \in Turns, before \in Canons
  PROVE  Accepted(s) \in Stores
<1> DEFINE c == [s.canon EXCEPT
                   !.world = @ \cup {Candidate},
                   !.trace[turn] = Candidate,
                   !.rulings = [a \in Ambiguities |->
                                  IF a \in proposed THEN Candidate ELSE @[a]]]
<1>1. s.canon \in Canons
  BY DEF Stores
<1>2. c \in Canons
  BY <1>1 DEF Canons
<1>3. StateHash([s EXCEPT !.canon = c]) = c
  BY DEF StateHash, ReplaySnapshot, Stores
<1>4. ReplayStatus(s, turn) \in {"replayed", "available"}
  BY DEF ReplayStatus
<1> HIDE DEF c
<1> DEFINE rp == [status |-> ReplayStatus(s, turn), turn |-> turn,
                  before |-> before, hash |-> c]
<1>5. Accepted(s) = [s EXCEPT !.canon = c, !.replay = rp]
  BY <1>3 DEF Accepted, c
<1>6. rp \in Replays
  BY <1>2, <1>4 DEF Replays
<1> HIDE DEF rp
<1> QED BY <1>2, <1>5, <1>6 DEF Stores

LEMMA ReopenedType ==
  ASSUME NEW s \in Stores, NEW t \in Turns, NEW n \in Nat
  PROVE  Reopened(s, t, n) \in Stores
<1> DEFINE c == [Resolved(s.replay.before, t, n) EXCEPT !.corrective = @ \cup {t}]
<1>1. Resolved(s.replay.before, t, n) \in Canons
  BY ResolvedType DEF Stores, Replays
<1>2. c \in Canons
  BY <1>1 DEF Canons
<1>3. StateHash([s EXCEPT !.canon = c]) = c
  BY DEF StateHash, ReplaySnapshot, Stores
<1> HIDE DEF c
<1> DEFINE rp == [s.replay EXCEPT !.status = "pending", !.hash = c]
           ab == [s.abandoned EXCEPT ![t] = @ + 1]
<1>4. Reopened(s, t, n) =
        [s EXCEPT !.canon = c, !.abandoned = ab, !.replay = rp]
  BY <1>3 DEF Reopened, c
<1>5. s.replay \in Replays /\ s.abandoned \in [Turns -> Nat]
  BY DEF Stores
<1>6. rp \in Replays
  BY <1>2, <1>5 DEF Replays
<1>7. ab \in [Turns -> Nat]
  BY <1>5
<1> HIDE DEF rp, ab
<1> QED BY <1>2, <1>4, <1>6, <1>7 DEF Stores

-----------------------------------------------------------------------------
\* Types

LEMMA InitType == Init => TypeOK
<1>1. MaxAttempts \in Nat /\ MaxToolRounds \in Nat
  BY BoundsAssumption
<1>2. EmptyStore \in Stores /\ EmptyCanon \in Canons
  BY EmptyStoreType DEF EmptyStore, Stores
<1>3. Init => audited \in BOOLEAN
  BY DEF Init
<1>4. Init => attempt \in 0 .. MaxAttempts /\ rounds \in 0 .. MaxToolRounds
  BY <1>1 DEF Init
<1>5. Init => /\ db \in Stores /\ disk \in Stores /\ attemptDb \in Stores
              /\ before \in Canons
  BY <1>2 DEF Init
<1> QED BY <1>3, <1>4, <1>5 DEF Init, TypeOK, InTurn

\* A turn that ends in an idle process with store s.
LEMMA EndedType ==
  ASSUME TypeOK, NEW s \in Stores, Commit(s), NoLocals,
         pc' \in {"idle", "down"}, audited' = audited
  PROVE  TypeOK'
<1>1. MaxAttempts \in Nat /\ MaxToolRounds \in Nat
  BY BoundsAssumption
<1>2. EmptyStore \in Stores /\ EmptyCanon \in Canons
  BY EmptyStoreType DEF EmptyStore, Stores
<1> QED BY <1>1, <1>2 DEF TypeOK, InTurn, NoLocals, Commit

\* A store committed between turns.
LEMMA CommittedType ==
  ASSUME TypeOK, NEW s \in Stores, Commit(s), UNCHANGED turnVars,
         pc' \in {"idle", "down"}, audited' \in BOOLEAN
  PROVE  TypeOK'
BY DEF TypeOK, InTurn, Commit, turnVars

LEMMA BeginType ==
  ASSUME TypeOK, NEW t \in Turns, Begin(t)
  PROVE  TypeOK'
<1>1. MaxAttempts \in Nat /\ 1 <= MaxAttempts /\ MaxToolRounds \in Nat
  BY BoundsAssumption
<1>2. db.canon \in Canons
  BY DEF TypeOK, Stores
<1>3. PICK n \in Ordinals, r \in Runs :
        /\ before' = ReplaySnapshot(db)
        /\ db' = [db EXCEPT !.canon = Resolved(@, t, n)]
        /\ attemptDb' = db'
        /\ run' = r
  BY DEF Begin
<1>4. Resolved(db.canon, t, n) \in Canons
  BY <1>2, CandsFacts, ResolvedType
<1>5. db' = [db EXCEPT !.canon = Resolved(db.canon, t, n)]
  BY <1>3
<1>6. db' \in Stores
  BY <1>4, <1>5, WithCanonType DEF TypeOK
<1>7. before' \in Canons
  BY <1>2, <1>3 DEF ReplaySnapshot
<1>8. run' \in Runs /\ run' # 0
  BY <1>3, RunsAssumption
<1> QED BY <1>1, <1>3, <1>6, <1>7, <1>8 DEF Begin, TypeOK, InTurn

LEMMA CandidateType == TypeOK => Candidate \in Cands
BY DEF TypeOK, Candidate, Cands

LEMMA FailTurnType ==
  ASSUME TypeOK, InTurn, FailTurn
  PROVE  TypeOK'
<1>1. RolledBack(turn) \in Stores
  BY RolledBackType DEF TypeOK
<1> QED BY <1>1, EndedType DEF FailTurn

LEMMA AcceptedTurnType ==
  ASSUME TypeOK, InTurn, NEW s \in Stores, Commit(Accepted(s)), pc' = "idle",
         NoLocals, audited' = audited
  PROVE  TypeOK'
<1>1. Accepted(s) \in Stores
  BY CandidateType, AcceptedType DEF TypeOK
<1> QED BY <1>1, EndedType

LEMMA NextType == TypeOK /\ [Next]_vars => TypeOK'
<1> SUFFICES ASSUME TypeOK, [Next]_vars PROVE TypeOK'
  OBVIOUS
<1>0. db \in Stores /\ disk \in Stores /\ disk.canon \in Canons
  BY DEF TypeOK, Stores
<1>1. ASSUME NEW t \in Turns, Submit(t) PROVE TypeOK'
  <2>1. CASE Begin(t)
    BY <2>1, BeginType
  <2>2. CASE Refuse(t)
    <3>1. RolledBack(t) \in Stores
      BY <1>0, RolledBackType
    <3> QED BY <3>1, <2>2, <1>1, CommittedType DEF Refuse, Submit, TypeOK
  <2> QED BY <1>1, <2>1, <2>2 DEF Submit
<1>2. ASSUME NEW t \in Turns, Dispute(t) PROVE TypeOK'
  <2>1. PICK n \in Ordinals : Commit(Reopened(disk, t, n))
    BY <1>2 DEF Dispute
  <2>2. Reopened(disk, t, n) \in Stores
    BY <1>0, CandsFacts, ReopenedType
  <2> QED BY <1>2, <2>1, <2>2, CommittedType DEF Dispute, TypeOK
<1>3. ASSUME NEW t \in Turns, Retry(t) PROVE TypeOK'
  BY <1>3, BeginType DEF Retry
<1>4. CASE ToolRound
  <2>1. db' \in Stores
    BY <1>0, <1>4, CandidateType, AfterToolsType DEF ToolRound
  <2>2. proposed' \subseteq Ambiguities
    BY <1>4 DEF ToolRound, AfterProposals, Proposals, TypeOK
  <2>3. rounds' \in 0 .. MaxToolRounds
    BY <1>4, BoundsAssumption DEF ToolRound, TypeOK
  <2> QED BY <1>4, <2>1, <2>2, <2>3 DEF ToolRound, TypeOK, InTurn
<1>5. CASE Narrate
  <2>1. PICK s \in AfterTools(db) :
          IF audited
          THEN /\ db' = s /\ proposed' \in AfterProposals
               /\ pc' = "audit" /\ rounds' = 0
               /\ UNCHANGED <<disk, attemptDb, turn, run, attempt, seen, before>>
          ELSE Commit(Accepted(s)) /\ pc' = "idle" /\ NoLocals
    BY <1>5 DEF Narrate
  <2>2. s \in Stores
    BY <1>0, CandidateType, AfterToolsType
  <2>3. InTurn /\ audited' = audited
    BY <1>5 DEF Narrate, InTurn
  <2>4. CASE audited
    <3>1. proposed' \subseteq Ambiguities
      BY <2>1, <2>4 DEF AfterProposals, Proposals, TypeOK
    <3> QED BY <2>1, <2>2, <2>3, <2>4, <3>1, BoundsAssumption DEF TypeOK, InTurn
  <2>5. CASE ~ audited
    BY <2>1, <2>2, <2>3, <2>5, AcceptedTurnType
  <2> QED BY <2>4, <2>5
<1>6. CASE RoundsExhausted
  BY <1>6, FailTurnType DEF RoundsExhausted, InTurn
<1>7. CASE Throw
  BY <1>7, FailTurnType DEF Throw
<1>8. CASE AuditAccept
  BY <1>0, <1>8, AcceptedTurnType DEF AuditAccept, InTurn
<1>9. CASE AuditReject
  <2>1. PICK keys \in SUBSET ReqKeys :
          IF ShouldRetry(keys)
          THEN /\ db' = Rewound
               /\ attempt' = NextAttempt /\ rounds' = 0
               /\ proposed' = {} /\ seen' = seen \cup keys
               /\ pc' = "model"
               /\ UNCHANGED <<disk, audited, attemptDb, turn, run, before>>
          ELSE FailTurn
    BY <1>9 DEF AuditReject
  <2>2. InTurn
    BY <1>9 DEF AuditReject, InTurn
  <2>3. CASE ShouldRetry(keys)
    <3>1. attempt' \in 0 .. MaxAttempts /\ attempt' # 0
      BY <2>1, <2>3, BoundsAssumption DEF ShouldRetry, NextAttempt, TypeOK
    <3> QED BY <2>1, <2>2, <2>3, <3>1, BoundsAssumption DEF Rewound, TypeOK, InTurn
  <2>4. CASE ~ ShouldRetry(keys)
    BY <2>1, <2>2, <2>4, FailTurnType
  <2> QED BY <2>3, <2>4
<1>10. CASE Manage
  BY <1>0, <1>10, ChangedType, CommittedType DEF Manage, PromptOpen, TypeOK
<1>11. ASSUME NEW a \in Ambiguities, RecordRuling(a) PROVE TypeOK'
  <2> DEFINE s == Changed(disk)
             c == [s.canon EXCEPT !.rulings[a] = Player]
  <2>1. s \in Stores /\ s.canon \in Canons
    BY <1>0, ChangedType DEF Stores
  <2> HIDE DEF s
  <2>2. c \in Canons
    BY <2>1, CandsFacts DEF Canons
  <2>3. Commit([s EXCEPT !.canon = c])
    BY <1>11 DEF RecordRuling, s
  <2> HIDE DEF c
  <2>4. [s EXCEPT !.canon = c] \in Stores
    BY <2>1, <2>2, WithCanonType
  <2> QED BY <1>11, <2>3, <2>4, CommittedType DEF RecordRuling, PromptOpen, TypeOK
<1>12. CASE Quit
  <2>2. CASE Commit(Changed(disk))
    BY <1>0, <1>12, <2>2, ChangedType, CommittedType DEF Quit, TypeOK
  <2>3. CASE UNCHANGED <<db, disk>>
    BY <1>12, <2>3 DEF Quit, TypeOK, InTurn, turnVars
  <2> QED BY <1>12, <2>2, <2>3 DEF Quit
<1>13. CASE Migrate
  <2> DEFINE c == [disk.canon EXCEPT !.schema = @ + 1]
  <2>1. c \in Canons
    BY <1>0 DEF Canons
  <2>2. Commit([disk EXCEPT !.canon = c])
    BY <1>13 DEF Migrate
  <2> HIDE DEF c
  <2>3. [disk EXCEPT !.canon = c] \in Stores
    BY <1>0, <2>1, WithCanonType
  <2> QED BY <1>13, <2>2, <2>3, CommittedType DEF Migrate, TypeOK
<1>14. CASE Prepare
  <2> DEFINE c == [disk.canon EXCEPT !.party = @ + 1]
  <2>1. c \in Canons
    BY <1>0 DEF Canons
  <2>2. Commit([disk EXCEPT !.canon = c])
    BY <1>14 DEF Prepare
  <2> HIDE DEF c
  <2>3. [disk EXCEPT !.canon = c] \in Stores
    BY <1>0, <2>1, WithCanonType
  <2> QED BY <1>14, <2>2, <2>3, CommittedType DEF Prepare, TypeOK
<1>15. CASE Launch
  <2>1. CASE UNCHANGED <<db, disk>>
    BY <1>15, <2>1 DEF Launch, TypeOK, InTurn, turnVars
  <2>2. CASE Commit(Changed(disk))
    BY <1>0, <1>15, <2>2, ChangedType, CommittedType DEF Launch
  <2> QED BY <1>15, <2>1, <2>2 DEF Launch
<1>16. CASE Crash
  BY <1>0, <1>16, EndedType DEF Crash, Commit
<1>17. CASE UNCHANGED vars
  BY <1>17 DEF vars, turnVars, TypeOK, InTurn
<1> QED
  BY <1>1, <1>2, <1>3, <1>4, <1>5, <1>6, <1>7, <1>8, <1>9, <1>10, <1>11,
     <1>12, <1>13, <1>15, <1>16, <1>17, <1>14 DEF Next, EngineStep

\* Every variable of the engine keeps its type, and a running turn has an input,
\* a tag and an attempt within the cap (runTurn's locals and its attempt loop).
THEOREM TypeCorrect == Spec => []TypeOK
<1> QED BY InitType, NextType, PTL DEF Spec

-----------------------------------------------------------------------------
\* The committed store

LEMMA InitInv == Init => IInv
<1> SUFFICES ASSUME Init PROVE IInv
  OBVIOUS
<1>1. disk = EmptyStore /\ db = disk /\ ~ InTurn
  BY DEF Init, InTurn
<1>2. disk.canon = EmptyCanon /\ disk.replay.before = EmptyCanon
      /\ disk.replay.status = "none"
  BY <1>1 DEF EmptyStore
<1>3. OnlyAcceptedIn(EmptyCanon)
  BY DEF OnlyAcceptedIn, EmptyCanon
<1>4. Committed
  BY <1>2, <1>3 DEF Committed, OnlyAcceptedWrites, PendingResumable,
     SnapshotLacksTurn, OnlyForward, Pending
<1>5. Savepoints
  BY <1>1 DEF Savepoints
<1> QED BY <1>4, <1>5, InitType DEF IInv

\* A write that leaves the accepted candidates and their rows alone.
LEMMA SameCandidates ==
  ASSUME NEW c, NEW d, OnlyAcceptedIn(c),
         d.world = c.world, d.trace = c.trace,
         \A a \in Ambiguities : d.rulings[a] \in {c.rulings[a], Player}
  PROVE  OnlyAcceptedIn(d)
BY DEF OnlyAcceptedIn

\* A step that keeps the canonical tables and the replay row.
LEMMA SameDisk ==
  ASSUME Committed, disk'.canon = disk.canon, disk'.replay = disk.replay
  PROVE  Committed'
BY DEF Committed, OnlyAcceptedWrites, PendingResumable, SnapshotLacksTurn,
       OnlyForward, Reworked, Resumable, Pending, StateHash, ReplaySnapshot

\* A write between turns while no disputed replay is pending.
LEMMA PlainWrite ==
  ASSUME Committed, ~ Pending(disk), disk'.replay = disk.replay,
         OnlyAcceptedIn(disk'.canon), disk'.canon.trace = disk.canon.trace
  PROVE  Committed'
BY DEF Committed, OnlyAcceptedWrites, PendingResumable, SnapshotLacksTurn,
       OnlyForward, Pending

LEMMA ChangedCommitted ==
  ASSUME TypeOK, Committed, ~ Pending(disk), Commit(Changed(disk))
  PROVE  Committed'
<1>1. /\ disk'.replay = disk.replay
      /\ disk'.canon.world = disk.canon.world
      /\ disk'.canon.trace = disk.canon.trace
      /\ disk'.canon.rulings = disk.canon.rulings
  BY DEF TypeOK, Commit, Changed, Stores, Canons
<1>2. OnlyAcceptedIn(disk.canon)
  BY DEF Committed, OnlyAcceptedWrites
<1>3. OnlyAcceptedIn(disk'.canon)
  BY <1>1, <1>2, SameCandidates
<1> QED BY <1>1, <1>3, PlainWrite

LEMMA FailTurnInv ==
  ASSUME IInv, NEW t, Commit(RolledBack(t))
  PROVE  Committed' /\ db' = disk'
<1>1. disk'.canon = disk.canon /\ disk'.replay = disk.replay
  BY DEF IInv, TypeOK, Commit, RolledBack, Stores
<1> QED BY <1>1, SameDisk DEF IInv, Commit

\* RELEASE eshyra_turn: the accepted candidate and nothing else.
LEMMA AcceptedInv ==
  ASSUME IInv, InTurn, NEW s \in AfterTools(db), Commit(Accepted(s))
  PROVE  Committed' /\ db' = disk'
<1> USE DEF IInv
<1>1. /\ s \in Stores /\ s.canon \in Canons /\ disk.canon \in Canons
      /\ db \in Stores /\ db.canon \in Canons
  BY CandidateType, AfterToolsType DEF TypeOK, Stores
<1>2. /\ s.canon.trace = disk.canon.trace
      /\ s.canon.rulings = disk.canon.rulings
      /\ s.canon.world \in {disk.canon.world, disk.canon.world \cup {Candidate}}
  <2>1. Touched(db, {Candidate})
    BY DEF Savepoints
  <2>2. /\ s.canon.trace = db.canon.trace /\ s.canon.rulings = db.canon.rulings
        /\ s.canon.world \in {db.canon.world, db.canon.world \cup {Candidate}}
    BY <1>1 DEF AfterTools, Stores, Canons
  <2> QED BY <2>1, <2>2 DEF Touched
<1>3. /\ turn \in Turns /\ Candidate # NoCand
      /\ before = disk.canon /\ disk.canon.trace[turn] = NoCand
  BY DEF TypeOK, Savepoints, Candidate, NoCand
<1> DEFINE d == Accepted(s)
           c == d.canon
<1>4. /\ c.world = disk.canon.world \cup {Candidate}
      /\ c.trace = [disk.canon.trace EXCEPT ![turn] = Candidate]
      /\ c.rulings = [a \in Ambiguities |->
                        IF a \in proposed THEN Candidate ELSE disk.canon.rulings[a]]
      /\ d.replay.status # "pending"
      /\ d.replay.turn = turn /\ d.replay.before = before
  BY <1>1, <1>2 DEF Accepted, ReplayStatus, Stores, Canons
<1>5. disk' = d /\ db' = d
  BY DEF Commit
<1> HIDE DEF d
<1>6. OnlyAcceptedIn(disk.canon)
  BY DEF Committed, OnlyAcceptedWrites
<1>7. OnlyAcceptedIn(c)
  <2>1. disk.canon.trace \in [Turns -> Cands]
    BY <1>1 DEF Canons
  <2>2. {c.trace[t] : t \in Turns} \ {NoCand}
          = ({disk.canon.trace[t] : t \in Turns} \ {NoCand}) \cup {Candidate}
    BY <1>3, <1>4, <2>1
  <2> QED BY <1>4, <1>6, <2>2 DEF OnlyAcceptedIn
<1>8. before.trace = [c.trace EXCEPT ![turn] = NoCand]
  <2>1. disk.canon.trace \in [Turns -> Cands]
    BY <1>1 DEF Canons
  <2> QED BY <1>3, <1>4, <2>1
<1> QED
  BY <1>3, <1>4, <1>5, <1>6, <1>7, <1>8 DEF Committed, OnlyAcceptedWrites,
     PendingResumable, SnapshotLacksTurn, OnlyForward, Pending

\* The snapshot's restore: a pending replay that can be resumed.
LEMMA DisputeInv ==
  ASSUME IInv, NEW t \in Turns, MayDispute(disk, t), NEW n \in Nat,
         Commit(Reopened(disk, t, n))
  PROVE  Committed' /\ db' = disk'
<1> USE DEF IInv
<1> DEFINE b == disk.replay.before
           c == [Resolved(b, t, n) EXCEPT !.corrective = @ \cup {t}]
           d == Reopened(disk, t, n)
<1>1. disk \in Stores /\ disk.replay \in Replays /\ b \in Canons
  BY DEF TypeOK, Stores, Replays
<1>2. Resolved(b, t, n) \in Canons
  BY <1>1, ResolvedType
<1>3. c \in Canons
  BY <1>2 DEF Canons
<1>4. c.world = b.world /\ c.trace = b.trace /\ c.rulings = b.rulings
  BY <1>1, <1>2 DEF Resolved, Canons
<1>5. d.canon = c /\ d.replay.hash = c /\ d.replay.before = b
      /\ d.replay.status = "pending" /\ d.replay.turn = disk.replay.turn
  BY <1>1 DEF Reopened, Stores, Replays, StateHash, ReplaySnapshot
<1>6. disk' = d /\ db' = d
  BY DEF Commit
<1>7. OnlyAcceptedIn(b) /\ b.trace[disk.replay.turn] = NoCand
      /\ disk.replay.turn \in Turns
  <2>1. disk.canon.trace \in [Turns -> Cands]
    BY <1>1 DEF Stores, Canons
  <2> QED BY <2>1 DEF Committed, OnlyAcceptedWrites, SnapshotLacksTurn, MayDispute
<1>8. c.schema \in Nat /\ c.party \in Nat
  BY <1>3 DEF Canons
<1> HIDE DEF c, d
<1>9. OnlyAcceptedIn(c)
  BY <1>4, <1>7, SameCandidates
<1> QED
  BY <1>4, <1>5, <1>6, <1>7, <1>8, <1>9 DEF Committed, OnlyAcceptedWrites,
     PendingResumable, Reworked, Resumable, SnapshotLacksTurn, OnlyForward, Pending,
     StateHash, ReplaySnapshot


LEMMA BeginInv ==
  ASSUME IInv, pc = "idle", NEW t \in Turns, Begin(t)
  PROVE  Committed' /\ Savepoints'
<1> USE DEF IInv
<1>1. db = disk /\ disk' = disk /\ disk \in Stores /\ disk.canon \in Canons
  BY DEF Savepoints, InTurn, Begin, TypeOK, Stores
<1>2. disk.canon.trace[t] = NoCand
  <2>1. CASE Pending(disk)
    <3>1. t = disk.replay.turn /\ ~ Reworked
      BY <1>1, <2>1 DEF Begin, MayRun, StateHash, ReplaySnapshot, Reworked
    <3> QED BY <2>1, <3>1 DEF Committed, PendingResumable, Resumable
  <2>2. CASE ~ Pending(disk)
    BY <1>1, <2>2 DEF Begin, MayRun
  <2> QED BY <2>1, <2>2
<1>3. PICK n \in Ordinals :
        /\ before' = disk.canon
        /\ db' = [disk EXCEPT !.canon = Resolved(disk.canon, t, n)]
        /\ attemptDb' = db'
  BY <1>1 DEF Begin, ReplaySnapshot
<1>4. /\ db'.replay = disk.replay
      /\ db'.canon.trace = disk.canon.trace
      /\ db'.canon.rulings = disk.canon.rulings
      /\ db'.canon.world = disk.canon.world
  BY <1>1, <1>3 DEF Resolved, Stores, Canons
<1>5. turn' = t /\ pc' = "model"
  BY DEF Begin
<1>6. Committed'
  BY <1>1, SameDisk
<1> QED BY <1>1, <1>2, <1>3, <1>4, <1>5, <1>6 DEF Savepoints, Touched, InTurn

LEMMA NextInv == IInv /\ [Next]_vars => IInv'
<1> SUFFICES ASSUME IInv, [Next]_vars PROVE Committed' /\ Savepoints'
  BY NextType DEF IInv
<1> USE DEF IInv
<1>0. disk \in Stores /\ db \in Stores /\ db.canon \in Canons /\ disk.canon \in Canons
  BY DEF TypeOK, Stores
\* A turn that ended, or a commit at the prompt.
<1>a. ASSUME Committed', db' = disk', pc' \in {"idle", "down"}
      PROVE  Committed' /\ Savepoints'
  BY <1>a DEF Savepoints, InTurn
<1>1. ASSUME NEW t \in Turns, Submit(t) PROVE Committed' /\ Savepoints'
  <2>1. CASE Begin(t)
    BY <1>1, <2>1, BeginInv DEF Submit
  <2>2. CASE Refuse(t)
    BY <1>1, <1>a, <2>2, FailTurnInv DEF Refuse, Submit
  <2> QED BY <1>1, <2>1, <2>2 DEF Submit
<1>2. ASSUME NEW t \in Turns, Dispute(t) PROVE Committed' /\ Savepoints'
  <2>1. PICK n \in Ordinals : Commit(Reopened(disk, t, n))
    BY <1>2 DEF Dispute
  <2>2. n \in Nat
    BY CandsFacts
  <2> QED BY <1>2, <1>a, <2>1, <2>2, DisputeInv DEF Dispute
<1>3. ASSUME NEW t \in Turns, Retry(t) PROVE Committed' /\ Savepoints'
  BY <1>3, BeginInv DEF Retry
<1>4. CASE ToolRound
  <2>1. InTurn /\ InTurn' /\ UNCHANGED <<disk, attemptDb, turn, run, attempt, before>>
    BY <1>4 DEF ToolRound, InTurn
  <2>2. /\ db'.replay = db.replay
        /\ db'.canon.trace = db.canon.trace
        /\ db'.canon.rulings = db.canon.rulings
        /\ db'.canon.world \in {db.canon.world, db.canon.world \cup {Candidate}}
    BY <1>0, <1>4 DEF ToolRound, AfterTools, Stores, Canons
  <2>3. Touched(db', {Candidate})
    BY <2>1, <2>2 DEF Savepoints, Touched
  <2>4. Committed'
    BY <2>1, SameDisk
  <2> QED BY <2>1, <2>3, <2>4 DEF Savepoints, Touched, Candidate
<1>5. CASE Narrate
  <2>1. PICK s \in AfterTools(db) :
          IF audited
          THEN /\ db' = s /\ proposed' \in AfterProposals
               /\ pc' = "audit" /\ rounds' = 0
               /\ UNCHANGED <<disk, attemptDb, turn, run, attempt, seen, before>>
          ELSE Commit(Accepted(s)) /\ pc' = "idle" /\ NoLocals
    BY <1>5 DEF Narrate
  <2>2. InTurn
    BY <1>5 DEF Narrate, InTurn
  <2>3. CASE audited
    <3>1. InTurn' /\ UNCHANGED <<disk, attemptDb, turn, run, attempt, before>>
      BY <2>1, <2>3 DEF InTurn
    <3>2. /\ db'.replay = db.replay
          /\ db'.canon.trace = db.canon.trace
          /\ db'.canon.rulings = db.canon.rulings
          /\ db'.canon.world \in {db.canon.world, db.canon.world \cup {Candidate}}
      BY <1>0, <2>1, <2>3 DEF AfterTools, Stores, Canons
    <3>3. Touched(db', {Candidate})
      BY <2>2, <3>1, <3>2 DEF Savepoints, Touched
    <3>4. Committed'
      BY <3>1, SameDisk
    <3> QED BY <2>2, <3>1, <3>3, <3>4 DEF Savepoints, Touched, Candidate
  <2>4. CASE ~ audited
    BY <1>a, <2>1, <2>2, <2>4, AcceptedInv
  <2> QED BY <2>3, <2>4
<1>6. CASE RoundsExhausted
  BY <1>6, <1>a, FailTurnInv DEF RoundsExhausted, FailTurn
<1>7. CASE Throw
  BY <1>7, <1>a, FailTurnInv DEF Throw, FailTurn
<1>8. CASE AuditAccept
  <2>1. db \in AfterTools(db)
    BY DEF AfterTools
  <2> QED BY <1>8, <1>a, <2>1, AcceptedInv DEF AuditAccept, InTurn
<1>9. CASE AuditReject
  <2>1. PICK keys \in SUBSET ReqKeys :
          IF ShouldRetry(keys)
          THEN /\ db' = Rewound
               /\ attempt' = NextAttempt /\ rounds' = 0
               /\ proposed' = {} /\ seen' = seen \cup keys
               /\ pc' = "model"
               /\ UNCHANGED <<disk, audited, attemptDb, turn, run, before>>
          ELSE FailTurn
    BY <1>9 DEF AuditReject
  <2>2. CASE ShouldRetry(keys)
    <3>1. InTurn /\ InTurn' /\ db' = attemptDb
          /\ UNCHANGED <<disk, attemptDb, turn, before>>
      BY <1>9, <2>1, <2>2 DEF AuditReject, InTurn, Rewound
    <3>2. Committed'
      BY <3>1, SameDisk
    <3> QED BY <3>1, <3>2 DEF Savepoints, Touched
  <2>3. CASE ~ ShouldRetry(keys)
    BY <1>a, <2>1, <2>3, FailTurnInv DEF FailTurn
  <2> QED BY <2>2, <2>3
<1>10. CASE Manage
  BY <1>10, <1>a, ChangedCommitted DEF Manage, PromptOpen, Commit
<1>11. ASSUME NEW a \in Ambiguities, RecordRuling(a) PROVE Committed' /\ Savepoints'
  <2>1. ~ Pending(disk) /\ pc' = "idle"
        /\ Commit([Changed(disk) EXCEPT !.canon.rulings[a] = Player])
    BY <1>11 DEF RecordRuling, PromptOpen
  <2>2. /\ disk'.replay = disk.replay
        /\ disk'.canon.world = disk.canon.world
        /\ disk'.canon.trace = disk.canon.trace
        /\ \A b \in Ambiguities :
             disk'.canon.rulings[b] \in {disk.canon.rulings[b], Player}
    BY <1>0, <2>1 DEF Commit, Changed, Stores, Canons
  <2>3. OnlyAcceptedIn(disk'.canon)
    BY <2>2, SameCandidates DEF Committed, OnlyAcceptedWrites
  <2>4. Committed'
    BY <2>1, <2>2, <2>3, PlainWrite
  <2> QED BY <1>a, <2>1, <2>4 DEF Commit
<1>12. CASE Quit
  <2>1. CASE Pending(disk)
    BY <1>12, <1>a, <2>1, SameDisk DEF Quit, Savepoints, InTurn
  <2>2. CASE ~ Pending(disk)
    BY <1>12, <1>a, <2>2, ChangedCommitted DEF Quit, Commit
  <2> QED BY <2>1, <2>2
<1>b. ASSUME Migrate \/ Prepare PROVE Committed' /\ Savepoints'
  <2>1. /\ disk'.replay = disk.replay
        /\ \/ /\ disk'.canon.schema = disk.canon.schema + 1
              /\ disk'.canon.party = disk.canon.party
           \/ /\ disk'.canon.schema = disk.canon.schema
              /\ disk'.canon.party = disk.canon.party + 1
        /\ disk'.canon.world = disk.canon.world
        /\ disk'.canon.trace = disk.canon.trace
        /\ disk'.canon.rulings = disk.canon.rulings
    BY <1>0, <1>b DEF Migrate, Prepare, Commit, Stores, Canons
  <2>2. OnlyAcceptedIn(disk.canon) /\ OnlyAcceptedIn(disk.replay.before)
    BY DEF Committed, OnlyAcceptedWrites
  <2>3. OnlyAcceptedIn(disk'.canon)
    BY <2>1, <2>2, SameCandidates
  <2>4. /\ disk.canon.schema \in Nat /\ disk.replay.hash.schema \in Nat
        /\ disk.canon.party \in Nat /\ disk.replay.hash.party \in Nat
    BY <1>0 DEF Stores, Replays, Canons
  <2>5. Pending(disk') => Pending(disk) /\ Reworked' /\ OnlyForward'
    BY <2>1, <2>4 DEF Committed, OnlyForward, Pending, Reworked
  <2>6. Committed'
    BY <2>1, <2>2, <2>3, <2>5 DEF Committed, OnlyAcceptedWrites, PendingResumable,
       SnapshotLacksTurn, OnlyForward, Pending
  <2> QED BY <1>b, <1>a, <2>6 DEF Migrate, Prepare, Commit
<1>13. CASE Migrate
  BY <1>13, <1>b
<1>14. CASE Prepare
  BY <1>14, <1>b
<1>15. CASE Launch
  <2>1. CASE UNCHANGED <<db, disk>>
    BY <1>15, <1>a, <2>1, SameDisk DEF Launch, Savepoints, InTurn
  <2>2. CASE ~ Pending(disk) /\ Commit(Changed(disk))
    BY <1>15, <1>a, <2>2, ChangedCommitted DEF Launch, Commit
  <2> QED BY <1>15, <2>1, <2>2 DEF Launch
<1>16. CASE Crash
  BY <1>16, <1>a, SameDisk DEF Crash
<1>17. CASE UNCHANGED vars
  <2>1. Committed'
    BY <1>17, SameDisk DEF vars
  <2> QED
    BY <1>17, <2>1 DEF vars, turnVars, Savepoints, Touched, InTurn, Candidate
<1> QED
  BY <1>1, <1>2, <1>3, <1>4, <1>5, <1>6, <1>7, <1>8, <1>9, <1>10, <1>11,
     <1>12, <1>13, <1>15, <1>16, <1>17, <1>14 DEF Next, EngineStep

\* The two savepoints of runTurn keep every write of a rejected, failed or killed
\* candidate out of the database and out of what a dispute would restore.
THEOREM AcceptedWritesOnly == Spec => []OnlyAcceptedWrites
<1>1. IInv => OnlyAcceptedWrites
  BY DEF IInv, Committed
<1> QED BY <1>1, InitInv, NextInv, PTL DEF Spec

\* A disputed turn can always be retried after failures, refusals, crashes and
\* restarts (assertReplayState and the entry checks of runTurn pass), as long
\* as no reopening migrated the database or wrote its characters in between.
THEOREM Recoverable == Spec => []PendingResumable
<1>1. IInv => PendingResumable
  BY DEF IInv, Committed
<1> QED BY <1>1, InitInv, NextInv, PTL DEF Spec

-----------------------------------------------------------------------------
\* The traces of accepted turns

TraceStands(t) ==
  disk.canon.trace[t] # NoCand /\ disk'.canon.trace[t] # disk.canon.trace[t]
    => /\ disk'.canon.trace[t] = NoCand
       /\ Pending(disk') /\ disk'.replay.turn = t

\* Of all commits only an accepted turn and a dispute touch a trace.
LEMMA CommitKeepsTraces ==
  ASSUME TypeOK, [Next]_vars,
         ~ (InTurn /\ \E s \in AfterTools(db) : Commit(Accepted(s))),
         ~ (\E t \in Turns : Dispute(t))
  PROVE  disk'.canon.trace = disk.canon.trace
<1>0. disk \in Stores /\ disk.canon \in Canons
  BY DEF TypeOK, Stores
<1>1. \A t \in Turns : RolledBack(t).canon.trace = disk.canon.trace
  BY <1>0 DEF RolledBack, Stores
<1>2. Changed(disk).canon.trace = disk.canon.trace
  BY <1>0 DEF Changed, Stores, Canons
<1>3. CASE \E t \in Turns : Submit(t) \/ Retry(t)
  BY <1>1, <1>3 DEF Submit, Retry, Begin, Refuse, Commit
<1>4. CASE EngineStep
  <2>1. CASE FailTurn /\ InTurn
    BY <1>1, <2>1 DEF FailTurn, Commit, TypeOK
  <2>2. CASE ToolRound
    BY <2>2 DEF ToolRound
  <2>3. CASE Narrate
    BY <2>3 DEF Narrate, InTurn
  <2>4. CASE AuditAccept
    BY <2>4 DEF AuditAccept, AfterTools, InTurn
  <2>5. CASE AuditReject
    BY <2>5, <2>1 DEF AuditReject, InTurn
  <2> QED BY <1>4, <2>1, <2>2, <2>3, <2>4, <2>5
          DEF EngineStep, RoundsExhausted, Throw, InTurn
<1>5. CASE Manage \/ Quit \/ Launch \/ Crash \/ UNCHANGED vars
  <2>1. disk' = disk \/ Commit(Changed(disk))
    BY <1>5 DEF Manage, Quit, Launch, Crash, vars
  <2> QED BY <1>2, <2>1 DEF Commit
<1>6. CASE Migrate \/ Prepare
  BY <1>0, <1>6 DEF Migrate, Prepare, Commit, Stores, Canons
<1>7. CASE \E a \in Ambiguities : RecordRuling(a)
  <2> DEFINE s == Changed(disk)
  <2>1. s \in Stores /\ s.canon \in Canons
    BY <1>0, ChangedType DEF Stores
  <2>2. PICK a \in Ambiguities : disk' = [s EXCEPT !.canon.rulings[a] = Player]
    BY <1>7 DEF RecordRuling, Commit
  <2> HIDE DEF s
  <2>3. disk'.canon.trace = s.canon.trace
    BY <2>1, <2>2 DEF Stores, Canons
  <2> QED BY <1>2, <2>3 DEF s
<1> QED BY <1>3, <1>4, <1>5, <1>6, <1>7 DEF Next

LEMMA StepKeepsTraces ==
  ASSUME IInv, [Next]_vars, NEW t \in Turns
  PROVE  TraceStands(t)
<1> USE DEF IInv
<1>0. disk \in Stores /\ db \in Stores /\ db.canon \in Canons
      /\ disk.canon.trace \in [Turns -> Cands] /\ disk.replay \in Replays
  BY DEF TypeOK, Stores, Canons
<1>1. CASE \E u \in Turns : Dispute(u)
  <2>1. PICK u \in Turns, n \in Ordinals :
          MayDispute(disk, u) /\ Commit(Reopened(disk, u, n))
    BY <1>1 DEF Dispute
  <2> DEFINE b == disk.replay.before
  <2>2. b \in Canons /\ Resolved(b, u, n) \in Canons
    BY <1>0, CandsFacts, ResolvedType DEF Replays
  <2>3. Resolved(b, u, n).trace = b.trace
    BY <2>2 DEF Resolved, Canons
  <2>4. disk'.canon.trace = b.trace /\ disk'.replay.turn = disk.replay.turn
        /\ disk'.replay.status = "pending"
    BY <1>0, <2>1, <2>2, <2>3 DEF Commit, Reopened, Stores, Replays, Canons
  <2>5. b.trace = [disk.canon.trace EXCEPT ![u] = NoCand] /\ disk.replay.turn = u
    BY <2>1 DEF MayDispute, Committed, SnapshotLacksTurn
  <2> QED BY <1>0, <2>4, <2>5 DEF TraceStands, Pending
<1>2. CASE InTurn /\ \E s \in AfterTools(db) : Commit(Accepted(s))
  <2>1. PICK s \in AfterTools(db) : disk' = Accepted(s)
    BY <1>2 DEF Commit
  <2>2. s \in Stores /\ s.canon \in Canons
    BY <1>0, CandidateType, AfterToolsType DEF Stores
  <2>3. s.canon.trace = disk.canon.trace /\ disk.canon.trace[turn] = NoCand
    BY <1>0, <1>2, <2>1 DEF AfterTools, Savepoints, Touched, Stores, Canons
  <2>4. disk'.canon.trace = [disk.canon.trace EXCEPT ![turn] = Candidate]
    BY <2>1, <2>2, <2>3 DEF Accepted, Stores, Canons
  <2> QED BY <1>0, <2>3, <2>4 DEF TraceStands
<1>3. CASE /\ ~ (\E u \in Turns : Dispute(u))
           /\ ~ (InTurn /\ \E s \in AfterTools(db) : Commit(Accepted(s)))
  BY <1>3, CommitKeepsTraces DEF TraceStands
<1> QED BY <1>1, <1>2, <1>3

\* No retry, refusal, crash, restore or change loses or replaces the trace of an
\* accepted turn: only the dispute of that very turn takes it away.
THEOREM TracesOutlive == Spec => TracesStand
<1>1. IInv /\ [Next]_vars =>
        [\A t \in Turns :
           disk.canon.trace[t] # NoCand /\ disk'.canon.trace[t] # disk.canon.trace[t]
             => /\ disk'.canon.trace[t] = NoCand
                /\ Pending(disk') /\ disk'.replay.turn = t]_vars
  BY StepKeepsTraces DEF TraceStands
<1> QED BY <1>1, InitInv, NextInv, PTL DEF Spec, TracesStand

-----------------------------------------------------------------------------
\* The chronology and the disputes

Placed(pos) == {t \in Turns : pos[t] # 0}

\* The positions are the ordinals from 1 to n, each of one turn.
LineTo(pos, n) ==
  /\ pos \in [Turns -> Nat] /\ n \in Nat
  /\ {pos[t] : t \in Placed(pos)} = 1 .. n
  /\ \A t, u \in Placed(pos) : pos[t] = pos[u] => t = u
InLine(pos) == \E n \in Nat : LineTo(pos, n)

\* Every turn with a position was accepted, but for the one disputed.
PlacedAccepted ==
  \A t \in Turns : disk.canon.pos[t] # 0 =>
    \/ disk.canon.trace[t] # NoCand
    \/ Pending(disk) /\ t = disk.replay.turn /\ IsCurrent(disk.canon, t)

\* A turn with a corrective rule was adjudicated, so it has a position.
CorrectivePlaced(c) == \A t \in c.corrective : c.pos[t] # 0

\* The snapshot of the latest turn lacks that turn, whatever became of it.
SnapshotBefore ==
  disk.replay.status # "none" =>
    LET t == disk.replay.turn
        c == disk.replay.before
    IN /\ t \in Turns
       /\ c.trace = [disk.canon.trace EXCEPT ![t] = NoCand]
       /\ \A u \in Turns \ {t} : c.pos[u] = disk.canon.pos[u]

\* As long as it can be restored it is a chronology of its own, and the state
\* that its dispute expects differs from it by that turn alone.
SnapshotWhole ==
  disk.replay.status = "available" =>
    LET t == disk.replay.turn
        c == disk.replay.before
    IN /\ InLine(c.pos) /\ c.pos[t] = 0 /\ CorrectivePlaced(c)
       /\ \A u \in Turns : c.pos[u] # 0 => c.trace[u] # NoCand
       /\ disk.replay.hash.changes = c.changes
       /\ disk.replay.hash.party = c.party
       /\ disk.replay.hash.corrective = c.corrective

Chronicled ==
  /\ InLine(disk.canon.pos) /\ PlacedAccepted
  /\ CorrectivePlaced(disk.canon) /\ CorrectiveKept
  /\ SnapshotBefore /\ SnapshotWhole

\* What a running turn may have done to the chronology, and what it leaves alone.
Resolves(s) ==
  /\ s.abandoned = disk.abandoned
  /\ s.canon.changes = disk.canon.changes
  /\ s.canon.party = disk.canon.party
  /\ s.canon.corrective = disk.canon.corrective
  /\ \E n \in Nat : /\ IsNextOrdinal(disk.canon.pos, n)
                     /\ s.canon.pos = Resolved(disk.canon, turn, n).pos

Resolving ==
  InTurn => /\ Pending(disk) => turn = disk.replay.turn
            /\ Resolves(db) /\ Resolves(attemptDb)

ChronInv == IInv /\ Chronicled /\ Resolving

\* A chronology goes on where it ended.
LEMMA NextInLine ==
  ASSUME NEW c \in Canons, InLine(c.pos), NEW t \in Turns, NEW n \in Nat,
         IsNextOrdinal(c.pos, n)
  PROVE  /\ InLine(Resolved(c, t, n).pos)
         /\ Resolved(c, t, n).pos[t] # 0
         /\ \A u \in Turns \ {t} : Resolved(c, t, n).pos[u] = c.pos[u]
         /\ c.pos[t] # 0 => Resolved(c, t, n) = c
         /\ c.pos[t] = 0 => IsCurrent(Resolved(c, t, n), t)
<1> DEFINE pos == c.pos
           new == Resolved(c, t, n).pos
<1>1. PICK m \in Nat : LineTo(pos, m)
  BY DEF InLine
<1>2. pos \in [Turns -> Nat]
  BY <1>1 DEF LineTo
<1>3. new = [pos EXCEPT ![t] = IF @ = 0 THEN n ELSE @]
  BY DEF Resolved, Canons
<1>4. c.pos[t] # 0 => Resolved(c, t, n) = c
  BY <1>2 DEF Resolved, Canons
<1>5. \A u \in Placed(pos) : pos[u] \in 1 .. m
  BY <1>1 DEF LineTo
<1>6. \A k \in 1 .. m : \E u \in Placed(pos) : pos[u] = k
  BY <1>1 DEF LineTo
<1>7. \A u \in Turns : pos[u] < n
  BY DEF IsNextOrdinal
<1>8. n = m + 1
  <2>1. m < n
    <3>1. CASE m = 0
      <4>1. 0 <= pos[t]
        BY <1>2
      <4> QED BY <1>2, <1>7, <4>1, <3>1
    <3>2. CASE m # 0
      <4>1. m \in 1 .. m
        BY <1>1, <3>2
      <4> QED BY <1>6, <1>7, <4>1 DEF Placed
    <3> QED BY <3>1, <3>2
  <2>2. n <= m + 1
    <3>1. CASE n = 1
      BY <1>1, <3>1
    <3>2. CASE n # 1
      <4>1. PICK u \in Turns : pos[u] = n - 1
        BY <3>2 DEF IsNextOrdinal
      <4>2. u \in Placed(pos)
        BY <2>1, <3>2, <4>1, <1>1 DEF Placed
      <4> QED BY <1>1, <1>5, <4>1, <4>2
    <3> QED BY <3>1, <3>2
  <2> QED BY <1>1, <2>1, <2>2
<1> HIDE DEF pos, new
<1>9. CASE pos[t] # 0
  <2>1. new = pos
    BY <1>2, <1>3, <1>9
  <2> QED BY <1>1, <1>4, <1>9, <2>1 DEF InLine, pos, new
<1>10. CASE pos[t] = 0
  <2>1. new \in [Turns -> Nat] /\ new[t] = n /\ \A u \in Turns \ {t} : new[u] = pos[u]
    BY <1>2, <1>3, <1>10
  <2>2. Placed(new) = Placed(pos) \cup {t} /\ t \notin Placed(pos)
    BY <1>8, <1>10, <2>1, <1>1 DEF Placed
  <2>3. {new[u] : u \in Placed(new)} = 1 .. (m + 1)
    <3>1. ASSUME NEW u \in Placed(new) PROVE new[u] \in 1 .. (m + 1)
      <4>1. CASE u = t
        BY <1>1, <1>8, <2>1, <4>1
      <4>2. CASE u # t
        <5>1. pos[u] \in 1 .. m /\ new[u] = pos[u]
          BY <1>5, <2>1, <2>2, <4>2 DEF Placed
        <5> QED BY <5>1, <1>1
      <4> QED BY <4>1, <4>2
    <3>2. ASSUME NEW k \in 1 .. (m + 1) PROVE \E u \in Placed(new) : new[u] = k
      <4>1. CASE k = m + 1
        BY <1>8, <2>1, <2>2, <4>1
      <4>2. CASE k # m + 1
        <5>1. k \in 1 .. m
          BY <1>1, <4>2
        <5>2. PICK u \in Placed(pos) : pos[u] = k
          BY <1>6, <5>1
        <5> QED BY <2>1, <2>2, <5>2 DEF Placed
      <4> QED BY <4>1, <4>2
    <3> QED BY <3>1, <3>2
  <2>4. ASSUME NEW u \in Placed(new), NEW v \in Placed(new), new[u] = new[v]
        PROVE  u = v
    <3>1. \A x \in Placed(pos) : new[x] = pos[x] /\ pos[x] < n
      BY <1>7, <2>1, <2>2 DEF Placed
    <3>2. \A x, y \in Placed(pos) : pos[x] = pos[y] => x = y
      BY <1>1 DEF LineTo
    <3>3. \A x \in Placed(pos) : new[x] \in Nat /\ new[x] # n
      BY <1>2, <3>1 DEF Placed
    <3>4. CASE u = t \/ v = t
      BY <2>1, <2>2, <2>4, <3>3, <3>4
    <3>5. CASE u # t /\ v # t
      <4>1. u \in Placed(pos) /\ v \in Placed(pos)
        BY <2>2, <3>5
      <4> QED BY <2>4, <3>1, <3>2, <4>1
    <3> QED BY <3>4, <3>5
  <2>5. LineTo(new, m + 1)
    BY <1>1, <2>1, <2>3, <2>4 DEF LineTo
  <2>6. n # 0
    BY <1>1, <1>8
  <2>7. IsCurrent(Resolved(c, t, n), t)
    <3>1. \A u \in Turns : new[u] <= new[t]
      BY <1>2, <1>7, <2>1
    <3> QED BY <2>1, <2>6, <3>1 DEF IsCurrent, new
  <2> QED
    BY <1>1, <1>10, <2>1, <2>5, <2>6, <2>7 DEF InLine, pos, new
<1> QED BY <1>9, <1>10

\* A line of turns has as many turns as its last ordinal says.
LEMMA LineLength ==
  ASSUME NEW pos, NEW n, LineTo(pos, n)
  PROVE  Cardinality(Placed(pos)) = n
<1> DEFINE P == Placed(pos)
           f == [t \in P |-> pos[t]]
<1>1. IsFiniteSet(P)
  BY TurnsAssumption, FS_Subset DEF Placed
<1>2. n \in Nat /\ {pos[t] : t \in P} = 1 .. n
      /\ \A t, u \in P : pos[t] = pos[u] => t = u
  BY DEF LineTo
<1> HIDE DEF P
<1>3. f \in Bijection(P, 1 .. n)
  <2>1. f \in [P -> 1 .. n]
    BY <1>2
  <2>2. f \in Injection(P, 1 .. n)
    BY <1>2, <2>1 DEF Injection, IsInjective
  <2>3. f \in Surjection(P, 1 .. n)
    BY <1>2, <2>1 DEF Surjection
  <2> QED BY <2>2, <2>3 DEF Bijection
<1>4. Cardinality(1 .. n) = Cardinality(P)
  BY <1>1, <1>3, FS_Bijection DEF ExistsBijection
<1>5. Cardinality(1 .. n) = n
  <2>1. Cardinality(1 .. n) = IF 1 > n THEN 0 ELSE n - 1 + 1
    BY <1>2, FS_Interval
  <2> QED BY <1>2, <2>1
<1> QED BY <1>4, <1>5 DEF P

\* The store satisfies what the theorems below say of it.
LEMMA ChronicledFacts == TypeOK /\ Chronicled => ChronologyContiguous /\ DisputesSound
<1> SUFFICES ASSUME TypeOK, Chronicled PROVE ChronologyContiguous /\ DisputesSound
  OBVIOUS
<1>1. PICK n \in Nat : LineTo(disk.canon.pos, n)
  BY DEF Chronicled, InLine
<1>2. n = Cardinality(Placed(disk.canon.pos))
  BY <1>1, LineLength
<1>3. {disk.canon.pos[t] : t \in Placed(disk.canon.pos)} = 1 .. n
  BY <1>1 DEF LineTo
<1>4. \A t \in Placed(disk.canon.pos) :
        \/ disk.canon.trace[t] # NoCand
        \/ Pending(disk) /\ t = disk.replay.turn /\ IsCurrent(disk.canon, t)
  BY DEF Chronicled, PlacedAccepted, Placed
<1>5. ChronologyContiguous
  BY <1>2, <1>3, <1>4 DEF ChronologyContiguous, Placed
<1>6. UndoesOneTurn
  <2>1. ASSUME disk.replay.status # "none", MayDispute(disk, disk.replay.turn)
        PROVE  /\ disk.replay.before.changes = disk.canon.changes
               /\ disk.replay.before.party = disk.canon.party
               /\ disk.replay.before.corrective = disk.canon.corrective
    BY <2>1 DEF MayDispute, StateHash, ReplaySnapshot, Chronicled, SnapshotWhole
  <2>2. SnapshotBefore
    BY DEF Chronicled
  <2> QED BY <2>1, <2>2 DEF UndoesOneTurn, SnapshotBefore
<1> QED BY <1>5, <1>6 DEF DisputesSound, Chronicled

LEMMA InitChron == Init => Chronicled /\ Resolving
<1> SUFFICES ASSUME Init PROVE Chronicled /\ Resolving
  OBVIOUS
<1>1. disk = EmptyStore /\ ~ InTurn
  BY DEF Init, InTurn
<1>2. /\ disk.canon = EmptyCanon /\ disk.replay.status = "none"
      /\ disk.abandoned = [t \in Turns |-> 0]
  BY <1>1 DEF EmptyStore
<1>3. EmptyCanon.pos = [t \in Turns |-> 0] /\ EmptyCanon.corrective = {}
  BY DEF EmptyCanon
<1>4. Placed(EmptyCanon.pos) = {}
  BY <1>3 DEF Placed
<1>5. LineTo(EmptyCanon.pos, 0)
  BY <1>3, <1>4 DEF LineTo
<1> QED
  BY <1>1, <1>2, <1>3, <1>5 DEF Chronicled, Resolving, InLine, PlacedAccepted,
     CorrectivePlaced, CorrectiveKept, SnapshotBefore, SnapshotWhole

\* A step that keeps what the chronology is about.
LEMMA SameChron ==
  ASSUME Chronicled,
         disk'.canon.pos = disk.canon.pos, disk'.canon.trace = disk.canon.trace,
         disk'.canon.corrective = disk.canon.corrective,
         disk'.abandoned = disk.abandoned, disk'.replay = disk.replay
  PROVE  Chronicled'
<1>1. PlacedAccepted'
  BY DEF Chronicled, PlacedAccepted, Pending, IsCurrent
<1>2. SnapshotBefore' /\ SnapshotWhole'
  BY DEF Chronicled, SnapshotBefore, SnapshotWhole
<1> QED
  BY <1>1, <1>2 DEF Chronicled, CorrectivePlaced, CorrectiveKept

LEMMA BeginChron ==
  ASSUME ChronInv, pc = "idle", NEW t \in Turns, Begin(t)
  PROVE  Chronicled' /\ Resolving'
<1>0. db = disk /\ disk' = disk /\ disk \in Stores /\ disk.canon \in Canons
  BY DEF ChronInv, IInv, Savepoints, InTurn, Begin, TypeOK, Stores
<1>1. Chronicled'
  BY <1>0, SameChron DEF ChronInv
<1>2. PICK n \in Ordinals :
        /\ IsNextOrdinal(disk.canon.pos, n)
        /\ db' = [disk EXCEPT !.canon = Resolved(disk.canon, t, n)]
        /\ attemptDb' = db' /\ turn' = t
  BY <1>0 DEF Begin
<1>3. Pending(disk) => t = disk.replay.turn
  BY <1>0 DEF Begin, MayRun
<1>4. n \in Nat
  BY CandsFacts
<1>5. /\ db'.abandoned = disk.abandoned
      /\ db'.canon = Resolved(disk.canon, t, n)
  BY <1>0, <1>2 DEF Stores
<1>6. /\ db'.canon.changes = disk.canon.changes
      /\ db'.canon.party = disk.canon.party
      /\ db'.canon.corrective = disk.canon.corrective
  BY <1>0, <1>5 DEF Resolved, Canons
<1>7. Resolves(db)' /\ Resolves(attemptDb)'
  BY <1>0, <1>2, <1>4, <1>5, <1>6 DEF Resolves
<1> QED BY <1>0, <1>1, <1>2, <1>3, <1>7 DEF Resolving, Pending

\* RELEASE eshyra_turn: the chronology gains the turn, or its trace.
LEMMA AcceptedChron ==
  ASSUME ChronInv, InTurn, NEW s \in AfterTools(db), Commit(Accepted(s))
  PROVE  Chronicled'
<1>0. /\ s \in Stores /\ s.canon \in Canons /\ disk.canon \in Canons
      /\ db \in Stores /\ db.canon \in Canons /\ disk \in Stores
  BY CandidateType, AfterToolsType DEF ChronInv, IInv, TypeOK, Stores
<1>1. /\ turn \in Turns /\ Candidate # NoCand
      /\ before = disk.canon /\ disk.canon.trace[turn] = NoCand
      /\ Touched(db, {Candidate}) /\ Resolves(db)
      /\ Pending(disk) => turn = disk.replay.turn
  BY DEF ChronInv, IInv, TypeOK, Savepoints, Resolving, Candidate, NoCand
<1>2. /\ s.replay = disk.replay /\ s.abandoned = disk.abandoned
      /\ s.canon.pos = db.canon.pos /\ s.canon.trace = disk.canon.trace
      /\ s.canon.changes = disk.canon.changes
      /\ s.canon.party = disk.canon.party
      /\ s.canon.corrective = disk.canon.corrective
  <2>1. /\ s.replay = db.replay /\ s.abandoned = db.abandoned
        /\ s.canon.pos = db.canon.pos /\ s.canon.trace = db.canon.trace
        /\ s.canon.changes = db.canon.changes
        /\ s.canon.party = db.canon.party
        /\ s.canon.corrective = db.canon.corrective
    BY <1>0 DEF AfterTools, Stores, Canons
  <2> QED BY <1>1, <2>1 DEF Touched, Resolves
<1> DEFINE d == Accepted(s)
           c == d.canon
<1>3. /\ c.pos = db.canon.pos /\ c.corrective = disk.canon.corrective
      /\ c.changes = disk.canon.changes
      /\ c.party = disk.canon.party
      /\ c.trace = [disk.canon.trace EXCEPT ![turn] = Candidate]
      /\ d.abandoned = disk.abandoned
  BY <1>0, <1>2 DEF Accepted, Stores, Canons
<1>4. /\ d.replay.status = IF Pending(disk) THEN "replayed" ELSE "available"
      /\ d.replay.turn = turn /\ d.replay.before = disk.canon
      /\ d.replay.hash = c
  BY <1>0, <1>1, <1>2 DEF Accepted, ReplayStatus, StateHash, ReplaySnapshot, Stores,
     Pending
<1>5. disk' = d
  BY DEF Commit
<1> HIDE DEF d
<1>6. PICK n \in Nat : /\ IsNextOrdinal(disk.canon.pos, n)
                       /\ c.pos = Resolved(disk.canon, turn, n).pos
  BY <1>1, <1>3 DEF Resolves
<1>7. InLine(disk.canon.pos) /\ PlacedAccepted /\ CorrectivePlaced(disk.canon)
      /\ CorrectiveKept
  BY DEF ChronInv, Chronicled
<1>8. /\ InLine(c.pos) /\ c.pos[turn] # 0
      /\ \A u \in Turns \ {turn} : c.pos[u] = disk.canon.pos[u]
  BY <1>0, <1>1, <1>6, <1>7, NextInLine
<1>9. disk.canon.trace \in [Turns -> Cands]
  BY <1>0 DEF Canons
<1>10. PlacedAccepted'
  <2> SUFFICES ASSUME NEW u \in Turns, c.pos[u] # 0 PROVE c.trace[u] # NoCand
    BY <1>5 DEF PlacedAccepted
  <2>1. CASE u = turn
    BY <1>1, <1>3, <1>9, <2>1
  <2>2. CASE u # turn
    <3>1. disk.canon.pos[u] # 0 /\ c.trace[u] = disk.canon.trace[u]
      BY <1>3, <1>8, <1>9, <2>2
    <3> QED BY <1>1, <1>7, <2>2, <3>1 DEF PlacedAccepted
  <2> QED BY <2>1, <2>2
<1>11. CorrectivePlaced(disk'.canon) /\ CorrectiveKept'
  <2>1. disk.canon.corrective \subseteq Turns
    BY <1>0 DEF Canons
  <2> QED BY <1>3, <1>5, <1>7, <1>8, <2>1 DEF CorrectivePlaced, CorrectiveKept
<1>12. SnapshotBefore'
  BY <1>1, <1>3, <1>4, <1>5, <1>8, <1>9 DEF SnapshotBefore
<1>13. SnapshotWhole'
  <2> SUFFICES ASSUME ~ Pending(disk)
               PROVE  /\ InLine(disk.canon.pos) /\ disk.canon.pos[turn] = 0
                      /\ CorrectivePlaced(disk.canon)
                      /\ \A u \in Turns : disk.canon.pos[u] # 0
                                            => disk.canon.trace[u] # NoCand
                      /\ c.changes = disk.canon.changes
                      /\ c.party = disk.canon.party
                      /\ c.corrective = disk.canon.corrective
    BY <1>4, <1>5 DEF SnapshotWhole
  <2>1. \A u \in Turns : disk.canon.pos[u] # 0 => disk.canon.trace[u] # NoCand
    BY <1>7 DEF PlacedAccepted
  <2> QED BY <1>1, <1>3, <1>7, <2>1
<1> QED BY <1>5, <1>8, <1>10, <1>11, <1>12, <1>13 DEF Chronicled

\* The restore and the corrective rule: the disputed turn keeps its place.
LEMMA DisputeChron ==
  ASSUME ChronInv, NEW t \in Turns, MayDispute(disk, t), NEW n \in Nat,
         IsNextOrdinal(disk.replay.before.pos, n), Commit(Reopened(disk, t, n))
  PROVE  Chronicled'
<1> DEFINE b == disk.replay.before
           r == Resolved(b, t, n)
           d == Reopened(disk, t, n)
           c == d.canon
<1>0. disk \in Stores /\ disk.replay \in Replays /\ b \in Canons /\ disk.canon \in Canons
      /\ disk.abandoned \in [Turns -> Nat]
  BY DEF ChronInv, IInv, TypeOK, Stores, Replays
<1>1. r \in Canons /\ r.trace = b.trace /\ r.corrective = b.corrective
  BY <1>0, ResolvedType DEF Resolved, Canons
<1>2. /\ c.pos = r.pos /\ c.trace = b.trace /\ c.corrective = b.corrective \cup {t}
      /\ d.abandoned = [disk.abandoned EXCEPT ![t] = @ + 1]
      /\ d.replay.status = "pending" /\ d.replay.turn = disk.replay.turn
      /\ d.replay.before = b
  <2> HIDE DEF r
  <2>1. /\ c.pos = r.pos /\ c.trace = r.trace /\ c.corrective = r.corrective \cup {t}
        /\ d.abandoned = [disk.abandoned EXCEPT ![t] = @ + 1]
        /\ d.replay.status = "pending" /\ d.replay.turn = disk.replay.turn
        /\ d.replay.before = b
    BY <1>0, <1>1 DEF Reopened, Stores, Replays, Canons, r
  <2> QED BY <1>1, <2>1
<1>3. disk' = d
  BY DEF Commit
<1>4. /\ disk.replay.status = "available" /\ disk.replay.turn = t
      /\ disk.replay.hash = disk.canon
  BY DEF MayDispute, StateHash, ReplaySnapshot
<1>5. /\ InLine(b.pos) /\ b.pos[t] = 0 /\ CorrectivePlaced(b)
      /\ \A u \in Turns : b.pos[u] # 0 => b.trace[u] # NoCand
      /\ disk.canon.corrective = b.corrective
  BY <1>4 DEF ChronInv, Chronicled, SnapshotWhole
<1>6. /\ InLine(r.pos) /\ r.pos[t] # 0 /\ IsCurrent(r, t)
      /\ \A u \in Turns \ {t} : r.pos[u] = b.pos[u]
  <2> HIDE DEF b
  <2> QED BY <1>0, <1>5, NextInLine DEF b
<1>7. /\ b.trace = [disk.canon.trace EXCEPT ![t] = NoCand]
      /\ \A u \in Turns \ {t} : b.pos[u] = disk.canon.pos[u]
  BY <1>4 DEF ChronInv, Chronicled, SnapshotBefore
<1> HIDE DEF d, r, b
<1>8. PlacedAccepted'
  <2>1. IsCurrent(c, t)
    BY <1>2, <1>6 DEF IsCurrent
  <2> SUFFICES ASSUME NEW u \in Turns, c.pos[u] # 0
               PROVE  c.trace[u] # NoCand \/ u = t
    BY <1>2, <1>3, <1>4, <2>1 DEF PlacedAccepted, Pending
  <2> QED BY <1>2, <1>5, <1>6
<1>9. CorrectivePlaced(c)
  <2>1. b.corrective \subseteq Turns
    BY <1>0 DEF Canons
  <2> QED BY <1>2, <1>5, <1>6, <2>1 DEF CorrectivePlaced
<1>10. CorrectiveKept'
  <2>1. t \notin disk.canon.corrective
    BY <1>5 DEF CorrectivePlaced
  <2>2. \A u \in Turns : disk.abandoned[u] = IF u \in disk.canon.corrective THEN 1 ELSE 0
    BY DEF ChronInv, Chronicled, CorrectiveKept
  <2>3. d.abandoned[t] = 1 /\ \A u \in Turns \ {t} : d.abandoned[u] = disk.abandoned[u]
    BY <1>0, <1>2, <2>1, <2>2
  <2>4. \A u \in Turns : d.abandoned[u] = IF u \in c.corrective THEN 1 ELSE 0
    BY <1>2, <1>5, <2>1, <2>2, <2>3
  <2> QED BY <1>3, <2>4 DEF CorrectiveKept
<1>11. SnapshotBefore'
  <2>1. b.trace \in [Turns -> Cands]
    BY <1>0 DEF Canons
  <2>2. b.trace = [c.trace EXCEPT ![t] = NoCand]
    <3>1. b.trace[t] = NoCand
      <4>1. disk.canon.trace \in [Turns -> Cands]
        BY <1>0 DEF Canons
      <4> QED BY <1>7, <4>1
    <3> QED BY <1>2, <2>1, <3>1
  <2> QED BY <1>2, <1>3, <1>4, <1>6, <2>2 DEF SnapshotBefore
<1>12. SnapshotWhole'
  BY <1>2, <1>3 DEF SnapshotWhole
<1> QED
  BY <1>2, <1>3, <1>6, <1>8, <1>9, <1>10, <1>11, <1>12 DEF Chronicled

\* What is written at the prompt, or before it, is no part of the chronology.
LEMMA PromptChron ==
  ASSUME TypeOK, Chronicled,
         \/ disk' = disk
         \/ \E t \in Turns : Commit(RolledBack(t))
         \/ Commit(Changed(disk))
         \/ \E a \in Ambiguities : RecordRuling(a)
         \/ Migrate \/ Prepare
  PROVE  Chronicled'
<1>0. disk \in Stores /\ disk.canon \in Canons
  BY DEF TypeOK, Stores
<1>1. CASE disk' = disk
  BY <1>1, SameChron
<1>2. CASE \E t \in Turns : Commit(RolledBack(t))
  <2>1. disk'.canon = disk.canon /\ disk'.abandoned = disk.abandoned
        /\ disk'.replay = disk.replay
    BY <1>0, <1>2 DEF Commit, RolledBack, Stores
  <2> QED BY <2>1, SameChron
<1>3. Changed(disk) \in Stores
      /\ Changed(disk).canon.pos = disk.canon.pos
      /\ Changed(disk).canon.trace = disk.canon.trace
      /\ Changed(disk).canon.corrective = disk.canon.corrective
      /\ Changed(disk).abandoned = disk.abandoned
      /\ Changed(disk).replay = disk.replay
  BY <1>0, ChangedType DEF Changed, Stores, Canons
<1>4. CASE Commit(Changed(disk))
  BY <1>3, <1>4, SameChron DEF Commit
<1>5. CASE \E a \in Ambiguities : RecordRuling(a)
  <2> DEFINE s == Changed(disk)
  <2>1. s \in Stores /\ s.canon \in Canons
    BY <1>3 DEF Stores
  <2>2. PICK a \in Ambiguities : disk' = [s EXCEPT !.canon.rulings[a] = Player]
    BY <1>5 DEF RecordRuling, Commit
  <2> HIDE DEF s
  <2>3. /\ disk'.canon.pos = s.canon.pos /\ disk'.canon.trace = s.canon.trace
        /\ disk'.canon.corrective = s.canon.corrective
        /\ disk'.abandoned = s.abandoned /\ disk'.replay = s.replay
    BY <2>1, <2>2 DEF Stores, Canons
  <2> QED BY <1>3, <2>3, SameChron DEF s
<1>6. CASE Migrate \/ Prepare
  <2>1. /\ disk'.canon.pos = disk.canon.pos /\ disk'.canon.trace = disk.canon.trace
        /\ disk'.canon.corrective = disk.canon.corrective
        /\ disk'.abandoned = disk.abandoned /\ disk'.replay = disk.replay
    BY <1>0, <1>6 DEF Migrate, Prepare, Commit, Stores, Canons
  <2> QED BY <2>1, SameChron
<1> QED BY <1>1, <1>2, <1>4, <1>5, <1>6

LEMMA NextChron == ChronInv /\ [Next]_vars => ChronInv'
<1> SUFFICES ASSUME ChronInv, [Next]_vars PROVE Chronicled' /\ Resolving'
  BY NextInv DEF ChronInv
<1>0. /\ TypeOK /\ IInv /\ Chronicled /\ disk \in Stores
      /\ db \in Stores /\ db.canon \in Canons /\ disk.canon \in Canons
  BY DEF ChronInv, IInv, TypeOK, Stores
<1>a. ASSUME Chronicled', pc' \in {"idle", "down"} PROVE Chronicled' /\ Resolving'
  BY <1>a DEF Resolving, InTurn
<1>b. ASSUME InTurn, FailTurn PROVE Chronicled' /\ Resolving'
  <2>1. turn \in Turns
    BY <1>0, <1>b DEF TypeOK
  <2> QED BY <1>0, <1>a, <1>b, <2>1, PromptChron DEF FailTurn
<1>c. ASSUME InTurn, NEW s \in AfterTools(db), db' = s, InTurn',
             UNCHANGED <<disk, attemptDb, turn>>
      PROVE  Chronicled' /\ Resolving'
  <2>1. /\ db'.abandoned = db.abandoned /\ db'.canon.pos = db.canon.pos
        /\ db'.canon.changes = db.canon.changes
        /\ db'.canon.party = db.canon.party
        /\ db'.canon.corrective = db.canon.corrective
    BY <1>0, <1>c DEF AfterTools, Stores, Canons
  <2>2. Chronicled'
    BY <1>0, <1>c, PromptChron
  <2>3. Resolves(db)' /\ Resolves(attemptDb)'
    BY <1>c, <2>1 DEF ChronInv, Resolving, Resolves
  <2> QED BY <1>c, <2>2, <2>3 DEF ChronInv, Resolving
<1>1. ASSUME NEW t \in Turns, Submit(t) PROVE Chronicled' /\ Resolving'
  <2>1. CASE Begin(t)
    BY <1>1, <2>1, BeginChron DEF Submit
  <2>2. CASE Refuse(t)
    BY <1>0, <1>1, <1>a, <2>2, PromptChron DEF Refuse, Submit
  <2> QED BY <1>1, <2>1, <2>2 DEF Submit
<1>2. ASSUME NEW t \in Turns, Dispute(t) PROVE Chronicled' /\ Resolving'
  <2>1. PICK n \in Ordinals : IsNextOrdinal(disk.replay.before.pos, n)
                             /\ Commit(Reopened(disk, t, n))
    BY <1>2 DEF Dispute
  <2> QED BY <1>2, <1>a, <2>1, CandsFacts, DisputeChron DEF Dispute
<1>3. ASSUME NEW t \in Turns, Retry(t) PROVE Chronicled' /\ Resolving'
  BY <1>3, BeginChron DEF Retry
<1>4. CASE ToolRound
  BY <1>4, <1>c DEF ToolRound, InTurn
<1>5. CASE Narrate
  <2>1. PICK s \in AfterTools(db) :
          IF audited
          THEN /\ db' = s /\ proposed' \in AfterProposals
               /\ pc' = "audit" /\ rounds' = 0
               /\ UNCHANGED <<disk, attemptDb, turn, run, attempt, seen, before>>
          ELSE Commit(Accepted(s)) /\ pc' = "idle" /\ NoLocals
    BY <1>5 DEF Narrate
  <2>2. InTurn
    BY <1>5 DEF Narrate, InTurn
  <2>3. CASE audited
    BY <1>c, <2>1, <2>2, <2>3 DEF InTurn
  <2>4. CASE ~ audited
    BY <1>a, <2>1, <2>2, <2>4, AcceptedChron
  <2> QED BY <2>3, <2>4
<1>6. CASE RoundsExhausted
  BY <1>6, <1>b DEF RoundsExhausted, InTurn
<1>7. CASE Throw
  BY <1>7, <1>b DEF Throw
<1>8. CASE AuditAccept
  <2>1. db \in AfterTools(db)
    BY DEF AfterTools
  <2> QED BY <1>8, <1>a, <2>1, AcceptedChron DEF AuditAccept, InTurn
<1>9. CASE AuditReject
  <2>1. PICK keys \in SUBSET ReqKeys :
          IF ShouldRetry(keys)
          THEN /\ db' = Rewound
               /\ attempt' = NextAttempt /\ rounds' = 0
               /\ proposed' = {} /\ seen' = seen \cup keys
               /\ pc' = "model"
               /\ UNCHANGED <<disk, audited, attemptDb, turn, run, before>>
          ELSE FailTurn
    BY <1>9 DEF AuditReject
  <2>2. InTurn
    BY <1>9 DEF AuditReject, InTurn
  <2>3. CASE ShouldRetry(keys)
    <3>1. InTurn' /\ db' = attemptDb /\ UNCHANGED <<disk, attemptDb, turn>>
      BY <2>1, <2>3 DEF InTurn, Rewound
    <3>2. Chronicled'
      BY <1>0, <3>1, PromptChron
    <3>3. Resolves(db)' /\ Resolves(attemptDb)'
      BY <2>2, <3>1 DEF ChronInv, Resolving, Resolves
    <3> QED BY <2>2, <3>1, <3>2, <3>3 DEF ChronInv, Resolving
  <2>4. CASE ~ ShouldRetry(keys)
    BY <1>b, <2>1, <2>2, <2>4
  <2> QED BY <2>3, <2>4
<1>10. CASE Manage
  BY <1>0, <1>10, <1>a, PromptChron DEF Manage, PromptOpen
<1>11. ASSUME NEW a \in Ambiguities, RecordRuling(a) PROVE Chronicled' /\ Resolving'
  BY <1>0, <1>11, <1>a, PromptChron DEF RecordRuling, PromptOpen
<1>12. CASE Quit
  BY <1>0, <1>12, <1>a, PromptChron DEF Quit
<1>13. CASE Migrate
  <2>1. pc' = "down"
    BY <1>13 DEF Migrate
  <2> QED BY <1>0, <1>13, <1>a, <2>1, PromptChron
<1>14. CASE Prepare
  <2>1. pc' = "down"
    BY <1>14 DEF Prepare
  <2> QED BY <1>0, <1>14, <1>a, <2>1, PromptChron
<1>15. CASE Launch
  BY <1>0, <1>15, <1>a, PromptChron DEF Launch
<1>16. CASE Crash
  BY <1>0, <1>16, <1>a, PromptChron DEF Crash
<1>17. CASE UNCHANGED vars
  BY <1>0, <1>17, PromptChron DEF vars, turnVars, ChronInv, Resolving, Resolves, InTurn
<1> QED
  BY <1>1, <1>2, <1>3, <1>4, <1>5, <1>6, <1>7, <1>8, <1>9, <1>10, <1>11,
     <1>12, <1>13, <1>15, <1>16, <1>17, <1>14 DEF Next, EngineStep

LEMMA ChronAlways == Spec => [](TypeOK /\ Chronicled)
<1>1. Init => ChronInv
  BY InitInv, InitChron DEF ChronInv
<1>2. ChronInv => TypeOK /\ Chronicled
  BY DEF ChronInv, IInv
<1> QED BY <1>1, <1>2, NextChron, PTL DEF Spec

\* Failed and repeated turns, disputes and crashes leave no hole and no stray
\* position in campaign_turn_position, however many turns there are.
THEOREM ChronologyHasNoGaps == Spec => []ChronologyContiguous
<1> QED BY ChronAlways, ChronicledFacts, PTL

\* A dispute takes back the turn it is about, no other turn and no management
\* write, and that once; the corrective rule stays through everything after it.
THEOREM DisputesAreSound == Spec => []DisputesSound
<1> QED BY ChronAlways, ChronicledFacts, PTL

-----------------------------------------------------------------------------
\* The engine implements its chronicle (TurnChronicle)

\* The kinds of commits. Nothing that a player could see:
Quiet == disk'.canon = disk.canon /\ disk'.replay = disk.replay

\* A turn is accepted, for the first or the second time.
Accepts(t) ==
  /\ disk.canon.trace[t] = NoCand /\ (Pending(disk) => t = disk.replay.turn)
  /\ \E w : w # NoCand /\ disk'.canon.trace = [disk.canon.trace EXCEPT ![t] = w]
  /\ \A u \in Turns \ {t} : disk'.canon.pos[u] = disk.canon.pos[u]
  /\ disk'.canon.pos[t] # 0
  /\ disk'.canon.corrective = disk.canon.corrective
  /\ disk'.canon.changes = disk.canon.changes
  /\ disk'.canon.party = disk.canon.party
  /\ disk'.replay.status = IF Pending(disk) THEN "replayed" ELSE "available"
  /\ disk'.replay.turn = t /\ disk'.replay.hash = disk'.canon

\* The latest turn is disputed.
Disputes(t) ==
  /\ disk.replay.status = "available" /\ disk.replay.turn = t
  /\ disk.canon = disk.replay.hash /\ disk.canon.trace[t] # NoCand
  /\ IsCurrent(disk.canon, t)
  /\ disk'.canon.trace = [disk.canon.trace EXCEPT ![t] = NoCand]
  /\ \A u \in Turns \ {t} : disk'.canon.pos[u] = disk.canon.pos[u]
  /\ IsCurrent(disk'.canon, t)
  /\ t \notin disk.canon.corrective
  /\ disk'.canon.corrective = disk.canon.corrective \cup {t}
  /\ disk'.canon.changes = disk.canon.changes
  /\ disk'.canon.party = disk.canon.party
  /\ Pending(disk') /\ disk'.replay.turn = t

\* A management or session write, an upgrade, and the characters of an opening.
SameTurns ==
  /\ disk'.replay = disk.replay /\ disk'.canon.pos = disk.canon.pos
  /\ disk'.canon.trace = disk.canon.trace
  /\ disk'.canon.corrective = disk.canon.corrective
Alters ==
  /\ SameTurns /\ ~ Pending(disk)
  /\ disk'.canon.schema = disk.canon.schema
  /\ disk'.canon.party = disk.canon.party
  /\ disk'.canon.changes = disk.canon.changes + 1
Upgrades ==
  /\ SameTurns /\ disk'.canon.changes = disk.canon.changes
  /\ disk'.canon.party = disk.canon.party
  /\ disk'.canon.schema = disk.canon.schema + 1
Reopens ==
  /\ SameTurns /\ disk'.canon.changes = disk.canon.changes
  /\ disk'.canon.schema = disk.canon.schema
  /\ disk'.canon.party = disk.canon.party + 1

Steps == \/ Quiet \/ Alters \/ Upgrades \/ Reopens
         \/ \E t \in Turns : Accepts(t) \/ Disputes(t)

LEMMA AcceptStep ==
  ASSUME ChronInv, InTurn, NEW s \in AfterTools(db), Commit(Accepted(s))
  PROVE  Accepts(turn) /\ turn \in Turns
<1>0. /\ s \in Stores /\ s.canon \in Canons /\ disk.canon \in Canons
      /\ db \in Stores /\ db.canon \in Canons /\ disk \in Stores
  BY CandidateType, AfterToolsType DEF ChronInv, IInv, TypeOK, Stores
<1>1. /\ turn \in Turns /\ Candidate # NoCand
      /\ disk.canon.trace[turn] = NoCand
      /\ Touched(db, {Candidate}) /\ Resolves(db)
      /\ Pending(disk) => turn = disk.replay.turn
  BY DEF ChronInv, IInv, TypeOK, Savepoints, Resolving, Candidate, NoCand
<1>2. /\ s.replay = disk.replay
      /\ s.canon.pos = db.canon.pos /\ s.canon.trace = disk.canon.trace
      /\ s.canon.changes = disk.canon.changes
      /\ s.canon.party = disk.canon.party
      /\ s.canon.corrective = disk.canon.corrective
  <2>1. /\ s.replay = db.replay
        /\ s.canon.pos = db.canon.pos /\ s.canon.trace = db.canon.trace
        /\ s.canon.changes = db.canon.changes
        /\ s.canon.party = db.canon.party
        /\ s.canon.corrective = db.canon.corrective
    BY <1>0 DEF AfterTools, Stores, Canons
  <2> QED BY <1>1, <2>1 DEF Touched, Resolves
<1> DEFINE d == Accepted(s)
           c == d.canon
<1>3. /\ c.pos = db.canon.pos /\ c.corrective = disk.canon.corrective
      /\ c.changes = disk.canon.changes
      /\ c.party = disk.canon.party
      /\ c.trace = [disk.canon.trace EXCEPT ![turn] = Candidate]
  BY <1>0, <1>2 DEF Accepted, Stores, Canons
<1>4. /\ d.replay.status = IF Pending(disk) THEN "replayed" ELSE "available"
      /\ d.replay.turn = turn /\ d.replay.hash = c
  BY <1>0, <1>1, <1>2 DEF Accepted, ReplayStatus, StateHash, ReplaySnapshot, Stores,
     Pending
<1>5. disk' = d
  BY DEF Commit
<1> HIDE DEF d
<1>6. c.pos[turn] # 0 /\ \A u \in Turns \ {turn} : c.pos[u] = disk.canon.pos[u]
  <2>1. PICK n \in Nat : /\ IsNextOrdinal(disk.canon.pos, n)
                         /\ c.pos = Resolved(disk.canon, turn, n).pos
    BY <1>1, <1>3 DEF Resolves
  <2> QED BY <1>0, <1>1, <2>1, NextInLine DEF ChronInv, Chronicled
<1> QED BY <1>1, <1>3, <1>4, <1>5, <1>6 DEF Accepts

LEMMA DisputeStep ==
  ASSUME ChronInv, NEW t \in Turns, MayDispute(disk, t), NEW n \in Nat,
         IsNextOrdinal(disk.replay.before.pos, n), Commit(Reopened(disk, t, n))
  PROVE  Disputes(t)
<1> DEFINE b == disk.replay.before
           r == Resolved(b, t, n)
           d == Reopened(disk, t, n)
           c == d.canon
<1>0. disk \in Stores /\ disk.replay \in Replays /\ b \in Canons
  BY DEF ChronInv, IInv, TypeOK, Stores, Replays
<1>1. /\ r \in Canons /\ r.trace = b.trace /\ r.corrective = b.corrective
      /\ r.changes = b.changes /\ r.party = b.party
  BY <1>0, ResolvedType DEF Resolved, Canons
<1>2. /\ c.pos = r.pos /\ c.trace = b.trace /\ c.corrective = b.corrective \cup {t}
      /\ c.changes = b.changes /\ c.party = b.party
      /\ d.replay.status = "pending" /\ d.replay.turn = disk.replay.turn
  <2> HIDE DEF r
  <2>1. /\ c.pos = r.pos /\ c.trace = r.trace /\ c.corrective = r.corrective \cup {t}
        /\ c.changes = r.changes /\ c.party = r.party
        /\ d.replay.status = "pending" /\ d.replay.turn = disk.replay.turn
    BY <1>0, <1>1 DEF Reopened, Stores, Replays, Canons, r
  <2> QED BY <1>1, <2>1
<1>3. disk' = d
  BY DEF Commit
<1>4. /\ disk.replay.status = "available" /\ disk.replay.turn = t
      /\ disk.canon = disk.replay.hash /\ disk.canon.trace[t] # NoCand
      /\ IsCurrent(disk.canon, t)
  BY DEF MayDispute, StateHash, ReplaySnapshot
<1>5. /\ InLine(b.pos) /\ b.pos[t] = 0 /\ CorrectivePlaced(b)
      /\ disk.canon.corrective = b.corrective /\ disk.canon.changes = b.changes
      /\ disk.canon.party = b.party
  BY <1>4 DEF ChronInv, Chronicled, SnapshotWhole
<1>6. /\ IsCurrent(r, t)
      /\ \A u \in Turns \ {t} : r.pos[u] = b.pos[u]
  <2> HIDE DEF b
  <2> QED BY <1>0, <1>5, NextInLine DEF b
<1>7. /\ b.trace = [disk.canon.trace EXCEPT ![t] = NoCand]
      /\ \A u \in Turns \ {t} : b.pos[u] = disk.canon.pos[u]
  BY <1>4 DEF ChronInv, Chronicled, SnapshotBefore
<1>8. t \notin disk.canon.corrective
  BY <1>5 DEF CorrectivePlaced
<1> HIDE DEF d, r, b
<1>9. IsCurrent(c, t)
  BY <1>2, <1>6 DEF IsCurrent
<1> QED
  BY <1>2, <1>3, <1>4, <1>5, <1>6, <1>7, <1>8, <1>9 DEF Disputes, Pending

\* Every step of the engine is of one of these kinds.
LEMMA StepKinds == ChronInv /\ [Next]_vars => Steps
<1> SUFFICES ASSUME ChronInv, [Next]_vars PROVE Steps
  OBVIOUS
<1>0. /\ disk \in Stores /\ disk.canon \in Canons /\ TypeOK
  BY DEF ChronInv, IInv, TypeOK, Stores
<1>a. CASE disk' = disk
  BY <1>a DEF Steps, Quiet
<1>b. ASSUME NEW t, Commit(RolledBack(t)) PROVE Steps
  <2>1. Quiet
    BY <1>0, <1>b DEF Commit, RolledBack, Stores, Quiet
  <2> QED BY <2>1 DEF Steps
<1>c. CASE ~ Pending(disk) /\ Commit(Changed(disk))
  <2>1. Alters
    BY <1>0, <1>c DEF Commit, Changed, Stores, Canons, Alters, SameTurns
  <2> QED BY <2>1 DEF Steps
<1>d. ASSUME NEW t \in Turns, Begin(t) PROVE Steps
  BY <1>a, <1>d DEF Begin
<1>e. ASSUME InTurn, NEW s \in AfterTools(db), Commit(Accepted(s)) PROVE Steps
  BY <1>e, AcceptStep DEF Steps
<1>1. ASSUME NEW t \in Turns, Submit(t) \/ Retry(t) PROVE Steps
  BY <1>1, <1>b, <1>d DEF Submit, Refuse, Retry
<1>2. ASSUME NEW t \in Turns, Dispute(t) PROVE Steps
  <2>1. PICK n \in Ordinals : IsNextOrdinal(disk.replay.before.pos, n)
                             /\ Commit(Reopened(disk, t, n))
    BY <1>2 DEF Dispute
  <2>2. Disputes(t)
    BY <1>2, <2>1, CandsFacts, DisputeStep DEF Dispute
  <2> QED BY <2>2 DEF Steps
<1>3. CASE ToolRound
  BY <1>3, <1>a DEF ToolRound
<1>4. CASE Narrate
  <2>1. InTurn
    BY <1>4 DEF Narrate, InTurn
  <2> QED BY <1>4, <1>a, <1>e, <2>1 DEF Narrate
<1>5. CASE RoundsExhausted \/ Throw
  BY <1>5, <1>b DEF RoundsExhausted, Throw, FailTurn
<1>6. CASE AuditAccept
  <2>1. db \in AfterTools(db)
    BY DEF AfterTools
  <2> QED BY <1>6, <1>e, <2>1 DEF AuditAccept, InTurn
<1>7. CASE AuditReject
  BY <1>7, <1>a, <1>b DEF AuditReject, FailTurn
<1>8. CASE Manage
  BY <1>8, <1>c DEF Manage, PromptOpen
<1>9. ASSUME NEW a \in Ambiguities, RecordRuling(a) PROVE Steps
  <2> DEFINE s == Changed(disk)
  <2>1. s \in Stores /\ s.canon \in Canons
    BY <1>0, ChangedType DEF Stores
  <2>2. /\ s.replay = disk.replay /\ s.canon.pos = disk.canon.pos
        /\ s.canon.trace = disk.canon.trace
        /\ s.canon.corrective = disk.canon.corrective
        /\ s.canon.schema = disk.canon.schema
        /\ s.canon.party = disk.canon.party
        /\ s.canon.changes = disk.canon.changes + 1
    BY <1>0 DEF Changed, Stores, Canons
  <2>3. disk' = [s EXCEPT !.canon.rulings[a] = Player] /\ ~ Pending(disk)
    BY <1>9 DEF RecordRuling, Commit, PromptOpen
  <2> HIDE DEF s
  <2>4. /\ disk'.replay = s.replay /\ disk'.canon.pos = s.canon.pos
        /\ disk'.canon.trace = s.canon.trace
        /\ disk'.canon.corrective = s.canon.corrective
        /\ disk'.canon.schema = s.canon.schema
        /\ disk'.canon.party = s.canon.party
        /\ disk'.canon.changes = s.canon.changes
    BY <2>1, <2>3 DEF Stores, Canons
  <2>5. Alters
    BY <2>2, <2>3, <2>4 DEF Alters, SameTurns
  <2> QED BY <2>5 DEF Steps
<1>10. CASE Quit \/ Launch
  BY <1>10, <1>a, <1>c DEF Quit, Launch
<1>11. CASE Migrate
  <2>1. Upgrades
    BY <1>0, <1>11 DEF Migrate, Commit, Stores, Canons, Upgrades, SameTurns
  <2> QED BY <2>1 DEF Steps
<1>12. CASE Prepare
  <2>1. Reopens
    BY <1>0, <1>12 DEF Prepare, Commit, Stores, Canons, Reopens, SameTurns
  <2> QED BY <2>1 DEF Steps
<1>13. CASE Crash \/ UNCHANGED vars
  BY <1>13, <1>a DEF Crash, vars
<1> QED
  BY <1>1, <1>2, <1>3, <1>4, <1>5, <1>6, <1>7, <1>8, <1>9, <1>10, <1>11, <1>12,
     <1>13 DEF Next, EngineStep

\* An accepted turn has a position; the disputed one has the last and no trace;
\* what an acceptance hashed is no newer than the store.
AcceptedPlaced == \A t \in AcceptedTurns : disk.canon.pos[t] # 0
DisputedLast ==
  Pending(disk) => /\ disk.canon.trace[disk.replay.turn] = NoCand
                   /\ IsCurrent(disk.canon, disk.replay.turn)
HashOlder ==
  disk.replay.status = "available" =>
    /\ disk.replay.hash.changes <= disk.canon.changes
    /\ disk.replay.hash.schema <= disk.canon.schema
    /\ disk.replay.hash.party <= disk.canon.party

RInv == ChronInv /\ AcceptedPlaced /\ DisputedLast /\ HashOlder

LEMMA InitReads == Init => RInv
<1> SUFFICES ASSUME Init PROVE RInv
  OBVIOUS
<1>1. disk = EmptyStore
  BY DEF Init
<1>2. /\ disk.canon.trace = [t \in Turns |-> NoCand] /\ disk.replay.status = "none"
  BY <1>1 DEF EmptyStore, EmptyCanon
<1> QED
  BY <1>2, InitInv, InitChron DEF RInv, ChronInv, AcceptedPlaced, DisputedLast, HashOlder,
     AcceptedTurns, Pending

LEMMA NextReads == RInv /\ [Next]_vars => RInv'
<1> SUFFICES ASSUME RInv, [Next]_vars
             PROVE  AcceptedPlaced' /\ DisputedLast' /\ HashOlder'
  BY NextChron DEF RInv
<1> USE DEF AcceptedPlaced, DisputedLast, HashOlder, AcceptedTurns, Pending
<1>0. /\ disk.canon.trace \in [Turns -> Cands] /\ disk.canon.changes \in Nat
      /\ disk.canon.schema \in Nat /\ disk.replay.hash.changes \in Nat
      /\ disk.replay.hash.schema \in Nat
      /\ disk.canon.party \in Nat /\ disk.replay.hash.party \in Nat
  BY DEF RInv, ChronInv, IInv, TypeOK, Stores, Canons, Replays
<1>1. /\ disk'.canon.trace \in [Turns -> Cands] /\ disk'.canon.changes \in Nat
      /\ disk'.canon.schema \in Nat /\ disk'.canon.party \in Nat
  BY NextType DEF RInv, ChronInv, IInv, TypeOK, Stores, Canons, Replays
<1>2. Steps
  BY StepKinds DEF RInv
<1>3. CASE Quiet
  BY <1>3 DEF Quiet, RInv
<1>4. CASE Alters \/ Upgrades \/ Reopens
  <2>1. AcceptedPlaced' /\ DisputedLast'
    BY <1>4 DEF Alters, Upgrades, Reopens, SameTurns, RInv, IsCurrent
  <2>2. HashOlder'
    BY <1>0, <1>4 DEF Alters, Upgrades, Reopens, SameTurns, RInv
  <2> QED BY <2>1, <2>2
<1>5. ASSUME NEW t \in Turns, Accepts(t)
      PROVE  AcceptedPlaced' /\ DisputedLast' /\ HashOlder'
  <2>1. AcceptedPlaced'
    <3> SUFFICES ASSUME NEW u \in Turns, disk'.canon.trace[u] # NoCand
                 PROVE  disk'.canon.pos[u] # 0
      OBVIOUS
    <3> QED BY <1>0, <1>5 DEF Accepts, RInv
  <2>2. HashOlder'
    BY <1>1, <1>5 DEF Accepts
  <2>3. DisputedLast'
    BY <1>5 DEF Accepts
  <2> QED BY <2>1, <2>2, <2>3
<1>6. ASSUME NEW t \in Turns, Disputes(t)
      PROVE  AcceptedPlaced' /\ DisputedLast' /\ HashOlder'
  <2>1. AcceptedPlaced'
    <3> SUFFICES ASSUME NEW u \in Turns, disk'.canon.trace[u] # NoCand
                 PROVE  disk'.canon.pos[u] # 0
      OBVIOUS
    <3> QED BY <1>0, <1>6 DEF Disputes, RInv
  <2>2. DisputedLast' /\ HashOlder'
    BY <1>0, <1>6 DEF Disputes
  <2> QED BY <2>1, <2>2
<1> QED BY <1>2, <1>3, <1>4, <1>5, <1>6 DEF Steps

\* The sequence reads the accepted turns off their positions.
Reads ==
  LET m == Cardinality(AcceptedTurns)
  IN /\ m \in Nat /\ IsFiniteSet(AcceptedTurns)
     /\ \A t \in AcceptedTurns : disk.canon.pos[t] \in 1 .. m /\ Chronicle[disk.canon.pos[t]] = t
     /\ \A i \in 1 .. m : Chronicle[i] \in AcceptedTurns /\ disk.canon.pos[Chronicle[i]] = i

LEMMA ChronicleReads == RInv => Reads
<1> SUFFICES ASSUME RInv PROVE Reads
  OBVIOUS
<1> DEFINE A == AcceptedTurns
           m == Cardinality(A)
           pos == disk.canon.pos
<1>1. PICK n \in Nat : LineTo(pos, n)
  BY DEF RInv, ChronInv, Chronicled, InLine
<1>2. /\ \A t \in Placed(pos) : pos[t] \in 1 .. n
      /\ \A k \in 1 .. n : \E t \in Placed(pos) : pos[t] = k
      /\ \A t, u \in Placed(pos) : pos[t] = pos[u] => t = u
  BY <1>1 DEF LineTo
<1>3. n = Cardinality(Placed(pos)) /\ IsFiniteSet(Placed(pos)) /\ IsFiniteSet(A)
  BY <1>1, LineLength, TurnsAssumption, FS_Subset DEF Placed, AcceptedTurns
<1>4. A \subseteq Placed(pos)
  BY DEF RInv, AcceptedPlaced, Placed, AcceptedTurns
<1>5. \A t \in Placed(pos) \ A : Pending(disk) /\ t = disk.replay.turn
  BY DEF RInv, ChronInv, Chronicled, PlacedAccepted, Placed, AcceptedTurns
<1>6. /\ m \in Nat
      /\ \A t \in A : pos[t] \in 1 .. m
      /\ \A k \in 1 .. m : \E t \in A : pos[t] = k
  <2>1. CASE Placed(pos) = A
    BY <1>1, <1>2, <1>3, <2>1
  <2>2. CASE Placed(pos) # A
    <3>1. PICK r \in Placed(pos) : r \notin A
      BY <1>4, <2>2
    <3>2. r = disk.replay.turn /\ Pending(disk) /\ A = Placed(pos) \ {r} /\ r \in Turns
      BY <1>4, <1>5, <3>1 DEF Placed
    <3>3. \A u \in Turns : pos[u] <= pos[r]
      BY <3>2 DEF RInv, DisputedLast, IsCurrent
    <3>4. pos[r] \in 1 .. n
      BY <1>2, <3>1
    <3>5. pos[r] = n
      <4>1. n \in 1 .. n
        BY <3>4
      <4>2. PICK u \in Placed(pos) : pos[u] = n
        BY <1>2, <4>1
      <4>3. n <= pos[r]
        BY <3>3, <4>2 DEF Placed
      <4> QED BY <3>4, <4>3
    <3>6. m = n - 1
      <4>1. r \in Placed(pos)
        BY <3>1
      <4>2. Cardinality(Placed(pos) \ {r}) = Cardinality(Placed(pos)) - 1
        BY <1>3, <4>1, FS_RemoveElement
      <4> QED BY <1>3, <3>2, <4>2
    <3>7. \A t \in A : pos[t] \in 1 .. m
      <4> SUFFICES ASSUME NEW t \in A PROVE pos[t] \in 1 .. m
        OBVIOUS
      <4>1. t \in Placed(pos) /\ t # r
        BY <3>2
      <4>2. pos[t] # n /\ pos[t] \in 1 .. n
        BY <1>2, <3>1, <3>5, <4>1
      <4> QED BY <3>6, <4>2
    <3>8. \A k \in 1 .. m : \E t \in A : pos[t] = k
      <4> SUFFICES ASSUME NEW k \in 1 .. m PROVE \E t \in A : pos[t] = k
        OBVIOUS
      <4>1. k \in 1 .. n /\ k # n
        BY <3>6
      <4>2. PICK t \in Placed(pos) : pos[t] = k
        BY <1>2, <4>1
      <4> QED BY <3>2, <3>5, <4>1, <4>2
    <3>9. m \in Nat
      BY <3>4, <3>6
    <3> QED BY <3>7, <3>8, <3>9
  <2> QED BY <2>1, <2>2
<1>7. \A i \in 1 .. m : Chronicle[i] = CHOOSE t \in A : pos[t] = i
  BY DEF Chronicle
<1>8. \A i \in 1 .. m : Chronicle[i] \in A /\ pos[Chronicle[i]] = i
  <2> SUFFICES ASSUME NEW i \in 1 .. m PROVE Chronicle[i] \in A /\ pos[Chronicle[i]] = i
    OBVIOUS
  <2>1. \E t \in A : pos[t] = i
    BY <1>6
  <2> HIDE DEF A, pos
  <2>2. (CHOOSE t \in A : pos[t] = i) \in A /\ pos[CHOOSE t \in A : pos[t] = i] = i
    BY <2>1
  <2> QED BY <1>7, <2>2
<1>9. \A t \in A : Chronicle[pos[t]] = t
  <2> SUFFICES ASSUME NEW t \in A PROVE Chronicle[pos[t]] = t
    OBVIOUS
  <2>1. pos[t] \in 1 .. m
    BY <1>6
  <2>2. Chronicle[pos[t]] \in A /\ pos[Chronicle[pos[t]]] = pos[t]
    BY <1>8, <2>1
  <2> QED BY <1>2, <1>4, <2>2
<1> QED BY <1>3, <1>6, <1>8, <1>9 DEF Reads

\* What the chronicle is once it is read.
LEMMA ChronicleFacts == Reads =>
  LET m == Cardinality(AcceptedTurns)
  IN /\ Chronicle \in Seq(Turns) /\ Len(Chronicle) = m
     /\ DOMAIN Chronicle = 1 .. m /\ Chronicle = [i \in 1 .. m |-> Chronicle[i]]
     /\ TC!Chronicled = AcceptedTurns
<1> SUFFICES ASSUME Reads
             PROVE  LET m == Cardinality(AcceptedTurns)
                    IN /\ Chronicle \in Seq(Turns) /\ Len(Chronicle) = m
                       /\ DOMAIN Chronicle = 1 .. m
                       /\ Chronicle = [i \in 1 .. m |-> Chronicle[i]]
                       /\ TC!Chronicled = AcceptedTurns
  OBVIOUS
<1> DEFINE m == Cardinality(AcceptedTurns)
<1>1. DOMAIN Chronicle = 1 .. m /\ Chronicle = [i \in 1 .. m |-> Chronicle[i]]
  BY DEF Chronicle
<1>2. \A i \in 1 .. m : Chronicle[i] \in Turns
  BY DEF Reads, AcceptedTurns
<1>3. m \in Nat
  BY DEF Reads
<1>4. Chronicle \in [1 .. m -> Turns]
  BY <1>1, <1>2
<1>5. Chronicle \in Seq(Turns) /\ Len(Chronicle) = m
  BY <1>3, <1>4
<1>6. {Chronicle[i] : i \in DOMAIN Chronicle} = AcceptedTurns
  BY <1>1 DEF Reads
<1> QED BY <1>1, <1>5, <1>6 DEF TC!Chronicled

\* Neither the traces nor their positions change, so neither does the chronicle.
LEMMA SameChronicle ==
  ASSUME Reads, Reads', disk'.canon.trace = disk.canon.trace,
         disk'.canon.pos = disk.canon.pos
  PROVE  Chronicle' = Chronicle
<1> DEFINE m == Cardinality(AcceptedTurns)
<1>1. AcceptedTurns' = AcceptedTurns
  BY DEF AcceptedTurns
<1>2. /\ Chronicle = [i \in 1 .. m |-> Chronicle[i]]
      /\ Chronicle' = [i \in 1 .. m |-> Chronicle'[i]]
  BY <1>1 DEF Chronicle
<1>3. \A i \in 1 .. m : Chronicle'[i] = Chronicle[i]
  <2> SUFFICES ASSUME NEW i \in 1 .. m PROVE Chronicle'[i] = Chronicle[i]
    OBVIOUS
  <2>1. Chronicle[i] \in AcceptedTurns /\ disk.canon.pos[Chronicle[i]] = i
    BY DEF Reads
  <2>2. \A t \in AcceptedTurns : Chronicle'[disk.canon.pos[t]] = t
    BY <1>1 DEF Reads
  <2> QED BY <2>1, <2>2
<1> QED BY <1>2, <1>3

\* An accepted turn goes to the end of the chronicle.
LEMMA AppendsTurn ==
  ASSUME Reads, Reads', NEW t \in Turns, Accepts(t),
         disk.canon.trace \in [Turns -> Cands]
  PROVE  t \notin AcceptedTurns /\ Chronicle' = Append(Chronicle, t)
<1> DEFINE A == AcceptedTurns
           m == Cardinality(A)
           pos == disk.canon.pos
           new == disk'.canon.pos
           seq == Chronicle
           seq2 == Chronicle'
<1>1. t \notin A /\ A' = A \cup {t}
  BY DEF Accepts, AcceptedTurns
<1>2. \A u \in A : new[u] = pos[u]
  BY <1>1 DEF Accepts, AcceptedTurns
<1>3. m \in Nat /\ m' = m + 1
  BY <1>1, FS_AddElement DEF Reads
<1>4. /\ \A u \in A : pos[u] \in 1 .. m /\ seq[pos[u]] = u
      /\ \A i \in 1 .. m : seq[i] \in A /\ pos[seq[i]] = i
  BY DEF Reads
<1>5. /\ \A u \in A \cup {t} : new[u] \in 1 .. (m + 1) /\ seq2[new[u]] = u
      /\ \A i \in 1 .. (m + 1) : seq2[i] \in A \cup {t} /\ new[seq2[i]] = i
  BY <1>1, <1>3 DEF Reads
<1>6. /\ seq \in Seq(Turns) /\ Len(seq) = m /\ DOMAIN seq = 1 .. m
  BY ChronicleFacts
<1>7. seq2 = [i \in 1 .. (m + 1) |-> seq2[i]]
  BY <1>3 DEF Chronicle
<1> HIDE DEF A, m, pos, new, seq, seq2
<1>8. \A i \in 1 .. m : seq2[i] = seq[i]
  BY <1>2, <1>3, <1>4, <1>5
<1>9. seq2[m + 1] = t
  <2>1. m + 1 \in 1 .. (m + 1)
    BY <1>3
  <2>2. seq2[m + 1] \in A \cup {t} /\ new[seq2[m + 1]] = m + 1
    BY <1>5, <2>1
  <2>3. \A u \in A : new[u] # m + 1
    BY <1>2, <1>3, <1>4
  <2> QED BY <2>2, <2>3
<1>10. seq2 = Append(seq, t)
  <2>1. /\ Append(seq, t) = [i \in 1 .. (m + 1) |-> Append(seq, t)[i]]
        /\ Append(seq, t)[m + 1] = t
        /\ \A i \in 1 .. m : Append(seq, t)[i] = seq[i]
    <3>1. Append(seq, t) \in Seq(Turns) /\ Len(Append(seq, t)) = m + 1
      BY <1>3, <1>6
    <3>2. Append(seq, t)[m + 1] = t /\ \A i \in 1 .. m : Append(seq, t)[i] = seq[i]
      BY <1>6, AppendProperties
    <3>3. Append(seq, t) = [i \in 1 .. (m + 1) |-> Append(seq, t)[i]]
      <4> DEFINE q == Append(seq, t)
      <4> HIDE DEF q
      <4>1. q \in Seq(Turns) /\ Len(q) = m + 1
        BY <3>1 DEF q
      <4>2. q = [i \in 1 .. (m + 1) |-> q[i]]
        BY <4>1
      <4> QED BY <4>2 DEF q
    <3> QED BY <3>2, <3>3
  <2>2. \A i \in 1 .. (m + 1) : seq2[i] = Append(seq, t)[i]
    BY <1>3, <1>8, <1>9, <2>1
  <2> QED BY <1>7, <2>1, <2>2
<1> QED BY <1>1, <1>10 DEF A, seq, seq2

\* A dispute takes the last turn off the chronicle.
LEMMA RemovesTurn ==
  ASSUME Reads, Reads', NEW t \in Turns, Disputes(t),
         disk.canon.trace \in [Turns -> Cands]
  PROVE  /\ Chronicle # <<>> /\ Chronicle[Len(Chronicle)] = t
         /\ Chronicle' = SubSeq(Chronicle, 1, Len(Chronicle) - 1)
<1> DEFINE A == AcceptedTurns
           m == Cardinality(A)
           pos == disk.canon.pos
           new == disk'.canon.pos
           seq == Chronicle
           seq2 == Chronicle'
<1>1. t \in A /\ A' = A \ {t}
  BY DEF Disputes, AcceptedTurns
<1>2. \A u \in A \ {t} : new[u] = pos[u]
  BY DEF Disputes, AcceptedTurns
<1>3. m \in Nat /\ m' = m - 1
  BY <1>1, FS_RemoveElement DEF Reads
<1>4. /\ \A u \in A : pos[u] \in 1 .. m /\ seq[pos[u]] = u
      /\ \A i \in 1 .. m : seq[i] \in A /\ pos[seq[i]] = i
  BY DEF Reads
<1>5. /\ \A u \in A \ {t} : new[u] \in 1 .. (m - 1) /\ seq2[new[u]] = u
      /\ \A i \in 1 .. (m - 1) : seq2[i] \in A \ {t} /\ new[seq2[i]] = i
  BY <1>1, <1>3 DEF Reads
<1>6. /\ seq \in Seq(Turns) /\ Len(seq) = m /\ DOMAIN seq = 1 .. m
  BY ChronicleFacts
<1>7. seq2 = [i \in 1 .. (m - 1) |-> seq2[i]]
  BY <1>3 DEF Chronicle
<1>8. \A u \in A : pos[u] <= pos[t]
  BY DEF Disputes, IsCurrent, AcceptedTurns
<1> HIDE DEF A, m, pos, new, seq, seq2
<1>9. m >= 1 /\ pos[t] = m
  <2>1. pos[t] \in 1 .. m
    BY <1>1, <1>4
  <2>2. m \in 1 .. m
    BY <1>3, <2>1
  <2>3. seq[m] \in A /\ pos[seq[m]] = m
    BY <1>4, <2>2
  <2>4. m <= pos[t]
    BY <1>8, <2>3
  <2> QED BY <1>3, <2>1, <2>4
<1>10. seq[m] = t
  BY <1>1, <1>4, <1>9
<1>11. \A i \in 1 .. (m - 1) : seq2[i] = seq[i]
  <2> SUFFICES ASSUME NEW i \in 1 .. (m - 1) PROVE seq2[i] = seq[i]
    OBVIOUS
  <2>1. i \in 1 .. m /\ i # m
    BY <1>3
  <2>2. seq[i] \in A /\ pos[seq[i]] = i
    BY <1>4, <2>1
  <2>3. seq[i] # t
    BY <1>9, <2>1, <2>2
  <2> QED BY <1>2, <1>5, <2>2, <2>3
<1>12. seq # <<>>
  BY <1>6, <1>9
<1>13. seq2 = SubSeq(seq, 1, Len(seq) - 1)
  <2>1. SubSeq(seq, 1, m - 1) = [i \in 1 .. (m - 1) |-> seq[i]]
    <3>1. SubSeq(seq, 1, m - 1) \in Seq(Turns) /\ Len(SubSeq(seq, 1, m - 1)) = m - 1
      BY <1>3, <1>6, <1>9
    <3>2. \A i \in 1 .. (m - 1) : SubSeq(seq, 1, m - 1)[i] = seq[i]
      BY <1>3, <1>6, <1>9
    <3>3. DOMAIN SubSeq(seq, 1, m - 1) = 1 .. (m - 1)
      BY <3>1
    <3> QED BY <3>1, <3>2, <3>3
  <2> QED BY <1>6, <1>7, <1>11, <2>1
<1> QED BY <1>6, <1>10, <1>12, <1>13 DEF seq, seq2

\* Every step of the engine is a step of the chronicle, or shows nothing.
LEMMA StepSimulates == RInv /\ RInv' /\ [Next]_vars => [TC!Next]_(TC!cvars)
<1> SUFFICES ASSUME RInv, RInv', [Next]_vars PROVE [TC!Next]_(TC!cvars)
  OBVIOUS
<1>0. /\ Reads /\ Reads' /\ Steps
      /\ disk.canon.trace \in [Turns -> Cands]
      /\ disk.canon.changes \in Nat /\ disk.canon.schema \in Nat
      /\ disk.replay.hash.changes \in Nat /\ disk.replay.hash.schema \in Nat
      /\ disk.canon.party \in Nat /\ disk.replay.hash.party \in Nat
  <2>1. Reads /\ (RInv' => Reads')
    BY ChronicleReads, PTL
  <2> QED
    BY <2>1, StepKinds DEF RInv, ChronInv, IInv, TypeOK, Stores, Canons, Replays
<1>1. Pending(disk) => disk.replay.turn # NoTurn
  BY TurnsAssumption DEF RInv, ChronInv, Chronicled, SnapshotBefore, Pending
<1> USE DEF StateHash, ReplaySnapshot
<1>2. CASE Quiet
  <2>1. Chronicle' = Chronicle
    BY <1>0, <1>2, SameChronicle DEF Quiet
  <2>2. UNCHANGED TC!cvars
    BY <1>2, <2>1 DEF Quiet, TC!cvars, Pending
  <2> QED BY <2>2
<1>3. CASE Alters
  <2>1. Chronicle' = Chronicle
    BY <1>0, <1>3, SameChronicle DEF Alters, SameTurns
  <2>2. disk'.replay.status = "available" => disk'.canon # disk'.replay.hash
    <3>1. disk'.replay.status = "available" =>
            disk'.replay.hash.changes <= disk.canon.changes
      BY <1>3 DEF Alters, SameTurns, RInv, HashOlder
    <3> QED BY <1>0, <1>3, <3>1 DEF Alters, SameTurns
  <2>3. TC!Change
    BY <1>3, <2>1, <2>2 DEF Alters, SameTurns, TC!Change, Pending
  <2> QED BY <2>3 DEF TC!Next
<1>4. CASE Upgrades
  <2>1. Chronicle' = Chronicle
    BY <1>0, <1>4, SameChronicle DEF Upgrades, SameTurns
  <2>2. disk'.replay.status = "available" => disk'.canon # disk'.replay.hash
    <3>1. disk'.replay.status = "available" =>
            disk'.replay.hash.schema <= disk.canon.schema
      BY <1>4 DEF Upgrades, SameTurns, RInv, HashOlder
    <3> QED BY <1>0, <1>4, <3>1 DEF Upgrades, SameTurns
  <2>3. TC!Migrate
    BY <1>4, <2>1, <2>2 DEF Upgrades, SameTurns, TC!Migrate, Pending
  <2> QED BY <2>3 DEF TC!Next
<1>5. CASE Reopens
  <2>1. Chronicle' = Chronicle
    BY <1>0, <1>5, SameChronicle DEF Reopens, SameTurns
  <2>2. disk'.replay.status = "available" => disk'.canon # disk'.replay.hash
    <3>1. disk'.replay.status = "available" =>
            disk'.replay.hash.party <= disk.canon.party
      BY <1>5 DEF Reopens, SameTurns, RInv, HashOlder
    <3> QED BY <1>0, <1>5, <3>1 DEF Reopens, SameTurns
  <2>3. TC!Reopen
    BY <1>5, <2>1, <2>2 DEF Reopens, SameTurns, TC!Reopen, Pending
  <2> QED BY <2>3 DEF TC!Next
<1>6. ASSUME NEW t \in Turns, Accepts(t) PROVE TC!Next
  <2>1. t \notin AcceptedTurns /\ Chronicle' = Append(Chronicle, t)
    BY <1>0, <1>6, AppendsTurn
  <2>2. t \notin TC!Chronicled
    BY <1>0, <2>1, ChronicleFacts
  <2>3. TC!Accept(t)
    BY <1>1, <1>6, <2>1, <2>2 DEF Accepts, TC!Accept, Pending
  <2> QED BY <2>3 DEF TC!Next
<1>7. ASSUME NEW t \in Turns, Disputes(t) PROVE TC!Next
  <2>1. /\ Chronicle # <<>> /\ Chronicle[Len(Chronicle)] = t
        /\ Chronicle' = SubSeq(Chronicle, 1, Len(Chronicle) - 1)
    BY <1>0, <1>7, RemovesTurn
  <2>2. TC!Dispute
    BY <1>7, <2>1 DEF Disputes, TC!Dispute, Pending
  <2> QED BY <2>2 DEF TC!Next
<1> QED BY <1>0, <1>2, <1>3, <1>4, <1>6, <1>7, <1>5 DEF Steps

\* For any number of turns, whatever fails, crashes or is disputed, a player sees
\* the chronicle that docs/campaign-rules.md describes: it grows at its end, and its
\* last turn is taken back at most once, for one more adjudication.  Between the
\* dispute and that adjudication only an opening writes: migrations and characters.
THEOREM EngineImplementsChronicle == Spec => Implements
<1>1. Init => TC!Init
  <2> SUFFICES ASSUME Init PROVE TC!Init
    OBVIOUS
  <2>1. /\ disk.canon = EmptyCanon /\ disk.replay.status = "none"
    BY DEF Init, EmptyStore
  <2>2. AcceptedTurns = {}
    BY <2>1 DEF AcceptedTurns, EmptyCanon
  <2>3. Cardinality(AcceptedTurns) = 0
    BY <2>2, FS_EmptySet
  <2>4. 1 .. Cardinality(AcceptedTurns) = {}
    BY <2>3
  <2>5. Chronicle = <<>>
    BY <2>4 DEF Chronicle
  <2> QED BY <2>1, <2>5 DEF TC!Init, EmptyCanon, Pending
<1> QED
  BY <1>1, InitReads, NextReads, StepSimulates, PTL DEF Spec, Implements, TC!Spec

=============================================================================
