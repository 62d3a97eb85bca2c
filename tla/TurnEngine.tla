----------------------------- MODULE TurnEngine -----------------------------
(***************************************************************************)
(* One campaign database under the turn orchestrator: runTurn with its two *)
(* savepoints and its audited attempts, the replay row every accepted turn *)
(* leaves, the dispute of the latest turn, the recovery of a disputed      *)
(* replay, the other commands of the prompt, and the death of the process. *)
(*                                                                         *)
(* A store is what SQLite holds: `canon' is every table the replay hash    *)
(* covers; the replay row, the abandoned traces and the failure            *)
(* diagnostics are the three tables it leaves out (turnReplayStore.ts      *)
(* EXCLUDED).  `disk' is the committed store; `db' is what the connection  *)
(* sees, ahead of `disk' only while the turn savepoint is open.            *)
(***************************************************************************)
EXTENDS Naturals, FiniteSets

CONSTANTS
  Turns,          \* turn inputs: session, turn id, player input and seed as one value
  Ambiguities,    \* rules ambiguities a turn may set a precedent for
  ReqKeys,        \* the requirement keys of audit rejections
  Runs,           \* tags that tell the runs whose writes are in a store apart
  MaxAttempts,    \* DEFAULT_MAX_AUDITED_ATTEMPTS
  MaxToolRounds,  \* maxToolRounds
  MaxChanges,     \* bound: canonical changes made between turns
  MaxSchema,      \* bound: the newest schema version an upgrade may bring
  MaxParty,       \* bound: openings that write character or custody rows
  NoTurn          \* the turn of a campaign with no replay row

ASSUME TurnsAssumption == IsFiniteSet(Turns) /\ NoTurn \notin Turns
ASSUME BoundsAssumption ==
  /\ MaxAttempts \in Nat \ {0}
  /\ MaxToolRounds \in Nat \ {0}
  /\ MaxChanges \in Nat /\ MaxSchema \in Nat /\ MaxParty \in Nat
ASSUME RunsAssumption == Runs \subseteq Nat \ {0}

VARIABLES
  db,         \* the store as the one connection sees it
  disk,       \* the committed store, what a crash leaves
  attemptDb,  \* the store at SAVEPOINT eshyra_turn_attempt
  audited,    \* whether this process wired an auditor into the turns
  pc,         \* "down" | "idle" (at the prompt) | "model" | "audit"
  turn,       \* the input of the running turn
  run,        \* the tag of the running turn's writes
  attempt,    \* candidate attempt, from 1
  rounds,     \* model rounds of this attempt
  proposed,   \* precedents this candidate proposed
  seen,       \* requirement keys of earlier rejections
  before      \* replaySnapshot taken before the turn wrote anything

turnVars == <<attemptDb, turn, run, attempt, rounds, proposed, seen, before>>
vars == <<db, disk, audited, pc, turnVars>>

-----------------------------------------------------------------------------
\* Who wrote a row: <<run, attempt>> of a candidate, or one of these two.
NoCand == <<0, 0>>
Player == <<0, 1>>
Candidate == <<run, attempt>>

EmptyCanon ==
  [schema |-> 0,                                \* the schema and its migration ledger
   pos |-> [t \in Turns |-> 0],                 \* campaign_turn_position, 0 for no row
   trace |-> [t \in Turns |-> NoCand],          \* turn_trace: the accepted candidate
   world |-> {},                                \* candidates whose state writes are present
   rulings |-> [a \in Ambiguities |-> NoCand],  \* who recorded the ruling, if any
   corrective |-> {},                           \* turns that have a disputed-turn rule
   changes |-> 0,                               \* management and session writes so far
   party |-> 0]                                 \* openings that wrote character rows

EmptyStore ==
  [canon |-> EmptyCanon,
   replay |-> [status |-> "none", turn |-> NoTurn,
               before |-> EmptyCanon, hash |-> EmptyCanon],
   abandoned |-> [t \in Turns |-> 0],           \* abandoned traces kept per turn
   failed |-> {}]                               \* turns with a failure diagnostic

\* replaySnapshot and replayStateHash: canon only.
ReplaySnapshot(s) == s.canon
\* Mutant: a hash that notices failure diagnostics.
HashesFailures(s) == [s.canon EXCEPT !.corrective = @ \cup s.failed]
StateHash(s) == ReplaySnapshot(s)

Pending(s) == s.replay.status = "pending"

\* COALESCE(MAX(ordinal) + 1, 1)
IsNextOrdinal(pos, n) ==
  /\ \A t \in Turns : pos[t] < n
  /\ n = 1 \/ \E t \in Turns : pos[t] = n - 1

\* INSERT OR IGNORE of the turn's chronology row.
Resolved(c, t, n) == [c EXCEPT !.pos[t] = IF @ = 0 THEN n ELSE @]

\* getCurrentCampaignPosition
IsCurrent(c, t) == c.pos[t] # 0 /\ \A u \in Turns : c.pos[u] <= c.pos[t]

Ordinals == 1 .. (Cardinality(Turns) + 1)

\* Mutant: an accepted turn may be run again.
RerunsAccepted(s, t) ==
  Pending(s) => t = s.replay.turn /\ StateHash(s) = s.replay.hash

\* The entry checks of runTurn, inside the turn savepoint.
MayRun(s, t) ==
  IF Pending(s)
  THEN t = s.replay.turn /\ StateHash(s) = s.replay.hash
  ELSE s.canon.trace[t] = NoCand

Init ==
  /\ db = EmptyStore /\ disk = EmptyStore /\ attemptDb = EmptyStore
  /\ pc = "down" /\ audited = FALSE
  /\ turn = NoTurn /\ run = 0 /\ attempt = 0 /\ rounds = 0
  /\ proposed = {} /\ seen = {} /\ before = EmptyCanon

InTurn == pc \in {"model", "audit"}

\* The locals of runTurn, before it starts and once it has returned.
NoLocals ==
  /\ attemptDb' = EmptyStore /\ turn' = NoTurn /\ run' = 0
  /\ attempt' = 0 /\ rounds' = 0 /\ proposed' = {} /\ seen' = {}
  /\ before' = EmptyCanon

\* A committed write outside a turn: one transaction on the idle connection.
Commit(s) == db' = s /\ disk' = s

-----------------------------------------------------------------------------
\* runTurn

Begin(t) ==
  /\ MayRun(db, t)
  /\ \E n \in Ordinals, r \in Runs :
       /\ IsNextOrdinal(db.canon.pos, n)
       /\ \A q \in Runs : (\A w \in db.canon.world : w[1] # q) => r <= q
       /\ \A w \in db.canon.world : w[1] # r
       /\ before' = ReplaySnapshot(db)
       /\ db' = [db EXCEPT !.canon = Resolved(@, t, n)]
       /\ attemptDb' = db'
       /\ run' = r
  /\ turn' = t /\ attempt' = 1 /\ rounds' = 0
  /\ proposed' = {} /\ seen' = {}
  /\ pc' = "model"
  /\ UNCHANGED <<disk, audited>>

\* Mutant: the position is resolved outside the turn savepoint.
KeepsPosition(t) ==
  [disk EXCEPT !.failed = @ \cup {t}, !.canon.pos = db.canon.pos]

\* The catch of runTurn: both savepoints go, then the diagnostic is kept.
RolledBack(t) == [disk EXCEPT !.failed = @ \cup {t}]

Refuse(t) ==
  /\ ~ MayRun(db, t)
  /\ Commit(RolledBack(t))
  /\ UNCHANGED <<audited, pc, turnVars>>

\* The player submits a turn.
Submit(t) == pc = "idle" /\ (Begin(t) \/ Refuse(t))

FailTurn ==
  /\ Commit(RolledBack(turn))
  /\ pc' = "idle" /\ NoLocals
  /\ UNCHANGED audited

\* What the store may be once the tools of one model reply have run.
AfterTools(s) == {s, [s EXCEPT !.canon.world = @ \cup {Candidate}]}

\* accept_ambiguity_precedent: only audited turns, only unresolved ambiguities.
Proposals(s) ==
  IF audited THEN {a \in Ambiguities \ proposed : s.canon.rulings[a] = NoCand}
             ELSE {}

\* The precedents of this candidate once those tools have run: one more, or not.
AfterProposals == {proposed} \cup {proposed \cup {a} : a \in Proposals(db)}

\* Mutant: every accepted turn can be disputed.
AlwaysAvailable(s, t) == "available"

\* retainTurnReplay: the second adjudication of a turn cannot be disputed.
ReplayStatus(s, t) ==
  IF Pending(s) /\ s.replay.turn = t THEN "replayed" ELSE "available"

\* What RELEASE eshyra_turn makes durable of store s: precedents, transcript,
\* trace and the replay row.
Accepted(s) ==
  LET c == [s.canon EXCEPT
              !.world = @ \cup {Candidate},
              !.trace[turn] = Candidate,
              !.rulings = [a \in Ambiguities |->
                             IF a \in proposed THEN Candidate ELSE @[a]]]
  IN [s EXCEPT !.canon = c,
               !.replay = [status |-> ReplayStatus(s, turn), turn |-> turn,
                           before |-> before,
                           hash |-> StateHash([s EXCEPT !.canon = c])]]

\* A reply that requests tools: they run and the loop goes on.
ToolRound ==
  /\ pc = "model" /\ rounds < MaxToolRounds
  /\ rounds' = rounds + 1
  /\ db' \in AfterTools(db)
  /\ proposed' \in AfterProposals
  /\ UNCHANGED <<disk, audited, pc, attemptDb, turn, run, attempt, seen, before>>

\* A final reply (a provider-owned loop may have run tools within it).
Narrate ==
  /\ pc = "model" /\ rounds < MaxToolRounds
  /\ \E s \in AfterTools(db) :
       IF audited
       THEN /\ db' = s /\ proposed' \in AfterProposals
            /\ pc' = "audit" /\ rounds' = 0
            /\ UNCHANGED <<disk, attemptDb, turn, run, attempt, seen, before>>
       ELSE Commit(Accepted(s)) /\ pc' = "idle" /\ NoLocals
  /\ UNCHANGED audited

RoundsExhausted == pc = "model" /\ rounds = MaxToolRounds /\ FailTurn

\* The model, a tool, the auditor or the recording after acceptance throws.
Throw == InTurn /\ FailTurn

\* recordAmbiguityRuling must create every proposed precedent.
AuditAccept ==
  /\ pc = "audit"
  /\ \A a \in proposed : db.canon.rulings[a] = NoCand
  /\ Commit(Accepted(db))
  /\ pc' = "idle" /\ NoLocals
  /\ UNCHANGED audited

\* Mutant: every rejection is retried.
RetriesUncapped(keys) == TRUE

\* shouldRetryAuditRejection, within the cap of the attempt loop.
ShouldRetry(keys) ==
  /\ attempt < MaxAttempts
  /\ attempt = 1 \/ keys \ seen # {}

\* Mutant: the rejected candidate's writes stay.
KeptCandidate == db
\* ROLLBACK TO eshyra_turn_attempt
Rewound == attemptDb

\* Mutant: every candidate counts as the first.
SameAttempt == attempt
NextAttempt == attempt + 1

AuditReject ==
  /\ pc = "audit"
  /\ \E keys \in SUBSET ReqKeys :
       IF ShouldRetry(keys)
       THEN /\ db' = Rewound
            /\ attempt' = NextAttempt /\ rounds' = 0
            /\ proposed' = {} /\ seen' = seen \cup keys
            /\ pc' = "model"
            /\ UNCHANGED <<disk, audited, attemptDb, turn, run, before>>
       ELSE FailTurn

-----------------------------------------------------------------------------
\* Disputes and their recovery

\* restoreReplaySnapshot, the chronology row again, the corrective rule.
Reopened(s, t, n) ==
  LET c == [Resolved(s.replay.before, t, n) EXCEPT !.corrective = @ \cup {t}]
  IN [s EXCEPT !.canon = c,
               !.abandoned[t] = @ + 1,
               !.replay.status = "pending",
               !.replay.hash = StateHash([s EXCEPT !.canon = c])]

\* disputeTurn's guards: the latest turn, unreplayed, and nothing since.
MayDispute(s, t) ==
  /\ s.replay.status = "available" /\ s.replay.turn = t
  /\ IsCurrent(s.canon, t)
  /\ StateHash(s) = s.replay.hash
  /\ s.canon.trace[t] # NoCand

Dispute(t) ==
  /\ pc = "idle"
  /\ MayDispute(disk, t)
  /\ \E n \in Ordinals :
       /\ IsNextOrdinal(disk.replay.before.pos, n)
       /\ Resolved(disk.replay.before, t, n).pos[t] = disk.canon.pos[t]
       /\ Commit(Reopened(disk, t, n))
  /\ UNCHANGED <<audited, pc, turnVars>>

\* resumeDisputedTurn: runTurn with the saved input.
Retry(t) ==
  /\ pc = "idle"
  /\ Pending(disk) /\ disk.replay.turn = t
  /\ StateHash(disk) = disk.replay.hash
  /\ Begin(t)

-----------------------------------------------------------------------------
\* The rest of the prompt, and the process

Changed(s) == [s EXCEPT !.canon.changes = @ + 1]

\* Mutant: the prompt ignores a pending replay.
PromptIdle == pc = "idle"

\* turnLoop takes no other command while a disputed replay is pending.
PromptOpen == pc = "idle" /\ ~ Pending(disk)

Manage ==
  /\ PromptOpen /\ disk.canon.changes < MaxChanges
  /\ Commit(Changed(disk))
  /\ UNCHANGED <<audited, pc, turnVars>>

RecordRuling(a) ==
  /\ PromptOpen /\ disk.canon.changes < MaxChanges
  /\ \E t \in Turns : disk.canon.pos[t] # 0
  /\ disk.canon.rulings[a] = NoCand
  /\ Commit([Changed(disk) EXCEPT !.canon.rulings[a] = Player])
  /\ UNCHANGED <<audited, pc, turnVars>>

\* gracefulClose returns early, the session left open, while a replay is pending.
Quit ==
  /\ pc = "idle"
  /\ IF Pending(disk) THEN UNCHANGED <<db, disk>>
     ELSE /\ disk.canon.changes < MaxChanges
          /\ Commit(Changed(disk))
  /\ pc' = "down"
  /\ UNCHANGED <<audited, turnVars>>

\* playLocked opens the database with initSchema, which applies the migrations
\* an upgraded program brings, whatever the replay row says.
Migrate ==
  /\ pc = "down" /\ disk.canon.schema < MaxSchema
  /\ Commit([disk EXCEPT !.canon.schema = @ + 1])
  /\ UNCHANGED <<audited, pc, turnVars>>

\* What playLocked does next, still before it looks for a pending replay: a
\* deferred character is created or imported (ensureCharacterReady), characters
\* are caught up, forked or stamped (activateCampaignCustody).  Either may refuse
\* and end the process with these rows written.
Prepare ==
  /\ pc = "down" /\ disk.canon.party < MaxParty
  /\ Commit([disk EXCEPT !.canon.party = @ + 1])
  /\ UNCHANGED <<audited, pc, turnVars>>

\* launch: a pending replay opens the prompt as it is; otherwise the open session
\* is resumed or closed (getSessionLaunchState), or a new one is written.
Launch ==
  /\ pc = "down"
  /\ \/ UNCHANGED <<db, disk>>
     \/ /\ ~ Pending(disk) /\ disk.canon.changes < MaxChanges
        /\ Commit(Changed(disk))
  /\ audited' \in BOOLEAN
  /\ pc' = "idle"
  /\ UNCHANGED turnVars

\* The process dies: SQLite drops the open transaction.
Crash ==
  /\ pc # "down"
  /\ pc' = "down" /\ db' = disk /\ NoLocals
  /\ UNCHANGED <<disk, audited>>

-----------------------------------------------------------------------------
EngineStep ==
  \/ ToolRound \/ Narrate \/ RoundsExhausted \/ Throw
  \/ AuditAccept \/ AuditReject

Next ==
  \/ \E t \in Turns : Submit(t) \/ Dispute(t) \/ Retry(t)
  \/ EngineStep
  \/ Manage \/ (\E a \in Ambiguities : RecordRuling(a))
  \/ Quit \/ Migrate \/ Prepare \/ Launch \/ Crash

Spec == Init /\ [][Next]_vars

\* A provider answers or throws, and so does the auditor: a turn keeps moving.
Fairness == WF_vars(EngineStep)

\* What a recovery needs besides: the player comes back and keeps retrying,
\* and the provider and the auditor do not refuse for ever.
Persistence ==
  /\ WF_vars(Launch)
  /\ \A t \in Turns : SF_vars(Retry(t))
  /\ SF_vars(Narrate)
  /\ SF_vars(AuditAccept)

FairSpec == Spec /\ Fairness

-----------------------------------------------------------------------------
\* Properties

Cands == (Runs \cup {0}) \X (0 .. MaxAttempts)

Canons ==
  [schema : Nat, pos : [Turns -> Nat], trace : [Turns -> Cands], world : SUBSET Cands,
   rulings : [Ambiguities -> Cands], corrective : SUBSET Turns, changes : Nat,
   party : Nat]

Replays ==
  [status : {"none", "available", "pending", "replayed"},
   turn : Turns \cup {NoTurn}, before : Canons, hash : Canons]

Stores ==
  [canon : Canons, replay : Replays,
   abandoned : [Turns -> Nat], failed : SUBSET Turns]

\* Every variable has its type, and a running turn has an input and a tag.
TypeOK ==
  /\ db \in Stores /\ disk \in Stores /\ attemptDb \in Stores
  /\ audited \in BOOLEAN
  /\ pc \in {"down", "idle", "model", "audit"}
  /\ turn \in Turns \cup {NoTurn}
  /\ run \in Runs \cup {0}
  /\ attempt \in 0 .. MaxAttempts /\ rounds \in 0 .. MaxToolRounds
  /\ proposed \subseteq Ambiguities /\ seen \subseteq ReqKeys
  /\ before \in Canons
  /\ InTurn => turn \in Turns /\ run # 0 /\ attempt # 0

\* The state writes and the precedents in c are those of accepted candidates.
OnlyAcceptedIn(c) ==
  /\ c.world = {c.trace[t] : t \in Turns} \ {NoCand}
  /\ \A a \in Ambiguities : c.rulings[a] \in c.world \cup {NoCand, Player}

\* What the database keeps, and what a dispute would bring back, holds all the
\* writes of every accepted candidate and none of a rejected attempt, a failed
\* or crashed turn, or a disputed adjudication (runTurn's two savepoints).
OnlyAcceptedWrites ==
  /\ OnlyAcceptedIn(disk.canon)
  /\ OnlyAcceptedIn(disk.replay.before)

\* campaign_turn_position has no hole and no turn that was not accepted, but
\* for the disputed turn, which keeps the last position while it is pending.
ChronologyContiguous ==
  LET placed == {t \in Turns : disk.canon.pos[t] # 0}
  IN /\ {disk.canon.pos[t] : t \in placed} = 1 .. Cardinality(placed)
     /\ \A t \in placed :
          \/ disk.canon.trace[t] # NoCand
          \/ Pending(disk) /\ t = disk.replay.turn /\ IsCurrent(disk.canon, t)

\* A pending replay passes assertReplayState and the entry checks of runTurn.
Resumable ==
  /\ disk.replay.turn \in Turns
  /\ StateHash(disk) = disk.replay.hash
  /\ disk.canon.trace[disk.replay.turn] = NoCand

\* A reopening wrote hashed rows under the replay: a migration, or characters.
Reworked ==
  \/ disk.canon.schema # disk.replay.hash.schema
  \/ disk.canon.party # disk.replay.hash.party

\* Whatever failed, crashed or was refused meanwhile, a pending replay can be
\* retried, unless playLocked wrote hashed rows before it looked at the replay:
\* an upgrade's migrations, a deferred character, custody of the party.
PendingResumable == Pending(disk) /\ ~ Reworked => Resumable

\* docs/campaign-rules.md:53 "/quit preserves the open session and recovery
\* state; reopening play offers the same recovery path": for every reopening.
ReopeningRecovers == Pending(disk) => Resumable

\* The snapshot kept for a dispute is the campaign without that one turn: its
\* restore takes back no other accepted turn, no management change and no
\* character that joined or came back.
UndoesOneTurn ==
  disk.replay.status # "none" =>
    LET t == disk.replay.turn
        c == disk.replay.before
    IN /\ c.trace = [disk.canon.trace EXCEPT ![t] = NoCand]
       /\ \A u \in Turns \ {t} : c.pos[u] = disk.canon.pos[u]
       /\ MayDispute(disk, t) => /\ c.changes = disk.canon.changes
                                 /\ c.party = disk.canon.party
                                 /\ c.corrective = disk.canon.corrective

\* A turn is re-adjudicated at most once, and its corrective rule outlives the
\* replay, later disputes included: docs/campaign-rules.md's recovery promise.
CorrectiveKept ==
  \A t \in Turns : disk.abandoned[t] = IF t \in disk.canon.corrective THEN 1 ELSE 0

\* A dispute undoes one turn, and once: the two together.
DisputesSound == UndoesOneTurn /\ CorrectiveKept

\* Only the dispute of that very turn takes an accepted trace away, and only
\* re-running it brings another one.
TracesStand ==
  [][\A t \in Turns :
       disk.canon.trace[t] # NoCand /\ disk'.canon.trace[t] # disk.canon.trace[t]
         => /\ disk'.canon.trace[t] = NoCand
            /\ Pending(disk') /\ disk'.replay.turn = t]_vars

\* A running turn ends, accepted, failed or killed.
TurnEnds == InTurn ~> ~ InTurn

\* A disputed turn is eventually adjudicated again, however many retries fail
\* and processes die, if the player persists and the model sometimes succeeds,
\* unless a reopening writes the rows the replay's hash covers.
RecoveryCompletes ==
  Persistence => (Pending(disk) ~> ~ Pending(disk) \/ Reworked)

=============================================================================
