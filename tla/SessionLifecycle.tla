-------------------------- MODULE SessionLifecycle --------------------------
(***************************************************************************)
(* Sessions of one campaign, from launch to graceful close: the close      *)
(* transaction, the checkpoint taken after it and the row that says so,    *)
(* the memory arc's rollup across two model calls, and checkpoints         *)
(* restored to new files.  Every process first goes through CampaignWriter *)
(* and may die or give up anywhere.                                        *)
(***************************************************************************)
EXTENDS CampaignWriter, SceneMemory

CONSTANTS
  MaxSessions,  \* bound on the sessions of the campaign
  Threshold     \* arcRolloverThreshold: the sessions that fill an arc

Sessions == 1 .. MaxSessions
ASSUME SessionsAssumption == MaxSessions \in Nat /\ Threshold \in Nat \ {0}

VARIABLES
  status,  \* none, open or closed
  scenes,  \* the scenes of each session
  recap,   \* the turns and scenes a session's recap covers
  stamp,   \* the arc a session was closed into, 0 if none
  arcs,    \* the arcs, oldest first: open or not, and the summary's sources
  marks,   \* sessions whose checkpoint is recorded as done
  turn,    \* how many turns were played
  replay,  \* the last turn's replay row
  undo,    \* the open session's scenes before that turn
  repo,    \* the checkpoints kept beside each spelling of the file
  dest,    \* what is at the destination of a restore (a set of at most one)
  job      \* each process's locals

canonVars == <<status, scenes, recap, stamp, arcs, marks, turn, replay, undo>>
sessionVars == <<canonVars, repo, dest, job>>
vars == <<writerVars, sessionVars>>

\* told: the session has a session_recap row.
Recaps == [told : BOOLEAN, turns : SUBSET Turns, scenes : SUBSET Nat]
NoRecap == [told |-> FALSE, turns |-> {}, scenes |-> {}]
Checkpoints == [label : Sessions, closed : SUBSET Sessions]
Users == [label |-> 0, closed |-> {}]   \* a file of the user's own

NoJob == [sess |-> 0, arc |-> 0, covers |-> {}, seen |-> {}, tries |-> 0,
          again |-> FALSE, snap |-> Users]

Init ==
  /\ WriterInit
  /\ status = [s \in Sessions |-> "none"]
  /\ scenes = [s \in Sessions |-> <<>>]
  /\ recap = [s \in Sessions |-> NoRecap]
  /\ stamp = [s \in Sessions |-> 0]
  /\ arcs = <<>> /\ marks = {} /\ turn = 0
  /\ replay = "none" /\ undo = <<>>
  /\ repo = [n \in Paths |-> {}] /\ dest = {}
  /\ job = [p \in Procs |-> NoJob]

OpenSession(s) == status[s] = "open"
ClosedSessions == {s \in Sessions : status[s] = "closed"}
Pending == replay = "pending"

NewArc == [open |-> TRUE, sources |-> {}]
OpenArcs == {a \in DOMAIN arcs : arcs[a].open}

\* The replay row is good for as long as nothing else was written.
Written == replay' = "none" /\ undo' = <<>>
SameReplay == UNCHANGED <<replay, undo>>

\* openArcIfMissing numbers an arc after the last one.
OpenArcIfMissing ==
  IF OpenArcs # {} THEN UNCHANGED arcs /\ SameReplay
  ELSE arcs' = Append(arcs, NewArc) /\ Written

Quits(p) == Leave(p) /\ job' = [job EXCEPT ![p] = NoJob]

-----------------------------------------------------------------------------
\* gracefulClose of session s: the arc is opened and the recap composed.
BeginClose(p, s, again) ==
  /\ OpenArcIfMissing
  /\ job' = [job EXCEPT ![p] =
       [NoJob EXCEPT !.sess = s, !.again = again,
          !.arc = CHOOSE a \in DOMAIN arcs' : arcs'[a].open,
          !.covers = RecapTurns(scenes[s])]]
  /\ Goes(p, "commit")
  /\ UNCHANGED <<lockVars, schemaVars, todo, status, scenes, recap, stamp,
                 marks, turn, repo, dest>>

\* The open session is resumed, or closed and replaced; with none open a new
\* one is started.  A pending replay is always resumed.
Resume(p, s) ==
  /\ pc[p] = "ready" /\ OpenSession(s)
  /\ Goes(p, "play")
  /\ job' = [job EXCEPT ![p].sess = s]
  /\ UNCHANGED <<lockVars, schemaVars, todo, canonVars, repo, dest>>

CloseAndReplace(p, s) ==
  /\ pc[p] = "ready" /\ OpenSession(s) /\ ~ Pending
  /\ BeginClose(p, s, TRUE)

LaunchNew(p) ==
  /\ pc[p] = "ready" /\ \A s \in Sessions : ~ OpenSession(s)
  /\ Goes(p, "starting")
  /\ UNCHANGED <<lockVars, schemaVars, todo, sessionVars>>

\* startSession throws when a session is still open.
StartSession(p, s) ==
  /\ pc[p] = "starting"
  /\ status[s] = "none" /\ \A r \in 1 .. (s - 1) : status[r] # "none"
  /\ \/ /\ \A r \in Sessions : ~ OpenSession(r)
        /\ status' = [status EXCEPT ![s] = "open"]
        /\ Written
        /\ Goes(p, "play")
        /\ job' = [job EXCEPT ![p] = [NoJob EXCEPT !.sess = s]]
        /\ UNCHANGED <<lockVars, todo>>
     \/ /\ \E r \in Sessions : OpenSession(r)
        /\ Quits(p) /\ UNCHANGED status /\ SameReplay
  /\ UNCHANGED <<schemaVars, scenes, recap, stamp, arcs, marks, turn, repo,
                 dest>>

\* A host may close a session again whose checkpoint is not recorded.
CloseAgain(p, s) ==
  /\ pc[p] = "ready" /\ status[s] = "closed" /\ s \notin marks
  /\ ~ Pending
  /\ BeginClose(p, s, FALSE)

-----------------------------------------------------------------------------
\* A turn of the open session commits with its scenes and its replay row.
Turn(p, mark) ==
  LET s == job[p].sess
  IN /\ pc[p] = "play" /\ ~ Pending /\ OpenSession(s)
     /\ turn < MaxTurns
     /\ turn' = turn + 1
     /\ undo' = scenes[s] /\ replay' = "available"
     /\ scenes' = [scenes EXCEPT ![s] = TurnScenes(@, mark, turn')]
     /\ UNCHANGED <<pc, lockVars, schemaVars, todo, status, recap, stamp, arcs,
                    marks, repo, dest, job>>

\* The last turn is disputed: its scenes are undone and its replay awaited.
Dispute(p) ==
  LET s == job[p].sess
  IN /\ pc[p] = "play" /\ replay = "available" /\ OpenSession(s)
     /\ replay' = "pending"
     /\ scenes' = [scenes EXCEPT ![s] = undo]
     /\ UNCHANGED <<pc, lockVars, schemaVars, todo, status, recap, stamp, arcs,
                    marks, turn, undo, repo, dest, job>>

Replay(p, mark) ==
  LET s == job[p].sess
  IN /\ pc[p] = "play" /\ Pending /\ OpenSession(s)
     /\ scenes' = [scenes EXCEPT ![s] = TurnScenes(@, mark, turn)]
     /\ Written
     /\ UNCHANGED <<pc, lockVars, schemaVars, todo, status, recap, stamp, arcs,
                    marks, turn, repo, dest, job>>

\* With a replay pending, quitting leaves the session open.
Quit(p) ==
  /\ pc[p] = "play"
  /\ \/ /\ ~ Pending /\ BeginClose(p, job[p].sess, FALSE)
     \/ /\ Pending /\ Quits(p)
        /\ UNCHANGED <<schemaVars, canonVars, repo, dest>>

-----------------------------------------------------------------------------
\* Mutant: a session that is closed already is closed once more.
CloseCanonAgain(p) ==
  LET s == job[p].sess
  IN /\ scenes' = [scenes EXCEPT ![s] = ClosedScenes(@)]
     /\ recap' = [recap EXCEPT ![s] =
          [told |-> TRUE, turns |-> job[p].covers,
           scenes |-> SummarisedIn(ClosedScenes(scenes[s]))]]
     /\ status' = [status EXCEPT ![s] = "closed"]
     /\ stamp' = [stamp EXCEPT ![s] = job[p].arc]
     /\ Written

\* The close transaction.  An open session is closed whole; one that is closed
\* already is left as it is, and only its checkpoint is looked at.
CloseCanon(p) ==
  LET s == job[p].sess
      after == ClosedScenes(scenes[s])
  IN IF OpenSession(s)
     THEN /\ scenes' = [scenes EXCEPT ![s] = after]
          /\ recap' = [recap EXCEPT ![s] =
               [told |-> TRUE, turns |-> job[p].covers,
                scenes |-> SummarisedIn(after)]]
          /\ status' = [status EXCEPT ![s] = "closed"]
          /\ stamp' = [stamp EXCEPT ![s] = job[p].arc]
          /\ Written
     ELSE UNCHANGED <<scenes, recap, status, stamp, replay, undo>>

CommitClose(p, dolt) ==
  /\ pc[p] = "commit"
  /\ CloseCanon(p)
  /\ Goes(p, IF dolt /\ job[p].sess \notin marks THEN "checkpoint" ELSE "rollup")
  /\ UNCHANGED <<lockVars, schemaVars, todo, arcs, marks, turn, repo, dest, job>>

\* The transaction fails: with a checkpoint runner the error is caught and the
\* rest goes on as if the session had closed, without one it ends the program.
CloseFails(p, dolt) ==
  /\ pc[p] = "commit"
  /\ \/ dolt /\ Goes(p, "rollup") /\ UNCHANGED <<lockVars, todo, job>>
     \/ ~ dolt /\ Quits(p)
  /\ UNCHANGED <<schemaVars, canonVars, repo, dest>>

\* Mutant: a checkpoint that failed is recorded as well.
TakeCheckpointAlways(p, ok) ==
  /\ pc[p] = "checkpoint"
  /\ repo' = IF ok
             THEN [repo EXCEPT ![Given[p]] = @ \cup
                     {[label |-> job[p].sess, closed |-> ClosedSessions]}]
             ELSE repo
  /\ Goes(p, "mark")
  /\ UNCHANGED <<lockVars, schemaVars, todo, canonVars, dest, job>>

\* The runner reads the committed database and commits it to the repository
\* named after the path the process was given; a failure is reported.
TakeCheckpoint(p, ok) ==
  /\ pc[p] = "checkpoint"
  /\ repo' = IF ok
             THEN [repo EXCEPT ![Given[p]] = @ \cup
                     {[label |-> job[p].sess, closed |-> ClosedSessions]}]
             ELSE repo
  /\ Goes(p, IF ok THEN "mark" ELSE "rollup")
  /\ UNCHANGED <<lockVars, schemaVars, todo, canonVars, dest, job>>

MarkCheckpointDone(p) ==
  /\ pc[p] = "mark"
  /\ marks' = marks \cup {job[p].sess} /\ Written
  /\ Goes(p, "rollup")
  /\ UNCHANGED <<lockVars, schemaVars, todo, status, scenes, recap, stamp, arcs,
                 turn, repo, dest, job>>

-----------------------------------------------------------------------------
\* Mutant: every closed session counts, not only those of the open arc.
ReadArcAll(p) ==
  LET filled == ClosedSessions
      ready == Cardinality(filled) >= Threshold
  IN /\ pc[p] = "rollup"
     /\ Goes(p, IF ready THEN "bible" ELSE "release")
     /\ job' = [job EXCEPT ![p].seen =
                  IF ready THEN {s \in filled : recap[s].told} ELSE {}]
     /\ UNCHANGED <<lockVars, schemaVars, todo, canonVars, repo, dest>>

\* rollupCampaignArcIfReady: what is read before the model calls is what the
\* summary is made of after them.
ReadArc(p) ==
  LET filled == {s \in ClosedSessions : stamp[s] \in OpenArcs}
      ready == Cardinality(filled) >= Threshold
  IN /\ pc[p] = "rollup"
     /\ Goes(p, IF ready THEN "bible" ELSE "release")
     /\ job' = [job EXCEPT ![p].seen =
                  IF ready THEN {s \in filled : recap[s].told} ELSE {}]
     /\ UNCHANGED <<lockVars, schemaVars, todo, canonVars, repo, dest>>

\* Mutant: the count starts over before it ends the attempts.
ExtractBibleForever(p, ok) ==
  /\ pc[p] = "bible"
  /\ Goes(p, IF ok THEN "summary" ELSE "bible")
  /\ job' = [job EXCEPT ![p].tries = IF ok THEN 0 ELSE 1 - @]
  /\ UNCHANGED <<lockVars, schemaVars, todo, canonVars, repo, dest>>

\* Mutant: the attempts are counted, but no count ends them.
ExtractBibleUnbounded(p, ok) ==
  /\ pc[p] = "bible"
  /\ Goes(p, IF ok THEN "summary" ELSE "bible")
  /\ job' = [job EXCEPT ![p].tries = @ + 1]
  /\ UNCHANGED <<lockVars, schemaVars, todo, canonVars, repo, dest>>

\* The bible is asked for twice at most.
ExtractBible(p, ok) ==
  /\ pc[p] = "bible"
  /\ Goes(p, IF ok THEN "summary"
             ELSE IF job[p].tries = 0 THEN "bible" ELSE "release")
  /\ job' = [job EXCEPT ![p].tries = IF ok THEN 0 ELSE @ + 1]
  /\ UNCHANGED <<lockVars, schemaVars, todo, canonVars, repo, dest>>

SummariseArc(p, ok) ==
  /\ pc[p] = "summary"
  /\ Goes(p, IF ok THEN "nextarc" ELSE "release")
  /\ UNCHANGED <<lockVars, schemaVars, todo, sessionVars>>

\* closeOpenArcAndOpenNext throws unless the open arc is still the one that
\* was read; a throw ends the program, as in Vanish.
NextArc(p) ==
  /\ pc[p] = "nextarc" /\ OpenArcs = {job[p].arc}
  /\ arcs' = Append(
       [arcs EXCEPT ![job[p].arc] = [open |-> FALSE, sources |-> job[p].seen]],
       NewArc)
  /\ Written
  /\ Goes(p, "release")
  /\ UNCHANGED <<lockVars, schemaVars, todo, status, scenes, recap, stamp,
                 marks, turn, repo, dest, job>>

\* Custody is released; a replaced session is followed by a new one.
ReleaseCharacters(p) ==
  /\ pc[p] = "release"
  /\ \/ job[p].again /\ Goes(p, "starting") /\ UNCHANGED <<lockVars, todo, job>>
     \/ ~ job[p].again /\ Quits(p)
  /\ UNCHANGED <<schemaVars, canonVars, repo, dest>>

-----------------------------------------------------------------------------
\* `eshyra checkpoint restore`: under the writer lock, but without opening the
\* campaign, a checkpoint is rebuilt in a temporary file and linked into place.
BeginRestore(p, c) ==
  /\ pc[p] = "locked" /\ c \in repo[Given[p]] /\ dest = {}
  /\ Goes(p, "building")
  /\ job' = [job EXCEPT ![p].snap = c]
  /\ UNCHANGED <<lockVars, schemaVars, todo, canonVars, repo, dest>>

\* The link fails when something is there by now; the command ends either way.
Publish(p) ==
  /\ pc[p] = "building"
  /\ dest' = IF dest = {} THEN {job[p].snap} ELSE dest
  /\ Quits(p)
  /\ UNCHANGED <<schemaVars, canonVars, repo>>

\* External: the user makes a file there.
UserWrites ==
  /\ dest = {} /\ dest' = {Users}
  /\ UNCHANGED <<writerVars, canonVars, repo, job>>

-----------------------------------------------------------------------------
Launch(p) ==
  \/ \E s \in Sessions : Resume(p, s) \/ CloseAndReplace(p, s)
                         \/ CloseAgain(p, s) \/ StartSession(p, s)
  \/ LaunchNew(p)

Play(p) ==
  \/ \E mark \in Marks : Turn(p, mark) \/ Replay(p, mark)
  \/ Dispute(p) \/ Quit(p)

Close(p) ==
  \/ \E dolt \in BOOLEAN : CommitClose(p, dolt) \/ CloseFails(p, dolt)
  \/ \E ok \in BOOLEAN :
       TakeCheckpoint(p, ok) \/ ExtractBible(p, ok) \/ SummariseArc(p, ok)
  \/ MarkCheckpointDone(p) \/ ReadArc(p) \/ NextArc(p) \/ ReleaseCharacters(p)

Restore(p) ==
  Publish(p) \/ \E c \in Checkpoints : BeginRestore(p, c)

\* Taking the lock, migrating, and giving up or dying, at any point.
Open(p) == WriterStep(p) /\ UNCHANGED sessionVars

Vanish(p) ==
  /\ Stop(p)
  /\ job' = [job EXCEPT ![p] = NoJob]
  /\ UNCHANGED <<canonVars, repo, dest>>

Next ==
  \/ \E p \in Procs : \/ Open(p) \/ Launch(p) \/ Play(p) \/ Close(p)
                      \/ Restore(p) \/ Vanish(p)
  \/ UserWrites

\* A closing process computes or waits for a model call that answers or fails.
Fairness == \A p \in Procs : WF_vars(Close(p))
Spec == Init /\ [][Next]_vars /\ Fairness

-----------------------------------------------------------------------------
Closing == {"commit", "checkpoint", "mark", "rollup", "bible", "summary",
            "nextarc", "release"}
States == {"off", "ready", "starting", "play", "building"} \cup Opening
            \cup Closing

\* Every variable has its type.
TypeOK ==
  /\ pc \in [Procs -> States]
  /\ lock \in [Procs -> Paths]
  /\ holder \in [Paths -> Procs \cup {NoProc}]
  /\ exists \in BOOLEAN /\ foreign \in BOOLEAN
  /\ schema \subseteq Versions
  /\ tracked \in BOOLEAN /\ ledger \subseteq Versions
  /\ todo \in [Procs -> 0 .. MaxBuild + 1]
  /\ status \in [Sessions -> {"none", "open", "closed"}]
  /\ scenes \in [Sessions -> Seq(Scenes)] /\ undo \in Seq(Scenes)
  /\ recap \in [Sessions -> Recaps]
  /\ stamp \in [Sessions -> Nat]
  /\ arcs \in Seq([open : BOOLEAN, sources : SUBSET Sessions])
  /\ marks \subseteq Sessions /\ turn \in 0 .. MaxTurns
  /\ replay \in {"none", "available", "pending"}
  /\ repo \in [Paths -> SUBSET Checkpoints]
  /\ dest \subseteq Checkpoints \cup {Users}
  /\ job \in [Procs -> [sess : Sessions \cup {0}, arc : Nat,
                        covers : SUBSET Turns, seen : SUBSET Sessions,
                        tries : 0 .. 2, again : BOOLEAN,
                        snap : Checkpoints \cup {Users}]]

\* At most one process writes the physical file, whatever spelling of its path
\* each was given, and a lock never outlives the process that took it
\* (campaignWriterLock.ts: "two spellings of one physical database share one
\* lock", "The operating system drops the lock when the process exits").
OneWriter ==
  \A p, q \in Procs : pc[p] # "off" /\ pc[q] # "off" => p = q
NoStaleLock ==
  \A n \in Paths : holder[n] # NoProc => pc[holder[n]] # "off"
LockSound == OneWriter /\ NoStaleLock

\* The ledger tells what the schema is, a file that cannot be adopted is never
\* touched, and a process past the migrations works on exactly the schema its
\* own program was built for, however old that program is and wherever earlier
\* ones stopped (migrationRunner.ts:230-238).
SchemaSound ==
  /\ tracked => schema = ledger /\ ~ foreign
  /\ \A p \in Procs : pc[p] \notin {"off", "building"} \cup Opening =>
       ledger = 1 .. Build[p]

\* A closed session is closed whole: no scene left open, every scene
\* summarised from its entire log, a recap that covers every turn and every
\* scene played, and an arc to account for it.  At most one session is open,
\* with at most one open scene (close.ts:42, scene.ts:113, session.ts:37).
ScenesSettled(sc) ==
  /\ \A i \in DOMAIN sc : IF sc[i].open THEN ~ sc[i].told
                          ELSE sc[i].told /\ sc[i].summary = sc[i].log
  /\ \A i, j \in DOMAIN sc : sc[i].open /\ sc[j].open => i = j
ClosedWhole ==
  /\ \A s, r \in Sessions : OpenSession(s) /\ OpenSession(r) => s = r
  /\ \A s \in Sessions : ScenesSettled(scenes[s])
  /\ \A s \in ClosedSessions :
       /\ ~ HasOpen(scenes[s])
       /\ recap[s] = [told |-> TRUE, turns |-> Played(scenes[s]),
                       scenes |-> DOMAIN scenes[s]]
       /\ stamp[s] \in DOMAIN arcs

\* An arc that was closed was full, and its summary was made of exactly the
\* sessions stamped with it, although the list was read before two model calls
\* and written after; the open arc is the last (playClose.ts:118-184).
ArcsAccount ==
  /\ \A a \in DOMAIN arcs : arcs[a].open => a = Len(arcs)
  /\ \A a \in DOMAIN arcs : ~ arcs[a].open =>
       /\ arcs[a].sources = {s \in Sessions : stamp[s] = a}
       /\ Cardinality(arcs[a].sources) >= Threshold

\* A session recorded as checkpointed has a checkpoint, and it was taken with
\* the session already closed in it (close.ts:118-127).
CheckpointsHonest ==
  \A s \in marks : \E n \in Paths : \E c \in repo[n] :
    c.label = s /\ s \in c.closed

\* What a close settled stays: no later close, retry or rollup reopens a
\* session, rewrites its recap or moves it to another arc, a closed arc keeps
\* its summary, and a restore never replaces a file that is there.
Settled ==
  /\ \A s \in ClosedSessions :
       /\ status'[s] = "closed" /\ scenes'[s] = scenes[s]
       /\ recap'[s] = recap[s] /\ stamp'[s] = stamp[s]
  /\ \A a \in DOMAIN arcs : ~ arcs[a].open => arcs'[a] = arcs[a]
  /\ dest # {} => dest' = dest
StaysSettled == [][Settled]_vars

\* A close that began ends: the process is playing the next session, starts
\* it, or is gone, whatever the checkpoint and the model calls do.
CloseEnds ==
  \A p \in Procs : pc[p] \in Closing ~> pc[p] \in {"off", "starting", "play"}
=============================================================================
