--------------------------- MODULE SessionProofs ---------------------------
(***************************************************************************)
(* TLAPS proofs about SessionLifecycle, for any processes, programs,       *)
(* sessions, turns and thresholds: the writer lock, the migrations, and    *)
(* what a close leaves behind and keeps.                                   *)
(***************************************************************************)
EXTENDS SessionLifecycle, FiniteSetTheorems, TLAPS

-----------------------------------------------------------------------------
\* Scenes

\* Every scene is open and untold, or closed and told whole, or closed in the
\* turn that has yet to tell it: the state between mark_scene and the summaries.
HalfSettled(m, sc) ==
  /\ m \in Seq(Scenes) /\ Len(m) >= Len(sc)
  /\ \A i \in DOMAIN m : m[i].open => ~ m[i].told
  /\ \A i \in DOMAIN m : ~ m[i].open =>
       \/ m[i].told /\ m[i].summary = m[i].log
       \/ ~ m[i].told /\ (i \in DOMAIN sc => sc[i].open)
  /\ \A i, j \in DOMAIN m : m[i].open /\ m[j].open => i = j

\* The open scene, if there is one, is there.
LEMMA OpenIndexFacts ==
  ASSUME NEW sc, HasOpen(sc)
  PROVE  OpenIndex(sc) \in DOMAIN sc /\ sc[OpenIndex(sc)].open
  BY DEF HasOpen, OpenIndex

\* mark_scene "open" on settled or half settled scenes.
LEMMA OpenSceneKeeps ==
  ASSUME NEW sc, NEW m, sc \in Seq(Scenes), HalfSettled(m, sc)
  PROVE  /\ HalfSettled(OpenScene(m), sc) /\ HasOpen(OpenScene(m))
         /\ Len(OpenScene(m)) >= Len(m)
<1>1. CASE HasOpen(m)
  BY <1>1 DEF OpenScene, HalfSettled
<1>2. CASE ~ HasOpen(m)
  <2> DEFINE a == Append(m, NewScene)
  <2>1. NewScene \in Scenes /\ NewScene.open /\ ~ NewScene.told
    BY DEF NewScene, Scenes
  <2>2. /\ m \in Seq(Scenes) /\ a \in Seq(Scenes) /\ Len(a) = Len(m) + 1
        /\ a[Len(m) + 1] = NewScene /\ DOMAIN a = 1 .. Len(m) + 1
        /\ DOMAIN m = 1 .. Len(m) /\ Len(m) \in Nat
        /\ \A i \in DOMAIN m : a[i] = m[i]
    BY <2>1 DEF HalfSettled
  <2>3. \A i \in DOMAIN a : i \in DOMAIN m \/ i = Len(m) + 1
    BY <2>2
  <2>4. Len(sc) \in Nat /\ Len(m) >= Len(sc) /\ DOMAIN sc = 1 .. Len(sc)
    BY DEF HalfSettled
  <2>5. HasOpen(a)
    BY <2>1, <2>2 DEF HasOpen
  <2>6. \A i \in DOMAIN m : ~ m[i].open
    BY <1>2 DEF HasOpen
  <2>7. HalfSettled(a, sc)
    BY <2>1, <2>2, <2>3, <2>4, <2>6 DEF HalfSettled
  <2> QED
    BY <1>2, <2>2, <2>5, <2>7 DEF OpenScene
<1> QED
  BY <1>1, <1>2

\* mark_scene "close" on settled scenes closes what was open before the turn.
LEMMA CloseSceneKeeps ==
  ASSUME NEW sc, NEW m, sc \in Seq(Scenes), HalfSettled(m, sc),
         \A i \in DOMAIN sc : i \in DOMAIN m /\ (m[i].open => sc[i].open)
  PROVE  /\ HalfSettled(CloseScene(m), sc) /\ ~ HasOpen(CloseScene(m))
         /\ Len(CloseScene(m)) = Len(m)
<1>1. CASE ~ HasOpen(m)
  BY <1>1 DEF CloseScene, HalfSettled
<1>2. CASE HasOpen(m)
  <2> DEFINE k == OpenIndex(m)
             c == [m EXCEPT ![k].open = FALSE]
  <2>1. k \in DOMAIN m /\ m[k].open
    BY <1>2, OpenIndexFacts
  <2>2. m \in Seq(Scenes) /\ DOMAIN m = 1 .. Len(m) /\ Len(m) \in Nat
    BY DEF HalfSettled
  <2>3. m[k] \in Scenes
    BY <2>1, <2>2
  <2>4. /\ DOMAIN c = DOMAIN m /\ c \in Seq(Scenes) /\ Len(c) = Len(m)
        /\ c[k] = [m[k] EXCEPT !.open = FALSE]
        /\ \A i \in DOMAIN m \ {k} : c[i] = m[i]
    <3>1. [m[k] EXCEPT !.open = FALSE] \in Scenes
      BY <2>3 DEF Scenes
    <3> QED
      BY <2>1, <2>2, <3>1
  <2>5. /\ c[k].open = FALSE /\ c[k].told = m[k].told
        /\ c[k].log = m[k].log /\ c[k].summary = m[k].summary
    BY <2>3, <2>4 DEF Scenes
  <2>6. \A i \in DOMAIN m \ {k} : ~ m[i].open
    BY <2>1 DEF HalfSettled
  <2>7. HalfSettled(c, sc)
    BY <2>1, <2>2, <2>4, <2>5, <2>6 DEF HalfSettled
  <2>8. ~ HasOpen(c)
    BY <2>4, <2>5, <2>6 DEF HasOpen
  <2> HIDE DEF c
  <2> QED
    BY <1>2, <2>4, <2>7, <2>8 DEF CloseScene, c
<1> QED
  BY <1>1, <1>2

LEMMA SettledHalf ==
  ASSUME NEW sc \in Seq(Scenes), ScenesSettled(sc)
  PROVE  HalfSettled(sc, sc)
  BY DEF ScenesSettled, HalfSettled

\* Whatever a turn marks leaves its scenes half settled.
LEMMA MarkedKeeps ==
  ASSUME NEW sc \in Seq(Scenes), ScenesSettled(sc), NEW mark \in Marks
  PROVE  HalfSettled(Marked(sc, mark), sc)
<1>1. HalfSettled(sc, sc)
  BY SettledHalf
<1>2. HalfSettled(CloseScene(sc), sc)
  BY <1>1, CloseSceneKeeps
<1>3. HalfSettled(OpenScene(sc), sc) /\ HalfSettled(OpenScene(CloseScene(sc)), sc)
  BY <1>1, <1>2, OpenSceneKeeps
<1>4. ASSUME ~ HasOpen(sc) PROVE HalfSettled(CloseScene(OpenScene(sc)), sc)
  <2>1. OpenScene(sc) = Append(sc, NewScene)
    BY <1>4 DEF OpenScene
  <2>2. \A i \in DOMAIN sc : i \in DOMAIN OpenScene(sc) /\ OpenScene(sc)[i] = sc[i]
    BY <2>1
  <2> QED
    BY <1>3, <2>2, CloseSceneKeeps
<1> QED
  BY <1>1, <1>2, <1>3, <1>4 DEF Marked, Marks

\* The summaries of what a turn closed settle its scenes.
LEMMA SummariesSettle ==
  ASSUME NEW sc \in Seq(Scenes), NEW mark, HalfSettled(Marked(sc, mark), sc)
  PROVE  LET r == SummarisedAll(Marked(sc, mark), ClosedBy(sc, mark))
         IN r \in Seq(Scenes) /\ ScenesSettled(r)
<1> DEFINE m == Marked(sc, mark)
           ids == ClosedBy(sc, mark)
           r == SummarisedAll(m, ids)
<1>1. m \in Seq(Scenes) /\ DOMAIN m = 1 .. Len(m) /\ Len(m) \in Nat
  BY DEF HalfSettled
<1>2. \A i \in DOMAIN m : i \in ids <=> ~ m[i].open /\ (i \in DOMAIN sc => sc[i].open)
  BY DEF ClosedBy
<1>3. ASSUME NEW i \in DOMAIN m
      PROVE  /\ Summarised(m, i)[i] \in Scenes
             /\ Summarised(m, i)[i].open = m[i].open
             /\ Summarised(m, i)[i].told
             /\ ~ m[i].told => Summarised(m, i)[i].summary = Summarised(m, i)[i].log
             /\ m[i].told => Summarised(m, i)[i] = m[i]
  <2>1. m[i] \in Scenes
    BY <1>1
  <2>2. CASE m[i].told
    BY <2>1, <2>2 DEF Summarised
  <2>3. CASE ~ m[i].told
    <3> DEFINE w == [m EXCEPT ![i].told = TRUE, ![i].summary = m[i].log]
    <3>1. w[i] = [m[i] EXCEPT !.told = TRUE, !.summary = m[i].log]
      BY <2>1, <1>1
    <3>2. Summarised(m, i) = w
      BY <2>3 DEF Summarised
    <3> HIDE DEF w
    <3> QED
      BY <2>1, <2>3, <3>1, <3>2 DEF Scenes
  <2> QED
    BY <2>2, <2>3
<1>4. /\ DOMAIN r = DOMAIN m
      /\ \A i \in DOMAIN m : r[i] = IF i \in ids THEN Summarised(m, i)[i] ELSE m[i]
  BY DEF SummarisedAll
<1>5. \A i \in DOMAIN m : r[i] \in Scenes
  BY <1>1, <1>3, <1>4
<1>6. r \in Seq(Scenes)
  <2>1. r = [i \in 1 .. Len(m) |-> r[i]]
    BY <1>1, <1>4 DEF SummarisedAll
  <2> HIDE DEF r
  <2> QED
    BY <1>1, <1>4, <1>5, <2>1
<1>7. \A i \in DOMAIN m : r[i].open = m[i].open
  BY <1>3, <1>4
<1>8. \A i, j \in DOMAIN r : r[i].open /\ r[j].open => i = j
  BY <1>4, <1>7 DEF HalfSettled
<1>9. \A i \in DOMAIN r : IF r[i].open THEN ~ r[i].told
                          ELSE r[i].told /\ r[i].summary = r[i].log
  <2> SUFFICES ASSUME NEW i \in DOMAIN m
               PROVE  IF r[i].open THEN ~ r[i].told
                      ELSE r[i].told /\ r[i].summary = r[i].log
    BY <1>4
  <2>1. CASE m[i].open
    BY <2>1, <1>2, <1>4 DEF HalfSettled
  <2>2. CASE ~ m[i].open /\ i \in ids
    BY <2>2, <1>3, <1>4, <1>7 DEF HalfSettled
  <2>3. CASE ~ m[i].open /\ i \notin ids
    BY <2>3, <1>2, <1>4 DEF HalfSettled
  <2> QED
    BY <2>1, <2>2, <2>3
<1> QED
  BY <1>6, <1>8, <1>9 DEF ScenesSettled

\* So does the transcript, that goes to the scene which is then open.
LEMMA LoggedSettles ==
  ASSUME NEW sc \in Seq(Scenes), ScenesSettled(sc), NEW t \in Turns
  PROVE  Logged(sc, t) \in Seq(Scenes) /\ ScenesSettled(Logged(sc, t))
<1> DEFINE o == OpenScene(sc)
           k == OpenIndex(o)
           l == [o EXCEPT ![k].log = @ \cup {t}]
<1>1. HalfSettled(sc, sc)
  BY SettledHalf
<1>2. o \in Seq(Scenes) /\ HasOpen(o) /\ HalfSettled(o, sc)
  BY <1>1, OpenSceneKeeps DEF HalfSettled
<1>3. ScenesSettled(o)
  <2>1. CASE HasOpen(sc)
    BY <2>1 DEF OpenScene
  <2>2. CASE ~ HasOpen(sc)
    <3>1. \A i \in DOMAIN sc : ~ sc[i].open
      BY <2>2 DEF HasOpen
    <3>2. o = Append(sc, NewScene) /\ NewScene.open
      BY <2>2 DEF OpenScene, NewScene
    <3>3. \A i \in DOMAIN o : o[i].open \/ (i \in DOMAIN sc /\ o[i] = sc[i])
      BY <3>2
    <3> QED
      BY <1>2, <3>1, <3>3 DEF HalfSettled, ScenesSettled
  <2> QED
    BY <2>1, <2>2
<1>4. k \in DOMAIN o /\ o[k].open
  BY <1>2, OpenIndexFacts
<1>5. DOMAIN o = 1 .. Len(o) /\ Len(o) \in Nat /\ o[k] \in Scenes
  BY <1>2, <1>4
<1>6. [o[k] EXCEPT !.log = @ \cup {t}] \in Scenes
  BY <1>5 DEF Scenes
<1>7. /\ l \in Seq(Scenes) /\ DOMAIN l = DOMAIN o
      /\ l[k] = [o[k] EXCEPT !.log = @ \cup {t}]
      /\ \A i \in DOMAIN o \ {k} : l[i] = o[i]
  BY <1>2, <1>4, <1>5, <1>6
<1>8. l[k].open = o[k].open /\ l[k].told = o[k].told
  BY <1>5, <1>7 DEF Scenes
<1> HIDE DEF l
<1>9. ScenesSettled(l)
  BY <1>3, <1>4, <1>7, <1>8 DEF ScenesSettled
<1> QED
  BY <1>7, <1>9 DEF Logged, l

\* A turn leaves the scenes of its session settled.
LEMMA TurnScenesSettle ==
  ASSUME NEW sc \in Seq(Scenes), ScenesSettled(sc), NEW mark \in Marks,
         NEW t \in Turns
  PROVE  /\ TurnScenes(sc, mark, t) \in Seq(Scenes)
         /\ ScenesSettled(TurnScenes(sc, mark, t))
BY MarkedKeeps, SummariesSettle, LoggedSettles DEF TurnScenes

LEMMA UnionAdds ==
  \A L, x : UNION (L \cup {x}) = (UNION L) \cup x
OBVIOUS

\* What a close does to the scenes of its session, and what the recap that was
\* composed before it covers.
LEMMA ClosedScenesFacts ==
  ASSUME NEW sc \in Seq(Scenes), ScenesSettled(sc)
  PROVE  LET after == ClosedScenes(sc)
         IN /\ after \in Seq(Scenes) /\ ScenesSettled(after)
            /\ ~ HasOpen(after) /\ SummarisedIn(after) = DOMAIN after
            /\ Played(after) = RecapTurns(sc)
<1>1. CASE ~ HasOpen(sc)
  <2>1. ClosedScenes(sc) = sc
    BY <1>1 DEF ClosedScenes
  <2>2. \A i \in DOMAIN sc : ~ sc[i].open /\ sc[i].told /\ sc[i].summary = sc[i].log
    BY <1>1 DEF HasOpen, ScenesSettled
  <2>3. SummarisedIn(sc) = DOMAIN sc
    BY <2>2 DEF SummarisedIn
  <2>4. Played(sc) = RecapTurns(sc)
    BY <2>2, <2>3 DEF Played, RecapTurns
  <2> QED
    BY <1>1, <2>1, <2>3, <2>4
<1>2. CASE HasOpen(sc)
  <2> DEFINE k == OpenIndex(sc)
             c == CloseScene(sc)
             a == [c EXCEPT ![k].told = TRUE, ![k].summary = c[k].log]
  <2>1. k \in DOMAIN sc /\ sc[k].open /\ ~ sc[k].told
    BY <1>2, OpenIndexFacts DEF ScenesSettled
  <2>2. DOMAIN sc = 1 .. Len(sc) /\ Len(sc) \in Nat /\ sc[k] \in Scenes
    BY <2>1
  <2>3. c = [sc EXCEPT ![k].open = FALSE]
    BY <1>2 DEF CloseScene
  <2>4. /\ c[k] = [sc[k] EXCEPT !.open = FALSE] /\ DOMAIN c = DOMAIN sc
        /\ \A i \in DOMAIN sc \ {k} : c[i] = sc[i]
    BY <2>1, <2>2, <2>3
  <2>5. c[k] \in Scenes /\ ~ c[k].told /\ ~ c[k].open /\ c[k].log = sc[k].log
    BY <2>1, <2>2, <2>4 DEF Scenes
  <2> HIDE DEF c
  <2>6. /\ a[k] = [c[k] EXCEPT !.told = TRUE, !.summary = c[k].log]
        /\ DOMAIN a = DOMAIN sc
        /\ \A i \in DOMAIN sc \ {k} : a[i] = sc[i]
    BY <2>1, <2>4
  <2>7. a = [i \in 1 .. Len(sc) |-> a[i]]
    BY <2>2, <2>4
  <2>8. ClosedScenes(sc) = a
    BY <1>2, <2>5 DEF ClosedScenes, Summarised, c
  <2> HIDE DEF a, k
  <2>9. /\ a[k] \in Scenes /\ ~ a[k].open /\ a[k].told
        /\ a[k].summary = a[k].log /\ a[k].log = sc[k].log
    BY <2>5, <2>6 DEF Scenes
  <2>10. a \in Seq(Scenes)
    BY <2>2, <2>6, <2>7, <2>9
  <2>11. \A i \in DOMAIN sc \ {k} : ~ sc[i].open /\ sc[i].told /\ sc[i].summary = sc[i].log
    BY <2>1 DEF ScenesSettled
  <2>12. \A i \in DOMAIN a : ~ a[i].open /\ a[i].told /\ a[i].summary = a[i].log
                             /\ a[i].log = sc[i].log
    BY <2>6, <2>9, <2>11
  <2>13. ~ HasOpen(a) /\ SummarisedIn(a) = DOMAIN a /\ ScenesSettled(a)
    BY <2>12 DEF HasOpen, SummarisedIn, ScenesSettled
  <2>14. SummarisedIn(sc) = DOMAIN sc \ {k} /\ {j \in DOMAIN sc : sc[j].open} = {k}
    BY <2>1, <2>11 DEF SummarisedIn
  <2>15. Played(a) = RecapTurns(sc)
    <3>1. Played(a) = UNION {sc[i].log : i \in DOMAIN sc}
      BY <2>6, <2>12 DEF Played
    <3>2. RecapTurns(sc) = (UNION {sc[i].summary : i \in DOMAIN sc \ {k}}) \cup sc[k].log
      BY <2>14 DEF RecapTurns
    <3>3. {sc[i].summary : i \in DOMAIN sc \ {k}} = {sc[i].log : i \in DOMAIN sc \ {k}}
      BY <2>11
    <3>4. {sc[i].log : i \in DOMAIN sc} = {sc[i].log : i \in DOMAIN sc \ {k}} \cup {sc[k].log}
      BY <2>1
    <3>5. UNION {sc[i].log : i \in DOMAIN sc}
            = (UNION {sc[i].log : i \in DOMAIN sc \ {k}}) \cup sc[k].log
      BY <3>4, UnionAdds
    <3> QED
      BY <3>1, <3>2, <3>3, <3>5, Zenon
  <2> QED
    BY <2>8, <2>10, <2>13, <2>15
<1> QED
  BY <1>1, <1>2

\* Every turn a recap covers was played.
LEMMA RecapTurnsType ==
  ASSUME NEW sc \in Seq(Scenes)
  PROVE  RecapTurns(sc) \subseteq Turns
<1>1. \A i \in DOMAIN sc : sc[i].summary \subseteq Turns /\ sc[i].log \subseteq Turns
  <2>1. \A i \in DOMAIN sc : sc[i] \in Scenes
    OBVIOUS
  <2> QED
    BY <2>1 DEF Scenes
<1>2. SummarisedIn(sc) \subseteq DOMAIN sc
  BY DEF SummarisedIn
<1> QED
  BY <1>1, <1>2 DEF RecapTurns

-----------------------------------------------------------------------------
\* The writer lock and the migrations

Past == States \ ({"off", "building"} \cup Opening)

WriterTypeOK ==
  /\ pc \in [Procs -> States]
  /\ lock \in [Procs -> Paths]
  /\ holder \in [Paths -> Procs \cup {NoProc}]
  /\ exists \in BOOLEAN /\ foreign \in BOOLEAN
  /\ schema \subseteq Versions
  /\ tracked \in BOOLEAN /\ ledger \subseteq Versions
  /\ todo \in [Procs -> 0 .. MaxBuild + 1]

\* Without a dangling link every process takes the lock of the file itself.
LocksInv ==
  /\ \A p \in Procs : lock[p] = Db /\ (pc[p] # "off" => holder[Db] = p)
  /\ \A n \in Paths : holder[n] # NoProc => n = Db /\ pc[holder[n]] # "off"

\* The ledger records the first migrations in order, and a process knows what
\* it found there.
LedgerInv ==
  /\ \E k \in 0 .. MaxBuild : ledger = 1 .. k
  /\ tracked => schema = ledger /\ ~ foreign
  /\ ~ tracked => ledger = {}
  /\ ~ tracked /\ ~ foreign => schema \in {{}, {1}}
MigrationInv(p) ==
  /\ pc[p] = "prepared" => tracked \/ (schema = {} /\ ~ foreign)
  /\ pc[p] = "migrating" =>
       tracked /\ todo[p] \in 1 .. Build[p] + 1 /\ ledger = 1 .. (todo[p] - 1)
  /\ pc[p] \in Past => tracked /\ ledger = 1 .. Build[p]
WriterInv ==
  /\ WriterTypeOK /\ LocksInv /\ LedgerInv
  /\ \A p \in Procs : MigrationInv(p)

\* What a step does to the lock and the schema: nothing, a step of the writer's
\* own, leaving, or going on with the work that the migrations come before.
Carries(p) ==
  /\ pc[p] \in Past /\ \E w \in Past : Goes(p, w)
  /\ UNCHANGED <<lockVars, schemaVars, todo>>
Builds(p) ==
  /\ pc[p] = "locked" /\ Goes(p, "building")
  /\ UNCHANGED <<lockVars, schemaVars, todo>>
Parts(p) == pc[p] # "off" /\ Leave(p) /\ UNCHANGED schemaVars
WriterEffect(p) ==
  UNCHANGED writerVars \/ WriterStep(p) \/ Carries(p) \/ Builds(p) \/ Parts(p)

LEMMA BuildFacts ==
  /\ MaxBuild \in Nat /\ MaxBuild >= 1 /\ Db # Alias /\ NoProc \notin Procs
  /\ \A p \in Procs : Build[p] \in Nat /\ Build[p] >= 1 /\ Build[p] <= MaxBuild
BY BuildAssumption, PathsAssumption DEF Versions

LEMMA LaunchEffect ==
  ASSUME NEW p \in Procs, Launch(p) PROVE Carries(p) \/ Parts(p)
<1> USE DEF Past, States, Opening, Closing, Goes, Carries
<1>1. ASSUME NEW s \in Sessions, Resume(p, s) PROVE Carries(p)
  BY <1>1 DEF Resume
<1>2. ASSUME NEW s \in Sessions, CloseAndReplace(p, s) PROVE Carries(p)
  BY <1>2 DEF CloseAndReplace, BeginClose
<1>3. ASSUME NEW s \in Sessions, CloseAgain(p, s) PROVE Carries(p)
  BY <1>3 DEF CloseAgain, BeginClose
<1>4. ASSUME NEW s \in Sessions, StartSession(p, s) PROVE Carries(p) \/ Parts(p)
  BY <1>4 DEF StartSession, Quits, Parts
<1>5. ASSUME LaunchNew(p) PROVE Carries(p)
  BY <1>5 DEF LaunchNew
<1> QED
  BY <1>1, <1>2, <1>3, <1>4, <1>5 DEF Launch

LEMMA PlayEffect ==
  ASSUME NEW p \in Procs, Play(p) PROVE UNCHANGED writerVars \/ Carries(p) \/ Parts(p)
<1> USE DEF Past, States, Opening, Closing, Goes, Carries
<1>1. ASSUME NEW mark \in Marks, Turn(p, mark) PROVE UNCHANGED writerVars
  BY <1>1 DEF Turn, writerVars, lockVars, schemaVars
<1>2. ASSUME NEW mark \in Marks, Replay(p, mark) PROVE UNCHANGED writerVars
  BY <1>2 DEF Replay, writerVars, lockVars, schemaVars
<1>3. ASSUME Dispute(p) PROVE UNCHANGED writerVars
  BY <1>3 DEF Dispute, writerVars, lockVars, schemaVars
<1>4. ASSUME Quit(p) PROVE Carries(p) \/ Parts(p)
  BY <1>4 DEF Quit, BeginClose, Quits, Parts
<1> QED
  BY <1>1, <1>2, <1>3, <1>4 DEF Play

LEMMA CloseEffect ==
  ASSUME NEW p \in Procs, Close(p) PROVE Carries(p) \/ Parts(p)
<1> USE DEF Past, States, Opening, Closing, Goes, Carries
<1>1. ASSUME NEW dolt \in BOOLEAN, CommitClose(p, dolt) PROVE Carries(p)
  BY <1>1 DEF CommitClose
<1>2. ASSUME NEW dolt \in BOOLEAN, CloseFails(p, dolt) PROVE Carries(p) \/ Parts(p)
  BY <1>2 DEF CloseFails, Quits, Parts
<1>3. ASSUME NEW ok \in BOOLEAN,
             TakeCheckpoint(p, ok) \/ ExtractBible(p, ok) \/ SummariseArc(p, ok)
      PROVE  Carries(p)
  BY <1>3 DEF TakeCheckpoint, ExtractBible, SummariseArc
<1>4. ASSUME MarkCheckpointDone(p) \/ ReadArc(p) \/ NextArc(p) PROVE Carries(p)
  BY <1>4 DEF MarkCheckpointDone, ReadArc, NextArc
<1>5. ASSUME ReleaseCharacters(p) PROVE Carries(p) \/ Parts(p)
  BY <1>5 DEF ReleaseCharacters, Quits, Parts
<1> QED
  BY <1>1, <1>2, <1>3, <1>4, <1>5 DEF Close

LEMMA StepEffect ==
  ASSUME [Next]_vars PROVE UNCHANGED writerVars \/ \E p \in Procs : WriterEffect(p)
<1>1. ASSUME NEW p \in Procs, Restore(p) PROVE Builds(p) \/ Parts(p)
  BY <1>1 DEF Restore, Publish, BeginRestore, Quits, Builds, Parts
<1>2. ASSUME NEW p \in Procs, Vanish(p) PROVE Parts(p)
  BY <1>2 DEF Vanish, Stop, Parts
<1>3. ASSUME UserWrites \/ UNCHANGED vars PROVE UNCHANGED writerVars
  BY <1>3 DEF UserWrites, vars
<1> QED
  BY <1>1, <1>2, <1>3, LaunchEffect, PlayEffect, CloseEffect
  DEF Next, Open, WriterEffect

\* The lock a process takes is the file's: a spelling that is not the file's own
\* name resolves to it, for the link is not there before the file.
LEMMA AcquireKeeps ==
  ASSUME ~ Dangling, WriterInv, NEW p \in Procs, Acquire(p)
  PROVE  WriterInv'
<1>1. LockPath(Given[p]) = Db /\ Db \in Paths
  BY PathsAssumption DEF Acquire, LockPath, Paths
<1>2. /\ pc[p] = "off" /\ holder[Db] = NoProc /\ holder' = [holder EXCEPT ![Db] = p]
      /\ lock' = [lock EXCEPT ![p] = Db] /\ pc' = [pc EXCEPT ![p] = "locked"]
      /\ UNCHANGED <<schemaVars, todo>>
  BY <1>1 DEF Acquire, Goes
<1>3. WriterTypeOK'
  BY <1>1, <1>2 DEF WriterInv, WriterTypeOK, schemaVars, States, Opening
<1>4. LocksInv'
  <2>1. \A q \in Procs : q # p => pc[q] = "off" /\ pc'[q] = "off" /\ lock'[q] = Db
    BY <1>2, BuildFacts DEF WriterInv, WriterTypeOK, LocksInv
  <2>2. pc'[p] = "locked" /\ holder'[Db] = p /\ lock'[p] = Db
    BY <1>1, <1>2 DEF WriterInv, WriterTypeOK
  <2>3. \A n \in Paths : n # Db => holder'[n] = holder[n]
    BY <1>2 DEF WriterInv, WriterTypeOK
  <2>4. \A n \in Paths : holder[n] = NoProc
    BY <1>2, <2>1 DEF WriterInv, WriterTypeOK, LocksInv
  <2> QED
    BY <2>1, <2>2, <2>3, <2>4 DEF LocksInv
<1>5. LedgerInv'
  BY <1>2 DEF WriterInv, LedgerInv, schemaVars
<1>6. \A q \in Procs : MigrationInv(q)'
  BY <1>2 DEF WriterInv, WriterTypeOK, MigrationInv, schemaVars, Past, Opening
<1> QED
  BY <1>3, <1>4, <1>5, <1>6 DEF WriterInv

\* A process that holds the lock is the only one there is.
LEMMA Alone ==
  ASSUME WriterInv, NEW p \in Procs, NEW q \in Procs, pc[p] # "off", pc[q] # "off"
  PROVE  p = q
  BY DEF WriterInv, LocksInv

LEMMA LeaveKeeps ==
  ASSUME WriterInv, NEW p \in Procs, pc[p] # "off", Leave(p),
         LedgerInv', UNCHANGED exists, UNCHANGED foreign,
         (schema \subseteq Versions)', (ledger \subseteq Versions)',
         (tracked \in BOOLEAN)'
  PROVE  WriterInv'
<1>1. /\ pc' = [pc EXCEPT ![p] = "off"] /\ holder' = [holder EXCEPT ![Db] = NoProc]
      /\ lock' = [lock EXCEPT ![p] = Db] /\ todo' = [todo EXCEPT ![p] = 0]
  BY DEF Leave, Goes, WriterInv, LocksInv
<1>2. WriterTypeOK'
  BY <1>1, BuildFacts DEF WriterInv, WriterTypeOK, States, Paths
<1>3. \A q \in Procs : pc'[q] = "off"
  BY <1>1, Alone DEF WriterInv, WriterTypeOK
<1>4. LocksInv'
  <2>1. \A n \in Paths : holder[n] # NoProc => n = Db
    BY DEF WriterInv, LocksInv
  <2>2. \A n \in Paths : holder'[n] = NoProc
    BY <1>1, <2>1 DEF WriterInv, WriterTypeOK
  <2>3. \A q \in Procs : lock'[q] = Db
    BY <1>1 DEF WriterInv, WriterTypeOK, LocksInv
  <2> QED
    BY <1>3, <2>2, <2>3 DEF LocksInv
<1>5. \A q \in Procs : MigrationInv(q)'
  BY <1>3 DEF MigrationInv, Past
<1> QED
  BY <1>2, <1>4, <1>5 DEF WriterInv

\* A process that goes on keeps the lock, and the others stay away.
LEMMA GoesKeepsLocks ==
  ASSUME WriterInv, NEW p \in Procs, NEW w \in States \ {"off"}, pc[p] # "off",
         Goes(p, w), UNCHANGED lockVars
  PROVE  LocksInv' /\ (pc \in [Procs -> States])'
         /\ pc'[p] = w /\ \A q \in Procs \ {p} : pc[q] = "off" /\ pc'[q] = "off"
<1>1. /\ pc'[p] = w /\ \A q \in Procs \ {p} : pc'[q] = pc[q]
      /\ pc' \in [Procs -> States]
  BY DEF Goes, WriterInv, WriterTypeOK
<1>2. \A q \in Procs \ {p} : pc[q] = "off"
  BY Alone
<1>3. holder[Db] = p
  BY DEF WriterInv, LocksInv
<1>4. \A n \in Paths : holder[n] # NoProc => n = Db
  BY DEF WriterInv, LocksInv
<1>5. LocksInv'
  <2>1. lock' = lock /\ holder' = holder
    BY DEF lockVars
  <2>2. \A q \in Procs : lock[q] = Db
    BY DEF WriterInv, LocksInv
  <2>3. \A q \in Procs : pc'[q] # "off" => q = p
    BY <1>1, <1>2
  <2> QED
    BY <1>1, <1>3, <1>4, <2>1, <2>2, <2>3 DEF LocksInv
<1> QED
  BY <1>1, <1>2, <1>5

\* The work that the migrations come before, and a restore, leave the schema.
LEMMA CarriesKeeps ==
  ASSUME WriterInv, NEW p \in Procs, Carries(p) PROVE WriterInv'
<1>1. PICK w \in Past : Goes(p, w)
  BY DEF Carries
<1>2. pc[p] \in Past /\ UNCHANGED <<lockVars, schemaVars, todo>> /\ pc[p] # "off"
      /\ w \in States \ {"off"}
  BY DEF Carries, Past
<1>3. LocksInv' /\ (pc \in [Procs -> States])' /\ pc'[p] = w
      /\ \A q \in Procs \ {p} : pc'[q] = "off"
  BY <1>1, <1>2, GoesKeepsLocks
<1>4. MigrationInv(p)' /\ \A q \in Procs \ {p} : MigrationInv(q)'
  BY <1>2, <1>3 DEF WriterInv, MigrationInv, Past, Opening, schemaVars
<1>5. WriterTypeOK' /\ LedgerInv'
  BY <1>2, <1>3 DEF WriterInv, WriterTypeOK, LedgerInv, schemaVars, lockVars
<1> QED
  BY <1>3, <1>4, <1>5 DEF WriterInv

LEMMA BuildsKeeps ==
  ASSUME WriterInv, NEW p \in Procs, Builds(p) PROVE WriterInv'
<1>1. Goes(p, "building") /\ UNCHANGED <<lockVars, schemaVars, todo>> /\ pc[p] # "off"
      /\ "building" \in States \ {"off"}
  BY DEF Builds, States
<1>2. LocksInv' /\ (pc \in [Procs -> States])' /\ pc'[p] = "building"
      /\ \A q \in Procs \ {p} : pc'[q] = "off"
  BY <1>1, GoesKeepsLocks
<1>3. MigrationInv(p)' /\ \A q \in Procs \ {p} : MigrationInv(q)'
  BY <1>2 DEF MigrationInv, Past
<1>4. WriterTypeOK' /\ LedgerInv'
  BY <1>1, <1>2 DEF WriterInv, WriterTypeOK, LedgerInv, schemaVars, lockVars
<1> QED
  BY <1>2, <1>3, <1>4 DEF WriterInv

LEMMA PartsKeeps ==
  ASSUME WriterInv, NEW p \in Procs, Parts(p) PROVE WriterInv'
<1>1. UNCHANGED schemaVars /\ pc[p] # "off" /\ Leave(p)
  BY DEF Parts
<1>2. LedgerInv' /\ UNCHANGED exists /\ UNCHANGED foreign
      /\ (schema \subseteq Versions)' /\ (ledger \subseteq Versions)'
      /\ (tracked \in BOOLEAN)'
  BY <1>1 DEF WriterInv, WriterTypeOK, LedgerInv, schemaVars
<1> QED
  BY <1>1, <1>2, LeaveKeeps

\* A process that goes from one state to another and does not touch the lock
\* keeps the writer's invariant if what it knows of the ledger holds.
LEMMA AdvanceKeeps ==
  ASSUME WriterInv, NEW p \in Procs, NEW w \in States \ {"off"}, pc[p] # "off",
         Goes(p, w), UNCHANGED lockVars, LedgerInv', MigrationInv(p)',
         (exists \in BOOLEAN)', (foreign \in BOOLEAN)', (schema \subseteq Versions)',
         (ledger \subseteq Versions)', (tracked \in BOOLEAN)',
         (todo \in [Procs -> 0 .. MaxBuild + 1])'
  PROVE  WriterInv'
<1>1. LocksInv' /\ (pc \in [Procs -> States])'
      /\ \A q \in Procs \ {p} : pc'[q] = "off"
  BY GoesKeepsLocks
<1>2. \A q \in Procs \ {p} : MigrationInv(q)'
  BY <1>1 DEF MigrationInv, Past
<1>3. WriterTypeOK'
  BY <1>1 DEF WriterInv, WriterTypeOK, lockVars
<1> QED
  BY <1>1, <1>2, <1>3 DEF WriterInv

LEMMA OpenDatabaseKeeps ==
  ASSUME WriterInv, NEW p \in Procs, OpenDatabase(p) PROVE WriterInv'
<1>1. /\ pc[p] # "off" /\ Goes(p, "opened") /\ exists' = TRUE
      /\ UNCHANGED <<lockVars, foreign, schema, tracked, ledger, todo>>
      /\ "opened" \in States \ {"off"}
  BY DEF OpenDatabase, States, Opening
<1>2. LedgerInv' /\ pc'[p] = "opened"
  BY <1>1 DEF WriterInv, WriterTypeOK, LedgerInv, Goes
<1>3. MigrationInv(p)'
  BY <1>2 DEF MigrationInv, Past, Opening
<1> QED
  BY <1>1, <1>2, <1>3, AdvanceKeeps DEF WriterInv, WriterTypeOK

LEMMA PrepareDatabaseKeeps ==
  ASSUME WriterInv, NEW p \in Procs, PrepareDatabase(p) PROVE WriterInv'
<1>1. /\ pc[p] # "off" /\ UNCHANGED <<exists, foreign, schema>>
      /\ "prepared" \in States \ {"off"}
  BY DEF PrepareDatabase, States, Opening
<1>2. WriterTypeOK /\ LedgerInv
  BY DEF WriterInv
<1>3. CASE /\ tracked \/ (schema = {} /\ ~ foreign)
           /\ Goes(p, "prepared")
           /\ UNCHANGED <<lockVars, tracked, ledger, todo>>
  <2>1. LedgerInv' /\ pc'[p] = "prepared"
    BY <1>1, <1>2, <1>3 DEF WriterTypeOK, LedgerInv, Goes
  <2>2. MigrationInv(p)'
    BY <1>1, <1>3, <2>1 DEF MigrationInv, Past, Opening
  <2> QED
    BY <1>1, <1>2, <1>3, <2>1, <2>2, AdvanceKeeps DEF WriterTypeOK
<1>4. CASE /\ ~ tracked /\ schema = {1} /\ ~ foreign
           /\ tracked' = TRUE /\ ledger' = {1}
           /\ Goes(p, "prepared") /\ UNCHANGED <<lockVars, todo>>
  <2>1. {1} = 1 .. 1 /\ 1 \in 0 .. MaxBuild
    BY BuildFacts
  <2>2. LedgerInv' /\ pc'[p] = "prepared"
    BY <1>1, <1>2, <1>4, <2>1 DEF WriterTypeOK, LedgerInv, Goes
  <2>3. MigrationInv(p)'
    BY <1>1, <1>4, <2>2 DEF MigrationInv, Past, Opening
  <2>4. ledger' \subseteq Versions
    BY <1>4, BuildFacts DEF Versions
  <2> QED
    BY <1>1, <1>2, <1>4, <2>2, <2>3, <2>4, AdvanceKeeps DEF WriterTypeOK
<1>5. CASE ~ tracked /\ foreign /\ Leave(p) /\ UNCHANGED <<tracked, ledger>>
  <2>1. Parts(p)
    BY <1>1, <1>5 DEF Parts, schemaVars
  <2> QED
    BY <2>1, PartsKeeps
<1> QED
  BY <1>3, <1>4, <1>5 DEF PrepareDatabase

LEMMA VerifyLedgerKeeps ==
  ASSUME WriterInv, NEW p \in Procs, VerifyLedger(p) PROVE WriterInv'
<1>1. /\ pc[p] # "off" /\ UNCHANGED <<exists, foreign, schema, ledger>>
      /\ tracked' = TRUE /\ "migrating" \in States \ {"off"}
  BY DEF VerifyLedger, States, Opening
<1>2. WriterTypeOK /\ LedgerInv
  BY DEF WriterInv
<1>3. tracked \/ (schema = {} /\ ~ foreign)
  BY DEF VerifyLedger, WriterInv, MigrationInv
<1>4. LedgerInv'
  BY <1>1, <1>2, <1>3 DEF LedgerInv
<1>5. CASE /\ \A v \in ledger : v <= Build[p]
           /\ todo' = [todo EXCEPT ![p] = Cardinality(ledger) + 1]
           /\ Goes(p, "migrating") /\ UNCHANGED lockVars
  <2>1. PICK k \in 0 .. MaxBuild : ledger = 1 .. k
    BY <1>2 DEF LedgerInv
  <2>2. Cardinality(ledger) = k
    BY <2>1, BuildFacts, FS_Interval
  <2>3. k <= Build[p]
    BY <2>1, <1>5, BuildFacts
  <2>4. todo' \in [Procs -> 0 .. MaxBuild + 1] /\ todo'[p] = k + 1
        /\ pc'[p] = "migrating"
    BY <1>2, <1>5, <2>1, <2>2, BuildFacts DEF WriterTypeOK, Goes
  <2>5. MigrationInv(p)'
    BY <1>1, <2>1, <2>3, <2>4, BuildFacts DEF MigrationInv, Past, Opening
  <2> QED
    BY <1>1, <1>2, <1>4, <1>5, <2>4, <2>5, AdvanceKeeps DEF WriterTypeOK
<1>6. CASE Leave(p)
  BY <1>1, <1>2, <1>4, <1>6, LeaveKeeps DEF WriterTypeOK
<1> QED
  BY <1>5, <1>6 DEF VerifyLedger

LEMMA ApplyMigrationKeeps ==
  ASSUME WriterInv, NEW p \in Procs, ApplyMigration(p) PROVE WriterInv'
<1>1. /\ pc[p] = "migrating" /\ todo[p] <= Build[p]
      /\ UNCHANGED <<exists, foreign, tracked>> /\ "migrating" \in States \ {"off"}
  BY DEF ApplyMigration, States, Opening
<1>2. WriterTypeOK /\ LedgerInv
  BY DEF WriterInv
<1> DEFINE t == todo[p]
<1>3. tracked /\ t \in 1 .. Build[p] /\ ledger = 1 .. (t - 1) /\ schema = ledger
      /\ ~ foreign
  BY <1>1, <1>2, BuildFacts DEF WriterInv, MigrationInv, LedgerInv
<1>4. CASE /\ schema' = schema \cup {todo[p]} /\ ledger' = ledger \cup {todo[p]}
           /\ todo' = [todo EXCEPT ![p] = @ + 1] /\ UNCHANGED <<pc, lockVars>>
  <2>1. ledger' = 1 .. t /\ t \in 0 .. MaxBuild /\ schema' = ledger'
    BY <1>3, <1>4, BuildFacts
  <2>2. LedgerInv'
    BY <1>1, <1>3, <2>1 DEF LedgerInv
  <2>3. todo' \in [Procs -> 0 .. MaxBuild + 1] /\ todo'[p] = t + 1
    BY <1>2, <1>3, <1>4, <2>1, BuildFacts DEF WriterTypeOK
  <2>4. Goes(p, "migrating") /\ pc'[p] = "migrating"
    BY <1>1, <1>2, <1>4 DEF Goes, WriterTypeOK
  <2>5. MigrationInv(p)'
    BY <1>1, <1>3, <2>1, <2>3, <2>4, BuildFacts DEF MigrationInv, Past, Opening
  <2>6. ledger' \subseteq Versions
    BY <2>1, BuildFacts DEF Versions
  <2> QED
    BY <1>1, <1>2, <1>4, <2>1, <2>2, <2>3, <2>4, <2>5, <2>6, AdvanceKeeps
    DEF WriterTypeOK
<1>5. CASE Leave(p) /\ UNCHANGED <<schema, ledger>>
  <2>1. Parts(p)
    BY <1>1, <1>5 DEF Parts, schemaVars
  <2> QED
    BY <2>1, PartsKeeps
<1> QED
  BY <1>4, <1>5 DEF ApplyMigration

LEMMA MigrationsDoneKeeps ==
  ASSUME WriterInv, NEW p \in Procs, MigrationsDone(p) PROVE WriterInv'
<1>1. /\ pc[p] = "migrating" /\ todo[p] > Build[p] /\ Goes(p, "ready")
      /\ todo' = [todo EXCEPT ![p] = 0]
      /\ UNCHANGED <<lockVars, schemaVars>> /\ "ready" \in States \ {"off"}
  BY DEF MigrationsDone, States
<1>2. WriterTypeOK /\ LedgerInv
  BY DEF WriterInv
<1>3. tracked /\ todo[p] \in 1 .. Build[p] + 1 /\ ledger = 1 .. (todo[p] - 1)
  BY <1>1 DEF WriterInv, MigrationInv
<1>4. ledger = 1 .. Build[p] /\ pc'[p] = "ready"
  <2>1. todo[p] = Build[p] + 1
    BY <1>1, <1>3, BuildFacts
  <2> QED
    BY <1>1, <1>2, <1>3, <2>1, BuildFacts DEF WriterTypeOK, Goes
<1>5. LedgerInv' /\ MigrationInv(p)'
  BY <1>1, <1>2, <1>3, <1>4 DEF LedgerInv, MigrationInv, Past, Opening, schemaVars
<1>6. (todo \in [Procs -> 0 .. MaxBuild + 1])'
  BY <1>1, <1>2, BuildFacts DEF WriterTypeOK
<1> QED
  BY <1>1, <1>2, <1>5, <1>6, AdvanceKeeps DEF WriterTypeOK, schemaVars

LEMMA WriterInvInductive ==
  ASSUME ~ Dangling
  PROVE  /\ Init => WriterInv
         /\ WriterInv /\ [Next]_vars => WriterInv'
<1>1. ASSUME Init PROVE WriterInv
  <2>0. WriterInit
    BY <1>1 DEF Init
  <2> USE <2>0, BuildFacts DEF WriterInit
  <2>1. WriterTypeOK
    <3>1. /\ "off" \in States /\ Db \in Paths /\ {1} \subseteq Versions
          /\ 0 \in 0 .. MaxBuild + 1
      BY DEF States, Paths, Versions
    <3> QED
      BY <3>1 DEF WriterTypeOK
  <2>2. LocksInv
    BY DEF LocksInv, Paths
  <2>3. LedgerInv
    <3>1. {} = 1 .. 0 /\ 0 \in 0 .. MaxBuild
      OBVIOUS
    <3> QED
      BY <3>1 DEF LedgerInv
  <2>4. \A p \in Procs : MigrationInv(p)
    BY DEF MigrationInv, Past
  <2> QED
    BY <2>1, <2>2, <2>3, <2>4 DEF WriterInv
<1>2. ASSUME WriterInv, UNCHANGED writerVars PROVE WriterInv'
  BY <1>2 DEF WriterInv, WriterTypeOK, LocksInv, LedgerInv, MigrationInv,
              writerVars, lockVars, schemaVars
<1>3. ASSUME WriterInv, NEW p \in Procs, WriterStep(p) PROVE WriterInv'
  BY <1>3, AcquireKeeps, OpenDatabaseKeeps, PrepareDatabaseKeeps, VerifyLedgerKeeps,
     ApplyMigrationKeeps, MigrationsDoneKeeps DEF WriterStep
<1> QED
  BY <1>1, <1>2, <1>3, StepEffect, CarriesKeeps, BuildsKeeps, PartsKeeps
  DEF WriterEffect

-----------------------------------------------------------------------------
\* Sessions, arcs and checkpoints

Arcs == [open : BOOLEAN, sources : SUBSET Sessions]
Jobs == [sess : Sessions \cup {0}, arc : Nat, covers : SUBSET Turns,
         seen : SUBSET Sessions, tries : 0 .. 2, again : BOOLEAN,
         snap : Checkpoints \cup {Users}]

CanonTypeOK ==
  /\ status \in [Sessions -> {"none", "open", "closed"}]
  /\ scenes \in [Sessions -> Seq(Scenes)] /\ undo \in Seq(Scenes)
  /\ recap \in [Sessions -> Recaps]
  /\ stamp \in [Sessions -> Nat]
  /\ arcs \in Seq(Arcs)
  /\ marks \subseteq Sessions /\ turn \in 0 .. MaxTurns
  /\ replay \in {"none", "available", "pending"}
  /\ repo \in [Paths -> SUBSET Checkpoints]
JobTypeOK ==
  /\ dest \subseteq Checkpoints \cup {Users}
  /\ job \in [Procs -> Jobs]

\* The scenes to go back to are settled too, and there is a turn to go back by.
ScenesInv ==
  /\ \A s, r \in Sessions : OpenSession(s) /\ OpenSession(r) => s = r
  /\ \A s \in Sessions : ScenesSettled(scenes[s])
  /\ ScenesSettled(undo)
  /\ replay # "none" => turn >= 1

ClosedWell(s) ==
  /\ ~ HasOpen(scenes[s])
  /\ recap[s] = [told |-> TRUE, turns |-> Played(scenes[s]),
                 scenes |-> DOMAIN scenes[s]]
  /\ stamp[s] \in DOMAIN arcs
ClosedInv ==
  \A s \in Sessions : IF status[s] = "closed" THEN ClosedWell(s) ELSE stamp[s] = 0

CanonInv ==
  CanonTypeOK /\ ScenesInv /\ ClosedInv /\ ArcsAccount /\ CheckpointsHonest

HasCheckpoint(s) ==
  \E n \in Paths : \E c \in repo[n] : c.label = s /\ s \in c.closed
Filled == {s \in Sessions : stamp[s] \in OpenArcs}

\* What a process still knows, at each point, of what it read before.
JobInv(p) ==
  LET s == job[p].sess
  IN /\ pc[p] \in {"play", "commit", "checkpoint", "mark"} => s \in Sessions
     /\ pc[p] = "play" => status[s] = "open"
     /\ pc[p] = "commit" =>
          /\ status[s] # "none" /\ job[p].arc \in OpenArcs
          /\ job[p].covers = RecapTurns(scenes[s])
     /\ pc[p] \in {"checkpoint", "mark"} => status[s] = "closed"
     /\ pc[p] = "mark" => HasCheckpoint(s)
     /\ pc[p] \in {"commit", "checkpoint", "mark", "rollup"} => job[p].tries = 0
     /\ pc[p] = "bible" => job[p].tries <= 1
     /\ pc[p] \in {"bible", "summary", "nextarc"} =>
          job[p].seen = Filled /\ Cardinality(Filled) >= Threshold

SessionInv ==
  WriterInv /\ CanonInv /\ JobTypeOK /\ \A p \in Procs : JobInv(p)

\* Only the process that moves has anything to know.
LEMMA OthersIdle ==
  ASSUME WriterInv, NEW p \in Procs, pc[p] # "off", NEW w,
         pc' = [pc EXCEPT ![p] = w]
  PROVE  pc'[p] = w /\ \A q \in Procs \ {p} : pc'[q] = "off" /\ JobInv(q)'
<1>1. pc'[p] = w /\ \A q \in Procs \ {p} : pc'[q] = pc[q]
  BY DEF WriterInv, WriterTypeOK
<1>2. \A q \in Procs \ {p} : pc[q] = "off"
  BY Alone
<1> QED
  BY <1>1, <1>2 DEF JobInv

\* A step that writes nothing to the campaign keeps what holds of it.
LEMMA SameCanon ==
  ASSUME CanonInv, UNCHANGED <<canonVars, repo>>
  PROVE  CanonInv'
BY DEF CanonInv, CanonTypeOK, ScenesInv, ClosedInv, ClosedWell, ArcsAccount,
       CheckpointsHonest, OpenSession, canonVars

LEMMA NoJobType ==
  NoJob \in Jobs
BY DEF NoJob, Jobs, Users

LEMMA LeavesKeeps ==
  ASSUME SessionInv, NEW p \in Procs, pc[p] # "off", Quits(p)
  PROVE  (\A q \in Procs : JobInv(q)') /\ (job \in [Procs -> Jobs])'
<1>1. pc' = [pc EXCEPT ![p] = "off"] /\ job' = [job EXCEPT ![p] = NoJob]
  BY DEF Quits, Leave, Goes
<1>2. pc'[p] = "off" /\ \A q \in Procs \ {p} : JobInv(q)'
  BY <1>1, OthersIdle DEF SessionInv
<1>3. JobInv(p)'
  BY <1>2 DEF JobInv
<1>4. job' \in [Procs -> Jobs]
  BY <1>1, NoJobType DEF SessionInv, JobTypeOK
<1> QED
  BY <1>2, <1>3, <1>4

LEMMA AppendFacts ==
  ASSUME NEW S, NEW a \in Seq(S), NEW x \in S
  PROVE  /\ Append(a, x) \in Seq(S) /\ DOMAIN a = 1 .. Len(a) /\ Len(a) \in Nat
         /\ Len(Append(a, x)) = Len(a) + 1
         /\ DOMAIN Append(a, x) = 1 .. Len(a) + 1
         /\ DOMAIN Append(a, x) = DOMAIN a \cup {Len(a) + 1}
         /\ Append(a, x)[Len(a) + 1] = x
         /\ \A i \in DOMAIN a : Append(a, x)[i] = a[i]
<1>1. /\ Append(a, x) \in Seq(S) /\ DOMAIN a = 1 .. Len(a) /\ Len(a) \in Nat
      /\ Len(Append(a, x)) = Len(a) + 1 /\ Append(a, x)[Len(a) + 1] = x
      /\ DOMAIN Append(a, x) = 1 .. Len(a) + 1
      /\ \A i \in DOMAIN a : Append(a, x)[i] = a[i]
  OBVIOUS
<1> QED
  BY <1>1

\* The open arc of a close: the one there is, or a new one after the last.
LEMMA OpenArcKeeps ==
  ASSUME CanonInv, OpenArcIfMissing,
         UNCHANGED <<status, scenes, recap, stamp, marks, turn, repo>>
  PROVE  CanonInv' /\ OpenArcs' # {}
<1>1. NewArc \in Arcs /\ NewArc.open
  BY DEF NewArc, Arcs
<1>2. arcs \in Seq(Arcs)
  BY DEF CanonInv, CanonTypeOK
<1>3. CASE OpenArcs # {}
  <2>1. UNCHANGED <<canonVars, repo>>
    BY <1>3 DEF OpenArcIfMissing, SameReplay, canonVars
  <2>2. OpenArcs' = OpenArcs
    BY <2>1 DEF canonVars, OpenArcs
  <2> QED
    BY <1>3, <2>1, <2>2, SameCanon
<1>4. CASE OpenArcs = {}
  <2>1. arcs' = Append(arcs, NewArc) /\ replay' = "none" /\ undo' = <<>>
    BY <1>4 DEF OpenArcIfMissing, Written
  <2>2. /\ arcs' \in Seq(Arcs) /\ Len(arcs) \in Nat /\ Len(arcs') = Len(arcs) + 1
        /\ DOMAIN arcs' = DOMAIN arcs \cup {Len(arcs) + 1}
        /\ arcs'[Len(arcs) + 1] = NewArc
        /\ \A i \in DOMAIN arcs : arcs'[i] = arcs[i]
    BY <1>1, <1>2, <2>1, AppendFacts
  <2>3. \A a \in DOMAIN arcs : ~ arcs[a].open
    BY <1>4 DEF OpenArcs
  <2>4. CanonTypeOK' /\ ScenesInv'
    <3>1. ScenesSettled(<<>>) /\ <<>> \in Seq(Scenes)
      BY DEF ScenesSettled
    <3> QED
      BY <2>1, <2>2, <3>1 DEF CanonInv, CanonTypeOK, ScenesInv, OpenSession
  <2>5. ClosedInv'
    BY <2>2 DEF CanonInv, ClosedInv, ClosedWell
  <2>6. ArcsAccount'
    BY <1>1, <2>2, <2>3 DEF CanonInv, ArcsAccount
  <2>7. CheckpointsHonest' /\ OpenArcs' # {}
    BY <1>1, <2>2 DEF CanonInv, CheckpointsHonest, OpenArcs
  <2> QED
    BY <2>4, <2>5, <2>6, <2>7 DEF CanonInv
<1> QED
  BY <1>3, <1>4

\* What a step has to show when it leaves the campaign as it is, and when it
\* is p's alone.
LEMMA StillKeeps ==
  ASSUME SessionInv, WriterInv', UNCHANGED <<canonVars, repo>>, JobTypeOK',
         \A q \in Procs : JobInv(q)'
  PROVE  SessionInv'
BY SameCanon DEF SessionInv

LEMMA MovesKeeps ==
  ASSUME SessionInv, WriterInv', CanonInv', JobTypeOK',
         NEW p \in Procs, pc[p] # "off", NEW w, Goes(p, w), JobInv(p)'
  PROVE  SessionInv'
<1>1. \A q \in Procs \ {p} : JobInv(q)'
  BY OthersIdle DEF SessionInv, Goes
<1> QED
  BY <1>1 DEF SessionInv

LEMMA QuitsKeeps ==
  ASSUME SessionInv, WriterInv', UNCHANGED <<canonVars, repo>>,
         (dest \subseteq Checkpoints \cup {Users})',
         NEW p \in Procs, pc[p] # "off", Quits(p)
  PROVE  SessionInv'
BY LeavesKeeps, StillKeeps DEF JobTypeOK

\* A process that opens the file knows nothing of it yet.
LEMMA OpenKeeps ==
  ASSUME SessionInv, WriterInv', NEW p \in Procs, Open(p)
  PROVE  SessionInv'
<1>1. WriterStep(p) /\ UNCHANGED sessionVars
  BY DEF Open
<1>2. UNCHANGED <<canonVars, repo>> /\ dest' = dest /\ job' = job
  BY <1>1 DEF sessionVars
<1>3. /\ pc \in [Procs -> States]
      /\ \E w \in Opening \cup {"ready", "off"} : pc' = [pc EXCEPT ![p] = w] \/ pc' = pc
  <2>1. pc \in [Procs -> States]
    BY DEF SessionInv, WriterInv, WriterTypeOK
  <2>2. Acquire(p) => Goes(p, "locked")
    BY DEF Acquire
  <2>3. OpenDatabase(p) => Goes(p, "opened")
    BY DEF OpenDatabase
  <2>4. PrepareDatabase(p) => Goes(p, "prepared") \/ Goes(p, "off")
    BY DEF PrepareDatabase, Leave
  <2>5. VerifyLedger(p) => Goes(p, "migrating") \/ Goes(p, "off")
    BY DEF VerifyLedger, Leave
  <2>6. ApplyMigration(p) => pc' = pc \/ Goes(p, "off")
    BY DEF ApplyMigration, Leave
  <2>7. MigrationsDone(p) => Goes(p, "ready")
    BY DEF MigrationsDone
  <2> QED
    BY <1>1, <2>1, <2>2, <2>3, <2>4, <2>5, <2>6, <2>7
    DEF WriterStep, Goes, Opening
<1>4. \A q \in Procs : JobInv(q)'
  <2> SUFFICES ASSUME NEW q \in Procs PROVE JobInv(q)'
    OBVIOUS
  <2>1. pc'[q] = pc[q] \/ pc'[q] \in Opening \cup {"ready", "off"}
    BY <1>3
  <2>2. CASE pc'[q] = pc[q]
    BY <1>2, <2>2 DEF SessionInv, JobInv, canonVars, OpenArcs, HasCheckpoint, Filled
  <2>3. CASE pc'[q] \in Opening \cup {"ready", "off"}
    BY <2>3 DEF JobInv, Opening
  <2> QED
    BY <2>1, <2>2, <2>3
<1> QED
  BY <1>2, <1>4, StillKeeps DEF SessionInv, JobTypeOK

-----------------------------------------------------------------------------
\* Launching

LEMMA BeginCloseKeeps ==
  ASSUME SessionInv, WriterInv', NEW p \in Procs, pc[p] # "off",
         NEW s \in Sessions, status[s] # "none", NEW again \in BOOLEAN,
         BeginClose(p, s, again)
  PROVE  SessionInv'
<1> DEFINE a == CHOOSE i \in DOMAIN arcs' : arcs'[i].open
           new == [NoJob EXCEPT !.sess = s, !.again = again, !.arc = a,
                                !.covers = RecapTurns(scenes[s])]
<1>1. /\ OpenArcIfMissing /\ job' = [job EXCEPT ![p] = new] /\ Goes(p, "commit")
      /\ UNCHANGED <<status, scenes, recap, stamp, marks, turn, repo>>
      /\ dest' = dest
  BY DEF BeginClose
<1>2. CanonInv' /\ OpenArcs' # {}
  BY <1>1, OpenArcKeeps DEF SessionInv
<1>3. a \in OpenArcs' /\ a \in Nat
  <2>1. a \in OpenArcs'
    BY <1>2 DEF OpenArcs
  <2>2. DOMAIN arcs' \subseteq Nat
    BY <1>2 DEF CanonInv, CanonTypeOK
  <2> QED
    BY <2>1, <2>2 DEF OpenArcs
<1>4. RecapTurns(scenes[s]) \subseteq Turns
  BY RecapTurnsType DEF SessionInv, CanonInv, CanonTypeOK
<1> HIDE DEF a
<1>5. /\ new \in Jobs /\ new.sess = s /\ new.arc = a /\ new.tries = 0
      /\ new.covers = RecapTurns(scenes[s])
  <2> DEFINE one == [NoJob EXCEPT !.sess = s]
             two == [one EXCEPT !.again = again]
             three == [two EXCEPT !.arc = a]
             four == [three EXCEPT !.covers = RecapTurns(scenes[s])]
  <2>1. new = four
    OBVIOUS
  <2>2. one \in Jobs /\ one.sess = s /\ one.tries = 0
    BY NoJobType DEF Jobs, NoJob
  <2> HIDE DEF one
  <2>3. two \in Jobs /\ two.sess = s /\ two.tries = 0
    BY <2>2 DEF Jobs
  <2> HIDE DEF two
  <2>4. three \in Jobs /\ three.sess = s /\ three.tries = 0 /\ three.arc = a
    BY <1>3, <2>3 DEF Jobs
  <2> HIDE DEF three
  <2>5. four \in Jobs /\ four.sess = s /\ four.tries = 0 /\ four.arc = a
        /\ four.covers = RecapTurns(scenes[s])
    BY <1>4, <2>4 DEF Jobs
  <2> HIDE DEF four, new
  <2> QED
    BY <2>1, <2>5
<1> HIDE DEF new
<1>6. job'[p] = new /\ job' \in [Procs -> Jobs] /\ pc'[p] = "commit"
  BY <1>1, <1>5 DEF SessionInv, JobTypeOK, Goes, WriterInv, WriterTypeOK
<1>7. JobInv(p)'
  BY <1>1, <1>3, <1>5, <1>6 DEF JobInv
<1> QED
  BY <1>1, <1>2, <1>6, <1>7, MovesKeeps DEF SessionInv, JobTypeOK

LEMMA StartSessionKeeps ==
  ASSUME SessionInv, WriterInv', NEW p \in Procs, NEW s \in Sessions,
         StartSession(p, s)
  PROVE  SessionInv'
<1>1. /\ pc[p] # "off" /\ status[s] = "none"
      /\ UNCHANGED <<scenes, recap, stamp, arcs, marks, turn, repo, dest>>
  BY DEF StartSession
<1>2. CASE /\ \A r \in Sessions : ~ OpenSession(r)
           /\ status' = [status EXCEPT ![s] = "open"]
           /\ Written /\ Goes(p, "play")
           /\ job' = [job EXCEPT ![p] = [NoJob EXCEPT !.sess = s]]
  <2>1. CanonTypeOK /\ ScenesInv /\ ClosedInv /\ ArcsAccount /\ CheckpointsHonest
    BY DEF SessionInv, CanonInv
  <2>2. /\ status'[s] = "open" /\ \A r \in Sessions \ {s} : status'[r] = status[r]
        /\ replay' = "none" /\ undo' = <<>>
    BY <1>2, <2>1 DEF CanonTypeOK, Written
  <2>3. ScenesSettled(<<>>) /\ <<>> \in Seq(Scenes)
    BY DEF ScenesSettled
  <2>4. CanonTypeOK' /\ ScenesInv'
    BY <1>1, <1>2, <2>1, <2>2, <2>3 DEF CanonTypeOK, ScenesInv, OpenSession
  <2>5. ClosedInv' /\ ArcsAccount' /\ CheckpointsHonest'
    BY <1>1, <2>1, <2>2
    DEF ClosedInv, ClosedWell, ArcsAccount, CheckpointsHonest
  <2> DEFINE new == [NoJob EXCEPT !.sess = s]
  <2>6. new \in Jobs /\ new.sess = s
    BY NoJobType DEF NoJob, Jobs
  <2> HIDE DEF new
  <2>7. job'[p] = new /\ job' \in [Procs -> Jobs] /\ pc'[p] = "play"
    BY <1>2, <2>6 DEF SessionInv, JobTypeOK, Goes, WriterInv, WriterTypeOK, new
  <2>8. JobInv(p)'
    BY <2>2, <2>6, <2>7 DEF JobInv
  <2> QED
    BY <1>1, <1>2, <2>4, <2>5, <2>7, <2>8, MovesKeeps DEF CanonInv, SessionInv, JobTypeOK
<1>3. CASE Quits(p) /\ UNCHANGED status /\ SameReplay
  <2>1. UNCHANGED <<canonVars, repo>> /\ (dest \subseteq Checkpoints \cup {Users})'
    BY <1>1, <1>3 DEF canonVars, SameReplay, SessionInv, JobTypeOK
  <2> QED
    BY <1>1, <1>3, <2>1, QuitsKeeps
<1> QED
  BY <1>2, <1>3 DEF StartSession

LEMMA LaunchKeeps ==
  ASSUME SessionInv, WriterInv', NEW p \in Procs, Launch(p)
  PROVE  SessionInv'
<1>1. ASSUME NEW s \in Sessions, Resume(p, s) PROVE SessionInv'
  <2>1. /\ pc[p] # "off" /\ status[s] = "open" /\ Goes(p, "play")
        /\ job' = [job EXCEPT ![p].sess = s]
        /\ UNCHANGED <<canonVars, repo>> /\ dest' = dest
    BY <1>1 DEF Resume, OpenSession
  <2>2. job[p] \in Jobs
    BY DEF SessionInv, JobTypeOK
  <2>3. [job[p] EXCEPT !.sess = s] \in Jobs /\ [job[p] EXCEPT !.sess = s].sess = s
    BY <2>2 DEF Jobs
  <2>4. /\ job'[p].sess = s /\ job' \in [Procs -> Jobs] /\ pc'[p] = "play"
    BY <2>1, <2>3 DEF SessionInv, JobTypeOK, Goes, WriterInv, WriterTypeOK
  <2>5. JobInv(p)'
    BY <2>1, <2>4 DEF JobInv, canonVars
  <2> QED
    BY <2>1, <2>4, <2>5, SameCanon, MovesKeeps DEF SessionInv, JobTypeOK
<1>2. ASSUME NEW s \in Sessions, CloseAndReplace(p, s) PROVE SessionInv'
  BY <1>2, BeginCloseKeeps DEF CloseAndReplace, OpenSession
<1>3. ASSUME NEW s \in Sessions, CloseAgain(p, s) PROVE SessionInv'
  BY <1>3, BeginCloseKeeps DEF CloseAgain
<1>4. ASSUME LaunchNew(p) PROVE SessionInv'
  <2>1. pc[p] # "off" /\ Goes(p, "starting") /\ UNCHANGED sessionVars
    BY <1>4 DEF LaunchNew
  <2>2. pc'[p] = "starting"
    BY <2>1 DEF Goes, SessionInv, WriterInv, WriterTypeOK
  <2>3. JobInv(p)' /\ UNCHANGED <<canonVars, repo>> /\ JobTypeOK'
    BY <2>1, <2>2 DEF JobInv, sessionVars, SessionInv, JobTypeOK
  <2> QED
    BY <2>1, <2>3, SameCanon, MovesKeeps DEF SessionInv
<1> QED
  BY <1>1, <1>2, <1>3, <1>4, StartSessionKeeps DEF Launch

-----------------------------------------------------------------------------
\* Playing

\* A step of play writes settled scenes to the open session.
LEMMA ScenesKeeps ==
  ASSUME SessionInv, WriterInv', NEW p \in Procs, pc[p] = "play",
         NEW n \in Seq(Scenes), ScenesSettled(n),
         scenes' = [scenes EXCEPT ![job[p].sess] = n],
         (undo \in Seq(Scenes))', ScenesSettled(undo)',
         (replay \in {"none", "available", "pending"})', (turn \in 0 .. MaxTurns)',
         replay' # "none" => turn' >= 1,
         UNCHANGED <<pc, status, recap, stamp, arcs, marks, repo, dest, job>>
  PROVE  SessionInv'
<1> DEFINE s == job[p].sess
<1>1. s \in Sessions /\ status[s] = "open"
  BY DEF SessionInv, JobInv
<1>2. CanonTypeOK /\ ScenesInv /\ ClosedInv /\ ArcsAccount /\ CheckpointsHonest
  BY DEF SessionInv, CanonInv
<1> HIDE DEF s
<1>3. /\ scenes'[s] = n /\ \A r \in Sessions \ {s} : scenes'[r] = scenes[r]
      /\ scenes' \in [Sessions -> Seq(Scenes)]
  BY <1>1, <1>2 DEF CanonTypeOK, s
<1>4. CanonTypeOK' /\ ScenesInv'
  BY <1>2, <1>3 DEF CanonTypeOK, ScenesInv, OpenSession
<1>5. ClosedInv'
  BY <1>1, <1>2, <1>3 DEF ClosedInv, ClosedWell
<1>6. ArcsAccount' /\ CheckpointsHonest'
  BY <1>2 DEF ArcsAccount, CheckpointsHonest
<1>7. Goes(p, "play") /\ pc'[p] = "play" /\ pc[p] # "off"
  BY DEF Goes, SessionInv, WriterInv, WriterTypeOK
<1>8. JobInv(p)' /\ JobTypeOK'
  BY <1>1, <1>7 DEF JobInv, SessionInv, JobTypeOK, s
<1> QED
  BY <1>4, <1>5, <1>6, <1>7, <1>8, MovesKeeps DEF CanonInv

LEMMA PlayKeeps ==
  ASSUME SessionInv, WriterInv', NEW p \in Procs, Play(p)
  PROVE  SessionInv'
<1> DEFINE s == job[p].sess
<1>1. pc[p] = "play" /\ s \in Sessions /\ status[s] = "open"
  BY DEF Play, Turn, Replay, Dispute, Quit, SessionInv, JobInv
<1>2. CanonTypeOK /\ ScenesInv
  BY DEF SessionInv, CanonInv
<1>3. /\ scenes[s] \in Seq(Scenes) /\ ScenesSettled(scenes[s])
      /\ undo \in Seq(Scenes) /\ ScenesSettled(undo)
      /\ turn \in 0 .. MaxTurns /\ MaxTurns \in Nat
  BY <1>1, <1>2, TurnsAssumption DEF CanonTypeOK, ScenesInv
<1>4. ScenesSettled(<<>>) /\ <<>> \in Seq(Scenes)
  BY DEF ScenesSettled
<1>5. ASSUME NEW mark \in Marks, Turn(p, mark) PROVE SessionInv'
  <2>1. /\ turn < MaxTurns /\ turn' = turn + 1 /\ undo' = scenes[s]
        /\ replay' = "available"
        /\ scenes' = [scenes EXCEPT ![s] = TurnScenes(scenes[s], mark, turn')]
        /\ UNCHANGED <<pc, status, recap, stamp, arcs, marks, repo, dest, job>>
    BY <1>5 DEF Turn
  <2>2. turn' \in Turns /\ turn' \in 0 .. MaxTurns /\ turn' >= 1
    BY <1>3, <2>1 DEF Turns
  <2> HIDE DEF s
  <2>3. /\ TurnScenes(scenes[s], mark, turn') \in Seq(Scenes)
        /\ ScenesSettled(TurnScenes(scenes[s], mark, turn'))
    BY <1>3, <2>2, TurnScenesSettle
  <2>4. (undo \in Seq(Scenes))' /\ ScenesSettled(undo)'
    BY <1>3, <2>1
  <2> QED
    BY <1>1, <2>1, <2>2, <2>3, <2>4, ScenesKeeps DEF s
<1>6. ASSUME NEW mark \in Marks, Replay(p, mark) PROVE SessionInv'
  <2>1. /\ replay = "pending" /\ undo' = <<>> /\ replay' = "none"
        /\ scenes' = [scenes EXCEPT ![s] = TurnScenes(scenes[s], mark, turn)]
        /\ UNCHANGED <<pc, turn, status, recap, stamp, arcs, marks, repo, dest, job>>
    BY <1>6 DEF Replay, Pending, Written
  <2>2. turn \in Turns
    BY <1>2, <1>3, <2>1 DEF Turns, ScenesInv
  <2> HIDE DEF s
  <2>3. /\ TurnScenes(scenes[s], mark, turn) \in Seq(Scenes)
        /\ ScenesSettled(TurnScenes(scenes[s], mark, turn))
    BY <1>3, <2>2, TurnScenesSettle
  <2>4. (undo \in Seq(Scenes))' /\ ScenesSettled(undo)'
    BY <1>4, <2>1
  <2> QED
    BY <1>1, <1>3, <2>1, <2>3, <2>4, ScenesKeeps DEF s
<1>7. ASSUME Dispute(p) PROVE SessionInv'
  <2>1. /\ replay = "available" /\ replay' = "pending"
        /\ scenes' = [scenes EXCEPT ![s] = undo]
        /\ UNCHANGED <<pc, turn, undo, status, recap, stamp, arcs, marks, repo,
                       dest, job>>
    BY <1>7 DEF Dispute
  <2>2. turn' >= 1
    BY <1>2, <2>1 DEF ScenesInv
  <2>3. (undo \in Seq(Scenes))' /\ ScenesSettled(undo)'
    BY <1>3, <2>1
  <2> QED
    BY <1>1, <1>3, <2>1, <2>2, <2>3, ScenesKeeps
<1>8. ASSUME Quit(p) PROVE SessionInv'
  <2>1. CASE BeginClose(p, s, FALSE)
    BY <1>1, <2>1, BeginCloseKeeps
  <2>2. CASE Quits(p) /\ UNCHANGED <<schemaVars, canonVars, repo, dest>>
    BY <1>1, <2>2, QuitsKeeps DEF SessionInv, JobTypeOK
  <2> QED
    BY <1>8, <2>1, <2>2 DEF Quit
<1> QED
  BY <1>5, <1>6, <1>7, <1>8 DEF Play

-----------------------------------------------------------------------------
\* Closing

\* A closed session is never closed again; an open one is closed whole, with
\* the recap that was composed before.
LEMMA CommitCloseKeeps ==
  ASSUME SessionInv, WriterInv', NEW p \in Procs, NEW dolt \in BOOLEAN,
         CommitClose(p, dolt)
  PROVE  SessionInv'
<1> DEFINE s == job[p].sess
           w == IF dolt /\ s \notin marks THEN "checkpoint" ELSE "rollup"
           after == ClosedScenes(scenes[s])
<1>1. /\ pc[p] = "commit" /\ CloseCanon(p) /\ Goes(p, w)
      /\ UNCHANGED <<arcs, marks, turn, repo, dest, job>>
  BY DEF CommitClose
<1>2. /\ s \in Sessions /\ status[s] # "none" /\ job[p].arc \in OpenArcs
      /\ job[p].covers = RecapTurns(scenes[s]) /\ job[p].tries = 0
  BY <1>1 DEF SessionInv, JobInv
<1>3. CanonTypeOK /\ ScenesInv /\ ClosedInv /\ ArcsAccount /\ CheckpointsHonest
  BY DEF SessionInv, CanonInv
<1>4. CanonInv' /\ status'[s] = "closed"
  <2>1. CASE OpenSession(s)
    <3>1. /\ scenes' = [scenes EXCEPT ![s] = after]
          /\ recap' = [recap EXCEPT ![s] =
               [told |-> TRUE, turns |-> job[p].covers,
                scenes |-> SummarisedIn(after)]]
          /\ status' = [status EXCEPT ![s] = "closed"]
          /\ stamp' = [stamp EXCEPT ![s] = job[p].arc]
          /\ replay' = "none" /\ undo' = <<>>
      BY <1>1, <2>1 DEF CloseCanon, Written
    <3> HIDE DEF s
    <3>2. /\ after \in Seq(Scenes) /\ ScenesSettled(after) /\ ~ HasOpen(after)
          /\ SummarisedIn(after) = DOMAIN after
          /\ Played(after) = job[p].covers
      BY <1>2, <1>3, ClosedScenesFacts DEF CanonTypeOK, ScenesInv
    <3> HIDE DEF after
    <3>3. job[p].arc \in DOMAIN arcs /\ arcs[job[p].arc].open /\ job[p].arc \in Nat
          /\ job[p].arc # 0
      BY <1>2, <1>3 DEF OpenArcs, CanonTypeOK
    <3>4. job[p].covers \subseteq Turns /\ SummarisedIn(after) \subseteq Nat
      <4>1. job[p].covers \subseteq Turns
        BY <1>2, <1>3, RecapTurnsType DEF CanonTypeOK
      <4> QED
        BY <3>2, <4>1
    <3>5. /\ scenes'[s] = after /\ status'[s] = "closed" /\ stamp'[s] = job[p].arc
          /\ recap'[s] = [told |-> TRUE, turns |-> job[p].covers,
                          scenes |-> DOMAIN after]
          /\ \A r \in Sessions \ {s} :
               /\ scenes'[r] = scenes[r] /\ status'[r] = status[r]
               /\ recap'[r] = recap[r] /\ stamp'[r] = stamp[r]
      BY <1>2, <1>3, <3>1, <3>2 DEF CanonTypeOK
    <3>6. ScenesSettled(<<>>) /\ <<>> \in Seq(Scenes)
      BY DEF ScenesSettled
    <3>7. CanonTypeOK'
      <4>1. [told |-> TRUE, turns |-> job[p].covers, scenes |-> SummarisedIn(after)]
              \in Recaps
        BY <3>4 DEF Recaps
      <4> QED
        BY <1>1, <1>3, <3>1, <3>2, <3>3, <3>6, <4>1 DEF CanonTypeOK
    <3>8. ScenesInv'
      BY <1>3, <3>1, <3>2, <3>5, <3>6 DEF ScenesInv, OpenSession
    <3>9. ClosedInv'
      BY <1>1, <1>3, <3>2, <3>3, <3>5 DEF ClosedInv, ClosedWell
    <3>10. stamp[s] = 0
      BY <1>2, <1>3, <2>1 DEF ClosedInv, OpenSession
    <3>11. ASSUME NEW a \in DOMAIN arcs, ~ arcs[a].open
           PROVE  {r \in Sessions : stamp'[r] = a} = {r \in Sessions : stamp[r] = a}
      <4>1. a # job[p].arc /\ a # 0
        BY <1>3, <3>3, <3>11 DEF CanonTypeOK
      <4>2. \A r \in Sessions : stamp'[r] = a <=> stamp[r] = a
        BY <1>2, <3>5, <3>10, <4>1
      <4> QED
        BY <4>2
    <3>12. ArcsAccount' /\ CheckpointsHonest'
      BY <1>1, <1>3, <3>11 DEF ArcsAccount, CheckpointsHonest
    <3> QED
      BY <3>5, <3>7, <3>8, <3>9, <3>12 DEF CanonInv
  <2>2. CASE ~ OpenSession(s)
    <3>1. UNCHANGED <<canonVars, repo>>
      BY <1>1, <2>2 DEF CloseCanon, canonVars
    <3>2. status[s] = "closed" /\ status' = status
      BY <1>2, <1>3, <2>2, <3>1 DEF CanonTypeOK, OpenSession, canonVars
    <3> QED
      BY <3>1, <3>2, SameCanon DEF SessionInv
  <2> QED
    BY <2>1, <2>2
<1>5. pc'[p] = w
  BY <1>1 DEF Goes, SessionInv, WriterInv, WriterTypeOK
<1>6. JobInv(p)' /\ JobTypeOK'
  BY <1>1, <1>2, <1>4, <1>5 DEF JobInv, SessionInv, JobTypeOK
<1> QED
  BY <1>1, <1>4, <1>6, MovesKeeps

\* A checkpoint is taken of a campaign in which the session is closed.
LEMMA TakeCheckpointKeeps ==
  ASSUME SessionInv, WriterInv', NEW p \in Procs, NEW ok \in BOOLEAN,
         TakeCheckpoint(p, ok)
  PROVE  SessionInv'
<1> DEFINE s == job[p].sess
           c == [label |-> s, closed |-> ClosedSessions]
           w == IF ok THEN "mark" ELSE "rollup"
<1>1. /\ pc[p] = "checkpoint" /\ Goes(p, w)
      /\ repo' = IF ok THEN [repo EXCEPT ![Given[p]] = @ \cup {c}] ELSE repo
      /\ UNCHANGED canonVars /\ dest' = dest /\ job' = job
  BY DEF TakeCheckpoint
<1>2. s \in Sessions /\ status[s] = "closed" /\ job[p].tries = 0
  BY <1>1 DEF SessionInv, JobInv
<1>3. CanonTypeOK /\ ScenesInv /\ ClosedInv /\ ArcsAccount /\ CheckpointsHonest
  BY DEF SessionInv, CanonInv
<1>4. Given[p] \in Paths
  BY PathsAssumption
<1>5. c \in Checkpoints /\ c.label = s /\ s \in c.closed
  BY <1>2 DEF Checkpoints, ClosedSessions
<1> HIDE DEF c
<1>6. /\ repo' \in [Paths -> SUBSET Checkpoints]
      /\ \A n \in Paths : repo[n] \subseteq repo'[n]
      /\ ok => c \in repo'[Given[p]]
  BY <1>1, <1>3, <1>4, <1>5 DEF CanonTypeOK
<1>7. CanonInv'
  <2>1. CanonTypeOK' /\ ScenesInv' /\ ClosedInv' /\ ArcsAccount'
    BY <1>1, <1>3, <1>6 DEF CanonTypeOK, ScenesInv, ClosedInv, ClosedWell,
                            ArcsAccount, OpenSession, canonVars
  <2>2. CheckpointsHonest'
    BY <1>1, <1>3, <1>6 DEF CheckpointsHonest, canonVars
  <2> QED
    BY <2>1, <2>2 DEF CanonInv
<1>8. pc'[p] = w
  BY <1>1 DEF Goes, SessionInv, WriterInv, WriterTypeOK
<1>9. ok => HasCheckpoint(s)'
  BY <1>1, <1>4, <1>5, <1>6 DEF HasCheckpoint
<1>10. JobInv(p)' /\ JobTypeOK'
  BY <1>1, <1>2, <1>8, <1>9 DEF JobInv, SessionInv, JobTypeOK, canonVars, HasCheckpoint
<1> QED
  BY <1>1, <1>7, <1>10, MovesKeeps

LEMMA MarkCheckpointDoneKeeps ==
  ASSUME SessionInv, WriterInv', NEW p \in Procs, MarkCheckpointDone(p)
  PROVE  SessionInv'
<1> DEFINE s == job[p].sess
<1>1. /\ pc[p] = "mark" /\ Goes(p, "rollup") /\ marks' = marks \cup {s}
      /\ replay' = "none" /\ undo' = <<>>
      /\ UNCHANGED <<status, scenes, recap, stamp, arcs, turn, repo, dest, job>>
  BY DEF MarkCheckpointDone, Written
<1>2. s \in Sessions /\ HasCheckpoint(s) /\ job[p].tries = 0
  BY <1>1 DEF SessionInv, JobInv
<1>3. CanonTypeOK /\ ScenesInv /\ ClosedInv /\ ArcsAccount /\ CheckpointsHonest
  BY DEF SessionInv, CanonInv
<1>4. ScenesSettled(<<>>) /\ <<>> \in Seq(Scenes)
  BY DEF ScenesSettled
<1>5. CanonTypeOK' /\ ScenesInv' /\ ClosedInv' /\ ArcsAccount'
  BY <1>1, <1>2, <1>3, <1>4 DEF CanonTypeOK, ScenesInv, ClosedInv, ClosedWell,
                                ArcsAccount, OpenSession
<1>6. CheckpointsHonest'
  BY <1>1, <1>2, <1>3 DEF CheckpointsHonest, HasCheckpoint
<1>7. pc'[p] = "rollup"
  BY <1>1 DEF Goes, SessionInv, WriterInv, WriterTypeOK
<1>8. JobInv(p)' /\ JobTypeOK'
  BY <1>1, <1>2, <1>7 DEF JobInv, SessionInv, JobTypeOK
<1> QED
  BY <1>1, <1>5, <1>6, <1>8, MovesKeeps DEF CanonInv

\* The sessions of the open arc are its closed ones, and each has a recap.
LEMMA ReadArcKeeps ==
  ASSUME SessionInv, WriterInv', NEW p \in Procs, ReadArc(p)
  PROVE  SessionInv'
<1> DEFINE filled == {s \in ClosedSessions : stamp[s] \in OpenArcs}
           ready == Cardinality(filled) >= Threshold
           seen == IF ready THEN {s \in filled : recap[s].told} ELSE {}
           w == IF ready THEN "bible" ELSE "release"
<1>1. /\ pc[p] = "rollup" /\ Goes(p, w) /\ job' = [job EXCEPT ![p].seen = seen]
      /\ UNCHANGED <<canonVars, repo>> /\ dest' = dest
  BY DEF ReadArc
<1>2. job[p].tries = 0 /\ job[p] \in Jobs
  BY <1>1 DEF SessionInv, JobInv, JobTypeOK
<1>3. CanonTypeOK /\ ClosedInv
  BY DEF SessionInv, CanonInv
<1>4. filled = Filled /\ \A s \in filled : recap[s].told
  <2>1. 0 \notin OpenArcs
    BY <1>3 DEF OpenArcs, CanonTypeOK
  <2>2. \A s \in Sessions : stamp[s] \in OpenArcs => s \in ClosedSessions
    BY <1>3, <2>1 DEF ClosedInv, ClosedSessions
  <2>3. ASSUME NEW s \in ClosedSessions PROVE recap[s].told
    <3>1. recap[s] = [told |-> TRUE, turns |-> Played(scenes[s]),
                      scenes |-> DOMAIN scenes[s]]
      BY <1>3 DEF ClosedInv, ClosedWell, ClosedSessions
    <3> QED
      BY <3>1
  <2> QED
    BY <2>2, <2>3 DEF Filled, ClosedSessions
<1>5. seen = IF ready THEN Filled ELSE {}
  BY <1>4
<1>6. seen \subseteq Sessions
  BY <1>5 DEF Filled
<1> HIDE DEF seen
<1> DEFINE new == [job[p] EXCEPT !.seen = seen]
<1>7. new \in Jobs /\ new.seen = seen /\ new.tries = 0
  BY <1>2, <1>6 DEF Jobs
<1> HIDE DEF new
<1>8. job'[p] = new /\ job' \in [Procs -> Jobs] /\ pc'[p] = w
  BY <1>1, <1>7 DEF SessionInv, JobTypeOK, Goes, WriterInv, WriterTypeOK, new
<1>9. Filled' = Filled
  BY <1>1 DEF Filled, OpenArcs, canonVars
<1>10. ready => Cardinality(Filled) >= Threshold /\ seen = Filled
  BY <1>4, <1>5
<1> HIDE DEF ready
<1>11. JobInv(p)'
  BY <1>7, <1>8, <1>9, <1>10 DEF JobInv
<1> QED
  BY <1>1, <1>8, <1>11, SameCanon, MovesKeeps DEF SessionInv, JobTypeOK

\* The two model calls change nothing, and each process tries twice at most.
LEMMA ModelCallKeeps ==
  ASSUME SessionInv, WriterInv', NEW p \in Procs, NEW ok \in BOOLEAN,
         ExtractBible(p, ok) \/ SummariseArc(p, ok)
  PROVE  SessionInv'
<1>1. UNCHANGED <<canonVars, repo>> /\ dest' = dest /\ pc[p] # "off"
  BY DEF ExtractBible, SummariseArc, sessionVars
<1>2. Filled' = Filled
  BY <1>1 DEF Filled, OpenArcs, canonVars
<1>3. job[p] \in Jobs /\ pc \in [Procs -> States] /\ job \in [Procs -> Jobs]
  BY DEF SessionInv, JobTypeOK, WriterInv, WriterTypeOK
<1>4. CASE ExtractBible(p, ok)
  <2> DEFINE w == IF ok THEN "summary"
                  ELSE IF job[p].tries = 0 THEN "bible" ELSE "release"
             new == [job[p] EXCEPT !.tries = IF ok THEN 0 ELSE @ + 1]
  <2>1. pc[p] = "bible" /\ Goes(p, w) /\ job' = [job EXCEPT ![p] = new]
    <3>1. /\ pc[p] = "bible" /\ Goes(p, w)
          /\ job' = [job EXCEPT ![p].tries = IF ok THEN 0 ELSE @ + 1]
      BY <1>4 DEF ExtractBible
    <3> QED
      BY <1>3, <3>1
  <2>2. /\ job[p].tries \in 0 .. 1 /\ job[p].seen = Filled
        /\ Cardinality(Filled) >= Threshold
    BY <1>3, <2>1 DEF SessionInv, JobInv, Jobs
  <2>3. new \in Jobs /\ new.seen = job[p].seen /\ (job[p].tries = 0 => new.tries <= 1)
    BY <1>3, <2>2 DEF Jobs
  <2> HIDE DEF new
  <2>4. job'[p] = new /\ job' \in [Procs -> Jobs] /\ pc'[p] = w
    BY <1>3, <2>1, <2>3 DEF Goes
  <2>5. JobInv(p)'
    BY <1>2, <2>2, <2>3, <2>4 DEF JobInv
  <2> QED
    BY <1>1, <2>1, <2>4, <2>5, SameCanon, MovesKeeps DEF SessionInv, JobTypeOK
<1>5. CASE SummariseArc(p, ok)
  <2> DEFINE w == IF ok THEN "nextarc" ELSE "release"
  <2>1. pc[p] = "summary" /\ Goes(p, w) /\ job' = job
    BY <1>5 DEF SummariseArc, sessionVars
  <2>2. pc'[p] = w
    BY <1>3, <2>1 DEF Goes
  <2>3. job[p].seen = Filled /\ Cardinality(Filled) >= Threshold
    BY <2>1 DEF SessionInv, JobInv
  <2>4. JobInv(p)'
    BY <1>2, <2>1, <2>2, <2>3 DEF JobInv
  <2> QED
    BY <1>1, <1>3, <2>1, <2>4, SameCanon, MovesKeeps DEF SessionInv, JobTypeOK
<1> QED
  BY <1>4, <1>5

\* What was read before the model calls is still so: the arc is closed with
\* exactly its own sessions, and the next one opened after it.
LEMMA NextArcKeeps ==
  ASSUME SessionInv, WriterInv', NEW p \in Procs, NextArc(p)
  PROVE  SessionInv'
<1> DEFINE a == job[p].arc
           full == [open |-> FALSE, sources |-> job[p].seen]
           shut == [arcs EXCEPT ![a] = full]
<1>1. /\ pc[p] = "nextarc" /\ OpenArcs = {a} /\ arcs' = Append(shut, NewArc)
      /\ replay' = "none" /\ undo' = <<>> /\ Goes(p, "release")
      /\ UNCHANGED <<status, scenes, recap, stamp, marks, turn, repo, dest, job>>
  BY DEF NextArc, Written
<1>2. CanonTypeOK /\ ScenesInv /\ ClosedInv /\ ArcsAccount /\ CheckpointsHonest
  BY DEF SessionInv, CanonInv
<1>3. job[p].seen = {s \in Sessions : stamp[s] = a} /\ Cardinality(job[p].seen) >= Threshold
  BY <1>1 DEF SessionInv, JobInv, Filled
<1>4. NewArc \in Arcs /\ NewArc.open
  BY DEF NewArc, Arcs
<1>5. full \in Arcs /\ ~ full.open /\ full.sources = job[p].seen
  BY <1>3 DEF Arcs
<1>6. arcs \in Seq(Arcs) /\ a \in DOMAIN arcs /\ \A i \in DOMAIN arcs \ {a} : ~ arcs[i].open
  BY <1>1, <1>2 DEF CanonTypeOK, OpenArcs
<1> HIDE DEF full, a
<1>7. /\ shut \in Seq(Arcs) /\ DOMAIN shut = DOMAIN arcs /\ Len(shut) = Len(arcs)
      /\ shut[a] = full /\ \A i \in DOMAIN arcs \ {a} : shut[i] = arcs[i]
  BY <1>5, <1>6
<1> HIDE DEF shut
<1>8. /\ arcs' \in Seq(Arcs) /\ Len(shut) \in Nat /\ Len(arcs') = Len(shut) + 1
      /\ DOMAIN arcs' = DOMAIN shut \cup {Len(shut) + 1}
      /\ arcs'[Len(shut) + 1] = NewArc
      /\ \A i \in DOMAIN shut : arcs'[i] = shut[i]
  BY <1>1, <1>4, <1>7, AppendFacts
<1>9. ScenesSettled(<<>>) /\ <<>> \in Seq(Scenes)
  BY DEF ScenesSettled
<1>10. CanonTypeOK' /\ ScenesInv'
  BY <1>1, <1>2, <1>8, <1>9 DEF CanonTypeOK, ScenesInv, OpenSession
<1>11. ClosedInv'
  BY <1>1, <1>2, <1>7, <1>8 DEF ClosedInv, ClosedWell
<1>12. ArcsAccount'
  <2>1. \A i \in DOMAIN arcs' : arcs'[i].open => i = Len(arcs')
    BY <1>5, <1>6, <1>7, <1>8
  <2>2. ASSUME NEW i \in DOMAIN arcs', ~ arcs'[i].open
        PROVE  /\ arcs'[i].sources = {s \in Sessions : stamp'[s] = i}
               /\ Cardinality(arcs'[i].sources) >= Threshold
    <3>1. i \in DOMAIN shut
      BY <1>4, <1>8, <2>2
    <3>2. CASE i = a
      BY <1>1, <1>3, <1>5, <1>7, <1>8, <3>1, <3>2
    <3>3. CASE i # a
      BY <1>1, <1>2, <1>7, <1>8, <2>2, <3>1, <3>3 DEF ArcsAccount
    <3> QED
      BY <3>2, <3>3
  <2> QED
    BY <2>1, <2>2 DEF ArcsAccount
<1>13. CheckpointsHonest'
  BY <1>1, <1>2 DEF CheckpointsHonest
<1>14. pc'[p] = "release"
  BY <1>1 DEF Goes, SessionInv, WriterInv, WriterTypeOK
<1>15. JobInv(p)' /\ JobTypeOK'
  BY <1>1, <1>14 DEF JobInv, SessionInv, JobTypeOK
<1> QED
  BY <1>1, <1>10, <1>11, <1>12, <1>13, <1>15, MovesKeeps DEF CanonInv

LEMMA CloseKeeps ==
  ASSUME SessionInv, WriterInv', NEW p \in Procs, Close(p)
  PROVE  SessionInv'
<1>1. ASSUME NEW dolt \in BOOLEAN, CloseFails(p, dolt) PROVE SessionInv'
  <2>1. /\ pc[p] = "commit" /\ UNCHANGED <<canonVars, repo>> /\ dest' = dest
        /\ (Goes(p, "rollup") /\ job' = job) \/ Quits(p)
    BY <1>1 DEF CloseFails
  <2>2. CASE Goes(p, "rollup") /\ job' = job
    <3>1. pc'[p] = "rollup" /\ job[p].tries = 0
      BY <2>1, <2>2 DEF Goes, SessionInv, WriterInv, WriterTypeOK, JobInv
    <3>2. JobInv(p)'
      BY <2>2, <3>1 DEF JobInv
    <3> QED
      BY <2>1, <2>2, <3>2, SameCanon, MovesKeeps DEF SessionInv, JobTypeOK
  <2>3. CASE Quits(p)
    BY <2>1, <2>3, QuitsKeeps DEF SessionInv, JobTypeOK
  <2> QED
    BY <2>1, <2>2, <2>3
<1>2. ASSUME ReleaseCharacters(p) PROVE SessionInv'
  <2>1. /\ pc[p] = "release" /\ UNCHANGED <<canonVars, repo>> /\ dest' = dest
        /\ (Goes(p, "starting") /\ job' = job) \/ Quits(p)
    BY <1>2 DEF ReleaseCharacters
  <2>2. CASE Goes(p, "starting") /\ job' = job
    <3>1. pc'[p] = "starting"
      BY <2>2 DEF Goes, SessionInv, WriterInv, WriterTypeOK
    <3>2. JobInv(p)'
      BY <3>1 DEF JobInv
    <3> QED
      BY <2>1, <2>2, <3>2, SameCanon, MovesKeeps DEF SessionInv, JobTypeOK
  <2>3. CASE Quits(p)
    BY <2>1, <2>3, QuitsKeeps DEF SessionInv, JobTypeOK
  <2> QED
    BY <2>1, <2>2, <2>3
<1> QED
  BY <1>1, <1>2, CommitCloseKeeps, TakeCheckpointKeeps, MarkCheckpointDoneKeeps,
     ReadArcKeeps, ModelCallKeeps, NextArcKeeps DEF Close

-----------------------------------------------------------------------------
\* Restoring, and the whole

LEMMA RestoreKeeps ==
  ASSUME SessionInv, WriterInv', NEW p \in Procs, Restore(p)
  PROVE  SessionInv'
<1>1. job \in [Procs -> Jobs] /\ pc \in [Procs -> States]
      /\ dest \subseteq Checkpoints \cup {Users}
  BY DEF SessionInv, JobTypeOK, WriterInv, WriterTypeOK
<1>2. ASSUME NEW c \in Checkpoints, BeginRestore(p, c) PROVE SessionInv'
  <2>1. /\ pc[p] = "locked" /\ Goes(p, "building") /\ job' = [job EXCEPT ![p].snap = c]
        /\ UNCHANGED <<canonVars, repo>> /\ dest' = dest
    BY <1>2 DEF BeginRestore
  <2>2. job' \in [Procs -> Jobs] /\ pc'[p] = "building"
    BY <1>1, <2>1 DEF Goes, Jobs
  <2>3. JobInv(p)'
    BY <2>2 DEF JobInv
  <2> QED
    BY <1>1, <2>1, <2>2, <2>3, SameCanon, MovesKeeps DEF SessionInv, JobTypeOK
<1>3. ASSUME Publish(p) PROVE SessionInv'
  <2>1. /\ pc[p] = "building" /\ Quits(p) /\ UNCHANGED <<canonVars, repo>>
        /\ dest' = IF dest = {} THEN {job[p].snap} ELSE dest
    BY <1>3 DEF Publish
  <2>2. job[p].snap \in Checkpoints \cup {Users}
    BY <1>1 DEF Jobs
  <2> QED
    BY <1>1, <2>1, <2>2, QuitsKeeps
<1> QED
  BY <1>2, <1>3 DEF Restore

LEMMA SessionInvInductive ==
  ASSUME ~ Dangling
  PROVE  /\ Init => SessionInv
         /\ SessionInv /\ [Next]_vars => SessionInv'
<1>1. ASSUME Init PROVE SessionInv
  <2>1. WriterInv
    BY <1>1, WriterInvInductive
  <2>2. ScenesSettled(<<>>) /\ <<>> \in Seq(Scenes) /\ <<>> \in Seq(Arcs)
    BY DEF ScenesSettled
  <2>3. NoRecap \in Recaps /\ 0 \in 0 .. MaxTurns
    BY TurnsAssumption DEF NoRecap, Recaps
  <2>4. CanonTypeOK
    BY <1>1, <2>2, <2>3 DEF Init, CanonTypeOK
  <2>5. ScenesInv /\ ClosedInv /\ ArcsAccount /\ CheckpointsHonest
    BY <1>1, <2>2
    DEF Init, ScenesInv, ClosedInv, ArcsAccount, CheckpointsHonest, OpenSession
  <2>6. JobTypeOK
    BY <1>1, NoJobType DEF Init, JobTypeOK
  <2>7. \A p \in Procs : JobInv(p)
    BY <1>1 DEF Init, WriterInit, JobInv
  <2> QED
    BY <2>1, <2>4, <2>5, <2>6, <2>7 DEF SessionInv, CanonInv
<1>2. ASSUME SessionInv, [Next]_vars PROVE SessionInv'
  <2>1. WriterInv'
    BY <1>2, WriterInvInductive DEF SessionInv
  <2>2. ASSUME UNCHANGED <<pc, canonVars, repo, job>>, (dest \subseteq Checkpoints \cup {Users})'
        PROVE  SessionInv'
    <3>1. \A q \in Procs : JobInv(q)'
      BY <1>2, <2>2 DEF SessionInv, JobInv, canonVars, OpenArcs, HasCheckpoint, Filled
    <3> QED
      BY <1>2, <2>1, <2>2, <3>1, StillKeeps DEF SessionInv, JobTypeOK
  <2>3. ASSUME UserWrites PROVE SessionInv'
    BY <2>2, <2>3 DEF UserWrites, writerVars
  <2>4. ASSUME UNCHANGED vars PROVE SessionInv'
    <3>1. UNCHANGED <<pc, canonVars, repo, job, dest>>
      BY <2>4 DEF vars, writerVars, sessionVars
    <3> QED
      BY <1>2, <2>2, <3>1 DEF SessionInv, JobTypeOK
  <2>5. ASSUME NEW p \in Procs, Vanish(p) PROVE SessionInv'
    <3>1. pc[p] # "off" /\ Quits(p) /\ UNCHANGED <<canonVars, repo, dest>>
      BY <2>5 DEF Vanish, Stop, Quits
    <3> QED
      BY <1>2, <2>1, <3>1, QuitsKeeps DEF SessionInv, JobTypeOK
  <2> QED
    BY <1>2, <2>1, <2>3, <2>4, <2>5, OpenKeeps, LaunchKeeps, PlayKeeps, CloseKeeps,
       RestoreKeeps DEF Next
<1> QED
  BY <1>1, <1>2

-----------------------------------------------------------------------------
\* What a close settled stays

\* A step that leaves the sessions alone, and closed arcs, and a file that is
\* at the destination of a restore.
LEMMA SameSettled ==
  ASSUME UNCHANGED <<status, scenes, recap, stamp>>,
         \A a \in DOMAIN arcs : ~ arcs[a].open => arcs'[a] = arcs[a],
         dest # {} => dest' = dest
  PROVE  Settled
BY DEF Settled, ClosedSessions

LEMMA OpenArcSettled ==
  ASSUME SessionInv, OpenArcIfMissing
  PROVE  \A a \in DOMAIN arcs : arcs'[a] = arcs[a]
<1>1. arcs \in Seq(Arcs) /\ NewArc \in Arcs
  BY DEF SessionInv, CanonInv, CanonTypeOK, NewArc, Arcs
<1> QED
  BY <1>1, AppendFacts DEF OpenArcIfMissing

LEMMA BeginCloseSettled ==
  ASSUME SessionInv, NEW p, NEW s, NEW again, BeginClose(p, s, again)
  PROVE  Settled
BY OpenArcSettled, SameSettled DEF BeginClose

LEMMA LaunchSettled ==
  ASSUME SessionInv, NEW p \in Procs, Launch(p) PROVE Settled
<1>1. ASSUME NEW s \in Sessions, StartSession(p, s) PROVE Settled
  <2>1. /\ status[s] = "none" /\ UNCHANGED <<scenes, recap, stamp, arcs, dest>>
        /\ status' = [status EXCEPT ![s] = "open"] \/ status' = status
    BY <1>1 DEF StartSession
  <2>2. \A r \in ClosedSessions : status'[r] = status[r]
    BY <2>1 DEF ClosedSessions, SessionInv, CanonInv, CanonTypeOK
  <2> QED
    BY <2>1, <2>2 DEF Settled, ClosedSessions
<1>2. ASSUME NEW s \in Sessions, Resume(p, s) PROVE Settled
  BY <1>2, SameSettled DEF Resume, canonVars
<1>3. ASSUME LaunchNew(p) PROVE Settled
  BY <1>3, SameSettled DEF LaunchNew, sessionVars, canonVars
<1> QED
  BY <1>1, <1>2, <1>3, BeginCloseSettled DEF Launch, CloseAndReplace, CloseAgain

LEMMA PlaySettled ==
  ASSUME SessionInv, NEW p \in Procs, Play(p) PROVE Settled
<1> DEFINE s == job[p].sess
<1>1. s \in Sessions /\ status[s] = "open" /\ scenes \in [Sessions -> Seq(Scenes)]
  BY DEF Play, Turn, Replay, Dispute, Quit, SessionInv, JobInv, CanonInv, CanonTypeOK
<1>2. ASSUME NEW n, scenes' = [scenes EXCEPT ![s] = n],
             UNCHANGED <<status, recap, stamp, arcs, dest>>
      PROVE  Settled
  BY <1>1, <1>2 DEF Settled, ClosedSessions
<1>3. ASSUME NEW mark \in Marks, Turn(p, mark) \/ Replay(p, mark) PROVE Settled
  BY <1>2, <1>3 DEF Turn, Replay
<1>4. ASSUME Dispute(p) PROVE Settled
  BY <1>2, <1>4 DEF Dispute
<1>5. ASSUME Quit(p) PROVE Settled
  BY <1>5, SameSettled, BeginCloseSettled DEF Quit, canonVars
<1> QED
  BY <1>3, <1>4, <1>5 DEF Play

LEMMA CloseSettled ==
  ASSUME SessionInv, NEW p \in Procs, Close(p) PROVE Settled
<1>1. ASSUME NEW dolt \in BOOLEAN, CommitClose(p, dolt) PROVE Settled
  <2>1. CanonTypeOK /\ UNCHANGED <<arcs, dest>> /\ CloseCanon(p)
    BY <1>1 DEF SessionInv, CanonInv, CommitClose
  <2>2. CASE OpenSession(job[p].sess)
    <3>1. \A r \in ClosedSessions :
            /\ status'[r] = status[r] /\ scenes'[r] = scenes[r]
            /\ recap'[r] = recap[r] /\ stamp'[r] = stamp[r]
      BY <2>1, <2>2 DEF CloseCanon, CanonTypeOK, ClosedSessions, OpenSession
    <3> QED
      BY <2>1, <3>1 DEF Settled, ClosedSessions
  <2>3. CASE ~ OpenSession(job[p].sess)
    BY <2>1, <2>3, SameSettled DEF CloseCanon
  <2> QED
    BY <2>2, <2>3
<1>2. ASSUME NEW dolt \in BOOLEAN, CloseFails(p, dolt) PROVE Settled
  BY <1>2, SameSettled DEF CloseFails, canonVars
<1>3. ASSUME NEW ok \in BOOLEAN,
             TakeCheckpoint(p, ok) \/ ExtractBible(p, ok) \/ SummariseArc(p, ok)
      PROVE  Settled
  BY <1>3, SameSettled DEF TakeCheckpoint, ExtractBible, SummariseArc, sessionVars, canonVars
<1>4. ASSUME MarkCheckpointDone(p) \/ ReadArc(p) \/ ReleaseCharacters(p) PROVE Settled
  BY <1>4, SameSettled DEF MarkCheckpointDone, ReadArc, ReleaseCharacters, canonVars
<1>5. ASSUME NextArc(p) PROVE Settled
  <2> DEFINE a == job[p].arc
             full == [open |-> FALSE, sources |-> job[p].seen]
             shut == [arcs EXCEPT ![a] = full]
  <2>1. /\ OpenArcs = {a} /\ arcs' = Append(shut, NewArc) /\ pc[p] = "nextarc"
        /\ UNCHANGED <<status, scenes, recap, stamp, dest>>
    BY <1>5 DEF NextArc
  <2>2. arcs \in Seq(Arcs) /\ full \in Arcs /\ NewArc \in Arcs
    BY <2>1 DEF SessionInv, CanonInv, CanonTypeOK, JobInv, Filled, NewArc, Arcs
  <2>3. a \in DOMAIN arcs /\ arcs[a].open
    BY <2>1 DEF OpenArcs
  <2> HIDE DEF full, a
  <2>4. /\ shut \in Seq(Arcs) /\ DOMAIN shut = DOMAIN arcs
        /\ \A i \in DOMAIN arcs \ {a} : shut[i] = arcs[i]
    BY <2>2, <2>3
  <2> HIDE DEF shut
  <2>5. \A i \in DOMAIN shut : arcs'[i] = shut[i]
    BY <2>1, <2>2, <2>4, AppendFacts
  <2>6. \A i \in DOMAIN arcs : ~ arcs[i].open => arcs'[i] = arcs[i]
    BY <2>3, <2>4, <2>5
  <2> QED
    BY <2>1, <2>6, SameSettled
<1> QED
  BY <1>1, <1>2, <1>3, <1>4, <1>5 DEF Close

LEMMA SettledStep ==
  ASSUME SessionInv, [Next]_vars PROVE Settled
<1>1. ASSUME NEW p \in Procs, Open(p) PROVE Settled
  BY <1>1, SameSettled DEF Open, sessionVars, canonVars
<1>2. ASSUME NEW p \in Procs, Restore(p) PROVE Settled
  BY <1>2, SameSettled DEF Restore, Publish, BeginRestore, canonVars
<1>3. ASSUME NEW p \in Procs, Vanish(p) PROVE Settled
  BY <1>3, SameSettled DEF Vanish, canonVars
<1>4. ASSUME UserWrites PROVE Settled
  BY <1>4, SameSettled DEF UserWrites, canonVars
<1>5. ASSUME UNCHANGED vars PROVE Settled
  BY <1>5, SameSettled DEF vars, sessionVars, canonVars
<1> QED
  BY <1>1, <1>2, <1>3, <1>4, <1>5, LaunchSettled, PlaySettled, CloseSettled DEF Next

-----------------------------------------------------------------------------
\* The theorems.  ~ Dangling: no link to the campaign is there before its file.

\* What holds together is an invariant: the lock and the ledger, the sessions
\* and arcs, and what each process remembers of them.
THEOREM SessionInvariant ==
  ASSUME ~ Dangling PROVE Spec => []SessionInv
<1>1. Init => SessionInv /\ (SessionInv /\ [Next]_vars => SessionInv')
  BY SessionInvInductive
<1> QED
  BY <1>1, SessionInvInductive, PTL DEF Spec

\* Every variable has its type.
THEOREM SessionTypes ==
  ASSUME ~ Dangling PROVE Spec => []TypeOK
<1>1. SessionInv => TypeOK
  BY DEF SessionInv, WriterInv, WriterTypeOK, CanonInv, CanonTypeOK, JobTypeOK, Jobs,
         Arcs, TypeOK
<1> QED
  BY <1>1, SessionInvariant, PTL

\* One process at a time has the file open, by whatever name it was told, and no
\* lock outlives its process (campaignWriterLock.ts).
THEOREM OneWriterAtATime ==
  ASSUME ~ Dangling PROVE Spec => []LockSound
<1>1. SessionInv => LockSound
  BY Alone DEF SessionInv, WriterInv, LocksInv, LockSound, OneWriter, NoStaleLock
<1> QED
  BY <1>1, SessionInvariant, PTL

\* The ledger is what took effect, nothing foreign is touched, and whoever plays
\* does so on exactly its own program's schema (migrationRunner.ts).
THEOREM SchemaIsLedger ==
  ASSUME ~ Dangling PROVE Spec => []SchemaSound
<1>1. ASSUME SessionInv PROVE SchemaSound
  <2>1. ASSUME NEW p \in Procs, pc[p] \notin {"off", "building"} \cup Opening
        PROVE  pc[p] \in Past
    BY <1>1, <2>1 DEF SessionInv, WriterInv, WriterTypeOK, Past
  <2> QED
    BY <1>1, <2>1 DEF SessionInv, WriterInv, LedgerInv, MigrationInv, SchemaSound
<1> QED
  BY <1>1, SessionInvariant, PTL

\* A closed session is closed whole, with a recap of all that was played, and
\* one session at most is open (close.ts, session.ts, scene.ts).
THEOREM ClosesAreWhole ==
  ASSUME ~ Dangling PROVE Spec => []ClosedWhole
<1>1. SessionInv => ClosedWhole
  BY DEF SessionInv, CanonInv, ScenesInv, ClosedInv, ClosedWell, ClosedWhole,
         ClosedSessions
<1> QED
  BY <1>1, SessionInvariant, PTL

\* A closed arc was full, and its summary made of exactly its sessions
\* (playClose.ts).
THEOREM ArcsAreAccounted ==
  ASSUME ~ Dangling PROVE Spec => []ArcsAccount
<1>1. SessionInv => ArcsAccount
  BY DEF SessionInv, CanonInv
<1> QED
  BY <1>1, SessionInvariant, PTL

\* No checkpoint is recorded that was not taken, of the session closed (close.ts).
THEOREM CheckpointsAreHonest ==
  ASSUME ~ Dangling PROVE Spec => []CheckpointsHonest
<1>1. SessionInv => CheckpointsHonest
  BY DEF SessionInv, CanonInv
<1> QED
  BY <1>1, SessionInvariant, PTL

\* No step undoes what a close settled, nor replaces a file that is there.
THEOREM SettledForGood ==
  ASSUME ~ Dangling PROVE Spec => StaysSettled
<1>1. SessionInv /\ [Next]_vars => Settled
  BY SettledStep
<1> QED
  BY <1>1, SessionInvariant, PTL DEF Spec, StaysSettled
=============================================================================
