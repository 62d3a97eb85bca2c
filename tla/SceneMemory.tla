---------------------------- MODULE SceneMemory ----------------------------
(***************************************************************************)
(* The scenes of one session as a sequence, oldest first: whether each is  *)
(* open, the turns in its log, and the turns its summary was made from.    *)
(***************************************************************************)
EXTENDS Naturals, Sequences

CONSTANT MaxTurns   \* bound on the turns of the campaign

Turns == 1 .. MaxTurns
ASSUME TurnsAssumption == MaxTurns \in Nat

\* told: the scene has a scene_summary row, made from the turns in summary.
Scenes == [open : BOOLEAN, log : SUBSET Turns,
           told : BOOLEAN, summary : SUBSET Turns]
NewScene == [open |-> TRUE, log |-> {}, told |-> FALSE, summary |-> {}]

\* What mark_scene is asked for in a turn, in the order of the calls.
Marks == {"none", "open", "close", "close open", "open close"}

HasOpen(sc) == \E i \in DOMAIN sc : sc[i].open
OpenIndex(sc) == CHOOSE i \in DOMAIN sc : sc[i].open

OpenScene(sc) ==
  IF HasOpen(sc) THEN sc
  ELSE Append(sc, NewScene)

CloseScene(sc) ==
  IF HasOpen(sc) THEN [sc EXCEPT ![OpenIndex(sc)].open = FALSE] ELSE sc

\* A refused call leaves the scenes as they are and the turn goes on.
Marked(sc, mark) ==
  IF mark = "open" THEN OpenScene(sc)
  ELSE IF mark = "close" THEN CloseScene(sc)
  ELSE IF mark = "close open" THEN OpenScene(CloseScene(sc))
  ELSE IF mark = "open close" /\ ~ HasOpen(sc) THEN CloseScene(OpenScene(sc))
  ELSE IF mark = "open close" THEN CloseScene(sc)
  ELSE sc

\* A scene that has a summary keeps it.
Summarised(sc, i) ==
  IF sc[i].told THEN sc
  ELSE [sc EXCEPT ![i].told = TRUE, ![i].summary = sc[i].log]

\* The scene a turn closed: the one open before it, else the one it opened.
ClosedBy(sc, mark) ==
  {i \in DOMAIN Marked(sc, mark) :
     ~ Marked(sc, mark)[i].open /\ (i \in DOMAIN sc => sc[i].open)}

SummarisedAll(sc, ids) ==
  [i \in DOMAIN sc |-> IF i \in ids THEN Summarised(sc, i)[i] ELSE sc[i]]

\* The transcript goes to the open scene, an untitled one if there is none.
Logged(sc, t) ==
  LET ready == OpenScene(sc)
  IN [ready EXCEPT ![OpenIndex(ready)].log = @ \cup {t}]

\* A turn's scene calls, then the summaries of what it closed, then its text.
TurnScenes(sc, mark, t) ==
  Logged(SummarisedAll(Marked(sc, mark), ClosedBy(sc, mark)), t)

\* Closing the session closes its open scene and summarises it.
ClosedScenes(sc) ==
  IF HasOpen(sc) THEN Summarised(CloseScene(sc), OpenIndex(sc)) ELSE sc

SummarisedIn(sc) == {i \in DOMAIN sc : sc[i].told}
Played(sc) == UNION {sc[i].log : i \in DOMAIN sc}

\* Mutant: the open scene's log is left out.
RecapOfSummaries(sc) == UNION {sc[i].summary : i \in SummarisedIn(sc)}

\* composeSessionRecap: the summaries so far, and the log of the open scene.
RecapTurns(sc) ==
  (UNION {sc[i].summary : i \in SummarisedIn(sc)})
    \cup (UNION {sc[i].log : i \in {j \in DOMAIN sc : sc[j].open}})
=============================================================================
