--------------------------- MODULE TurnRefinement ---------------------------
(***************************************************************************)
(* TurnEngine implements TurnChronicle: the chronicle is read off the      *)
(* committed turn traces, each at its position, and everything runTurn     *)
(* does before it releases its savepoint is a stuttering step.             *)
(***************************************************************************)
EXTENDS TurnEngine

AcceptedTurns == {t \in Turns : disk.canon.trace[t] # NoCand}

Chronicle ==
  [i \in 1 .. Cardinality(AcceptedTurns) |->
     CHOOSE t \in AcceptedTurns : disk.canon.pos[t] = i]

TC == INSTANCE TurnChronicle WITH
  chronicle <- Chronicle,
  redo <- IF Pending(disk) THEN disk.replay.turn ELSE NoTurn,
  amended <- disk.canon.corrective,
  changes <- disk.canon.changes,
  openings <- disk.canon.party,
  fresh <- disk.replay.status = "available" /\ StateHash(disk) = disk.replay.hash

\* Every behaviour of the engine is, for the player, a behaviour of the
\* chronicle: retries, rejected attempts, failures, crashes and restores show
\* nothing but the steps docs/campaign-rules.md names.
Implements == TC!Spec

=============================================================================
