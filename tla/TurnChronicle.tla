--------------------------- MODULE TurnChronicle ---------------------------
(***************************************************************************)
(* What docs/campaign-rules.md promises of a campaign's turns, whatever    *)
(* happens to the model, the auditor or the process: a chronicle that only *)
(* grows at its end, whose last turn may be taken back once, straight      *)
(* after it was accepted, to be adjudicated again under the player's rule  *)
(* before any other turn or command.  Only the opening of the campaign may *)
(* write while that waits.  TurnEngine is shown to implement it.           *)
(***************************************************************************)
EXTENDS Naturals, Sequences

CONSTANTS Turns, NoTurn

VARIABLES
  chronicle,  \* the accepted turns, in order
  redo,       \* the disputed turn that waits to be adjudicated again
  amended,    \* turns adjudicated a second time, or waiting for it
  changes,    \* management and session writes between turns
  openings,   \* openings that wrote character or custody rows
  fresh       \* whether the last turn may still be disputed

cvars == <<chronicle, redo, amended, changes, openings, fresh>>

Chronicled == {chronicle[i] : i \in DOMAIN chronicle}

Init ==
  /\ chronicle = <<>> /\ redo = NoTurn /\ amended = {}
  /\ changes = 0 /\ openings = 0 /\ fresh = FALSE

Accept(t) ==
  /\ redo \in {NoTurn, t} /\ t \notin Chronicled
  /\ chronicle' = Append(chronicle, t)
  /\ redo' = NoTurn /\ fresh' = (redo = NoTurn)
  /\ UNCHANGED <<amended, changes, openings>>

Dispute ==
  /\ fresh /\ chronicle # <<>>
  /\ LET n == Len(chronicle) IN
       /\ chronicle[n] \notin amended
       /\ chronicle' = SubSeq(chronicle, 1, n - 1)
       /\ redo' = chronicle[n] /\ amended' = amended \cup {chronicle[n]}
  /\ fresh' = FALSE
  /\ UNCHANGED <<changes, openings>>

Change ==
  /\ redo = NoTurn
  /\ changes' = changes + 1 /\ fresh' = FALSE
  /\ UNCHANGED <<chronicle, redo, amended, openings>>

\* An upgrade changes the stored schema and nothing a player sees, but for the
\* right to dispute the last turn.
Migrate ==
  fresh' = FALSE /\ UNCHANGED <<chronicle, redo, amended, changes, openings>>

\* An opening writes the party's characters, even while a turn waits.
Reopen ==
  /\ openings' = openings + 1 /\ fresh' = FALSE
  /\ UNCHANGED <<chronicle, redo, amended, changes>>

Next == (\E t \in Turns : Accept(t)) \/ Dispute \/ Change \/ Migrate \/ Reopen

Spec == Init /\ [][Next]_cvars

=============================================================================
