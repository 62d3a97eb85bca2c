---------------------------- MODULE MCTurnEngine ----------------------------
(* TurnEngine and its refinement for TLC: three turns let a dispute follow  *)
(* an accepted turn that itself followed a replay; two requirement keys     *)
(* tell a fresh rejection from a repeated one.                              *)
EXTENDS TurnRefinement, TLC

CONSTANTS t1, t2, t3, a1, k1, k2

MCTurns == {t1, t2, t3}
MCTwoTurns == {t1, t2}
MCAmbiguities == {a1}
MCReqKeys == {k1, k2}
MCOneKey == {k1}
MCRuns == 1 .. 4

\* One opening that writes, a migration or characters: a second one adds states
\* and no case.
OneReworking == disk.canon.schema + disk.canon.party <= 1

Symmetry == Permutations(MCTurns) \cup Permutations(MCReqKeys)
=============================================================================
