---------------------------- MODULE MCRuleStore ----------------------------
(* RuleStore for TLC: one ambiguity, two names, three ordinals.             *)
EXTENDS RuleStore, TLC

CONSTANTS a1, h1, h2

MCAmbiguities == {a1}
MCNames == {h1, h2}
Symmetry == Permutations(MCNames)
=============================================================================
