------------------------- MODULE MCCharacterCustody -------------------------
(* CharacterCustody for TLC: c1, which may have a restored copy, and c2.     *)
EXTENDS CharacterCustody, TLC

CONSTANTS d1, d2, d3, c1, c2, g1, g2

MCChars == {g1, g2}
MCCampaigns == {c1, c2}

\* Two campaigns of one file each.
MCTwoFiles == {d1, d2}
MCTwoCampaigns == [d \in MCTwoFiles |-> IF d = d1 THEN c1 ELSE c2]

\* A third file is restored from a checkpoint of the first.
MCThreeFiles == {d1, d2, d3}
MCCopied == [d \in MCThreeFiles |-> IF d = d2 THEN c2 ELSE c1]
MCCopies == {d3}

\* The restored copy and its original alone.
MCOneCampaign == {d1, d3}
MCItsCopy == [d \in MCOneCampaign |-> c1]

\* The first campaign meets failing writes.
MCFailing == {d1}

MCOneSlot == {1}
MCTwoSlots == {1, 2}
Symmetry == Permutations(MCChars)
=============================================================================
