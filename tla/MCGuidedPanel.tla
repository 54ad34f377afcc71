--------------------------- MODULE MCGuidedPanel ----------------------------
(* Small instances of GuidedPanel for TLC.                                 *)
EXTENDS GuidedPanel, TLC

CONSTANTS a1, p1, w1, w2

OneRow == <<a1>>

OnePartition == [a \in Account |-> p1]

Symmetric == Permutations(Worker)
=============================================================================
