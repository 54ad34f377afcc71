---------------------------- MODULE MCGuidedRun -----------------------------
(* Small instances of GuidedRun for TLC.                                   *)
EXTENDS GuidedRun, TLC

CONSTANTS a1, a2, p1, p2, w1, w2

TwoRows == <<a1, a2>>

OnePartition == [a \in Account |-> p1]
TwoPartitions == [a \in Account |-> IF a = a1 THEN p1 ELSE p2]

Symmetric == Permutations(Worker)
=============================================================================
