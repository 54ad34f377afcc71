--------------------------- MODULE MCGuidedConsume --------------------------
(* Small instances of GuidedConsume for TLC.                               *)
EXTENDS GuidedConsume, TLC

CONSTANTS c1, c2, p1, p2

(* A run with an event in p1 and messages of others in p2; and one that    *)
(* has only ever seen p1.                                                  *)
OneWanted == (p1 :> 1) @@ (p2 :> 0)
SomePositions == (c1 :> {p1, p2}) @@ (c2 :> {p1})

BothPositions == [c \in Call |-> Partition]
=============================================================================
