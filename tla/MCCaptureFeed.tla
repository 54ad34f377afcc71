---------------------------- MODULE MCCaptureFeed ---------------------------
(* Small instances of CaptureFeed for TLC.                                 *)
EXTENDS CaptureFeed, TLC

CONSTANTS a1, h1, h2, p1, w1, w2, x, y

Env(a, v, p, b) == [account |-> a, version |-> v, prev |-> p, body |-> b]

(* An account that is created, with either of two contents, and deleted,   *)
(* with a version number skipped.                                          *)
Changes == {Env(a1, 1, 0, x), Env(a1, 1, 0, y), Env(a1, 3, 1, Tombstone)}

(* A message nobody can use.                                               *)
Unusable == Env(a1, 1, 0, Garbage)

OneContentAndUnusable == (Changes \ {Env(a1, 1, 0, y)}) \union {Unusable}

OnePartition == [a \in Account |-> p1]

Symmetric == Permutations(Host) \union Permutations(Publisher) \union Permutations(Image)
=============================================================================
