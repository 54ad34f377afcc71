-------------------------- MODULE MCCosmosConsumer --------------------------
(* Small instances of CosmosConsumer for TLC.                              *)
EXTENDS CosmosConsumer, TLC

CONSTANTS a1, h1, h2, p1, x, y

Env(a, v, p, b) == [account |-> a, version |-> v, prev |-> p, body |-> b]

(* One account: its first version, a rival first version, a tombstone that *)
(* follows, a resurrection, and a message nobody can read.                 *)
OneAccountMessages ==
    {Env(a1, 1, 0, x), Env(a1, 1, 0, y), Env(a1, 2, 1, Tombstone),
     Env(a1, 3, 2, y), Env(a1, 0, 0, Garbage)}

OnePartition == [a \in Account |-> p1]

Symmetric == Permutations(Host)
=============================================================================
