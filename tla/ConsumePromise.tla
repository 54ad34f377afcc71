--------------------------- MODULE ConsumePromise ---------------------------
(***************************************************************************)
(* What AzureCloud.consume promises to the requests that call it: messages *)
(* reach a request in order and only until it is answered; it is told of   *)
(* success only when it has everything it wanted and none of its receivers *)
(* is left; and a request is let in only when no answered request has a    *)
(* receiver left, so that retrying cannot pile receivers up.               *)
(***************************************************************************)
EXTENDS Naturals

CONSTANTS
    Call,
    Partition,
    Positions,     \* call -> the partitions it reads
    Wanted         \* partition -> number of messages a request waits for

VARIABLES
    status,        \* call -> "idle", "running", "ok" or "error"
    seen,          \* call -> partition -> messages handed to the request
    alive          \* <<call, partition>> of the receivers that run

vars == <<status, seen, alive>>

Complete(c) == \A p \in Positions[c] : seen[c][p] >= Wanted[p]

Of(c) == {r \in alive : r[1] = c}

Answered(c) == status[c] \in {"ok", "error"}

Become(c, s) == status' = [status EXCEPT ![c] = s]

Init ==
    /\ status = [c \in Call |-> "idle"]
    /\ seen \in [Call -> [Partition -> Nat]]
    /\ alive = {}

Begin(c) ==
    /\ status[c] = "idle"
    /\ \A d \in Call : Answered(d) => Of(d) = {}
    /\ Become(c, "running")
    /\ UNCHANGED <<seen, alive>>

Receive(c, p) ==
    /\ status[c] = "running"
    /\ alive' = alive \cup {<<c, p>>}
    /\ UNCHANGED <<status, seen>>

Hand(c, p) ==
    /\ status[c] = "running"
    /\ <<c, p>> \in alive
    /\ seen' = [seen EXCEPT ![c][p] = @ + 1]
    /\ UNCHANGED <<status, alive>>

End(r) ==
    /\ alive' = alive \ {r}
    /\ UNCHANGED <<status, seen>>

Succeed(c) ==
    /\ status[c] \in {"idle", "running"}
    /\ Complete(c)
    /\ Of(c) = {}
    /\ Become(c, "ok")
    /\ UNCHANGED <<seen, alive>>

Fail(c) ==
    /\ status[c] \in {"idle", "running"}
    /\ Become(c, "error")
    /\ UNCHANGED <<seen, alive>>

Next ==
    \/ \E c \in Call : Begin(c) \/ Succeed(c) \/ Fail(c)
    \/ \E c \in Call, p \in Partition : Receive(c, p) \/ Hand(c, p)
    \/ \E r \in alive : End(r)

Spec == Init /\ [][Next]_vars
=============================================================================
