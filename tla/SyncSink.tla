------------------------------ MODULE SyncSink ------------------------------
(***************************************************************************)
(* What the synchronization promises, whatever number of consumer hosts    *)
(* run, crash, overlap or retry: every effect of a delivery is one atomic  *)
(* step on the balances, the quarantine or the checkpoints.                *)
(*                                                                         *)
(*  - an envelope is applied only to the document it follows;              *)
(*  - a delivery takes effect only when every earlier delivery of its      *)
(*    partition is settled;                                                *)
(*  - a delivery is quarantined only if it is invalid or was refused by a  *)
(*    document that reflected every earlier delivery of its account;       *)
(*  - a checkpoint covers settled deliveries only.                         *)
(***************************************************************************)
EXTENDS SyncContract, Sequences

CONSTANTS
    Partition,     \* partitions of the event hub
    PartitionOf    \* account -> partition: the hub hashes the partition key

VARIABLES
    log,           \* partition -> sequence of messages the hub retains
    docs,          \* account -> document of the balances container
    quarantine,    \* set of <<partition, offset>> with a quarantine document
    checkpoint,    \* partition -> last checkpointed offset, 0 if none
    applied        \* history: the envelopes whose document was written

vars == <<log, docs, quarantine, checkpoint, applied>>

Settled(p, o) ==
    \/ <<p, o>> \in quarantine
    \/ /\ Valid(log[p][o])
       /\ Covers(docs[log[p][o].account], log[p][o])

SettledBefore(p, o) == \A i \in 1..(o-1) : Settled(p, i)

(* The documents an account has had.                                       *)
Had(a) ==
    IF docs[a] = Untrusted THEN {Untrusted}
    ELSE {Absent} \union {e \in applied : e.account = a}

(* doc reflects every earlier delivery of e's account that is not in       *)
(* quarantine.                                                             *)
Reflects(doc, p, o) ==
    \A i \in 1..(o-1) :
        \/ log[p][i].account # log[p][o].account
        \/ <<p, i>> \in quarantine
        \/ Covers(doc, log[p][i])

Init ==
    /\ log = [p \in Partition |-> <<>>]
    /\ docs \in [Account -> {Absent, Untrusted}]
    /\ quarantine = {}
    /\ checkpoint = [p \in Partition |-> 0]
    /\ applied = {}

Publish(e) ==
    /\ log' = [log EXCEPT ![PartitionOf[e.account]] = Append(@, e)]
    /\ UNCHANGED <<docs, quarantine, checkpoint, applied>>

Apply(p, o) ==
    LET e == log[p][o]
    IN  /\ SettledBefore(p, o)
        /\ Valid(e)
        /\ Transition(docs[e.account], e) = "applied"
        /\ docs' = [docs EXCEPT ![e.account] = e]
        /\ applied' = applied \union {e}
        /\ UNCHANGED <<log, quarantine, checkpoint>>

Quarantine(p, o) ==
    LET e == log[p][o]
    IN  /\ SettledBefore(p, o)
        /\ \/ ~Valid(e)
           \/ \E doc \in Had(e.account) :
                 Transition(doc, e) = "quarantined" /\ Reflects(doc, p, o)
        /\ quarantine' = quarantine \union {<<p, o>>}
        /\ UNCHANGED <<log, docs, checkpoint, applied>>

Checkpoint(p, o) ==
    /\ SettledBefore(p, o + 1)
    /\ checkpoint' = [checkpoint EXCEPT ![p] = o]
    /\ UNCHANGED <<log, docs, quarantine, applied>>

Next ==
    \/ \E e \in Message : Publish(e)
    \/ \E p \in Partition : \E o \in 1..Len(log[p]) :
          Apply(p, o) \/ Quarantine(p, o) \/ Checkpoint(p, o)

Spec == Init /\ [][Next]_vars
=============================================================================
