----------------------------- MODULE LocalStore -----------------------------
(***************************************************************************)
(* The local emulator: SyncEngine.process over SQLiteStore, one partition, *)
(* one process.  The document, the quarantine document, the checkpoint and *)
(* each audit entry are commits of their own; the process may die between  *)
(* any two, the store may fail before the first, and whoever drives the    *)
(* engine delivers serially: a delivery that did not reach its checkpoint  *)
(* is made again, at the same offset, before the next one                  *)
(* (sync_demo.deliver).                                                    *)
(*                                                                         *)
(* Around it: a source whose changes are captured (sync_demo.capture) and  *)
(* delivered in any order, late, again or never; an operator who marks     *)
(* quarantined events as resolved after a successful replay; and the       *)
(* reconciliation of the documents with the source.                        *)
(***************************************************************************)
EXTENDS SyncContract, Sequences, FiniteSets

CONSTANTS
    Stream,        \* the one partition
    Sample,        \* bound: the messages that are captured and delivered
    MaxLog,        \* bound: deliveries at distinct offsets
    MaxFaults      \* bound: failures and deaths

ASSUME LocalAssumption == Sample \subseteq Message /\ MaxLog \in Nat /\ MaxFaults \in Nat

VARIABLES
    captured,      \* envelopes the source has captured
    log,           \* the message at each transport offset
    docs,          \* documents: account -> document
    quarantine,    \* offsets with a quarantine document
    resolved,      \* those whose document says so
    checkpoint,    \* 0 if none
    audit,         \* entries of the audit table
    pc,            \* the commit process() is about to make
    outcome,       \* outcome of the delivery in progress
    faults,        \* failures and deaths so far
    applied        \* history: the envelopes whose document was written

input == <<captured, log>>
store == <<docs, quarantine, resolved, checkpoint, audit, applied>>
vars == <<input, store, pc, outcome, faults>>

Init ==
    /\ captured = {}
    /\ log = <<>>
    /\ docs = [a \in Account |-> Absent]
    /\ quarantine = {}
    /\ resolved = {}
    /\ checkpoint = 0
    /\ audit = {}
    /\ pc = "ready"
    /\ outcome = "none"
    /\ faults = 0
    /\ applied = {}

(* The delivery in progress is the last: deliveries are serial.            *)
Offset == Len(log)
Event == log[Offset]

Entry(phase, result) == [phase |-> phase, offset |-> Offset, outcome |-> result]

CapturedOf(a) == {e \in captured : e.account = a}

(* The source image of an account is the last captured envelope's.         *)
SourceOf(a) ==
    IF CapturedOf(a) = {} THEN Absent
    ELSE CHOOSE e \in CapturedOf(a) : \A f \in CapturedOf(a) : f.version <= e.version

Capture(e) ==
    /\ Valid(e)
    /\ e.prev = CurrentVersion(SourceOf(e.account))
    /\ captured' = captured \cup {e}
    /\ UNCHANGED <<log, store, pc, outcome, faults>>

-----------------------------------------------------------------------------
(* One delivery.                                                           *)

(* What can be delivered: what was captured, and messages no capture made. *)
Deliverable(e) == e \in captured \/ ~Valid(e)

Begin(e) ==
    /\ pc = "ready"
    /\ pc' = IF Valid(e) THEN "apply" ELSE "quarantine"
    /\ outcome' = "quarantined"                  \* unless apply says otherwise
    /\ UNCHANGED <<captured, store, faults>>

(* Mutant: the driver goes on to the next offset after a failure.          *)
DeliverNext(e) ==
    /\ Deliverable(e)
    /\ log' = Append(log, e)
    /\ Begin(e)

Deliver(e) ==
    /\ Deliverable(e)
    /\ checkpoint = Offset
    /\ log' = Append(log, e)
    /\ Begin(e)

Redeliver ==
    /\ checkpoint < Offset
    /\ Begin(Event)
    /\ UNCHANGED log

(* Mutant: a refused event goes on without a quarantine document.          *)
ApplyForgetful ==
    LET result == Transition(docs[Event.account], Event) IN
    /\ pc = "apply"
    /\ outcome' = result
    /\ docs' = IF result = "applied" THEN [docs EXCEPT ![Event.account] = Event] ELSE docs
    /\ applied' = IF result = "applied" THEN applied \cup {Event} ELSE applied
    /\ pc' = "audit"
    /\ UNCHANGED <<input, quarantine, resolved, checkpoint, audit, faults>>

(* SQLiteStore.apply: read, transition and write in one transaction.       *)
Apply ==
    LET result == Transition(docs[Event.account], Event) IN
    /\ pc = "apply"
    /\ outcome' = result
    /\ IF result = "applied"
       THEN /\ docs' = [docs EXCEPT ![Event.account] = Event]
            /\ applied' = applied \cup {Event}
       ELSE UNCHANGED <<docs, applied>>
    /\ pc' = IF result = "quarantined" THEN "quarantine" ELSE "audit"
    /\ UNCHANGED <<input, quarantine, resolved, checkpoint, audit, faults>>

(* INSERT OR IGNORE: the identity is the payload and the transport.        *)
Quarantine ==
    /\ pc = "quarantine"
    /\ quarantine' = quarantine \cup {Offset}
    /\ pc' = "audit"
    /\ UNCHANGED <<input, docs, resolved, checkpoint, audit, outcome, faults, applied>>

(* Mutant: what is in quarantine is given back to the driver as a failure. *)
AuditSinkRaising ==
    /\ pc = "audit"
    /\ audit' = audit \cup {Entry("sink-durable", outcome)}
    /\ pc' = IF outcome = "quarantined" THEN "ready" ELSE "save"
    /\ UNCHANGED <<input, docs, quarantine, resolved, checkpoint, outcome, faults, applied>>

AuditSink ==
    /\ pc = "audit"
    /\ audit' = audit \cup {Entry("sink-durable", outcome)}
    /\ pc' = "save"
    /\ UNCHANGED <<input, docs, quarantine, resolved, checkpoint, outcome, faults, applied>>

SaveCheckpoint ==
    /\ pc = "save"
    /\ checkpoint' = Offset
    /\ pc' = "saved"
    /\ UNCHANGED <<input, docs, quarantine, resolved, audit, outcome, faults, applied>>

AuditCheckpoint ==
    /\ pc = "saved"
    /\ audit' = audit \cup {Entry("checkpoint", outcome)}
    /\ pc' = "ready"
    /\ UNCHANGED <<input, docs, quarantine, resolved, checkpoint, outcome, faults, applied>>

Process == Apply \/ Quarantine \/ AuditSink \/ SaveCheckpoint \/ AuditCheckpoint

-----------------------------------------------------------------------------
(* Failures.                                                               *)

(* deliver's except branch, for the two exceptions it knows: the store     *)
(* fails before it is touched, or fail_after_apply raises once the sink is *)
(* durable (poison, for an invalid event, does not pass the flag on).      *)
Failure(at, result) ==
    /\ pc = at
    /\ Valid(Event)
    /\ faults' = faults + 1
    /\ pc' = "ready"
    /\ outcome' = result
    /\ audit' = audit \cup {Entry("failure", result)}
    /\ UNCHANGED <<input, docs, quarantine, resolved, checkpoint, applied>>

Transient == Failure("apply", "transient-failure")
SimulatedCrash == Failure("save", "crash")

(* Death of the process; the database is opened again.                     *)
Die ==
    /\ pc # "ready"
    /\ faults' = faults + 1
    /\ pc' = "ready"
    /\ outcome' = "none"
    /\ UNCHANGED <<input, store>>

-----------------------------------------------------------------------------
(* The operator, after a replay the timeline calls successful.             *)

Replayed(e) ==
    \E entry \in audit :
        /\ entry.phase = "sink-durable"
        /\ entry.outcome \in {"applied", "duplicate"}
        /\ log[entry.offset] = e

(* Mutant: resolves by account.                                            *)
ResolveAccount(e) ==
    /\ pc = "ready"
    /\ Replayed(e)
    /\ resolved' = resolved \cup {o \in quarantine : log[o].account = e.account}
    /\ UNCHANGED <<input, docs, quarantine, checkpoint, audit, pc, outcome, faults, applied>>

ResolveQuarantine(e) ==
    /\ pc = "ready"
    /\ Replayed(e)
    /\ resolved' = resolved \cup {o \in quarantine : log[o] = e}
    /\ UNCHANGED <<input, docs, quarantine, checkpoint, audit, pc, outcome, faults, applied>>

Pending == quarantine \ resolved

(* reconcile: the accounts whose document and source image differ.         *)
Mismatches == {a \in Account : docs[a] # SourceOf(a)}

-----------------------------------------------------------------------------
(* Everything that can happen...                                           *)
Step ==
    \/ \E e \in Message : Capture(e) \/ Deliver(e) \/ ResolveQuarantine(e)
    \/ Redeliver
    \/ Process
    \/ Transient \/ SimulatedCrash \/ Die

(* ... and what does within the bounds.                                    *)
Next ==
    \/ \E e \in Sample : Capture(e) \/ ResolveQuarantine(e)
    \/ Offset < MaxLog /\ \E e \in Sample : Deliver(e)
    \/ Redeliver
    \/ Process
    \/ faults < MaxFaults /\ (Transient \/ SimulatedCrash \/ Die)

-----------------------------------------------------------------------------
(* Properties.                                                             *)

TypeOK ==
    /\ captured \subseteq Envelope
    /\ log \in Seq(Message)
    /\ docs \in [Account -> Document]
    /\ resolved \subseteq quarantine /\ quarantine \subseteq 1..Offset
    /\ checkpoint \in 0..Offset
    /\ \A entry \in audit : entry.offset \in 1..Offset
    /\ pc \in {"ready", "apply", "quarantine", "audit", "save", "saved"}
    /\ outcome \in {"none", "applied", "duplicate", "stale", "quarantined",
                    "crash", "transient-failure"}
    /\ faults \in Nat

(* The emulator keeps the promise of SyncSink, with its commits apart and  *)
(* the process dying between them (sync_store.py:28, sync_engine.py:43).   *)
Sink == INSTANCE SyncSink
    WITH Partition <- {Stream},
         PartitionOf <- [a \in Account |-> Stream],
         log <- [p \in {Stream} |-> log],
         quarantine <- {<<Stream, i>> : i \in quarantine},
         checkpoint <- [p \in {Stream} |-> checkpoint]

KeepsSink == Sink!Spec

(* Every offset below the checkpoint has its sink-durable entry, and what  *)
(* such an entry says of the sink is so, whatever death separated the      *)
(* commits (sync_engine.py:43-57).                                         *)
TimelineTruthful ==
    /\ \A o \in 1..checkpoint :
         \E entry \in audit : entry.phase = "sink-durable" /\ entry.offset = o
    /\ \A entry \in audit :
         entry.phase = "sink-durable" =>
           IF entry.outcome = "quarantined" THEN entry.offset \in quarantine
           ELSE Covers(docs[log[entry.offset].account], log[entry.offset])

(* A quarantine document is marked resolved only if the balance reflects   *)
(* its event: marking by event hash never hides another event, at whatever *)
(* offsets it was quarantined (sync_store.py:64-70).                       *)
ResolvedIsReflected ==
    \A o \in resolved : Covers(docs[log[o].account], log[o])

(* What the timeline and the resolutions claim of the store is so          *)
(* (sync_engine.py:43-57, sync_store.py:64-70).                            *)
ClaimsTruthful == TimelineTruthful /\ ResolvedIsReflected

(* Reconciliation is equal exactly when every captured change has been     *)
(* applied: one that was dropped, is late or is in quarantine shows, also  *)
(* when later changes of its account were delivered (sync_demo.py:33-45).  *)
ReconcileExact == Mismatches = {} <=> applied = captured

(* Once every captured change was delivered, an account can differ from    *)
(* its source only if a quarantine document is pending: the report's       *)
(* "reconciled" hides nothing (sync_demo.py:152-156).                      *)
DifferenceIsPending ==
    /\ checkpoint = Offset
    /\ captured \subseteq {log[o] : o \in 1..Offset}
    /\ Mismatches # {}
    => Pending # {}

(* Reconciliation and quarantine together hide no lost change              *)
(* (sync_demo.py:20-45, 152-156).                                          *)
NoDifferenceHidden == ReconcileExact /\ DifferenceIsPending

(* A delivery is accounted for: refused, or reflected by its document.     *)
Settled(o) ==
    \/ o \in quarantine
    \/ Valid(log[o]) /\ Covers(docs[log[o].account], log[o])

(* The saved offset, which overwrites whatever was saved before it, is the *)
(* next delivery's, and that one is settled: it never goes back and never  *)
(* passes over a delivery that failed (sync_store.py:84 "callers deliver   *)
(* each partition serially, in transport order").                          *)
CheckpointInOrder ==
    [][checkpoint' # checkpoint =>
         checkpoint' = checkpoint + 1 /\ Settled(checkpoint)']_checkpoint

(* Every delivery reaches its checkpoint, whatever failed on the way.      *)
EventuallyCheckpointed == []<>(checkpoint = Offset)

-----------------------------------------------------------------------------
(* The inductive invariant behind ClaimsTruthful, NoDifferenceHidden and   *)
(* KeepsSink.                                                              *)

(* The checkpoint is at the delivery in progress or the one before it, and *)
(* all it covers is settled.                                               *)
SerialDelivery ==
    /\ checkpoint + 1 >= Offset
    /\ pc # "ready" => Offset > 0
    /\ pc \in {"apply", "quarantine", "audit", "save"} => checkpoint < Offset
    /\ \A o \in 1..checkpoint : Settled(o)

(* What process() knows of its event when it is about to commit: the       *)
(* document has not moved since apply looked at it.                        *)
ProcessKnows ==
    /\ pc = "apply" => Valid(Event)
    /\ pc = "quarantine" =>
         /\ outcome = "quarantined"
         /\ ~Valid(Event) \/ Transition(docs[Event.account], Event) = "quarantined"
    /\ pc \in {"audit", "save", "saved"} =>
         IF outcome = "quarantined" THEN Offset \in quarantine
         ELSE Valid(Event) /\ Covers(docs[Event.account], Event)
    /\ pc \in {"save", "saved"} =>
         \E entry \in audit : entry.phase = "sink-durable" /\ entry.offset = Offset

(* The captured envelopes of an account form a chain without gaps, which   *)
(* has a last one.                                                         *)
CapturedChain ==
    /\ \A e, f \in captured :
         e.account = f.account =>
            /\ e.version = f.version => e = f
            /\ f.version < e.version => f.version <= e.prev
    /\ \A a \in Account : CapturedOf(a) # {} =>
         \E e \in CapturedOf(a) : \A f \in CapturedOf(a) : f.version <= e.version

(* What was applied of an account is that chain up to its document.        *)
AppliedPrefix ==
    /\ \A a \in Account :
         /\ docs[a] # Untrusted
         /\ docs[a] # Absent => docs[a] \in CapturedOf(a)
    /\ \A e \in Message :
         e \in applied <=> e \in captured /\ Covers(docs[e.account], e)

(* A valid message that was delivered was captured.                        *)
DeliveredCaptured == \A o \in 1..Offset : Valid(log[o]) => log[o] \in captured

LocalInvariant ==
    /\ TypeOK /\ applied \subseteq captured
    /\ SerialDelivery /\ ProcessKnows
    /\ CapturedChain /\ AppliedPrefix /\ DeliveredCaptured
    /\ ClaimsTruthful
=============================================================================
