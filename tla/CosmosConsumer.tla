--------------------------- MODULE CosmosConsumer ---------------------------
(***************************************************************************)
(* Consumer hosts that move an event hub into the Cosmos balances          *)
(* container: run_consumer and ConsumerHandler (eventhub_consumer.py), the *)
(* engine (sync_engine.py) and CosmosStore (sync_store.py).                *)
(*                                                                         *)
(* Each host is a process with one ConsumerHandler.  The handler's lock    *)
(* makes its callbacks, over all its partitions, one critical section; but *)
(* hosts run concurrently, and while the hub rebalances partitions two     *)
(* hosts can process the same one.  A callback makes up to four remote     *)
(* calls (read, conditional write, quarantine write, checkpoint); each is  *)
(* a step, between which everything else may happen.  A remote call may    *)
(* fail without effect, fail after its effect, or (inside the SDK's own    *)
(* retry) meet the effect of its first try and report a conflict.          *)
(***************************************************************************)
EXTENDS SyncContract, Sequences

CONSTANTS
    Partition,      \* partitions of the event hub
    PartitionOf,    \* account -> partition
    Host,           \* consumer processes
    MaxAttempts,    \* CosmosStore(max_attempts=...), 5 in the code
    MaxLog,         \* bound: messages published to one partition
    MaxFaults       \* bound: crashes, rebalances, failed calls, interrupts

ASSUME ConsumerAssumption ==
    /\ PartitionOf \in [Account -> Partition]
    /\ MaxAttempts \in Nat \ {0}
    /\ MaxLog \in Nat
    /\ MaxFaults \in Nat

VARIABLES
    log,           \* partition -> sequence of messages the hub retains
    docs,          \* account -> document of the balances container
    quarantine,    \* set of <<partition, offset>> with a quarantine document
    checkpoint,    \* partition -> offset in the Blob checkpoint store
    applied,       \* history: the envelopes whose document was written
    next,          \* host -> partition -> next offset to deliver, 0 if not owned
    pc,            \* host -> the remote call its callback is about to make
    job,           \* host -> <<partition, offset>> of the callback's delivery
    seen,          \* host -> the document CosmosStore.apply last read
    attempt,       \* host -> number of this round of CosmosStore.apply
    failed,        \* host -> ConsumerHandler.failed is set
    error,         \* host -> ConsumerHandler.error is not None
    faults         \* faults so far

hub == <<log, checkpoint>>
sink == <<docs, quarantine, applied>>
callback == <<pc, job, seen, attempt>>
latch == <<failed, error>>
vars == <<hub, sink, next, callback, latch, faults>>

Sink == INSTANCE SyncSink

-----------------------------------------------------------------------------

Idle(h) == pc[h] = "idle"
Event(h) == log[job[h][1]][job[h][2]]
NoJob == <<>>

Init ==
    /\ Sink!Init
    /\ next = [h \in Host |-> [p \in Partition |-> 0]]
    /\ pc = [h \in Host |-> "idle"]
    /\ job = [h \in Host |-> NoJob]
    /\ seen = [h \in Host |-> Absent]
    /\ attempt = [h \in Host |-> 1]
    /\ failed = [h \in Host |-> FALSE]
    /\ error = [h \in Host |-> FALSE]
    /\ faults = 0

Fault == faults < MaxFaults /\ faults' = faults + 1
NoFault == faults' = faults

Goto(h, label) == pc' = [pc EXCEPT ![h] = label]

(* on_event returns: the lock is released, its local variables are gone.   *)
Return(h) ==
    /\ Goto(h, "idle")
    /\ job' = [job EXCEPT ![h] = NoJob]
    /\ seen' = [seen EXCEPT ![h] = Absent]
    /\ attempt' = [attempt EXCEPT ![h] = 1]

(* except Exception: self.fail(exc); the first error is kept.              *)
Fail(h) ==
    /\ failed' = [failed EXCEPT ![h] = TRUE]
    /\ error' = [error EXCEPT ![h] = TRUE]

-----------------------------------------------------------------------------
(* The producer and the hub.                                               *)

(* Some producer sends a message, in a batch keyed by the account.  It may *)
(* be anything: a copy, out of order, in conflict, or invalid.             *)
Publish(e) ==
    /\ Len(log[PartitionOf[e.account]]) < MaxLog
    /\ log' = [log EXCEPT ![PartitionOf[e.account]] = Append(@, e)]
    /\ UNCHANGED <<checkpoint, sink, next, callback, latch, faults>>

(* The SDK takes ownership of a partition: it receives from the            *)
(* checkpoint, or from starting_position "-1" when there is none.          *)
Claim(h, p) ==
    /\ ~failed[h]
    /\ next[h][p] = 0
    /\ next' = [next EXCEPT ![h][p] = checkpoint[p] + 1]
    /\ UNCHANGED <<hub, sink, callback, latch, faults>>

(* Rebalancing takes a partition away; a callback in flight goes on.       *)
Lose(h, p) ==
    /\ Fault
    /\ next[h][p] # 0
    /\ next' = [next EXCEPT ![h][p] = 0]
    /\ UNCHANGED <<hub, sink, callback, latch>>

-----------------------------------------------------------------------------
(* ConsumerHandler.on_event                                                *)

(* Mutant: on_event does not look at the latch.                            *)
DeliverThroughGate(h, p) ==
    /\ Idle(h)
    /\ next[h][p] \in 1..Len(log[p])
    /\ next' = [next EXCEPT ![h][p] = @ + 1]
    /\ job' = [job EXCEPT ![h] = <<p, next[h][p]>>]
    /\ Goto(h, IF Valid(log[p][next[h][p]]) THEN "read" ELSE "quarantine")
    /\ UNCHANGED <<hub, sink, seen, attempt, latch, faults>>

(* The SDK calls on_event with the next delivery; the callback takes the   *)
(* lock, decodes and validates.  A message it cannot use goes to           *)
(* engine.poison, any other to store.apply.                                *)
Deliver(h, p) ==
    /\ Idle(h)
    /\ ~failed[h]
    /\ next[h][p] \in 1..Len(log[p])
    /\ next' = [next EXCEPT ![h][p] = @ + 1]
    /\ job' = [job EXCEPT ![h] = <<p, next[h][p]>>]
    /\ Goto(h, IF Valid(log[p][next[h][p]]) THEN "read" ELSE "quarantine")
    /\ UNCHANGED <<hub, sink, seen, attempt, latch, faults>>

(* The gate is closed: on_event returns at once.  The SDK knows nothing of *)
(* it and moves on to the next delivery.                                   *)
Ignore(h, p) ==
    /\ Idle(h)
    /\ failed[h]
    /\ next[h][p] \in 1..Len(log[p])
    /\ next' = [next EXCEPT ![h][p] = @ + 1]
    /\ UNCHANGED <<hub, sink, callback, latch, faults>>

(* CosmosStore.get and the decision on what it returned.                   *)
Read(h) ==
    LET doc == docs[Event(h).account]
        outcome == Transition(doc, Event(h))
    IN  /\ pc[h] = "read"
        /\ seen' = [seen EXCEPT ![h] = doc]
        /\ Goto(h, CASE outcome = "applied" -> "write"
                     [] outcome = "quarantined" -> "quarantine"
                     [] OTHER -> "checkpoint")
        /\ UNCHANGED <<hub, sink, next, job, attempt, latch, faults>>

(* Mutant: upsert_item, without the etag.                                  *)
WriteUnconditionally(h) == pc[h] = "write"

(* create_item or replace_item with the etag of the document read: the     *)
(* document is replaced only if it is still that one.                      *)
DocumentUnchanged(h) == docs[Event(h).account] = seen[h]

WriteDocument(h) ==
    /\ docs' = [docs EXCEPT ![Event(h).account] = Event(h)]
    /\ applied' = applied \union {Event(h)}
    /\ UNCHANGED quarantine

Write(h) ==
    /\ pc[h] = "write"
    /\ DocumentUnchanged(h)
    /\ WriteDocument(h)
    /\ Goto(h, "checkpoint")
    /\ UNCHANGED <<hub, next, job, seen, attempt, latch, faults>>

(* Mutants of the retry: it sends the same document again; it takes the    *)
(* lost race for a conflict of contents; it counts one round too many.     *)
RetrySameWrite(h) ==
    \/ /\ attempt[h] < MaxAttempts
       /\ attempt' = [attempt EXCEPT ![h] = @ + 1]
       /\ Goto(h, "write")
       /\ UNCHANGED <<job, seen, latch>>
    \/ /\ attempt[h] = MaxAttempts
       /\ Return(h)
       /\ Fail(h)

RetryQuarantines(h) ==
    /\ Goto(h, "quarantine")
    /\ UNCHANGED <<job, seen, attempt, latch>>

RetryPastLast(h) ==
    /\ attempt' = [attempt EXCEPT ![h] = @ + 1]
    /\ Goto(h, "read")
    /\ UNCHANGED <<job, seen, latch>>

(* 409 or 412: read and decide again, or raise on the last attempt.        *)
RetryOrRaise(h) ==
    \/ /\ attempt[h] < MaxAttempts
       /\ attempt' = [attempt EXCEPT ![h] = @ + 1]
       /\ Goto(h, "read")
       /\ UNCHANGED <<job, seen, latch>>
    \/ /\ attempt[h] = MaxAttempts
       /\ Return(h)
       /\ Fail(h)

WriteConflict(h) ==
    /\ pc[h] = "write"
    /\ ~DocumentUnchanged(h)
    /\ RetryOrRaise(h)
    /\ UNCHANGED <<hub, sink, next, faults>>

(* The write took effect, its answer was lost, and the SDK's retry of the  *)
(* request meets the new document: the code sees 409 or 412.               *)
WriteEcho(h) ==
    /\ Fault
    /\ pc[h] = "write"
    /\ DocumentUnchanged(h)
    /\ WriteDocument(h)
    /\ RetryOrRaise(h)
    /\ UNCHANGED <<hub, next>>

(* The quarantine document's id is the fingerprint of payload and          *)
(* transport coordinates: a redelivery finds it there (409), compares it   *)
(* with its own and goes on.                                               *)
WriteQuarantineDocument(h) ==
    /\ quarantine' = quarantine \union {job[h]}
    /\ UNCHANGED <<docs, applied>>

Quarantine(h) ==
    /\ pc[h] = "quarantine"
    /\ WriteQuarantineDocument(h)
    /\ Goto(h, "checkpoint")
    /\ UNCHANGED <<hub, next, job, seen, attempt, latch, faults>>

(* context.update_checkpoint, the last statement under the lock.  The blob *)
(* is overwritten whatever it holds, so a host that lost the partition can *)
(* move the checkpoint back.                                               *)
SaveCheckpoint(h) ==
    /\ checkpoint' = [checkpoint EXCEPT ![job[h][1]] = job[h][2]]
    /\ UNCHANGED log

UpdateCheckpoint(h) ==
    /\ pc[h] = "checkpoint"
    /\ SaveCheckpoint(h)
    /\ Return(h)
    /\ UNCHANGED <<sink, next, latch, faults>>

-----------------------------------------------------------------------------
(* Failures.                                                               *)

(* A remote call raises anything else, without or after its effect.        *)
CallFails(h) ==
    /\ Fault
    /\ pc[h] # "idle"
    /\ \/ UNCHANGED <<hub, sink>>
       \/ pc[h] = "write" /\ DocumentUnchanged(h) /\ WriteDocument(h) /\ UNCHANGED hub
       \/ pc[h] = "quarantine" /\ WriteQuarantineDocument(h) /\ UNCHANGED hub
       \/ pc[h] = "checkpoint" /\ SaveCheckpoint(h) /\ UNCHANGED sink
    /\ Return(h)
    /\ Fail(h)
    /\ UNCHANGED next

(* Mutant: fail() does not wait for the lock.                              *)
ReceiveErrorWithoutLock(h) ==
    /\ Fault
    /\ Fail(h)
    /\ UNCHANGED <<hub, sink, next, callback>>

(* on_error, or client.receive raises in the receive thread: fail() waits  *)
(* for the lock, so never while a callback runs.                           *)
ReceiveError(h) ==
    /\ Fault
    /\ Idle(h)
    /\ Fail(h)
    /\ UNCHANGED <<hub, sink, next, callback>>

(* The supervisor is interrupted: its finally clause sets the latch        *)
(* without the lock, so possibly while a callback runs.                    *)
Interrupt(h) ==
    /\ Fault
    /\ ~failed[h]
    /\ failed' = [failed EXCEPT ![h] = TRUE]
    /\ UNCHANGED <<hub, sink, next, callback, error>>

Reset(h) ==
    /\ next' = [next EXCEPT ![h] = [p \in Partition |-> 0]]
    /\ Return(h)
    /\ failed' = [failed EXCEPT ![h] = FALSE]
    /\ error' = [error EXCEPT ![h] = FALSE]
    /\ UNCHANGED <<hub, sink>>

(* Mutant: the supervisor waits for the receive thread only, so an error   *)
(* that the SDK swallows ends nothing.                                     *)
ExitIgnoringErrors(h) == failed[h] /\ ~error[h] /\ Reset(h) /\ NoFault

(* The supervisor saw the latch: it closes the client and waits ten        *)
(* seconds for the receive thread, a daemon, before run_consumer raises    *)
(* and the process ends; then it is started again.                         *)
Exit(h) == failed[h] /\ Reset(h) /\ NoFault

(* The process dies, between any two steps, and is started again.          *)
Crash(h) == Fault /\ Reset(h)

-----------------------------------------------------------------------------

Callback(h) ==
    \/ Read(h)
    \/ Write(h)
    \/ WriteConflict(h)
    \/ Quarantine(h)
    \/ UpdateCheckpoint(h)

Failure(h) ==
    \/ WriteEcho(h)
    \/ CallFails(h)
    \/ ReceiveError(h)
    \/ Interrupt(h)
    \/ Crash(h)

HostStep(h) ==
    \/ \E p \in Partition : Claim(h, p) \/ Lose(h, p) \/ Deliver(h, p) \/ Ignore(h, p)
    \/ Callback(h)
    \/ Failure(h)
    \/ Exit(h)

Next ==
    \/ \E e \in Message : Publish(e)
    \/ \E h \in Host : HostStep(h)

Spec == Init /\ [][Next]_vars

(* The SDK keeps claiming and delivering, a callback that runs keeps       *)
(* running, and a process that stopped is started again.  Publishing and   *)
(* faults owe nothing.                                                     *)
Fairness ==
    \A h \in Host :
        /\ WF_vars(Callback(h))
        /\ WF_vars(Exit(h))
        /\ \A p \in Partition : WF_vars(Claim(h, p)) /\ WF_vars(Deliver(h, p))

FairSpec == Spec /\ Fairness

-----------------------------------------------------------------------------
(* Properties.                                                             *)

StoreTypeOK ==
    /\ log \in [Partition -> Seq(Message)]
    /\ docs \in [Account -> Document]
    /\ quarantine \subseteq Partition \X Nat
    /\ checkpoint \in [Partition -> Nat]
    /\ applied \subseteq Envelope

Label == {"idle", "read", "write", "quarantine", "checkpoint"}

HostTypeOK ==
    /\ next \in [Host -> [Partition -> Nat]]
    /\ pc \in [Host -> Label]
    /\ job \in [Host -> {NoJob} \union (Partition \X Nat)]
    /\ seen \in [Host -> Document]
    /\ attempt \in [Host -> 1..MaxAttempts]
    /\ failed \in [Host -> BOOLEAN]
    /\ error \in [Host -> BOOLEAN]
    /\ faults \in 0..MaxFaults

Delivery(d) == d \in Partition \X Nat /\ d[2] \in 1..Len(log[d[1]])

DeliveriesExist ==
    /\ \A d \in quarantine : Delivery(d)
    /\ \A h \in Host : ~Idle(h) => Delivery(job[h])
    /\ \A h \in Host : pc[h] \in {"read", "write"} => Valid(Event(h))

TypeOK == StoreTypeOK /\ HostTypeOK /\ DeliveriesExist

(* Every delivery at or below a checkpoint is accounted for, forever: its  *)
(* envelope wrote the document, a later version superseded it, or it is    *)
(* in quarantine.  demo-guide.md:447 "só depois de destino OU quarentena   *)
(* persistidos: checkpoint".  Balances, quarantine and checkpoints are     *)
(* three stores without a common transaction, and the rule has to survive  *)
(* overlapping hosts, rewound checkpoints, failed calls and crashes.       *)
CheckpointSafe ==
    \A p \in Partition :
        checkpoint[p] <= Len(log[p]) /\ Sink!SettledBefore(p, checkpoint[p] + 1)

(* The envelopes written to one account form one chain that starts from    *)
(* nothing and ends in its document: each follows one that was written, no *)
(* two overlap, none is lost to a concurrent writer (SyncEngine: "per-key  *)
(* CAS protects concurrent sink writers").                                 *)
UnbrokenChain ==
    \A e \in applied :
        /\ Trusted(docs[e.account])
        /\ docs[e.account] \in applied
        /\ e.version <= docs[e.account].version
        /\ e.prev = 0 \/ \E f \in applied : f.account = e.account /\ f.version = e.prev
        /\ \A f \in applied :
               \/ f = e
               \/ f.account # e.account
               \/ f.version <= e.prev
               \/ e.version <= f.prev

(* Once a host has recorded an error it runs no callback and starts none,  *)
(* so it checkpoints nothing more: eventhub_consumer.py:109 "Consumer      *)
(* halted; no subsequent delivery was checkpointed after failure".         *)
HaltedHostIsQuiet == \A h \in Host : error[h] => failed[h] /\ Idle(h)

(* The compare-and-set loop settles in its second round at the latest: a   *)
(* write lost to another host means the version the envelope follows is    *)
(* gone for good, so the new document makes it stale, a duplicate or a     *)
(* gap.  With max_attempts > 1 contention alone never makes apply raise.   *)
SecondRoundSettles == \A h \in Host : pc[h] = "write" => attempt[h] = 1

(* Every effect on the shared stores is a step of the abstract sink, taken *)
(* in order and judged against a document that reflects what came before.  *)
ImplementsSink == Sink!Spec

(* When faults stop, every published message is eventually accounted for,  *)
(* whatever it is: no message, however broken, blocks its partition, and    *)
(* no failed call, crash or rebalance makes the hosts skip one for good.    *)
(* (The checkpoint itself need not end at the last offset: a host that has  *)
(* lost the partition can still save an older one, which only causes        *)
(* redelivery.)                                                             *)
EventuallySettled ==
    \A p \in Partition : \A o \in 1..MaxLog :
        (o <= Len(log[p])) ~> (o <= Len(log[p]) /\ Sink!Settled(p, o))

-----------------------------------------------------------------------------
(* The inductive invariant behind these.                                   *)

(* An envelope is about to be written only over the document it follows,   *)
(* and while it waits that document can only have moved past it.           *)
WriteJudged ==
    \A h \in Host :
        pc[h] = "write" =>
            LET doc == docs[Event(h).account]
            IN  /\ Transition(seen[h], Event(h)) = "applied"
                /\ doc = seen[h] \/ (Trusted(doc) /\ doc.version > Event(h).prev)

(* A second round starts only once the predecessor's version is gone.      *)
SecondRoundIsLate ==
    \A h \in Host :
        /\ Idle(h) => attempt[h] = 1
        /\ pc[h] = "read" /\ attempt[h] # 1 =>
              LET doc == docs[Event(h).account]
              IN  Trusted(doc) /\ doc.version > Event(h).prev

(* A callback runs with everything before its delivery settled, and        *)
(* reaches the checkpoint with its own delivery settled.                   *)
CallbackInOrder ==
    \A h \in Host : ~Idle(h) =>
        /\ Sink!SettledBefore(job[h][1], job[h][2])
        /\ pc[h] = "checkpoint" => Sink!Settled(job[h][1], job[h][2])

(* What a host whose gate is open has moved past is settled, except for    *)
(* the delivery its callback is working on.                                *)
PassedIsSettled ==
    \A h \in Host : ~failed[h] => \A p \in Partition :
        /\ next[h][p] <= Len(log[p]) + 1
        /\ \A i \in 1..(next[h][p] - 1) :
              Sink!Settled(p, i) \/ (~Idle(h) /\ job[h] = <<p, i>>)

(* A valid envelope goes to quarantine only because a document that the    *)
(* account has had, and that reflects every earlier delivery, refuses it.  *)
RefusalJudged ==
    \A h \in Host : pc[h] = "quarantine" /\ Valid(Event(h)) =>
        /\ seen[h] \in Sink!Had(Event(h).account)
        /\ Transition(seen[h], Event(h)) = "quarantined"
        /\ Sink!Reflects(seen[h], job[h][1], job[h][2])

(* The document of an account is one of the envelopes applied to it.       *)
DocumentsApplied ==
    \A a \in Account : Trusted(docs[a]) => docs[a] \in applied /\ docs[a].account = a

Inductive ==
    /\ TypeOK
    /\ WriteJudged
    /\ SecondRoundIsLate
    /\ SecondRoundSettles
    /\ HaltedHostIsQuiet
    /\ CheckpointSafe
    /\ CallbackInOrder
    /\ PassedIsSettled
    /\ RefusalJudged
    /\ DocumentsApplied
    /\ UnbrokenChain
=============================================================================
