------------------------ MODULE CosmosConsumerProofs ------------------------
(***************************************************************************)
(* What holds of CosmosConsumer for every set of accounts, messages,       *)
(* partitions and hosts, and for every bound.                              *)
(***************************************************************************)
EXTENDS CosmosConsumer, TLAPS

(* The message a callback works on is one of the published messages.       *)
LEMMA EventInMessage ==
    ASSUME TypeOK, NEW h \in Host, ~Idle(h)
    PROVE  /\ job[h] = <<job[h][1], job[h][2]>>
           /\ job[h][1] \in Partition
           /\ job[h][2] \in 1..Len(log[job[h][1]])
           /\ Event(h) \in Message
           /\ Event(h).account \in Account
<1>1. Delivery(job[h])
  BY DEF TypeOK, DeliveriesExist
<1>2. Event(h) \in Message
  BY <1>1 DEF TypeOK, StoreTypeOK, Delivery, Event
<1>3. QED
  BY <1>1, <1>2, MessageAssumption DEF Delivery

(* Publishing only adds deliveries.                                        *)
LEMMA PublishAppends ==
    ASSUME TypeOK, NEW e \in Message, Publish(e)
    PROVE  /\ log' \in [Partition -> Seq(Message)]
           /\ \A p \in Partition : Len(log'[p]) >= Len(log[p])
           /\ \A p \in Partition : \A i \in 1..Len(log[p]) : log'[p][i] = log[p][i]
<1> DEFINE q == PartitionOf[e.account]
<1>1. q \in Partition
  BY MessageAssumption, ConsumerAssumption
<1>2. log' = [log EXCEPT ![q] = Append(log[q], e)]
  BY DEF Publish
<1> HIDE DEF q
<1>3. log \in [Partition -> Seq(Message)]
  BY DEF TypeOK, StoreTypeOK
<1>4. log'[q] = Append(log[q], e) /\ \A p \in Partition \ {q} : log'[p] = log[p]
  BY <1>1, <1>2, <1>3
<1>5. Append(log[q], e) \in Seq(Message) /\ Len(Append(log[q], e)) = Len(log[q]) + 1
  BY <1>1, <1>3
<1>6. \A i \in 1..Len(log[q]) : Append(log[q], e)[i] = log[q][i]
  BY <1>1, <1>3
<1>7. QED
  BY <1>1, <1>2, <1>3, <1>4, <1>5, <1>6

(* Type correctness: the callback of a host always works on a delivery the *)
(* hub holds, and no counter leaves its range.                             *)
LEMMA TypeInit == Init => TypeOK
BY ConsumerAssumption DEF Init, Sink!Init, TypeOK, StoreTypeOK, HostTypeOK,
   DeliveriesExist, Document, NoJob, Idle, Label

(* The ways a step can touch the stores the hosts share: a publication, or *)
(* one remote call of one callback.                                        *)
StoresKept == UNCHANGED <<hub, sink>>
DocumentCall(h) == pc[h] = "write" /\ DocumentUnchanged(h) /\ WriteDocument(h) /\ UNCHANGED hub
QuarantineCall(h) == pc[h] = "quarantine" /\ WriteQuarantineDocument(h) /\ UNCHANGED hub
CheckpointCall(h) == pc[h] = "checkpoint" /\ SaveCheckpoint(h) /\ UNCHANGED sink

RemoteCall(h) == DocumentCall(h) \/ QuarantineCall(h) \/ CheckpointCall(h)

(* A host touches the shared stores by its remote calls only.              *)
LEMMA HostEffect ==
    ASSUME NEW h \in Host, HostStep(h)
    PROVE  RemoteCall(h) \/ StoresKept
<1> USE DEF StoresKept, RemoteCall, DocumentCall, QuarantineCall, CheckpointCall
<1>1. ASSUME NEW p \in Partition, Claim(h, p) \/ Lose(h, p) \/ Deliver(h, p) \/ Ignore(h, p)
      PROVE  StoresKept
  BY <1>1 DEF Claim, Lose, Deliver, Ignore
<1>2. ASSUME Callback(h) PROVE RemoteCall(h) \/ StoresKept
  BY <1>2 DEF Callback, Read, Write, WriteConflict, Quarantine, UpdateCheckpoint
<1>3. ASSUME Failure(h) PROVE RemoteCall(h) \/ StoresKept
  BY <1>3 DEF Failure, WriteEcho, CallFails, ReceiveError, Interrupt, Crash, Reset
<1>4. ASSUME Exit(h) PROVE StoresKept
  BY <1>4 DEF Exit, Reset
<1>5. QED
  BY <1>1, <1>2, <1>3, <1>4 DEF HostStep

(* Every step either leaves docs and applied alone or writes one valid     *)
(* envelope, whose account it replaces, and adds it to the history.        *)
LEMMA StoreEffect ==
    ASSUME [Next]_vars
    PROVE  \/ \E e \in Message : Publish(e)
           \/ \E h \in Host : RemoteCall(h)
           \/ StoresKept
<1>1. ASSUME UNCHANGED vars PROVE StoresKept
  BY <1>1 DEF vars, StoresKept
<1>2. QED
  BY <1>1, HostEffect DEF Next

(* The stores keep their types.                                            *)
LEMMA StoreTypeStep == TypeOK /\ [Next]_vars => StoreTypeOK'
<1> SUFFICES ASSUME TypeOK, [Next]_vars PROVE StoreTypeOK'
  OBVIOUS
<1> USE DEF StoreTypeOK, hub, sink
<1>1. ASSUME NEW e \in Message, Publish(e) PROVE StoreTypeOK'
  BY <1>1, PublishAppends DEF TypeOK, Publish
<1>2. ASSUME NEW h \in Host, DocumentCall(h) PROVE StoreTypeOK'
  <2>1. Event(h) \in Envelope /\ Event(h).account \in Account
    BY <1>2, EventInMessage DEF DocumentCall, TypeOK, DeliveriesExist, Envelope, Idle
  <2>2. QED
    BY <1>2, <2>1 DEF DocumentCall, TypeOK, WriteDocument, Document
<1>3. ASSUME NEW h \in Host, QuarantineCall(h) PROVE StoreTypeOK'
  BY <1>3 DEF QuarantineCall, TypeOK, WriteQuarantineDocument, DeliveriesExist, Delivery, Idle
<1>4. ASSUME NEW h \in Host, CheckpointCall(h) PROVE StoreTypeOK'
  BY <1>4, EventInMessage DEF CheckpointCall, TypeOK, SaveCheckpoint, Idle
<1>5. ASSUME StoresKept PROVE StoreTypeOK'
  BY <1>5 DEF TypeOK, StoresKept
<1>6. QED
  BY <1>1, <1>2, <1>3, <1>4, <1>5, StoreEffect DEF RemoteCall

(* The building blocks of a host's step keep its variables in their types. *)
LEMMA BlockTypes ==
    ASSUME HostTypeOK, NEW h \in Host
    PROVE  /\ \A l \in Label : Goto(h, l) => pc' \in [Host -> Label]
           /\ Return(h) => /\ pc' \in [Host -> Label]
                           /\ job' \in [Host -> {NoJob} \union (Partition \X Nat)]
                           /\ seen' \in [Host -> Document]
                           /\ attempt' \in [Host -> 1..MaxAttempts]
           /\ Fail(h) => failed' \in [Host -> BOOLEAN] /\ error' \in [Host -> BOOLEAN]
           /\ Fault \/ NoFault => faults' \in 0..MaxFaults
<1>1. \A l \in Label : Goto(h, l) => pc' \in [Host -> Label]
  BY DEF HostTypeOK, Goto
<1>2. ASSUME Return(h) PROVE job' \in [Host -> {NoJob} \union (Partition \X Nat)]
  BY <1>2 DEF HostTypeOK, Return
<1>3. ASSUME Return(h) PROVE seen' \in [Host -> Document]
  BY <1>3 DEF HostTypeOK, Return, Document
<1>4. ASSUME Return(h) PROVE attempt' \in [Host -> 1..MaxAttempts]
  BY <1>4, ConsumerAssumption DEF HostTypeOK, Return
<1>5. Return(h) => Goto(h, "idle") /\ "idle" \in Label
  BY DEF Return, Label
<1>6. Fail(h) => failed' \in [Host -> BOOLEAN] /\ error' \in [Host -> BOOLEAN]
  BY DEF HostTypeOK, Fail
<1>7. Fault \/ NoFault => faults' \in 0..MaxFaults
  BY ConsumerAssumption DEF HostTypeOK, Fault, NoFault
<1>8. QED
  BY <1>1, <1>2, <1>3, <1>4, <1>5, <1>6, <1>7

(* A host's cursors keep their type when one of them is moved.             *)
LEMMA NextTypes ==
    ASSUME HostTypeOK, NEW h \in Host, NEW p \in Partition
    PROVE  /\ next[h][p] \in Nat
           /\ \A n \in Nat : [next EXCEPT ![h][p] = n] \in [Host -> [Partition -> Nat]]
           /\ [next EXCEPT ![h][p] = @ + 1] \in [Host -> [Partition -> Nat]]
<1>1. next[h] \in [Partition -> Nat] /\ next[h][p] \in Nat
  BY DEF HostTypeOK
<1>2. \A n \in Nat : [next[h] EXCEPT ![p] = n] \in [Partition -> Nat]
  BY <1>1
<1>3. \A f \in [Partition -> Nat] : [next EXCEPT ![h] = f] \in [Host -> [Partition -> Nat]]
  BY DEF HostTypeOK
<1>4. next[h][p] + 1 \in Nat
  BY <1>1
<1>5. QED
  BY <1>1, <1>2, <1>3, <1>4

(* Both outcomes of a lost write keep the host's variables in their        *)
(* types.                                                                  *)
LEMMA RetryTypes ==
    ASSUME HostTypeOK, NEW h \in Host, RetryOrRaise(h)
    PROVE  /\ pc' \in [Host -> Label]
           /\ job' \in [Host -> {NoJob} \union (Partition \X Nat)]
           /\ seen' \in [Host -> Document]
           /\ attempt' \in [Host -> 1..MaxAttempts]
           /\ failed' \in [Host -> BOOLEAN]
           /\ error' \in [Host -> BOOLEAN]
<1>1. CASE attempt[h] = MaxAttempts /\ Return(h) /\ Fail(h)
  BY <1>1, BlockTypes
<1>2. CASE attempt[h] < MaxAttempts /\ ~(attempt[h] = MaxAttempts /\ Return(h) /\ Fail(h))
  <2>1. "read" \in Label
    BY DEF Label
  <2>2. Goto(h, "read") /\ attempt' = [attempt EXCEPT ![h] = @ + 1] /\ UNCHANGED <<job, seen, latch>>
    BY <1>2 DEF RetryOrRaise
  <2>3. attempt' \in [Host -> 1..MaxAttempts]
    BY <1>2, <2>2, ConsumerAssumption DEF HostTypeOK
  <2>4. QED
    BY <2>1, <2>2, <2>3, BlockTypes DEF HostTypeOK, latch
<1>3. QED
  BY <1>1, <1>2 DEF RetryOrRaise

(* The hosts' variables keep their types.                                  *)
LEMMA HostTypeStep == TypeOK /\ [Next]_vars => HostTypeOK'
<1> SUFFICES ASSUME TypeOK, [Next]_vars PROVE HostTypeOK'
  OBVIOUS
<1> USE DEF callback, latch
<1>0. HostTypeOK
  BY DEF TypeOK
<1>1. ASSUME NEW e \in Message, Publish(e) PROVE HostTypeOK'
  BY <1>0, <1>1 DEF Publish, HostTypeOK
<1>2. ASSUME NEW h \in Host, NEW p \in Partition, Claim(h, p) \/ Lose(h, p) PROVE HostTypeOK'
  <2>1. next' \in [Host -> [Partition -> Nat]]
    <3>1. checkpoint[p] + 1 \in Nat /\ 0 \in Nat
      BY DEF TypeOK, StoreTypeOK
    <3>2. \/ next' = [next EXCEPT ![h][p] = checkpoint[p] + 1]
          \/ next' = [next EXCEPT ![h][p] = 0]
      BY <1>2 DEF Claim, Lose
    <3>3. [next EXCEPT ![h][p] = checkpoint[p] + 1] \in [Host -> [Partition -> Nat]]
      BY <1>0, <3>1, NextTypes
    <3>4. [next EXCEPT ![h][p] = 0] \in [Host -> [Partition -> Nat]]
      BY <1>0, <3>1, NextTypes
    <3>5. QED
      BY <3>2, <3>3, <3>4
  <2>2. QED
    BY <1>0, <1>2, <2>1, BlockTypes DEF Claim, Lose, HostTypeOK
<1>3. ASSUME NEW h \in Host, NEW p \in Partition, Deliver(h, p) \/ Ignore(h, p) PROVE HostTypeOK'
  <2>1. next' \in [Host -> [Partition -> Nat]]
    BY <1>0, <1>3, NextTypes DEF Deliver, Ignore
  <2>2. job' \in [Host -> {NoJob} \union (Partition \X Nat)]
    <3>1. <<p, next[h][p]>> \in Partition \X Nat
      BY <1>0, NextTypes
    <3>2. job' = [job EXCEPT ![h] = <<p, next[h][p]>>] \/ job' = job
      BY <1>3 DEF Deliver, Ignore
    <3>3. QED
      BY <1>0, <3>1, <3>2 DEF HostTypeOK
  <2>3. pc' \in [Host -> Label]
    BY <1>0, <1>3 DEF HostTypeOK, Deliver, Ignore, Goto, Label
  <2>4. QED
    BY <1>0, <1>3, <2>1, <2>2, <2>3 DEF HostTypeOK, Deliver, Ignore
<1>4. ASSUME NEW h \in Host, Callback(h) PROVE HostTypeOK'
  <2>1. ASSUME Read(h) PROVE HostTypeOK'
    <3>1. docs[Event(h).account] \in Document
      BY <2>1, EventInMessage DEF Read, TypeOK, StoreTypeOK, Idle
    <3>2. seen' \in [Host -> Document]
      BY <1>0, <2>1, <3>1 DEF Read, HostTypeOK
    <3>3. pc' \in [Host -> Label]
      BY <1>0, <2>1 DEF Read, Goto, HostTypeOK, Label
    <3>4. QED
      BY <1>0, <2>1, <3>2, <3>3 DEF Read, HostTypeOK
  <2>2. ASSUME WriteConflict(h) PROVE HostTypeOK'
    BY <1>0, <2>2, RetryTypes DEF WriteConflict, HostTypeOK
  <2>3. ASSUME Write(h) \/ Quarantine(h) PROVE HostTypeOK'
    BY <1>0, <2>3, BlockTypes DEF Write, Quarantine, HostTypeOK, Label
  <2>4. ASSUME UpdateCheckpoint(h) PROVE HostTypeOK'
    BY <1>0, <2>4, BlockTypes DEF UpdateCheckpoint, HostTypeOK
  <2>5. QED
    BY <1>4, <2>1, <2>2, <2>3, <2>4 DEF Callback
<1>5. ASSUME NEW h \in Host, Crash(h) \/ Exit(h) PROVE HostTypeOK'
  <2>1. Reset(h)
    BY <1>5 DEF Crash, Exit
  <2>2. next' \in [Host -> [Partition -> Nat]] /\ failed' \in [Host -> BOOLEAN] /\ error' \in [Host -> BOOLEAN]
    BY <1>0, <2>1 DEF Reset, HostTypeOK
  <2>3. QED
    BY <1>0, <1>5, <2>1, <2>2, BlockTypes DEF Crash, Exit, Reset, HostTypeOK
<1>6. ASSUME NEW h \in Host, Failure(h) PROVE HostTypeOK'
  <2>1. ASSUME WriteEcho(h) PROVE HostTypeOK'
    BY <1>0, <2>1, RetryTypes, BlockTypes DEF WriteEcho, HostTypeOK
  <2>2. ASSUME CallFails(h) PROVE HostTypeOK'
    BY <1>0, <2>2, BlockTypes DEF CallFails, HostTypeOK
  <2>3. ASSUME ReceiveError(h) PROVE HostTypeOK'
    BY <1>0, <2>3, BlockTypes DEF ReceiveError, HostTypeOK
  <2>4. ASSUME Interrupt(h) PROVE HostTypeOK'
    BY <1>0, <2>4, BlockTypes DEF Interrupt, HostTypeOK
  <2>5. QED
    BY <1>6, <2>1, <2>2, <2>3, <2>4, <1>5 DEF Failure
<1>7. ASSUME UNCHANGED vars PROVE HostTypeOK'
  BY <1>0, <1>7 DEF vars, HostTypeOK
<1>8. QED
  BY <1>1, <1>2, <1>3, <1>4, <1>5, <1>6, <1>7 DEF Next, HostStep, Failure

(* How one step moves the callback of a host g.                            *)
Stays(g) == /\ pc'[g] = pc[g]
            /\ job'[g] = job[g]
            /\ seen'[g] = seen[g]
            /\ attempt'[g] = attempt[g]
Delivers(g) == \E p \in Partition : /\ Deliver(g, p)
                                    /\ job'[g] = <<p, next[g][p]>>
                                    /\ pc'[g] = IF Valid(log[p][next[g][p]]) THEN "read" ELSE "quarantine"
                                    /\ attempt'[g] = attempt[g]
Reads(g) == /\ Read(g)
            /\ job'[g] = job[g]
            /\ attempt'[g] = attempt[g]
            /\ seen'[g] = docs[Event(g).account]
            /\ pc'[g] = CASE Transition(seen'[g], Event(g)) = "applied" -> "write"
                          [] Transition(seen'[g], Event(g)) = "quarantined" -> "quarantine"
                          [] OTHER -> "checkpoint"
Retries(g) == /\ pc[g] = "write"
              /\ pc'[g] = "read"
              /\ job'[g] = job[g]
              /\ seen'[g] = seen[g]
              /\ (~DocumentUnchanged(g) /\ StoresKept) \/ DocumentCall(g)
Completes(g) == /\ (Write(g) /\ DocumentCall(g)) \/ (Quarantine(g) /\ QuarantineCall(g))
                /\ pc'[g] = "checkpoint"
                /\ job'[g] = job[g]
Returns(g) == pc'[g] = "idle" /\ attempt'[g] = 1

(* What a step may do to one host: nothing, start a callback, go on with   *)
(* it, end it, or be reset.                                                *)
LEMMA HostMoves ==
    ASSUME HostTypeOK, [Next]_vars, NEW g \in Host
    PROVE  \/ Stays(g)
           \/ Delivers(g)
           \/ Reads(g)
           \/ Retries(g)
           \/ Completes(g)
           \/ Returns(g)
<1> USE DEF callback
<1>1. ASSUME UNCHANGED callback PROVE Stays(g)
  BY <1>1 DEF Stays
<1>2. ASSUME NEW h \in Host, Return(h) PROVE Stays(g) \/ Returns(g)
  BY <1>2 DEF HostTypeOK, Return, Goto, Stays, Returns
<1>3. ASSUME NEW h \in Host, HostStep(h)
      PROVE Stays(g) \/ Delivers(g) \/ Reads(g) \/ Retries(g) \/ Completes(g) \/ Returns(g)
  <2>1. ASSUME NEW p \in Partition, Claim(h, p) \/ Lose(h, p) \/ Ignore(h, p) PROVE UNCHANGED callback
    BY <2>1 DEF Claim, Lose, Ignore
  <2>2. ASSUME NEW p \in Partition, Deliver(h, p) PROVE Stays(g) \/ Delivers(g)
    BY <2>2 DEF HostTypeOK, Deliver, Goto, Stays, Delivers
  <2>3. ASSUME Read(h) PROVE Stays(g) \/ Reads(g)
    BY <2>3 DEF HostTypeOK, Read, Goto, Stays, Reads
  <2>4. ASSUME Write(h) \/ Quarantine(h) PROVE Stays(g) \/ Completes(g)
    BY <2>4 DEF HostTypeOK, Write, Quarantine, Goto, Stays, Completes, DocumentCall, QuarantineCall
  <2>5. ASSUME WriteConflict(h) \/ WriteEcho(h) PROVE Stays(g) \/ Retries(g) \/ Returns(g)
    <3>1. CASE Return(h)
      BY <3>1, <1>2
    <3>2. CASE ~Return(h)
      <4>1. Goto(h, "read") /\ attempt' = [attempt EXCEPT ![h] = @ + 1] /\ UNCHANGED <<job, seen>>
        BY <2>5, <3>2 DEF WriteConflict, WriteEcho, RetryOrRaise
      <4>2. pc[h] = "write" /\ ((~DocumentUnchanged(h) /\ StoresKept) \/ DocumentCall(h))
        BY <2>5 DEF WriteConflict, WriteEcho, StoresKept, DocumentCall
      <4>3. QED
        BY <4>1, <4>2 DEF HostTypeOK, Goto, Stays, Retries
    <3>3. QED
      BY <3>1, <3>2
  <2>6. ASSUME UpdateCheckpoint(h) \/ CallFails(h) \/ Crash(h) \/ Exit(h) PROVE Return(h)
    BY <2>6 DEF UpdateCheckpoint, CallFails, Crash, Exit, Reset
  <2>7. ASSUME ReceiveError(h) \/ Interrupt(h) PROVE UNCHANGED callback
    BY <2>7 DEF ReceiveError, Interrupt
  <2>8. QED
    BY <1>1, <1>2, <1>3, <2>1, <2>2, <2>3, <2>4, <2>5, <2>6, <2>7 DEF HostStep, Callback, Failure
<1>4. ASSUME NEW e \in Message, Publish(e) PROVE UNCHANGED callback
  BY <1>4 DEF Publish
<1>5. ASSUME UNCHANGED vars PROVE UNCHANGED callback
  BY <1>5 DEF vars
<1>6. QED
  BY <1>1, <1>3, <1>4, <1>5 DEF Next

(* The log of a partition only grows, at its end.                          *)
LEMMA LogGrows ==
    ASSUME TypeOK, [Next]_vars
    PROVE  /\ log' \in [Partition -> Seq(Message)]
           /\ \A p \in Partition : Len(log'[p]) >= Len(log[p])
           /\ \A p \in Partition : \A i \in 1..Len(log[p]) : log'[p][i] = log[p][i]
<1>1. CASE \E e \in Message : Publish(e)
  BY <1>1, PublishAppends
<1>2. CASE log' = log
  BY <1>2 DEF TypeOK, StoreTypeOK
<1>3. (\E h \in Host : RemoteCall(h)) \/ StoresKept => log' = log
  BY DEF RemoteCall, DocumentCall, QuarantineCall, CheckpointCall, SaveCheckpoint, StoresKept, hub
<1>4. QED
  BY <1>1, <1>2, <1>3, StoreEffect

(* A delivery that exists keeps existing.                                  *)
LEMMA DeliveryStep ==
    ASSUME TypeOK, [Next]_vars, NEW d, Delivery(d)
    PROVE  Delivery(d)' /\ log'[d[1]][d[2]] = log[d[1]][d[2]]
BY LogGrows DEF Delivery, TypeOK, StoreTypeOK

(* Callbacks and quarantine documents keep referring to deliveries that    *)
(* exist.                                                                  *)
LEMMA DeliveriesStep == TypeOK /\ [Next]_vars => DeliveriesExist'
<1> SUFFICES ASSUME TypeOK, [Next]_vars PROVE DeliveriesExist'
  OBVIOUS
<1>0. HostTypeOK /\ DeliveriesExist
  BY DEF TypeOK
<1>1. \A d \in quarantine' : Delivery(d)'
  <2>1. quarantine' \subseteq quarantine \union {job[h] : h \in {i \in Host : ~Idle(i)}}
    BY StoreEffect DEF RemoteCall, DocumentCall, QuarantineCall, CheckpointCall, StoresKept, sink,
       WriteDocument, WriteQuarantineDocument, Publish, Idle
  <2>2. \A d \in quarantine' : Delivery(d)
    BY <1>0, <2>1 DEF DeliveriesExist
  <2>3. QED
    BY <2>2, DeliveryStep
<1>2. ASSUME NEW g \in Host, pc'[g] # "idle"
      PROVE  Delivery(job[g])' /\ (pc'[g] \in {"read", "write"} => Valid(Event(g)'))
  <2>1. ASSUME ~Idle(g), job'[g] = job[g]
        PROVE  Delivery(job[g])' /\ Event(g)' = Event(g)
    BY <1>0, <2>1, DeliveryStep DEF DeliveriesExist, Event
  <2>2. CASE Stays(g)
    BY <1>0, <1>2, <2>1, <2>2 DEF Stays, DeliveriesExist, Idle
  <2>3. CASE Delivers(g)
    <3>1. PICK p \in Partition : Deliver(g, p) /\ job'[g] = <<p, next[g][p]>>
              /\ pc'[g] = IF Valid(log[p][next[g][p]]) THEN "read" ELSE "quarantine"
      BY <2>3 DEF Delivers
    <3>2. Delivery(<<p, next[g][p]>>)
      BY <1>0, <3>1 DEF Deliver, Delivery, HostTypeOK
    <3>3. Event(g)' = log[p][next[g][p]]
      BY <3>1, <3>2, DeliveryStep DEF Event
    <3>4. QED
      BY <3>1, <3>2, <3>3, DeliveryStep
  <2>4. CASE Reads(g)
    BY <1>0, <2>1, <2>4 DEF Reads, Read, DeliveriesExist, Idle
  <2>5. CASE Retries(g)
    BY <1>0, <2>1, <2>5 DEF Retries, DeliveriesExist, Idle
  <2>6. CASE Completes(g)
    BY <1>0, <2>1, <2>6 DEF Completes, DocumentCall, QuarantineCall, DeliveriesExist, Idle
  <2>7. QED
    BY <1>0, <1>2, <2>2, <2>3, <2>4, <2>5, <2>6, HostMoves DEF Returns
<1>3. QED
  BY <1>1, <1>2 DEF DeliveriesExist, Idle

(* In every reachable state, the variables have their types, each callback *)
(* works on a delivery the hub holds, and only valid envelopes reach the   *)
(* store.                                                                  *)
THEOREM TypeCorrect == Spec => []TypeOK
<1>1. TypeOK /\ [Next]_vars => TypeOK'
  BY StoreTypeStep, HostTypeStep, DeliveriesStep DEF TypeOK
<1>2. QED
  BY TypeInit, <1>1, PTL DEF Spec

-----------------------------------------------------------------------------
(* The documents, and what is settled.                                     *)

Follows(e) ==
    /\ e \in Envelope
    /\ e.account \in Account
    /\ docs[e.account] # Untrusted
    /\ CurrentVersion(docs[e.account]) < e.version
    /\ e.prev = CurrentVersion(docs[e.account])

Writes(e) == /\ docs' = [docs EXCEPT ![e.account] = e]
             /\ applied' = applied \union {e}
             /\ UNCHANGED <<log, checkpoint, quarantine>>

(* The abstract sink decides as the hosts do.                              *)
LEMMA SameContract ==
    /\ \A e : Sink!Valid(e) <=> Valid(e)
    /\ \A doc, e : Sink!Covers(doc, e) <=> Covers(doc, e)
    /\ \A doc, e : Sink!Transition(doc, e) = Transition(doc, e)
BY DEF Sink!Valid, Valid, Sink!Covers, Covers, Sink!Trusted, Trusted,
   Sink!Transition, Transition, Sink!CurrentVersion, CurrentVersion

(* An envelope is applied only to the document it names as its             *)
(* predecessor.                                                            *)
LEMMA AppliedMeansNext ==
    ASSUME NEW doc, NEW e, Transition(doc, e) = "applied"
    PROVE  doc # Untrusted /\ CurrentVersion(doc) < e.version /\ e.prev = CurrentVersion(doc)
BY DEF Transition

(* A document at which an envelope is stale or a duplicate covers it.      *)
LEMMA PassedMeansCovered ==
    ASSUME NEW doc, NEW e, Transition(doc, e) # "applied", Transition(doc, e) # "quarantined"
    PROVE  Covers(doc, e)
BY DEF Transition, Covers

(* The fields of a valid envelope.                                         *)
LEMMA EnvelopeTypes ==
    ASSUME NEW e \in Envelope
    PROVE  /\ e.account \in Account
           /\ e.version \in Nat
           /\ e.prev \in Nat
           /\ e.prev < e.version
           /\ Trusted(e)
           /\ CurrentVersion(e) = e.version
BY MessageAssumption, SentinelAssumption DEF Envelope, Valid, Trusted, CurrentVersion

(* The version of a document is a number, and positive when trusted.       *)
LEMMA DocumentTypes ==
    ASSUME NEW doc \in Document
    PROVE  /\ CurrentVersion(doc) \in Nat
           /\ Trusted(doc) => doc \in Envelope /\ CurrentVersion(doc) = doc.version
BY EnvelopeTypes DEF Document, CurrentVersion, Trusted

(* A document changes only to an envelope of its account that follows it.  *)
LEMMA DocumentsStep ==
    ASSUME TypeOK, WriteJudged, [Next]_vars
    PROVE  UNCHANGED <<docs, applied>> \/ \E e : Follows(e) /\ Writes(e)
<1>1. ASSUME NEW h \in Host, DocumentCall(h) PROVE Follows(Event(h)) /\ Writes(Event(h))
  <2>1. Event(h) \in Envelope /\ Event(h).account \in Account
    BY <1>1, EventInMessage DEF DocumentCall, TypeOK, DeliveriesExist, Envelope, Idle
  <2>2. docs[Event(h).account] = seen[h] /\ Transition(seen[h], Event(h)) = "applied"
    BY <1>1 DEF DocumentCall, DocumentUnchanged, WriteJudged
  <2>3. QED
    BY <1>1, <2>1, <2>2, AppliedMeansNext DEF DocumentCall, WriteDocument, hub, Follows, Writes
<1>2. QED
  BY <1>1, StoreEffect DEF RemoteCall, QuarantineCall, CheckpointCall, WriteQuarantineDocument,
     StoresKept, Publish, sink

(* A document moves only forward, from one envelope to one that follows it.*)
LEMMA DocumentMoves ==
    ASSUME TypeOK, WriteJudged, [Next]_vars, NEW a \in Account
    PROVE  \/ docs'[a] = docs[a]
           \/ /\ docs'[a] \in Envelope
              /\ docs'[a].account = a
              /\ docs[a] # Untrusted
              /\ docs'[a].prev = CurrentVersion(docs[a])
              /\ docs'[a].version > CurrentVersion(docs[a])
<1>1. CASE docs' = docs
  BY <1>1
<1>2. ASSUME NEW e, Follows(e), Writes(e), docs'[a] # docs[a]
      PROVE  e = docs'[a] /\ e.account = a
  BY <1>2 DEF Follows, Writes, TypeOK, StoreTypeOK
<1>3. ASSUME NEW e, Follows(e), Writes(e), docs'[a] # docs[a]
      PROVE  /\ docs'[a] \in Envelope
             /\ docs'[a].account = a
             /\ docs[a] # Untrusted
             /\ docs'[a].prev = CurrentVersion(docs[a])
             /\ docs'[a].version > CurrentVersion(docs[a])
  <2>1. e = docs'[a] /\ e.account = a
    BY <1>2, <1>3
  <2>2. CurrentVersion(docs[a]) \in Nat /\ e.version \in Nat
    BY <1>3, DocumentTypes, EnvelopeTypes DEF TypeOK, StoreTypeOK, Follows
  <2>3. QED
    BY <1>3, <2>1, <2>2 DEF Follows
<1>4. QED
  BY <1>1, <1>3, DocumentsStep

(* A document that has moved past a version stays past it.                 *)
LEMMA LaterVersionStep ==
    ASSUME TypeOK, WriteJudged, [Next]_vars, NEW a \in Account, NEW n \in Nat,
           Trusted(docs[a]), docs[a].version > n
    PROVE  Trusted(docs'[a]) /\ docs'[a].version > n
<1>1. docs[a] \in Envelope /\ CurrentVersion(docs[a]) = docs[a].version
  BY DocumentTypes DEF TypeOK, StoreTypeOK
<1>2. CASE docs'[a] = docs[a]
  BY <1>2
<1>3. CASE docs'[a] \in Envelope /\ docs'[a].version > CurrentVersion(docs[a])
  BY <1>1, <1>3, EnvelopeTypes
<1>4. QED
  BY <1>2, <1>3, DocumentMoves

(* A document that covers an envelope keeps covering it.                   *)
LEMMA CoversStep ==
    ASSUME TypeOK, WriteJudged, [Next]_vars, NEW a \in Account, NEW e \in Message,
           Covers(docs[a], e)
    PROVE  Covers(docs'[a], e)
<1>1. docs[a] \in Envelope /\ CurrentVersion(docs[a]) = docs[a].version /\ e.version \in Nat
  BY DocumentTypes, MessageAssumption DEF Covers, TypeOK, StoreTypeOK
<1>2. CASE docs'[a] = docs[a]
  BY <1>2
<1>3. CASE docs'[a] \in Envelope /\ docs'[a].version > CurrentVersion(docs[a])
  BY <1>1, <1>3, EnvelopeTypes DEF Covers
<1>4. QED
  BY <1>2, <1>3, DocumentMoves

(* Nothing leaves the quarantine.                                          *)
LEMMA QuarantineKept ==
    ASSUME [Next]_vars
    PROVE  quarantine \subseteq quarantine'
BY StoreEffect DEF RemoteCall, DocumentCall, QuarantineCall, CheckpointCall, StoresKept, sink,
   WriteDocument, WriteQuarantineDocument, Publish

(* What is settled stays settled.                                          *)
LEMMA SettledStep ==
    ASSUME TypeOK, WriteJudged, [Next]_vars, NEW p \in Partition, NEW i \in 1..Len(log[p]),
           Sink!Settled(p, i)
    PROVE  Sink!Settled(p, i)'
<1>1. log'[p][i] = log[p][i] /\ log[p][i] \in Message
  BY LogGrows DEF TypeOK, StoreTypeOK
<1>2. log[p][i].account \in Account
  BY <1>1, MessageAssumption
<1>3. CASE <<p, i>> \in quarantine
  BY <1>3, QuarantineKept DEF Sink!Settled
<1>4. CASE Valid(log[p][i]) /\ Covers(docs[log[p][i].account], log[p][i])
  <2>1. Covers(docs'[log[p][i].account], log[p][i])
    BY <1>1, <1>2, <1>4, CoversStep
  <2>2. QED
    BY <1>1, <1>4, <2>1, SameContract DEF Sink!Settled
<1>5. QED
  BY <1>3, <1>4, SameContract DEF Sink!Settled

(* A settled prefix of a partition stays settled.                          *)
LEMMA SettledBeforeStep ==
    ASSUME TypeOK, WriteJudged, [Next]_vars, NEW p \in Partition, NEW o \in Nat,
           o <= Len(log[p]) + 1, Sink!SettledBefore(p, o)
    PROVE  Sink!SettledBefore(p, o)'
<1>1. Len(log[p]) \in Nat
  BY DEF TypeOK, StoreTypeOK
<1>2. \A i \in 1..(o-1) : i \in 1..Len(log[p]) /\ Sink!Settled(p, i)
  BY <1>1 DEF Sink!SettledBefore
<1>3. QED
  BY <1>2, SettledStep DEF Sink!SettledBefore

-----------------------------------------------------------------------------
(* The parts of the inductive invariant, one lemma each.                   *)

(* A callback that goes on works on the same message.                      *)
LEMMA SameEvent ==
    ASSUME TypeOK, [Next]_vars, NEW g \in Host, ~Idle(g), job'[g] = job[g]
    PROVE  Event(g)' = Event(g)
BY DeliveryStep DEF Event, TypeOK, DeliveriesExist

(* The versions of the message of a callback that got past validation.     *)
LEMMA EventVersions ==
    ASSUME TypeOK, NEW g \in Host, pc[g] \in {"read", "write"}
    PROVE  Event(g) \in Envelope /\ Event(g).account \in Account /\ Event(g).prev \in Nat
           /\ Event(g).version \in Nat /\ Event(g).prev < Event(g).version /\ Trusted(Event(g))
<1>1. Event(g) \in Envelope
  BY EventInMessage DEF TypeOK, DeliveriesExist, Envelope, Idle
<1>2. QED
  BY <1>1, EnvelopeTypes

(* A step preserves WriteJudged.                                           *)
LEMMA WriteJudgedStep == TypeOK /\ WriteJudged /\ [Next]_vars => WriteJudged'
<1> SUFFICES ASSUME TypeOK, WriteJudged, [Next]_vars, NEW g \in Host, pc'[g] = "write"
             PROVE  LET doc == docs'[Event(g)'.account]
                    IN  /\ Transition(seen'[g], Event(g)') = "applied"
                        /\ doc = seen'[g] \/ (Trusted(doc) /\ doc.version > Event(g)'.prev)
  BY DEF WriteJudged
<1>1. CASE Stays(g)
  <2>1. pc[g] = "write" /\ seen'[g] = seen[g] /\ Event(g)' = Event(g)
    BY <1>1, SameEvent DEF Stays, Idle
  <2> DEFINE a == Event(g).account
  <2>2. /\ a \in Account
        /\ Event(g).prev \in Nat
        /\ Transition(seen[g], Event(g)) = "applied"
        /\ docs[a] = seen[g] \/ (Trusted(docs[a]) /\ docs[a].version > Event(g).prev)
    BY <2>1, EventVersions DEF WriteJudged
  <2>3. CASE Trusted(docs[a]) /\ docs[a].version > Event(g).prev
    BY <2>1, <2>2, <2>3, LaterVersionStep
  <2>4. CASE docs[a] = seen[g] /\ docs'[a] # docs[a]
    <3>1. docs'[a] \in Envelope /\ docs'[a].version > CurrentVersion(docs[a])
      BY <2>2, <2>4, DocumentMoves
    <3>2. Event(g).prev = CurrentVersion(docs[a])
      BY <2>2, <2>4, AppliedMeansNext
    <3>3. QED
      BY <2>1, <2>2, <3>1, <3>2, EnvelopeTypes
  <2>5. QED
    BY <2>1, <2>2, <2>3, <2>4
<1>2. CASE Reads(g)
  <2>1. Event(g)' = Event(g) /\ docs' = docs
    BY <1>2, SameEvent DEF Reads, Read, Idle, sink
  <2>2. QED
    BY <1>2, <2>1 DEF Reads
<1>3. QED
  BY <1>1, <1>2, HostMoves DEF TypeOK, Delivers, Retries, Completes, Returns

(* A step preserves SecondRoundIsLate and SecondRoundSettles.              *)
LEMMA SecondRoundStep ==
    TypeOK /\ WriteJudged /\ SecondRoundIsLate /\ SecondRoundSettles /\ [Next]_vars
        => SecondRoundIsLate' /\ SecondRoundSettles'
<1> SUFFICES ASSUME TypeOK, WriteJudged, SecondRoundIsLate, SecondRoundSettles, [Next]_vars,
                    NEW g \in Host
             PROVE  /\ pc'[g] = "idle" => attempt'[g] = 1
                    /\ pc'[g] = "read" /\ attempt'[g] # 1 =>
                          LET doc == docs'[Event(g)'.account]
                          IN  Trusted(doc) /\ doc.version > Event(g)'.prev
                    /\ pc'[g] = "write" => attempt'[g] = 1
  BY DEF SecondRoundIsLate, SecondRoundSettles, Idle
<1> DEFINE a == Event(g).account
<1>1. CASE Stays(g)
  <2>1. /\ pc'[g] = pc[g]
        /\ attempt'[g] = attempt[g]
        /\ ~Idle(g) => Event(g)' = Event(g)
    BY <1>1, SameEvent DEF Stays
  <2>2. pc[g] = "read" /\ attempt[g] # 1 => Trusted(docs'[a]) /\ docs'[a].version > Event(g).prev
    BY EventVersions, LaterVersionStep DEF SecondRoundIsLate
  <2>3. QED
    BY <2>1, <2>2 DEF SecondRoundIsLate, SecondRoundSettles, Idle
<1>2. CASE Delivers(g)
  BY <1>2 DEF Delivers, Deliver, SecondRoundIsLate
<1>3. CASE Reads(g)
  <2>1. pc[g] = "read" /\ attempt'[g] = attempt[g] /\ pc'[g] \notin {"idle", "read"}
    BY <1>3 DEF Reads, Read
  <2>2. ASSUME pc'[g] = "write" PROVE attempt[g] = 1
    <3>1. Transition(docs[a], Event(g)) = "applied"
      BY <1>3, <2>2 DEF Reads
    <3>2. docs[a] \in Document /\ Event(g).prev = CurrentVersion(docs[a])
      BY <2>1, <3>1, AppliedMeansNext, EventVersions DEF TypeOK, StoreTypeOK
    <3>3. ~(Trusted(docs[a]) /\ docs[a].version > Event(g).prev)
      BY <3>2, DocumentTypes
    <3>4. QED
      BY <2>1, <3>3 DEF SecondRoundIsLate
  <2>3. QED
    BY <2>1, <2>2
<1>4. CASE Retries(g)
  <2>1. pc[g] = "write" /\ pc'[g] = "read" /\ Event(g)' = Event(g)
    BY <1>4, SameEvent DEF Retries, Idle
  <2>2. CASE ~DocumentUnchanged(g) /\ StoresKept
    BY <2>1, <2>2 DEF WriteJudged, DocumentUnchanged, StoresKept, sink
  <2>3. CASE DocumentCall(g)
    <3>1. docs'[a] = Event(g)
      BY <2>1, <2>3, EventVersions DEF DocumentCall, WriteDocument, TypeOK, StoreTypeOK
    <3>2. QED
      BY <2>1, <3>1, EventVersions
  <2>4. QED
    BY <1>4, <2>1, <2>2, <2>3 DEF Retries
<1>5. QED
  BY <1>1, <1>2, <1>3, <1>4, HostMoves DEF TypeOK, Completes, Returns

(* How one step moves the cursors of a host whose gate stays open.         *)
KeepsCursors(g) == /\ ~failed[g]
                   /\ next'[g] = next[g]
                   /\ \/ pc[g] \in {"idle", "checkpoint"}
                      \/ pc'[g] # "idle" /\ job'[g] = job[g]
Advances(g) == \E p \in Partition : /\ Deliver(g, p)
                                    /\ next'[g] = [next[g] EXCEPT ![p] = @ + 1]
                                    /\ job'[g] = <<p, next[g][p]>>
                                    /\ pc'[g] # "idle"
Repositions(g) == \E p \in Partition : /\ ~failed[g]
                                       /\ pc'[g] = pc[g] /\ job'[g] = job[g]
                                       /\ \/ next'[g] = [next[g] EXCEPT ![p] = checkpoint[p] + 1]
                                          \/ next'[g] = [next[g] EXCEPT ![p] = 0]
Restarts(g) == next'[g] = [p \in Partition |-> 0] /\ ~failed'[g] /\ ~error'[g]

(* What a step may do to the cursor of a host whose gate stays open.       *)
LEMMA CursorMoves ==
    ASSUME HostTypeOK, [Next]_vars, NEW g \in Host, ~failed'[g]
    PROVE  KeepsCursors(g) \/ Advances(g) \/ Repositions(g) \/ Restarts(g)
<1> DEFINE Other == /\ ~failed[g]
                    /\ next'[g] = next[g]
                    /\ pc'[g] = pc[g]
                    /\ job'[g] = job[g]
<1> USE DEF callback, latch
<1>0. Other => KeepsCursors(g)
  BY DEF KeepsCursors
<1>1. ASSUME UNCHANGED <<next, callback, latch>> PROVE Other
  BY <1>1
<1>2. ASSUME NEW h \in Host, HostStep(h)
      PROVE Other \/ KeepsCursors(g) \/ Advances(g) \/ Repositions(g) \/ Restarts(g)
  <2>1. ASSUME NEW p \in Partition, Claim(h, p) \/ Lose(h, p) PROVE Other \/ Repositions(g)
    BY <2>1 DEF HostTypeOK, Claim, Lose, Repositions
  <2>2. ASSUME NEW p \in Partition, Deliver(h, p) PROVE Other \/ Advances(g)
    BY <2>2 DEF HostTypeOK, Deliver, Goto, Advances
  <2>3. ASSUME NEW p \in Partition, Ignore(h, p) PROVE Other
    BY <2>3 DEF HostTypeOK, Ignore
  <2>4. ASSUME Read(h) \/ Write(h) \/ Quarantine(h) PROVE Other \/ KeepsCursors(g)
    BY <2>4 DEF HostTypeOK, Read, Write, Quarantine, Goto, KeepsCursors
  <2>5. ASSUME NEW l, Goto(h, l), l # "idle", UNCHANGED <<job, latch, next>> PROVE Other \/ KeepsCursors(g)
    BY <2>5 DEF HostTypeOK, Goto, KeepsCursors
  <2>6. ASSUME Return(h), Fail(h), UNCHANGED next PROVE Other
    BY <2>6 DEF HostTypeOK, Return, Goto, Fail
  <2>7. ASSUME WriteConflict(h) \/ WriteEcho(h) PROVE Other \/ KeepsCursors(g)
    BY <2>5, <2>6, <2>7 DEF WriteConflict, WriteEcho, RetryOrRaise
  <2>8. ASSUME UpdateCheckpoint(h) PROVE Other \/ KeepsCursors(g)
    BY <2>8 DEF HostTypeOK, UpdateCheckpoint, Return, Goto, KeepsCursors
  <2>9. ASSUME CallFails(h) PROVE Other
    BY <2>6, <2>9 DEF CallFails
  <2>10. ASSUME ReceiveError(h) \/ Interrupt(h) PROVE Other
    BY <2>10 DEF HostTypeOK, ReceiveError, Interrupt, Fail
  <2>11. ASSUME Crash(h) \/ Exit(h) PROVE Other \/ Restarts(g)
    BY <2>11 DEF HostTypeOK, Crash, Exit, Reset, Return, Goto, Restarts
  <2>12. QED
    BY <1>2, <2>1, <2>2, <2>3, <2>4, <2>7, <2>8, <2>9, <2>10, <2>11 DEF HostStep, Callback, Failure
<1>3. ASSUME NEW e \in Message, Publish(e) PROVE Other
  BY <1>1, <1>3 DEF Publish
<1>4. ASSUME UNCHANGED vars PROVE Other
  BY <1>1, <1>4 DEF vars
<1>5. QED
  BY <1>0, <1>2, <1>3, <1>4 DEF Next

(* A step preserves HaltedHostIsQuiet.                                     *)
LEMMA HaltedStep == HostTypeOK /\ HaltedHostIsQuiet /\ [Next]_vars => HaltedHostIsQuiet'
<1> SUFFICES ASSUME HostTypeOK, HaltedHostIsQuiet, [Next]_vars, NEW g \in Host, error'[g]
             PROVE  failed'[g] /\ pc'[g] = "idle"
  BY DEF HaltedHostIsQuiet, Idle
<1> USE DEF callback, latch, HaltedHostIsQuiet, Idle
<1>1. ASSUME UNCHANGED <<callback, latch>> PROVE failed'[g] /\ pc'[g] = "idle"
  BY <1>1
<1>2. ASSUME NEW h \in Host, HostStep(h) PROVE failed'[g] /\ pc'[g] = "idle"
  <2>1. ASSUME NEW p \in Partition, Claim(h, p) \/ Lose(h, p) \/ Ignore(h, p)
        PROVE  UNCHANGED <<callback, latch>>
    BY <2>1 DEF Claim, Lose, Ignore
  <2>2. ASSUME NEW l, Goto(h, l), ~error[h], UNCHANGED latch PROVE failed'[g] /\ pc'[g] = "idle"
    BY <2>2 DEF HostTypeOK, Goto
  <2>3. ASSUME NEW p \in Partition, Deliver(h, p) PROVE ~error[h]
    BY <2>3 DEF Deliver
  <2>4. ASSUME pc[h] # "idle" PROVE ~error[h]
    BY <2>4
  <2>5. ASSUME Callback(h), UNCHANGED latch PROVE failed'[g] /\ pc'[g] = "idle"
    BY <2>2, <2>4, <2>5 DEF Callback, Read, Write, WriteConflict, RetryOrRaise, Quarantine, UpdateCheckpoint, Return
  <2>6. ASSUME Return(h), Fail(h) PROVE failed'[g] /\ pc'[g] = "idle"
    BY <2>6 DEF HostTypeOK, Return, Goto, Fail
  <2>7. ASSUME WriteConflict(h) \/ WriteEcho(h) PROVE failed'[g] /\ pc'[g] = "idle"
    BY <2>2, <2>4, <2>6, <2>7 DEF WriteConflict, WriteEcho, RetryOrRaise
  <2>8. ASSUME CallFails(h) PROVE failed'[g] /\ pc'[g] = "idle"
    BY <2>6, <2>8 DEF CallFails
  <2>9. ASSUME ReceiveError(h) PROVE failed'[g] /\ pc'[g] = "idle"
    BY <2>9 DEF HostTypeOK, ReceiveError, Fail
  <2>10. ASSUME Interrupt(h) PROVE failed'[g] /\ pc'[g] = "idle"
    BY <2>10 DEF HostTypeOK, Interrupt
  <2>11. ASSUME Crash(h) \/ Exit(h) PROVE failed'[g] /\ pc'[g] = "idle"
    BY <2>11 DEF HostTypeOK, Crash, Exit, Reset, Return, Goto
  <2>12. ASSUME NEW p \in Partition, Deliver(h, p) PROVE failed'[g] /\ pc'[g] = "idle"
    BY <2>2, <2>3, <2>12 DEF Deliver
  <2>13. Callback(h) => UNCHANGED latch \/ WriteConflict(h)
    BY DEF Callback, Read, Write, Quarantine, UpdateCheckpoint
  <2>14. QED
    BY <1>1, <1>2, <2>1, <2>5, <2>7, <2>8, <2>9, <2>10, <2>11, <2>12, <2>13 DEF HostStep, Failure
<1>3. ASSUME NEW e \in Message, Publish(e) PROVE UNCHANGED <<callback, latch>>
  BY <1>3 DEF Publish
<1>4. ASSUME UNCHANGED vars PROVE UNCHANGED <<callback, latch>>
  BY <1>4 DEF vars
<1>5. QED
  BY <1>1, <1>2, <1>3, <1>4 DEF Next

(* A callback that settles its delivery, or finds it settled.              *)
LEMMA CallbackInOrderStep ==
    TypeOK /\ WriteJudged /\ CallbackInOrder /\ PassedIsSettled /\ [Next]_vars => CallbackInOrder'
<1> SUFFICES ASSUME TypeOK, WriteJudged, CallbackInOrder, PassedIsSettled, [Next]_vars,
                    NEW g \in Host, pc'[g] # "idle"
             PROVE  /\ Sink!SettledBefore(job[g][1], job[g][2])'
                    /\ pc'[g] = "checkpoint" => Sink!Settled(job[g][1], job[g][2])'
  BY DEF CallbackInOrder, Idle
<1> DEFINE p == job[g][1]
           o == job[g][2]
<1>1. ASSUME ~Idle(g), job'[g] = job[g]
      PROVE  /\ p \in Partition /\ o \in 1..Len(log[p])
             /\ Sink!SettledBefore(job[g][1], job[g][2])'
             /\ Sink!Settled(p, o) => Sink!Settled(job[g][1], job[g][2])'
  <2>1. p \in Partition /\ o \in 1..Len(log[p]) /\ o \in Nat /\ o <= Len(log[p]) + 1
    BY <1>1, EventInMessage DEF TypeOK, StoreTypeOK
  <2>2. Sink!SettledBefore(p, o)' /\ (Sink!Settled(p, o) => Sink!Settled(p, o)')
    BY <1>1, <2>1, SettledBeforeStep, SettledStep DEF CallbackInOrder
  <2>3. QED
    BY <1>1, <2>1, <2>2
<1>2. CASE Stays(g)
  BY <1>1, <1>2 DEF Stays, CallbackInOrder, Idle
<1>3. CASE Delivers(g)
  <2>1. PICK q \in Partition : Deliver(g, q) /\ job'[g] = <<q, next[g][q]>>
           /\ pc'[g] = IF Valid(log[q][next[g][q]]) THEN "read" ELSE "quarantine"
    BY <1>3 DEF Delivers
  <2>2. next[g][q] \in Nat /\ next[g][q] <= Len(log[q]) + 1
    BY <2>1 DEF Deliver, TypeOK, HostTypeOK, PassedIsSettled
  <2>3. Sink!SettledBefore(q, next[g][q])
    BY <2>1, <2>2 DEF Deliver, PassedIsSettled, Sink!SettledBefore
  <2>4. \A i \in 1..(next[g][q] - 1) : Sink!Settled(q, i)'
    <3>1. \A i \in 1..(next[g][q] - 1) : i \in 1..Len(log[q]) /\ Sink!Settled(q, i)
      BY <2>2, <2>3 DEF Sink!SettledBefore, TypeOK, StoreTypeOK
    <3>2. QED
      BY <3>1, SettledStep
  <2>5. job'[g][1] = q /\ job'[g][2] = next[g][q] /\ pc'[g] # "checkpoint"
    BY <2>1
  <2>6. Sink!SettledBefore(job[g][1], job[g][2])'
    BY <2>4, <2>5 DEF Sink!SettledBefore, Sink!Settled
  <2>7. QED
    BY <2>5, <2>6
<1>4. CASE Reads(g)
  <2>1. pc[g] = "read" /\ ~Idle(g) /\ job'[g] = job[g] /\ docs' = docs
    BY <1>4 DEF Reads, Read, Idle, sink
  <2>2. ASSUME pc'[g] = "checkpoint" PROVE Sink!Settled(p, o)
    <3>1. Covers(docs[Event(g).account], Event(g)) /\ Valid(Event(g))
      BY <1>4, <2>1, <2>2, PassedMeansCovered DEF Reads, TypeOK, DeliveriesExist
    <3>2. QED
      BY <3>1, SameContract DEF Sink!Settled, Event
  <2>3. QED
    BY <1>1, <2>1, <2>2
<1>5. CASE Retries(g)
  BY <1>1, <1>5 DEF Retries, Idle
<1>6. CASE Completes(g)
  <2>1. ~Idle(g) /\ job'[g] = job[g] /\ log' = log
    BY <1>6 DEF Completes, DocumentCall, QuarantineCall, Idle, hub
  <2>2. CASE QuarantineCall(g)
    <3>1. <<job'[g][1], job'[g][2]>> \in quarantine'
      BY <2>1, <2>2, EventInMessage DEF QuarantineCall, WriteQuarantineDocument
    <3>2. QED
      BY <1>1, <2>1, <3>1 DEF Sink!Settled
  <2>3. CASE DocumentCall(g)
    <3>1. docs'[Event(g).account] = Event(g) /\ Valid(Event(g)) /\ Trusted(Event(g))
      BY <2>3, EventVersions DEF DocumentCall, WriteDocument, TypeOK, StoreTypeOK, DeliveriesExist
    <3>2. Event(g) = log'[job'[g][1]][job'[g][2]]
      BY <2>1 DEF Event
    <3>3. Sink!Settled(job[g][1], job[g][2])'
      BY <3>1, <3>2, SameContract DEF Sink!Settled, Covers
    <3>4. QED
      BY <1>1, <2>1, <3>3
  <2>4. QED
    BY <1>6, <2>2, <2>3 DEF Completes
<1>7. QED
  BY <1>2, <1>3, <1>4, <1>5, <1>6, HostMoves DEF TypeOK, Returns

(* A step preserves CheckpointSafe: a checkpoint moves only to a delivery  *)
(* that is settled with all before it.                                     *)
LEMMA CheckpointStep ==
    TypeOK /\ WriteJudged /\ CallbackInOrder /\ CheckpointSafe /\ [Next]_vars => CheckpointSafe'
<1> SUFFICES ASSUME TypeOK, WriteJudged, CallbackInOrder, CheckpointSafe, [Next]_vars, NEW p \in Partition
             PROVE  checkpoint'[p] <= Len(log'[p]) /\ Sink!SettledBefore(p, checkpoint[p] + 1)'
  BY DEF CheckpointSafe
<1>0. Len(log[p]) \in Nat /\ Len(log'[p]) \in Nat /\ checkpoint[p] \in Nat /\ Len(log[p]) <= Len(log'[p])
  BY LogGrows DEF TypeOK, StoreTypeOK
<1>1. ASSUME NEW c \in Nat, checkpoint'[p] = c, c <= Len(log[p]), \A i \in 1..c : Sink!Settled(p, i)
      PROVE  checkpoint'[p] <= Len(log'[p]) /\ Sink!SettledBefore(p, checkpoint[p] + 1)'
  <2>1. \A i \in 1..c : i \in 1..Len(log[p]) /\ Sink!Settled(p, i)'
    BY <1>0, <1>1, SettledStep
  <2>2. \A i \in 1..((checkpoint'[p] + 1) - 1) : Sink!Settled(p, i)'
    BY <1>1, <2>1
  <2>3. QED
    BY <1>0, <1>1, <2>2 DEF Sink!SettledBefore
<1>2. CASE checkpoint'[p] = checkpoint[p]
  <2>1. \A i \in 1..checkpoint[p] : Sink!Settled(p, i)
    BY <1>0 DEF CheckpointSafe, Sink!SettledBefore
  <2>2. QED
    BY <1>0, <1>1, <1>2, <2>1 DEF CheckpointSafe
<1>3. ASSUME NEW h \in Host, CheckpointCall(h), checkpoint'[p] # checkpoint[p]
      PROVE  checkpoint'[p] <= Len(log'[p]) /\ Sink!SettledBefore(p, checkpoint[p] + 1)'
  <2>1. /\ job[h][1] = p
        /\ checkpoint'[p] = job[h][2]
        /\ job[h][2] \in 1..Len(log[p])
        /\ pc[h] = "checkpoint"
    BY <1>3, EventInMessage DEF CheckpointCall, SaveCheckpoint, TypeOK, StoreTypeOK, Idle
  <2>2. Sink!SettledBefore(p, job[h][2]) /\ Sink!Settled(p, job[h][2])
    BY <2>1 DEF CallbackInOrder, Idle
  <2>3. \A i \in 1..job[h][2] : Sink!Settled(p, i)
    BY <2>1, <2>2 DEF Sink!SettledBefore
  <2>4. QED
    BY <1>0, <1>1, <2>1, <2>3
<1>4. QED
  BY <1>2, <1>3, StoreEffect DEF RemoteCall, DocumentCall, QuarantineCall, StoresKept, hub, Publish

(* A step preserves PassedIsSettled.                                       *)
LEMMA PassedStep ==
    TypeOK /\ WriteJudged /\ CheckpointSafe /\ CallbackInOrder /\ PassedIsSettled /\ [Next]_vars
        => PassedIsSettled'
<1> SUFFICES ASSUME TypeOK, WriteJudged, CheckpointSafe, CallbackInOrder, PassedIsSettled, [Next]_vars,
                    NEW g \in Host, ~failed'[g], NEW p \in Partition
             PROVE  /\ next'[g][p] <= Len(log'[p]) + 1
                    /\ \A i \in 1..(next'[g][p] - 1) :
                          Sink!Settled(p, i)' \/ (pc'[g] # "idle" /\ job'[g] = <<p, i>>)
  BY DEF PassedIsSettled, Idle
<1> DEFINE n == next[g][p]
           c == checkpoint[p]
           Goal(m) == /\ m <= Len(log'[p]) + 1
                      /\ \A i \in 1..(m - 1) :
                            Sink!Settled(p, i)' \/ (pc'[g] # "idle" /\ job'[g] = <<p, i>>)
<1>0. /\ Len(log[p]) \in Nat /\ Len(log'[p]) \in Nat /\ Len(log[p]) <= Len(log'[p])
      /\ n \in Nat /\ c \in Nat /\ next[g] \in [Partition -> Nat]
  BY LogGrows DEF TypeOK, StoreTypeOK, HostTypeOK
<1>1. ASSUME NEW m \in Nat, m <= Len(log[p]) + 1,
             \A i \in 1..(m - 1) : Sink!Settled(p, i) \/ (pc'[g] # "idle" /\ job'[g] = <<p, i>>)
      PROVE  Goal(m)
  BY <1>0, <1>1, SettledStep
<1>2. ASSUME ~failed[g]
      PROVE  /\ n <= Len(log[p]) + 1
             /\ \A i \in 1..(n - 1) : Sink!Settled(p, i) \/ (~Idle(g) /\ job[g] = <<p, i>>)
  BY <1>2 DEF PassedIsSettled
<1>3. Goal(0)
  BY <1>0
<1>4. CASE KeepsCursors(g)
  <2>1. n <= Len(log[p]) + 1 /\ next'[g][p] = n
    BY <1>2, <1>4 DEF KeepsCursors
  <2>2. ASSUME NEW i \in 1..(n - 1), ~Sink!Settled(p, i)
        PROVE  pc'[g] # "idle" /\ job'[g] = <<p, i>>
    <3>1. ~Idle(g) /\ job[g] = <<p, i>>
      BY <1>2, <1>4, <2>2 DEF KeepsCursors
    <3>2. pc[g] # "checkpoint"
      BY <2>2, <3>1 DEF CallbackInOrder
    <3>3. QED
      BY <1>4, <3>1, <3>2 DEF KeepsCursors, Idle
  <2>3. Goal(n)
    BY <1>0, <1>1, <2>1, <2>2
  <2>4. QED
    BY <2>1, <2>3
<1>5. CASE Advances(g)
  <2>1. PICK q \in Partition : /\ Deliver(g, q)
                              /\ next'[g] = [next[g] EXCEPT ![q] = @ + 1]
                              /\ job'[g] = <<q, next[g][q]>>
                              /\ pc'[g] # "idle"
    BY <1>5 DEF Advances
  <2>2. \A i \in 1..(n - 1) : Sink!Settled(p, i)
    BY <1>2, <2>1 DEF Deliver
  <2>3. CASE p = q
    <3>1. next'[g][p] = n + 1 /\ n \in 1..Len(log[p]) /\ job'[g] = <<p, n>>
      BY <1>0, <2>1, <2>3 DEF Deliver
    <3>2. \A i \in 1..((n + 1) - 1) : Sink!Settled(p, i) \/ (pc'[g] # "idle" /\ job'[g] = <<p, i>>)
      BY <1>0, <2>1, <2>2, <3>1
    <3>3. n + 1 \in Nat /\ n + 1 <= Len(log[p]) + 1
      BY <1>0, <3>1
    <3>4. Goal(n + 1)
      BY <1>1, <3>2, <3>3
    <3>5. QED
      BY <3>1, <3>4
  <2>4. CASE p # q
    <3>1. next'[g][p] = n
      BY <1>0, <2>1, <2>4
    <3>2. Goal(n)
      BY <1>0, <1>1, <1>2, <2>1, <2>2 DEF Deliver
    <3>3. QED
      BY <3>1, <3>2
  <2>5. QED
    BY <2>3, <2>4
<1>6. CASE Repositions(g)
  <2>1. ~failed[g] /\ pc'[g] = pc[g] /\ job'[g] = job[g]
    BY <1>6 DEF Repositions
  <2>2. next'[g][p] \in {n, 0, c + 1}
    BY <1>0, <1>6 DEF Repositions
  <2>3. Goal(n)
    BY <1>0, <1>1, <1>2, <2>1 DEF Idle
  <2>4. Goal(c + 1)
    <3>1. \A i \in 1..((c + 1) - 1) : Sink!Settled(p, i)
      BY DEF CheckpointSafe, Sink!SettledBefore
    <3>2. c + 1 \in Nat /\ c + 1 <= Len(log[p]) + 1
      BY <1>0 DEF CheckpointSafe
    <3>3. QED
      BY <1>1, <3>1, <3>2
  <2>5. QED
    BY <1>3, <2>2, <2>3, <2>4
<1>7. CASE Restarts(g)
  <2>1. next'[g][p] = 0
    BY <1>7 DEF Restarts
  <2>2. QED
    BY <1>3, <2>1
<1>8. QED
  BY <1>4, <1>5, <1>6, <1>7, CursorMoves DEF TypeOK

(* A step preserves DocumentsApplied.                                      *)
LEMMA DocumentsAppliedStep ==
    TypeOK /\ WriteJudged /\ DocumentsApplied /\ [Next]_vars => DocumentsApplied'
<1> SUFFICES ASSUME TypeOK, WriteJudged, DocumentsApplied, [Next]_vars,
                    NEW a \in Account, Trusted(docs'[a])
             PROVE  docs'[a] \in applied' /\ docs'[a].account = a
  BY DEF DocumentsApplied
<1>1. CASE UNCHANGED <<docs, applied>>
  BY <1>1 DEF DocumentsApplied
<1>2. ASSUME NEW e, Follows(e), Writes(e) PROVE docs'[a] \in applied' /\ docs'[a].account = a
  <2>1. docs' = [docs EXCEPT ![e.account] = e] /\ applied' = applied \union {e}
    BY <1>2 DEF Writes
  <2>2. CASE a = e.account
    BY <2>1, <2>2 DEF TypeOK, StoreTypeOK
  <2>3. CASE a # e.account
    BY <2>1, <2>3 DEF TypeOK, StoreTypeOK, DocumentsApplied
  <2>4. QED
    BY <2>2, <2>3
<1>3. QED
  BY <1>1, <1>2, DocumentsStep

(* A step preserves UnbrokenChain: the envelope written follows the        *)
(* newest one and lies past all others.                                    *)
LEMMA UnbrokenChainStep ==
    TypeOK /\ WriteJudged /\ DocumentsApplied /\ UnbrokenChain /\ [Next]_vars => UnbrokenChain'
<1> SUFFICES ASSUME TypeOK, WriteJudged, DocumentsApplied, UnbrokenChain, [Next]_vars,
                    NEW f, Follows(f), Writes(f), NEW e \in applied'
             PROVE  /\ Trusted(docs'[e.account])
                    /\ docs'[e.account] \in applied'
                    /\ e.version <= docs'[e.account].version
                    /\ e.prev = 0 \/ \E x \in applied' : x.account = e.account /\ x.version = e.prev
                    /\ \A x \in applied' :
                           \/ x = e
                           \/ x.account # e.account
                           \/ x.version <= e.prev
                           \/ e.version <= x.prev
  BY DocumentsStep DEF UnbrokenChain
<1> DEFINE a == f.account
<1>1. docs' = [docs EXCEPT ![a] = f] /\ applied' = applied \union {f}
  BY DEF Writes
<1>2. /\ f \in Envelope /\ a \in Account /\ docs[a] \in Document
      /\ f.prev = CurrentVersion(docs[a]) /\ CurrentVersion(docs[a]) < f.version
  BY DEF Follows, TypeOK, StoreTypeOK
<1>3. docs'[a] = f /\ Trusted(f) /\ \A b \in Account \ {a} : docs'[b] = docs[b]
  BY <1>1, <1>2, EnvelopeTypes DEF TypeOK, StoreTypeOK
<1>4. applied \subseteq Envelope
  BY DEF TypeOK, StoreTypeOK
<1>5. \A x \in applied : x.account = a => x.version <= f.prev
  BY <1>2, <1>4, DocumentTypes DEF UnbrokenChain
<1>6. CASE e = f
  <2>1. e.prev = 0 \/ \E x \in applied' : x.account = e.account /\ x.version = e.prev
    <3>1. CASE Trusted(docs[a])
      BY <1>1, <1>2, <1>6, <3>1, DocumentTypes DEF DocumentsApplied
    <3>2. CASE ~Trusted(docs[a])
      BY <1>2, <1>6, <3>2 DEF CurrentVersion
    <3>3. QED
      BY <3>1, <3>2
  <2>2. f.version <= f.version
    BY <1>2, EnvelopeTypes
  <2>3. QED
    BY <1>1, <1>3, <1>5, <1>6, <2>1, <2>2
<1>7. CASE e \in applied /\ e # f
  <2>1. e \in Envelope /\ e.account \in Account
    BY <1>4, <1>7, EnvelopeTypes
  <2>2. /\ Trusted(docs[e.account]) /\ docs[e.account] \in applied
        /\ e.version <= docs[e.account].version
        /\ e.prev = 0 \/ \E x \in applied : x.account = e.account /\ x.version = e.prev
        /\ \A x \in applied :
               \/ x = e
               \/ x.account # e.account
               \/ x.version <= e.prev
               \/ e.version <= x.prev
    BY <1>7 DEF UnbrokenChain
  <2>3. e.account = a => e.version <= f.prev /\ e.version <= f.version
    BY <1>2, <1>5, <1>7, <2>1, EnvelopeTypes
  <2>4. QED
    BY <1>1, <1>3, <2>1, <2>2, <2>3
<1>8. QED
  BY <1>1, <1>6, <1>7

(* A document an account has had stays one it has had.                     *)
LEMMA HadStep ==
    ASSUME TypeOK, WriteJudged, [Next]_vars, NEW a \in Account, NEW doc \in Sink!Had(a)
    PROVE  doc \in Sink!Had(a)'
<1>1. docs[a] = Untrusted <=> docs'[a] = Untrusted
  BY DocumentMoves, EnvelopeTypes DEF Trusted
<1>2. applied \subseteq applied'
  BY DocumentsStep DEF Writes
<1>3. QED
  BY <1>1, <1>2 DEF Sink!Had

(* What a document reflects it keeps reflecting.                           *)
LEMMA ReflectsStep ==
    ASSUME TypeOK, [Next]_vars, NEW p \in Partition, NEW o \in 1..Len(log[p]), NEW doc,
           Sink!Reflects(doc, p, o)
    PROVE  Sink!Reflects(doc, p, o)'
<1>1. Len(log[p]) \in Nat
  BY DEF TypeOK, StoreTypeOK
<1>2. log'[p][o] = log[p][o] /\ \A i \in 1..(o-1) : log'[p][i] = log[p][i]
  BY <1>1, LogGrows
<1>3. quarantine \subseteq quarantine'
  BY QuarantineKept
<1>4. \A i \in 1..(o-1) : \/ log'[p][i].account # log'[p][o].account
                           \/ <<p, i>> \in quarantine'
                           \/ Sink!Covers(doc, log'[p][i])
  BY <1>2, <1>3 DEF Sink!Reflects
<1>5. QED
  BY <1>4 DEF Sink!Reflects

(* A step preserves RefusalJudged.                                         *)
LEMMA RefusalJudgedStep ==
    TypeOK /\ WriteJudged /\ CallbackInOrder /\ DocumentsApplied /\ RefusalJudged /\ [Next]_vars
        => RefusalJudged'
<1> SUFFICES ASSUME TypeOK, WriteJudged, CallbackInOrder, DocumentsApplied, RefusalJudged, [Next]_vars,
                    NEW g \in Host, pc'[g] = "quarantine", Valid(Event(g)')
             PROVE  /\ seen'[g] \in Sink!Had(Event(g).account)'
                    /\ Transition(seen'[g], Event(g)') = "quarantined"
                    /\ Sink!Reflects(seen[g], job[g][1], job[g][2])'
  BY DEF RefusalJudged
<1> DEFINE e == Event(g)
           p == job[g][1]
           o == job[g][2]
<1>1. ASSUME ~Idle(g), job'[g] = job[g], seen'[g] \in Sink!Had(e.account),
             Transition(seen'[g], e) = "quarantined", Sink!Reflects(seen'[g], p, o)
      PROVE  /\ seen'[g] \in Sink!Had(Event(g).account)'
             /\ Transition(seen'[g], Event(g)') = "quarantined"
             /\ Sink!Reflects(seen[g], job[g][1], job[g][2])'
  <2>1. e.account \in Account /\ p \in Partition /\ o \in 1..Len(log[p]) /\ Event(g)' = e
    BY <1>1, EventInMessage, SameEvent
  <2>2. \A a \in Account : \A d \in Sink!Had(a) : d \in Sink!Had(a)'
    BY HadStep
  <2>3. \A q \in Partition : \A k \in 1..Len(log[q]) : \A d :
           Sink!Reflects(d, q, k) => Sink!Reflects(d, q, k)'
    BY ReflectsStep
  <2>4. seen'[g] \in Sink!Had(Event(g).account)'
    BY <1>1, <2>1, <2>2 DEF Sink!Had
  <2>5. Sink!Reflects(seen[g], job[g][1], job[g][2])'
    BY <1>1, <2>1, <2>3 DEF Sink!Reflects
  <2>6. QED
    BY <1>1, <2>1, <2>4, <2>5
<1>2. CASE Stays(g)
  BY <1>1, <1>2, SameEvent DEF Stays, RefusalJudged, Idle
<1>3. CASE Delivers(g)
  <2>1. PICK q \in Partition : Deliver(g, q) /\ job'[g] = <<q, next[g][q]>>
           /\ pc'[g] = IF Valid(log[q][next[g][q]]) THEN "read" ELSE "quarantine"
    BY <1>3 DEF Delivers
  <2>2. Event(g)' = log[q][next[g][q]]
    BY <2>1, LogGrows DEF Deliver, Event
  <2>3. QED
    BY <2>1, <2>2
<1>4. CASE Reads(g)
  <2> DEFINE doc == docs[e.account]
  <2>1. pc[g] = "read" /\ ~Idle(g) /\ job'[g] = job[g] /\ seen'[g] = doc
        /\ Transition(doc, e) = "quarantined"
    BY <1>4 DEF Reads, Read, Idle
  <2>2. doc \in Sink!Had(e.account)
    BY <2>1, EventVersions, DocumentTypes DEF Sink!Had, DocumentsApplied, TypeOK, StoreTypeOK, Trusted
  <2>3. Sink!Reflects(doc, p, o)
    <3>1. Sink!SettledBefore(p, o)
      BY <2>1 DEF CallbackInOrder
    <3>2. QED
      BY <3>1 DEF Sink!SettledBefore, Sink!Settled, Sink!Reflects, Event
  <2>4. QED
    BY <1>1, <2>1, <2>2, <2>3
<1>5. QED
  BY <1>2, <1>3, <1>4, HostMoves DEF TypeOK, Retries, Completes, Returns

-----------------------------------------------------------------------------
(* The theorems.                                                           *)

(* The invariant holds initially.                                          *)
LEMMA InductiveInit == Init => Inductive
<1>1. Init => TypeOK
  BY TypeInit
<1>2. Init => CheckpointSafe /\ PassedIsSettled
  BY DEF Init, Sink!Init, CheckpointSafe, PassedIsSettled, Sink!SettledBefore
<1>3. Init => /\ WriteJudged /\ SecondRoundIsLate /\ SecondRoundSettles /\ HaltedHostIsQuiet
              /\ CallbackInOrder /\ RefusalJudged
  BY DEF Init, WriteJudged, SecondRoundIsLate, SecondRoundSettles, HaltedHostIsQuiet,
     CallbackInOrder, RefusalJudged, Idle
<1>4. Init => DocumentsApplied /\ UnbrokenChain
  BY DEF Init, Sink!Init, DocumentsApplied, UnbrokenChain, Trusted
<1>5. QED
  BY <1>1, <1>2, <1>3, <1>4 DEF Inductive

(* The invariant is inductive: each part is kept by every step, given the  *)
(* others.                                                                 *)
LEMMA InductiveStep == Inductive /\ [Next]_vars => Inductive'
<1> SUFFICES ASSUME Inductive, [Next]_vars PROVE Inductive'
  OBVIOUS
<1> USE DEF Inductive
<1>1. TypeOK'
  BY StoreTypeStep, HostTypeStep, DeliveriesStep DEF TypeOK
<1>2. WriteJudged' /\ SecondRoundIsLate' /\ SecondRoundSettles'
  BY WriteJudgedStep, SecondRoundStep
<1>3. HaltedHostIsQuiet'
  BY HaltedStep DEF TypeOK
<1>4. CheckpointSafe' /\ CallbackInOrder' /\ PassedIsSettled'
  BY CheckpointStep, CallbackInOrderStep, PassedStep
<1>5. RefusalJudged'
  BY RefusalJudgedStep
<1>6. DocumentsApplied' /\ UnbrokenChain'
  BY DocumentsAppliedStep, UnbrokenChainStep
<1>7. QED
  BY <1>1, <1>2, <1>3, <1>4, <1>5, <1>6

(* The invariant holds of every reachable state.                           *)
THEOREM InductiveInvariant == Spec => []Inductive
BY InductiveInit, InductiveStep, PTL DEF Spec

(* A checkpoint never covers a delivery that is neither in a document's    *)
(* history nor in quarantine, for any number of hosts and faults.          *)
THEOREM CheckpointsAreSafe == Spec => []CheckpointSafe
<1>1. Inductive => CheckpointSafe
  BY DEF Inductive
<1>2. QED
  BY InductiveInvariant, <1>1, PTL

(* The envelopes applied to an account form one unbroken chain.            *)
THEOREM ChainsAreUnbroken == Spec => []UnbrokenChain
<1>1. Inductive => UnbrokenChain
  BY DEF Inductive
<1>2. QED
  BY InductiveInvariant, <1>1, PTL

(* A host that has recorded an error runs no callback until it restarts.   *)
THEOREM HaltedHostsAreQuiet == Spec => []HaltedHostIsQuiet
<1>1. Inductive => HaltedHostIsQuiet
  BY DEF Inductive
<1>2. QED
  BY InductiveInvariant, <1>1, PTL

(* No compare-and-set loop attempts a second write.                        *)
THEOREM SecondRoundsSettle == Spec => []SecondRoundSettles
<1>1. Inductive => SecondRoundSettles
  BY DEF Inductive
<1>2. QED
  BY InductiveInvariant, <1>1, PTL

(* A remote call is a step of the abstract sink.                           *)
LEMMA CallIsSinkStep ==
    ASSUME Inductive, NEW h \in Host, RemoteCall(h)
    PROVE  Sink!Next
<1> USE DEF Inductive
<1> DEFINE p == job[h][1]
           o == job[h][2]
<1>1. ~Idle(h)
  BY DEF RemoteCall, DocumentCall, QuarantineCall, CheckpointCall, Idle
<1>2. p \in Partition /\ o \in 1..Len(log[p]) /\ job[h] = <<p, o>> /\ Event(h) = log[p][o]
  BY <1>1, EventInMessage DEF Event
<1>3. Sink!SettledBefore(p, o)
  BY <1>1 DEF CallbackInOrder
<1>4. CASE DocumentCall(h)
  <2>1. Valid(Event(h)) /\ Transition(docs[Event(h).account], Event(h)) = "applied"
    BY <1>4 DEF DocumentCall, DocumentUnchanged, WriteJudged, TypeOK, DeliveriesExist
  <2>2. Sink!Apply(p, o)
    BY <1>2, <1>3, <1>4, <2>1, SameContract
       DEF DocumentCall, WriteDocument, hub, Sink!Apply
  <2>3. QED
    BY <1>2, <2>2 DEF Sink!Next
<1>5. CASE QuarantineCall(h)
  <2>1. \/ ~Sink!Valid(log[p][o])
        \/ \E doc \in Sink!Had(log[p][o].account) :
               Sink!Transition(doc, log[p][o]) = "quarantined" /\ Sink!Reflects(doc, p, o)
    BY <1>2, <1>5, SameContract DEF QuarantineCall, RefusalJudged
  <2>2. Sink!Quarantine(p, o)
    BY <1>2, <1>3, <1>5, <2>1
       DEF QuarantineCall, WriteQuarantineDocument, hub, Sink!Quarantine
  <2>3. QED
    BY <1>2, <2>2 DEF Sink!Next
<1>6. CASE CheckpointCall(h)
  <2>1. Sink!Settled(p, o)
    BY <1>1, <1>6 DEF CheckpointCall, CallbackInOrder
  <2>2. Sink!SettledBefore(p, o + 1)
    BY <1>2, <1>3, <2>1 DEF Sink!SettledBefore
  <2>3. Sink!Checkpoint(p, o)
    BY <1>6, <2>2 DEF CheckpointCall, SaveCheckpoint, sink, Sink!Checkpoint
  <2>4. QED
    BY <1>2, <2>3 DEF Sink!Next
<1>7. QED
  BY <1>4, <1>5, <1>6 DEF RemoteCall

(* Every step of the hosts, the hub and the failures is a step of the      *)
(* abstract sink or leaves it alone: overlapping hosts, retries and        *)
(* crashes add no behaviour to the balances, the quarantine and the        *)
(* checkpoints.                                                            *)
THEOREM HostsImplementSink == Spec => ImplementsSink
<1>1. Init => Sink!Init
  BY DEF Init
<1>2. Inductive /\ [Next]_vars => [Sink!Next]_(Sink!vars)
  <2> SUFFICES ASSUME Inductive, [Next]_vars PROVE [Sink!Next]_(Sink!vars)
    OBVIOUS
  <2>1. ASSUME NEW e \in Message, Publish(e) PROVE Sink!Next
    BY <2>1 DEF Publish, sink, Sink!Next, Sink!Publish
  <2>2. StoresKept => UNCHANGED Sink!vars
    BY DEF StoresKept, hub, sink, Sink!vars
  <2>3. QED
    BY <2>1, <2>2, CallIsSinkStep, StoreEffect
<1>3. QED
  BY InductiveInvariant, <1>1, <1>2, PTL DEF Spec, ImplementsSink, Sink!Spec
=============================================================================
