-------------------------- MODULE LocalStoreProofs --------------------------
(***************************************************************************)
(* What holds of the local emulator for any accounts and messages and any  *)
(* bound, driven by anybody or by any script.                              *)
(***************************************************************************)
EXTENDS SyncDemo, TLAPS

-----------------------------------------------------------------------------
(* Documents.                                                              *)

(* A document only moves to what covers all that it covered.               *)
LEMMA AppliedCovers ==
    ASSUME NEW doc \in Document, NEW e \in Message, Valid(e),
           Transition(doc, e) = "applied", NEW f \in Message
    PROVE  /\ Covers(e, e)
           /\ Covers(doc, f) => Covers(e, f)
           /\ doc = Absent => CurrentVersion(doc) = 0
           /\ e.prev = CurrentVersion(doc)
           /\ doc # Untrusted
BY MessageAssumption, SentinelAssumption
   DEF Document, Envelope, Valid, Transition, Covers, Trusted, CurrentVersion

(* An outcome other than "quarantined" means that the document accounts    *)
(* for the envelope, afterwards.                                           *)
LEMMA OutcomeTells ==
    ASSUME NEW doc \in Document, NEW e \in Message, Valid(e)
    PROVE  /\ Transition(doc, e) \in {"applied", "duplicate", "stale", "quarantined"}
           /\ Transition(doc, e) \in {"duplicate", "stale"} => Covers(doc, e)
BY MessageAssumption, SentinelAssumption
   DEF Document, Envelope, Valid, Transition, Covers, Trusted, CurrentVersion

(* The delivery in progress is a message of the log.                       *)
LEMMA EventInMessage ==
    ASSUME TypeOK, Offset > 0
    PROVE  Event \in Message /\ Event.account \in Account /\ Offset \in 1..Len(log)
BY MessageAssumption DEF TypeOK, Offset, Event

(* The source image is the last captured envelope, where there is one.     *)
LEMMA SourceIsLast ==
    ASSUME TypeOK, CapturedChain, NEW a \in Account
    PROVE  /\ CapturedOf(a) = {} => SourceOf(a) = Absent
           /\ CapturedOf(a) # {} =>
                /\ SourceOf(a) \in CapturedOf(a)
                /\ \A f \in CapturedOf(a) : f.version <= SourceOf(a).version
BY DEF CapturedChain, SourceOf

-----------------------------------------------------------------------------
(* The steps.                                                              *)

(* A fresh database satisfies the invariant.                               *)
LEMMA LocalInit == Init => LocalInvariant
<1> SUFFICES ASSUME Init PROVE LocalInvariant
  OBVIOUS
<1> USE DEF Init
<1>1. TypeOK
  BY DEF TypeOK, Document, Offset
<1>2. SerialDelivery /\ ProcessKnows /\ CapturedChain /\ DeliveredCaptured
  BY DEF SerialDelivery, ProcessKnows, CapturedChain, CapturedOf, DeliveredCaptured, Offset
<1>3. AppliedPrefix
  BY MessageAssumption, SentinelAssumption DEF AppliedPrefix, Covers, Trusted
<1>4. ClaimsTruthful
  BY DEF ClaimsTruthful, TimelineTruthful, ResolvedIsReflected
<1>5. QED
  BY <1>1, <1>2, <1>3, <1>4 DEF LocalInvariant

(* Steps that change neither log nor documents nor captured changes.       *)
Bookkeeping ==
    \/ Redeliver \/ Quarantine \/ AuditSink \/ SaveCheckpoint \/ AuditCheckpoint
    \/ Transient \/ SimulatedCrash \/ Die
    \/ \E e \in Message : ResolveQuarantine(e)

(* A step is a commit that touches neither documents nor log, the commit   *)
(* of a document, a captured change, or a delivery.                        *)
LEMMA StepCases ==
    ASSUME Step
    PROVE  Bookkeeping \/ Apply \/ \E e \in Message : Capture(e) \/ Deliver(e)
BY DEF Step, Process, Bookkeeping

(* Those other commits leave documents, log and captured changes alone.    *)
LEMMA BookkeepingKeeps ==
    ASSUME Bookkeeping
    PROVE  UNCHANGED <<captured, log, docs, applied>>
BY DEF Bookkeeping, Redeliver, Begin, Quarantine, AuditSink, SaveCheckpoint, AuditCheckpoint,
       Transient, SimulatedCrash, Failure, Die, ResolveQuarantine, input, store

(* A delivery appends its message to the log.                              *)
LEMMA DeliverAppends ==
    ASSUME TypeOK, NEW e \in Message, Deliver(e)
    PROVE  /\ log' \in Seq(Message)
           /\ Len(log') = Len(log) + 1
           /\ log'[Len(log) + 1] = e
           /\ \A o \in 1..Len(log) : log'[o] = log[o]
BY DEF TypeOK, Deliver

(* Every commit keeps every variable in its type.                          *)
LEMMA LocalTypes == ASSUME LocalInvariant, Step PROVE TypeOK'
<1> USE DEF TypeOK, Offset
<1>1. TypeOK /\ SerialDelivery /\ ProcessKnows
  BY DEF LocalInvariant
<1>2. ASSUME NEW e \in Message, Capture(e) PROVE TypeOK'
  BY <1>1, <1>2 DEF Capture, store, Envelope
<1>3. ASSUME NEW e \in Message, Deliver(e) PROVE TypeOK'
  <2>1. /\ log' \in Seq(Message) /\ Len(log') = Len(log) + 1
        /\ UNCHANGED <<captured, docs, quarantine, resolved, checkpoint, audit, faults>>
    BY <1>1, <1>3, DeliverAppends DEF Deliver, Begin, store
  <2>2. pc' \in {"apply", "quarantine"} /\ outcome' = "quarantined"
    BY <1>3 DEF Deliver, Begin
  <2>3. Len(log) \in Nat /\ \A o \in 1..Len(log) : o \in 1..Len(log')
    BY <1>1, <2>1
  <2>4. QED
    BY <1>1, <2>1, <2>2, <2>3
<1>4. CASE Apply
  <2>1. /\ Event \in Message /\ Valid(Event) /\ Event.account \in Account
        /\ docs[Event.account] \in Document
    BY <1>1, <1>4, EventInMessage DEF Apply, SerialDelivery, ProcessKnows
  <2>2. outcome' \in {"applied", "duplicate", "stale", "quarantined"}
    BY <1>4, <2>1, OutcomeTells DEF Apply
  <2>3. docs' \in [Account -> Document]
    BY <1>1, <1>4, <2>1 DEF Apply, Document, Envelope
  <2>4. pc' \in {"quarantine", "audit"} /\ UNCHANGED <<input, quarantine, resolved, checkpoint, audit, faults>>
    BY <1>4 DEF Apply
  <2>5. QED
    BY <1>1, <2>2, <2>3, <2>4 DEF input
<1>5. CASE Quarantine
  <2>1. Len(log) \in 1..Len(log)
    BY <1>1, <1>5 DEF Quarantine, SerialDelivery
  <2>2. resolved \subseteq quarantine' /\ quarantine' \subseteq 1..Len(log)
    BY <1>1, <1>5, <2>1 DEF Quarantine
  <2>3. QED
    BY <1>1, <1>5, <2>2 DEF Quarantine, input
<1>6. CASE AuditSink
  <2>1. Len(log) \in 1..Len(log)
    BY <1>1, <1>6 DEF AuditSink, SerialDelivery
  <2>2. \A entry \in audit' : entry.offset \in 1..Len(log)
    BY <1>1, <1>6, <2>1 DEF AuditSink, Entry
  <2>3. QED
    BY <1>1, <1>6, <2>2 DEF AuditSink, input
<1>7. CASE SaveCheckpoint
  BY <1>1, <1>7 DEF SaveCheckpoint, input
<1>8. CASE AuditCheckpoint
  BY <1>1, <1>8 DEF AuditCheckpoint, SerialDelivery, input, Entry
<1>9. CASE Transient \/ SimulatedCrash
  <2>1. Len(log) \in 1..Len(log)
    BY <1>1, <1>9 DEF Transient, SimulatedCrash, Failure, SerialDelivery
  <2>2. \A entry \in audit' : entry.offset \in 1..Len(log)
    BY <1>1, <1>9, <2>1 DEF Transient, SimulatedCrash, Failure, Entry
  <2>3. /\ faults' = faults + 1 /\ pc' = "ready" /\ outcome' \in {"transient-failure", "crash"}
        /\ UNCHANGED <<input, docs, quarantine, resolved, checkpoint>>
    BY <1>9 DEF Transient, SimulatedCrash, Failure
  <2>4. QED
    BY <1>1, <2>2, <2>3 DEF input
<1>10. CASE Die
  BY <1>1, <1>10 DEF Die, input, store
<1>11. ASSUME NEW e \in Message, ResolveQuarantine(e) PROVE TypeOK'
  BY <1>1, <1>11 DEF ResolveQuarantine, input
<1>12. CASE Redeliver
  BY <1>1, <1>12 DEF Redeliver, Begin, store
<1>13. QED
  BY <1>2, <1>3, <1>4, <1>5, <1>6, <1>7, <1>8, <1>9, <1>10, <1>11, <1>12 DEF Step, Process

(* What is covered or in quarantine stays so, and what is in the log.      *)
LEMMA DocsMove ==
    ASSUME LocalInvariant, Step
    PROVE  \A a \in Account, f \in Message : Covers(docs[a], f) => Covers(docs'[a], f)
<1>1. TypeOK /\ SerialDelivery /\ ProcessKnows
  BY DEF LocalInvariant
<1>2. CASE Apply
  <2>1. /\ Event \in Message /\ Valid(Event) /\ Event.account \in Account
        /\ docs[Event.account] \in Document
    BY <1>1, <1>2, EventInMessage DEF Apply, SerialDelivery, ProcessKnows, TypeOK
  <2>2. CASE Transition(docs[Event.account], Event) = "applied"
    <3>1. docs' = [docs EXCEPT ![Event.account] = Event]
      BY <1>2, <2>2 DEF Apply
    <3>2. ASSUME NEW a \in Account, NEW f \in Message, Covers(docs[a], f)
          PROVE  Covers(docs'[a], f)
      <4>1. CASE a = Event.account
        BY <1>1, <2>1, <2>2, <3>1, <3>2, <4>1, AppliedCovers DEF TypeOK
      <4>2. CASE a # Event.account
        BY <1>1, <3>1, <3>2, <4>2 DEF TypeOK
      <4>3. QED
        BY <4>1, <4>2
    <3>3. QED
      BY <3>2
  <2>3. CASE Transition(docs[Event.account], Event) # "applied"
    BY <1>2, <2>3 DEF Apply
  <2>4. QED
    BY <2>2, <2>3
<1>3. CASE docs' = docs
  BY <1>3
<1>4. QED
  BY <1>2, <1>3, StepCases, BookkeepingKeeps DEF Capture, Deliver, Begin, store

(* Deliveries, captured changes, quarantine documents and audit entries    *)
(* are only added.                                                         *)
LEMMA LogGrows ==
    ASSUME LocalInvariant, Step
    PROVE  /\ Offset \in Nat /\ Offset' \in Nat /\ Offset <= Offset'
           /\ \A o \in 1..Offset : log'[o] = log[o]
           /\ quarantine \subseteq quarantine' /\ captured \subseteq captured' /\ audit \subseteq audit'
           /\ \A o \in 1..Offset : log[o] \in Message /\ log[o].account \in Account
<1> USE DEF Offset
<1>1. TypeOK
  BY DEF LocalInvariant
<1>2. \A o \in 1..Offset : log[o] \in Message /\ log[o].account \in Account
  BY <1>1, MessageAssumption DEF TypeOK
<1>3. quarantine \subseteq quarantine' /\ captured \subseteq captured' /\ audit \subseteq audit'
  BY DEF Step, Process, Redeliver, Begin, Quarantine, AuditSink, SaveCheckpoint, AuditCheckpoint,
       Transient, SimulatedCrash, Failure, Die, ResolveQuarantine, input, store, Apply, Capture, Deliver
<1>4. CASE log' = log
  BY <1>1, <1>2, <1>3, <1>4 DEF TypeOK
<1>5. ASSUME NEW e \in Message, Deliver(e)
      PROVE  Offset \in Nat /\ Offset' = Offset + 1 /\ \A o \in 1..Offset : log'[o] = log[o]
  BY <1>1, <1>5, DeliverAppends DEF TypeOK
<1>6. QED
  BY <1>2, <1>3, <1>4, <1>5, StepCases, BookkeepingKeeps DEF Capture, Apply, input

(* A delivery that was accounted for stays accounted for.                  *)
LEMMA SettledStays ==
    ASSUME LocalInvariant, Step
    PROVE  \A o \in 1..Offset : Settled(o) => Settled(o)'
BY DocsMove, LogGrows DEF Settled

(* Deliveries stay serial: what is checkpointed is settled.                *)
LEMMA SerialStep == ASSUME LocalInvariant, Step PROVE SerialDelivery'
<1> DEFINE Phases == {"apply", "quarantine", "audit", "save"}
<1>1. TypeOK /\ SerialDelivery /\ ProcessKnows
  BY DEF LocalInvariant
<1>2. Offset \in Nat /\ checkpoint \in 0..Offset
  BY <1>1, LogGrows DEF TypeOK
<1>3. checkpoint' \in {checkpoint, Offset}
  BY DEF Step, Process, Redeliver, Begin, Quarantine, AuditSink, SaveCheckpoint, AuditCheckpoint,
       Transient, SimulatedCrash, Failure, Die, ResolveQuarantine, input, store, Apply, Capture, Deliver
<1>4. CASE SaveCheckpoint
  <2>1. Offset > 0 /\ pc' = "saved" /\ checkpoint' = Offset /\ UNCHANGED <<input, docs, quarantine>>
    BY <1>1, <1>4 DEF SaveCheckpoint, SerialDelivery
  <2>2. Settled(Offset)
    BY <1>1, <1>4 DEF SaveCheckpoint, ProcessKnows, Settled, Event
  <2>3. \A o \in 1..Offset : Settled(o)
    BY <1>1, <1>2, <2>2 DEF SerialDelivery
  <2>4. Offset' = Offset /\ \A o \in 1..Offset : Settled(o)'
    BY <2>1, <2>3 DEF Settled, Offset, input
  <2>5. QED
    BY <1>2, <2>1, <2>4 DEF SerialDelivery
<1>5. CASE checkpoint' = checkpoint
  <2>1. \A o \in 1..checkpoint' : Settled(o)'
    BY <1>1, <1>2, <1>5, SettledStays DEF SerialDelivery
  <2>2. checkpoint' + 1 >= Offset' /\ (pc' # "ready" => Offset' > 0)
        /\ (pc' \in Phases => checkpoint' < Offset')
    <3>1. ASSUME NEW e \in Message, Deliver(e)
          PROVE  checkpoint = Offset /\ Offset' = Offset + 1
      BY <1>1, <3>1, DeliverAppends DEF Deliver, Offset
    <3>2. CASE Redeliver
      BY <1>1, <1>2, <1>5, <3>2 DEF Redeliver, SerialDelivery, Offset
    <3>3. ASSUME NEW e \in Message, Capture(e) \/ ResolveQuarantine(e)
          PROVE  Offset' = Offset /\ pc' = pc
      BY <3>3 DEF Capture, ResolveQuarantine, input, Offset
    <3>4. CASE Apply \/ Quarantine \/ AuditSink
      <4>1. Offset' = Offset /\ pc \in Phases
        BY <3>4 DEF Apply, Quarantine, AuditSink, input, Offset
      <4>2. QED
        BY <1>1, <1>2, <1>5, <4>1 DEF SerialDelivery
    <3>5. CASE SaveCheckpoint
      BY <1>4, <3>5 DEF SerialDelivery
    <3>6. CASE AuditCheckpoint \/ Transient \/ SimulatedCrash \/ Die
      <4>1. Offset' = Offset /\ pc' = "ready"
        BY <3>6 DEF AuditCheckpoint, Transient, SimulatedCrash, Failure, Die, input, Offset
      <4>2. QED
        BY <1>1, <1>2, <1>5, <4>1 DEF SerialDelivery
    <3>7. QED
      BY <1>1, <1>2, <1>5, <3>1, <3>2, <3>3, <3>4, <3>5, <3>6 DEF Step, Process, SerialDelivery
  <2>3. QED
    BY <2>1, <2>2 DEF SerialDelivery
<1>6. CASE checkpoint' # checkpoint
  BY <1>4, <1>6 DEF Step, Process, Redeliver, Begin, Quarantine, AuditSink, AuditCheckpoint,
       Transient, SimulatedCrash, Failure, Die, ResolveQuarantine, input, store, Apply, Capture, Deliver
<1>7. QED
  BY <1>5, <1>6

(* What process() knows between its commits stays true.                    *)
LEMMA KnowledgeStep == ASSUME LocalInvariant, Step PROVE ProcessKnows'
<1>1. TypeOK /\ SerialDelivery /\ ProcessKnows
  BY DEF LocalInvariant
<1>2. ASSUME NEW e \in Message, Capture(e) \/ ResolveQuarantine(e)
      PROVE  ProcessKnows'
  <2>1. UNCHANGED <<log, docs, quarantine, audit, pc, outcome>>
    BY <1>2 DEF Capture, ResolveQuarantine, input, store
  <2>2. QED
    BY <1>1, <2>1 DEF ProcessKnows, Event, Offset
<1>3. ASSUME NEW e \in Message, Deliver(e)
      PROVE  ProcessKnows'
  <2>1. Event' = e /\ pc' = (IF Valid(e) THEN "apply" ELSE "quarantine") /\ outcome' = "quarantined"
    BY <1>1, <1>3, DeliverAppends DEF Deliver, Begin, Event, Offset
  <2>2. QED
    BY <2>1 DEF ProcessKnows
<1>4. CASE Redeliver
  <2>1. Event' = Event /\ pc' = (IF Valid(Event) THEN "apply" ELSE "quarantine") /\ outcome' = "quarantined"
    BY <1>4 DEF Redeliver, Begin, Event, Offset
  <2>2. QED
    BY <2>1 DEF ProcessKnows
<1>5. CASE Apply
  <2>1. /\ Event \in Message /\ Valid(Event) /\ Event.account \in Account
        /\ docs[Event.account] \in Document
    BY <1>1, <1>5, EventInMessage DEF Apply, SerialDelivery, ProcessKnows, TypeOK
  <2> DEFINE result == Transition(docs[Event.account], Event)
  <2>2. Event' = Event /\ outcome' = result
    BY <1>5 DEF Apply, Event, Offset, input
  <2>3. CASE result = "applied"
    <3>1. docs'[Event.account] = Event /\ pc' = "audit"
      BY <1>1, <1>5, <2>1, <2>3 DEF Apply, TypeOK
    <3>2. QED
      BY <2>1, <2>2, <2>3, <3>1, AppliedCovers DEF ProcessKnows
  <2>4. CASE result = "quarantined"
    BY <1>5, <2>2, <2>4 DEF Apply, ProcessKnows
  <2>5. CASE result \in {"duplicate", "stale"}
    <3>1. docs' = docs /\ pc' = "audit" /\ Covers(docs[Event.account], Event)
      BY <1>5, <2>1, <2>5, OutcomeTells DEF Apply
    <3>2. QED
      BY <2>1, <2>2, <2>5, <3>1 DEF ProcessKnows
  <2>6. QED
    BY <2>1, <2>3, <2>4, <2>5, OutcomeTells
<1>6. CASE Quarantine
  <2>1. Event' = Event /\ Offset' = Offset /\ Offset \in quarantine' /\ pc' = "audit"
        /\ outcome' = "quarantined"
    BY <1>1, <1>6 DEF Quarantine, ProcessKnows, Event, Offset, input
  <2>2. QED
    BY <2>1 DEF ProcessKnows
<1>7. CASE AuditSink
  <2>1. UNCHANGED <<log, docs, quarantine, outcome>> /\ pc = "audit" /\ pc' = "save"
    BY <1>7 DEF AuditSink, input
  <2>2. Entry("sink-durable", outcome) \in audit'
    BY <1>7 DEF AuditSink
  <2>3. \E entry \in audit' : entry.phase = "sink-durable" /\ entry.offset = Offset
    BY <2>2 DEF Entry
  <2>4. QED
    BY <1>1, <2>1, <2>3 DEF ProcessKnows, Event, Offset
<1>8. CASE SaveCheckpoint
  <2>1. UNCHANGED <<log, docs, quarantine, audit, outcome>> /\ pc = "save" /\ pc' = "saved"
    BY <1>8 DEF SaveCheckpoint, input
  <2>2. QED
    BY <1>1, <2>1 DEF ProcessKnows, Event, Offset
<1>9. CASE AuditCheckpoint \/ Transient \/ SimulatedCrash \/ Die
  <2>1. pc' = "ready"
    BY <1>9 DEF AuditCheckpoint, Transient, SimulatedCrash, Failure, Die
  <2>2. QED
    BY <2>1 DEF ProcessKnows
<1>10. QED
  BY <1>2, <1>3, <1>4, <1>5, <1>6, <1>7, <1>8, <1>9 DEF Step, Process

(* Only a capture changes the source's side: a new last envelope.          *)
LEMMA ChainStep == ASSUME LocalInvariant, Step PROVE CapturedChain'
<1>1. TypeOK /\ CapturedChain
  BY DEF LocalInvariant
<1>2. ASSUME NEW e \in Message, Capture(e)
      PROVE  CapturedChain'
  <2>1. captured' = captured \cup {e} /\ Valid(e) /\ e.prev = CurrentVersion(SourceOf(e.account))
    BY <1>2 DEF Capture
  <2>2. e.account \in Account /\ e.version \in Nat /\ e.prev \in Nat /\ e.prev < e.version
    BY <2>1, MessageAssumption DEF Valid
  <2>3. \A f \in captured : f \in Message /\ f.version \in Nat /\ f.prev \in Nat /\ f.version >= 1
                             /\ f.prev < f.version /\ Trusted(f)
    BY <1>1, MessageAssumption, SentinelAssumption DEF TypeOK, Envelope, Valid, Trusted
  <2>4. \A f \in captured : f.account = e.account => f.version <= e.prev
    <3>1. ASSUME NEW f \in captured, f.account = e.account
          PROVE  f.version <= e.prev
      <4>1. f \in CapturedOf(e.account)
        BY <3>1 DEF CapturedOf
      <4>2. SourceOf(e.account) \in captured /\ f.version <= SourceOf(e.account).version
        BY <1>1, <2>2, <4>1, SourceIsLast DEF CapturedOf
      <4>3. CurrentVersion(SourceOf(e.account)) = SourceOf(e.account).version
        BY <2>3, <4>2 DEF CurrentVersion
      <4>4. QED
        BY <2>1, <4>2, <4>3
    <3>2. QED
      BY <3>1
  <2>5. ASSUME NEW x \in captured', NEW f \in captured', x.account = f.account
        PROVE  /\ x.version = f.version => x = f
               /\ f.version < x.version => f.version <= x.prev
    <3>1. CASE x \in captured /\ f \in captured
      BY <1>1, <2>5, <3>1 DEF CapturedChain
    <3>2. CASE x = e /\ f = e
      BY <2>2, <3>2
    <3>3. CASE x = e /\ f \in captured
      BY <2>2, <2>3, <2>4, <2>5, <3>3
    <3>4. CASE x \in captured /\ f = e
      BY <2>2, <2>3, <2>4, <2>5, <3>4
    <3>5. QED
      BY <2>1, <2>5, <3>1, <3>2, <3>3, <3>4
  <2>6. ASSUME NEW a \in Account, CapturedOf(a)' # {}
        PROVE  \E x \in CapturedOf(a)' : \A f \in CapturedOf(a)' : f.version <= x.version
    <3>1. CASE a = e.account
      <4>1. e \in CapturedOf(a)'
        BY <2>1, <3>1 DEF CapturedOf
      <4>2. \A f \in CapturedOf(a)' : f.version <= e.version
        BY <2>1, <2>2, <2>3, <2>4, <3>1 DEF CapturedOf
      <4>3. QED
        BY <4>1, <4>2
    <3>2. CASE a # e.account
      <4>1. CapturedOf(a)' = CapturedOf(a)
        BY <2>1, <3>2 DEF CapturedOf
      <4>2. QED
        BY <1>1, <2>6, <4>1 DEF CapturedChain
    <3>3. QED
      BY <3>1, <3>2
  <2>7. QED
    BY <2>5, <2>6 DEF CapturedChain
<1>3. CASE captured' = captured
  BY <1>1, <1>3 DEF CapturedChain, CapturedOf
<1>4. QED
  BY <1>2, <1>3, StepCases, BookkeepingKeeps DEF Apply, Deliver, Begin, input

(* What is delivered and valid was captured.                               *)
LEMMA DeliveredStep == ASSUME LocalInvariant, Step PROVE DeliveredCaptured'
<1>1. TypeOK /\ DeliveredCaptured
  BY DEF LocalInvariant
<1>2. ASSUME NEW e \in Message, Deliver(e)
      PROVE  DeliveredCaptured'
  <2>1. e \in captured \/ ~Valid(e)
    BY <1>2 DEF Deliver, Deliverable
  <2>2. captured' = captured
    BY <1>2 DEF Deliver, Begin
  <2>3. Len(log) \in Nat
    BY <1>1 DEF TypeOK
  <2>4. \A o \in 1..Len(log') : o \in 1..Len(log) \/ o = Len(log) + 1
    BY <1>1, <1>2, <2>3, DeliverAppends
  <2>5. QED
    BY <1>1, <1>2, <2>1, <2>2, <2>4, DeliverAppends DEF DeliveredCaptured, Offset
<1>3. CASE log' = log /\ captured \subseteq captured'
  BY <1>1, <1>3 DEF DeliveredCaptured, Offset
<1>4. QED
  BY <1>2, <1>3, StepCases, BookkeepingKeeps DEF Apply, Capture, input

(* The applied envelopes remain the captured ones up to the document.      *)
LEMMA PrefixStep == ASSUME LocalInvariant, Step PROVE AppliedPrefix' /\ applied' \subseteq captured'
<1>1. TypeOK /\ SerialDelivery /\ ProcessKnows /\ CapturedChain /\ AppliedPrefix
      /\ DeliveredCaptured /\ applied \subseteq captured
  BY DEF LocalInvariant
<1>2. \A f \in captured : f \in Message /\ f.account \in Account /\ f.version \in Nat
                          /\ f.version >= 1 /\ Trusted(f)
  BY <1>1, MessageAssumption, SentinelAssumption DEF TypeOK, Envelope, Valid, Trusted
<1>3. ASSUME NEW e \in Message, Capture(e)
      PROVE  AppliedPrefix' /\ applied' \subseteq captured'
  <2>1. /\ captured' = captured \cup {e} /\ Valid(e) /\ e.prev = CurrentVersion(SourceOf(e.account))
        /\ UNCHANGED <<docs, applied>>
    BY <1>3 DEF Capture, store
  <2>2. e.account \in Account /\ e.version \in Nat /\ e.prev \in Nat /\ e.prev < e.version
    BY <2>1, MessageAssumption DEF Valid
  <2>3. ~Covers(docs[e.account], e) \/ e \in captured
    <3>1. CASE docs[e.account] = Absent
      BY <3>1 DEF Covers, Trusted
    <3>2. CASE docs[e.account] \in CapturedOf(e.account)
      <4>1. /\ SourceOf(e.account) \in captured
            /\ docs[e.account] \in captured
            /\ docs[e.account].version <= SourceOf(e.account).version
        BY <1>1, <2>2, <3>2, SourceIsLast DEF CapturedOf
      <4>2. CurrentVersion(SourceOf(e.account)) = SourceOf(e.account).version
        BY <1>2, <4>1 DEF CurrentVersion
      <4>3. docs[e.account].version < e.version
        BY <1>2, <2>1, <2>2, <4>1, <4>2
      <4>4. QED
        BY <1>2, <2>2, <4>1, <4>3 DEF Covers
    <3>3. QED
      BY <1>1, <2>2, <3>1, <3>2 DEF AppliedPrefix
  <2>4. QED
    BY <1>1, <2>1, <2>3 DEF AppliedPrefix, CapturedOf
<1>4. CASE Apply
  <2> DEFINE e == Event
             a == Event.account
  <2>1. /\ e \in Message /\ Valid(e) /\ a \in Account /\ docs[a] \in Document /\ captured' = captured
        /\ Offset \in 1..Offset
    BY <1>1, <1>4, EventInMessage DEF Apply, SerialDelivery, ProcessKnows, TypeOK, input, Offset
  <2>2. e \in captured
    BY <1>1, <2>1 DEF DeliveredCaptured, Event
  <2>3. CASE Transition(docs[a], e) = "applied"
    <3>1. docs' = [docs EXCEPT ![a] = e] /\ applied' = applied \cup {e}
      BY <1>4, <2>3 DEF Apply
    <3>2. docs'[a] = e /\ \A b \in Account \ {a} : docs'[b] = docs[b]
      BY <1>1, <2>1, <3>1 DEF TypeOK
    <3>3. ASSUME NEW f \in Message, f.account = a
          PROVE  f \in applied' <=> f \in captured /\ Covers(e, f)
      <4>1. ASSUME f \in applied'
            PROVE  f \in captured /\ Covers(e, f)
        <5>1. CASE f = e
          BY <2>1, <2>2, <2>3, <5>1, AppliedCovers
        <5>2. CASE f \in applied
          <6>1. f \in captured /\ Covers(docs[a], f)
            BY <1>1, <3>3, <5>2 DEF AppliedPrefix
          <6>2. QED
            BY <2>1, <2>3, <6>1, AppliedCovers
        <5>3. QED
          BY <3>1, <4>1, <5>1, <5>2
      <4>2. ASSUME f \in captured, Covers(e, f), f # e
            PROVE  f \in applied
        <5>1. f.version < e.version /\ f.version <= e.prev
          BY <1>1, <2>2, <3>3, <4>2 DEF Covers, CapturedChain
        <5>2. e.prev = CurrentVersion(docs[a]) /\ docs[a] # Untrusted
          BY <2>1, <2>3, AppliedCovers
        <5>3. docs[a] # Absent
          BY <1>2, <2>1, <2>3, <4>2, <5>1, <5>2, AppliedCovers
        <5>4. docs[a] \in captured /\ docs[a].account = a
          BY <1>1, <2>1, <5>3 DEF AppliedPrefix, CapturedOf
        <5>5. Trusted(docs[a]) /\ f.version <= docs[a].version
          BY <1>2, <5>1, <5>2, <5>4 DEF CurrentVersion
        <5>6. Covers(docs[a], f)
          BY <1>1, <1>2, <3>3, <4>2, <5>4, <5>5 DEF Covers, CapturedChain
        <5>7. QED
          BY <1>1, <3>3, <4>2, <5>6 DEF AppliedPrefix
      <4>3. QED
        BY <3>1, <4>1, <4>2
    <3>4. ASSUME NEW f \in Message, f.account # a
          PROVE  f \in applied' <=> f \in captured /\ Covers(docs'[f.account], f)
      <4>1. f \in applied' <=> f \in applied
        BY <3>1, <3>4
      <4>2. f.account \in Account
        BY MessageAssumption
      <4>3. QED
        BY <1>1, <3>2, <3>4, <4>1, <4>2 DEF AppliedPrefix
    <3>5. \A b \in Account : docs'[b] # Untrusted /\ (docs'[b] # Absent => docs'[b] \in CapturedOf(b)')
      BY <1>1, <2>1, <2>2, <3>2, SentinelAssumption DEF AppliedPrefix, CapturedOf
    <3>6. QED
      BY <1>1, <2>1, <2>2, <3>1, <3>2, <3>3, <3>4, <3>5 DEF AppliedPrefix
  <2>4. CASE Transition(docs[a], e) # "applied"
    BY <1>1, <1>4, <2>1, <2>4 DEF Apply, AppliedPrefix, CapturedOf
  <2>5. QED
    BY <2>3, <2>4
<1>5. CASE UNCHANGED <<captured, docs, applied>>
  BY <1>1, <1>5 DEF AppliedPrefix, CapturedOf
<1>6. QED
  BY <1>3, <1>4, <1>5, StepCases, BookkeepingKeeps DEF Deliver, Begin, store

(* What an entry or a resolution says of the store stays true.             *)
EntryTrue(entry) ==
    entry.phase = "sink-durable" =>
        IF entry.outcome = "quarantined" THEN entry.offset \in quarantine
        ELSE Covers(docs[log[entry.offset].account], log[entry.offset])

(* What the audit says of a delivery stays true.                           *)
LEMMA EntriesStay ==
    ASSUME LocalInvariant, Step, NEW entry \in audit
    PROVE  EntryTrue(entry)'
<1>1. entry.offset \in 1..Offset /\ EntryTrue(entry)
  BY DEF LocalInvariant, TypeOK, ClaimsTruthful, TimelineTruthful, EntryTrue
<1>2. QED
  BY <1>1, DocsMove, LogGrows DEF EntryTrue

(* No commit adds an audit entry or a resolution that is not true.         *)
LEMMA ClaimsStep == ASSUME LocalInvariant, Step PROVE ClaimsTruthful'
<1>1. TypeOK /\ SerialDelivery /\ ProcessKnows /\ TimelineTruthful /\ ResolvedIsReflected
  BY DEF LocalInvariant, ClaimsTruthful
<1>2. \A entry \in audit' : EntryTrue(entry)'
  <2>1. CASE AuditSink
    <3>1. /\ audit' = audit \cup {Entry("sink-durable", outcome)}
          /\ UNCHANGED <<log, docs, quarantine>> /\ pc = "audit"
      BY <2>1 DEF AuditSink, input
    <3>2. ASSUME NEW entry \in audit', entry = Entry("sink-durable", outcome)
          PROVE  EntryTrue(entry)'
      BY <1>1, <3>1, <3>2 DEF EntryTrue, Entry, ProcessKnows, Event
    <3>3. QED
      BY <3>1, <3>2, EntriesStay
  <2>2. ASSUME NEW entry \in audit', ~AuditSink
        PROVE  EntryTrue(entry)'
    <3>1. entry \in audit \/ entry.phase # "sink-durable"
      <4>1. CASE audit' = audit
        BY <2>2, <4>1
      <4>2. CASE AuditCheckpoint \/ Transient \/ SimulatedCrash
        BY <2>2, <4>2 DEF AuditCheckpoint, Transient, SimulatedCrash, Failure, Entry
      <4>3. QED
        BY <2>2, <4>1, <4>2 DEF Step, Process, Redeliver, Begin, Quarantine, SaveCheckpoint,
           Die, ResolveQuarantine, store, Apply, Capture, Deliver
    <3>2. QED
      BY <3>1, EntriesStay DEF EntryTrue
  <2>3. QED
    BY <2>1, <2>2
<1>3. \A o \in 1..checkpoint' : \E entry \in audit' : entry.phase = "sink-durable" /\ entry.offset = o
  <2>1. CASE SaveCheckpoint
    <3>1. checkpoint' = Offset /\ audit' = audit
      BY <2>1 DEF SaveCheckpoint
    <3>2. \E entry \in audit : entry.phase = "sink-durable" /\ entry.offset = Offset
      BY <1>1, <2>1 DEF SaveCheckpoint, ProcessKnows
    <3>3. \A o \in 1..Offset : o = Offset \/ o \in 1..checkpoint
      BY <1>1, LogGrows DEF SerialDelivery, TypeOK
    <3>4. QED
      BY <1>1, <3>1, <3>2, <3>3 DEF TimelineTruthful
  <2>2. CASE checkpoint' = checkpoint
    BY <1>1, <2>2, LogGrows DEF TimelineTruthful
  <2>3. QED
    BY <2>1, <2>2 DEF Step, Process, Redeliver, Begin, Quarantine, AuditSink, AuditCheckpoint,
       Transient, SimulatedCrash, Failure, Die, ResolveQuarantine, store, Apply, Capture, Deliver
<1>4. ResolvedIsReflected'
  <2>1. ASSUME NEW o \in resolved
        PROVE  Covers(docs'[log'[o].account], log'[o])
    <3>1. o \in 1..Offset /\ Covers(docs[log[o].account], log[o])
      BY <1>1 DEF TypeOK, ResolvedIsReflected
    <3>2. QED
      BY <3>1, DocsMove, LogGrows
  <2>2. ASSUME NEW e \in Message, ResolveQuarantine(e)
        PROVE  ResolvedIsReflected'
    <3>1. PICK entry \in audit :
            /\ entry.phase = "sink-durable"
            /\ entry.outcome \in {"applied", "duplicate"}
            /\ log[entry.offset] = e
      BY <2>2 DEF ResolveQuarantine, Replayed
    <3>2. Covers(docs[e.account], e)
      BY <1>1, <3>1 DEF TimelineTruthful
    <3>3. /\ resolved' = resolved \cup {o \in quarantine : log[o] = e}
          /\ UNCHANGED <<log, docs>>
      BY <2>2 DEF ResolveQuarantine, input
    <3>4. QED
      BY <1>1, <3>2, <3>3 DEF ResolvedIsReflected
  <2>3. CASE resolved' = resolved
    BY <2>1, <2>3 DEF ResolvedIsReflected
  <2>4. QED
    BY <2>2, <2>3 DEF Step, Process, Redeliver, Begin, Quarantine, AuditSink, SaveCheckpoint, AuditCheckpoint,
       Transient, SimulatedCrash, Failure, Die, store, Apply, Capture, Deliver
<1>5. QED
  BY <1>2, <1>3, <1>4 DEF ClaimsTruthful, TimelineTruthful, EntryTrue

-----------------------------------------------------------------------------
(* The specification.                                                      *)

(* Whoever drives the store, with or without a script, takes its steps.    *)
LEMMA DemoSteps == ASSUME [DemoNext]_demoVars PROVE Step \/ UNCHANGED vars
<1>1. ASSUME Next PROVE Step
  BY <1>1, LocalAssumption DEF Next, Step
<1>2. ASSUME ScriptNext PROVE Step \/ UNCHANGED vars
  <2>1. ASSUME Doing("capture") \/ Doing("deliver") \/ Doing("resolve")
        PROVE  Line.event \in Message
    BY <2>1, ScriptAssumption DEF Doing, Line
  <2>2. QED
    BY <1>2, <2>1 DEF ScriptNext, CaptureLine, DeliverLine, ProcessLine, ReturnLine,
       ResolveLine, CheckLine, Step
<1>3. QED
  BY <1>1, <1>2 DEF DemoNext, Anybody, demoVars

(* Every step of the demo keeps the invariant.                             *)
LEMMA InvariantStep == LocalInvariant /\ [DemoNext]_demoVars => LocalInvariant'
<1> SUFFICES ASSUME LocalInvariant, [DemoNext]_demoVars
             PROVE  LocalInvariant'
  OBVIOUS
<1>1. CASE Step
  BY <1>1, LocalTypes, SerialStep, KnowledgeStep, ChainStep, PrefixStep, DeliveredStep, ClaimsStep
     DEF LocalInvariant
<1>2. CASE UNCHANGED vars
  <2> USE <1>2 DEF vars, input, store
  <2>1. TypeOK' /\ applied' \subseteq captured'
    BY DEF LocalInvariant, TypeOK, Offset
  <2>2. SerialDelivery' /\ ProcessKnows' /\ DeliveredCaptured'
    BY DEF LocalInvariant, SerialDelivery, ProcessKnows, DeliveredCaptured, Settled, Offset, Event
  <2>3. CapturedChain' /\ AppliedPrefix'
    BY DEF LocalInvariant, CapturedChain, AppliedPrefix, CapturedOf
  <2>4. ClaimsTruthful'
    BY DEF LocalInvariant, ClaimsTruthful, TimelineTruthful, ResolvedIsReflected
  <2>5. QED
    BY <2>1, <2>2, <2>3, <2>4 DEF LocalInvariant
<1>3. QED
  BY <1>1, <1>2, DemoSteps

(* The inductive invariant holds in every state of the local emulator.     *)
THEOREM InvariantHolds == DemoSpec => []LocalInvariant
<1>1. DemoInit => LocalInvariant
  BY LocalInit DEF DemoInit
<1>2. QED
  BY <1>1, InvariantStep, PTL DEF DemoSpec

(* Every variable keeps its type: quarantine documents, resolutions and    *)
(* audit entries are of deliveries that were made.                         *)
THEOREM LocalTypeCorrect == DemoSpec => []TypeOK
<1>1. LocalInvariant => TypeOK
  BY DEF LocalInvariant
<1>2. QED
  BY <1>1, InvariantHolds, PTL

(* What the timeline and the resolutions say of the store is so, whatever  *)
(* death separates the commits (sync_engine.py:43-57,                      *)
(* sync_store.py:64-70).                                                   *)
THEOREM TimelineIsTruthful == DemoSpec => []ClaimsTruthful
<1>1. LocalInvariant => ClaimsTruthful
  BY DEF LocalInvariant
<1>2. QED
  BY <1>1, InvariantHolds, PTL

(* Only the last commit of a delivery touches the checkpoint, and it comes *)
(* after all that is before it is settled.                                 *)
LEMMA CheckpointStep ==
    ASSUME LocalInvariant, LocalInvariant', Step \/ UNCHANGED vars, checkpoint' # checkpoint
    PROVE  checkpoint' = checkpoint + 1 /\ Settled(checkpoint)'
<1>1. SaveCheckpoint
  BY DEF Step, Process, Capture, Deliver, Redeliver, Begin, Apply, Quarantine, AuditSink,
         AuditCheckpoint, Transient, SimulatedCrash, Failure, Die, ResolveQuarantine, vars, store
<1>2. /\ checkpoint \in Nat /\ Offset \in Nat
      /\ checkpoint + 1 >= Offset /\ checkpoint < Offset
      /\ checkpoint' = Offset
  BY <1>1 DEF LocalInvariant, TypeOK, SerialDelivery, SaveCheckpoint, Offset
<1>3. checkpoint' = checkpoint + 1 /\ checkpoint' \in 1..checkpoint'
  BY <1>2
<1>4. (\A o \in 1..checkpoint : Settled(o))'
  BY DEF LocalInvariant, SerialDelivery
<1>5. QED
  BY <1>3, <1>4

(* The saved offset advances by one settled delivery at a time, although   *)
(* the store keeps the last offset saved and not the highest               *)
(* (sync_store.py:83-88).                                                  *)
THEOREM CheckpointAdvances == DemoSpec => CheckpointInOrder
<1>1. ASSUME LocalInvariant, LocalInvariant', [DemoNext]_demoVars
      PROVE  [checkpoint' # checkpoint =>
                checkpoint' = checkpoint + 1 /\ Settled(checkpoint)']_checkpoint
  BY <1>1, DemoSteps, CheckpointStep
<1>2. QED
  BY <1>1, InvariantHolds, PTL DEF DemoSpec, CheckpointInOrder

(* Reconciliation compares contents and versions; with the invariant that  *)
(* comes to asking whether every captured change was applied.              *)
LEMMA ReconcileIsExact == ASSUME LocalInvariant PROVE ReconcileExact
<1>1. TypeOK /\ CapturedChain /\ AppliedPrefix /\ applied \subseteq captured
  BY DEF LocalInvariant
<1>2. \A f \in captured : f \in Message /\ f.account \in Account /\ f.version \in Nat
                          /\ f.version >= 1 /\ Trusted(f) /\ f \in CapturedOf(f.account)
  BY <1>1, MessageAssumption, SentinelAssumption DEF TypeOK, Envelope, Valid, Trusted, CapturedOf
<1>3. ASSUME Mismatches = {}, NEW f \in captured
      PROVE  f \in applied
  <2> DEFINE a == f.account
  <2>1. a \in Account /\ docs[a] = SourceOf(a)
    BY <1>2, <1>3 DEF Mismatches
  <2>2. SourceOf(a) \in captured /\ SourceOf(a).account = a /\ f.version <= SourceOf(a).version
    BY <1>1, <1>2, <2>1, SourceIsLast DEF CapturedOf
  <2>3. Covers(docs[a], f)
    BY <1>1, <1>2, <2>1, <2>2 DEF Covers, CapturedChain
  <2>4. QED
    BY <1>1, <1>2, <2>3 DEF AppliedPrefix
<1>4. ASSUME applied = captured, NEW a \in Account
      PROVE  docs[a] = SourceOf(a)
  <2>1. CASE CapturedOf(a) = {}
    BY <1>1, <2>1, SourceIsLast DEF AppliedPrefix
  <2>2. CASE CapturedOf(a) # {}
    <3>1. SourceOf(a) \in captured /\ SourceOf(a).account = a
      BY <1>1, <2>2, SourceIsLast DEF CapturedOf
    <3>2. Covers(docs[a], SourceOf(a))
      BY <1>1, <1>2, <1>4, <3>1 DEF AppliedPrefix
    <3>3. docs[a] \in CapturedOf(a)
      BY <1>1, <3>2 DEF AppliedPrefix, Covers, Trusted
    <3>4. docs[a].version <= SourceOf(a).version
      BY <1>1, <2>2, <3>3, SourceIsLast
    <3>5. QED
      BY <1>2, <3>1, <3>2, <3>3, <3>4 DEF Covers, CapturedOf
  <2>3. QED
    BY <2>1, <2>2
<1>5. QED
  BY <1>1, <1>3, <1>4 DEF ReconcileExact, Mismatches

(* A captured change that was delivered and not applied lies in            *)
(* quarantine, and no resolution has been acknowledged for it.             *)
LEMMA DifferencesPend == ASSUME LocalInvariant PROVE DifferenceIsPending
<1> SUFFICES ASSUME checkpoint = Offset,
                    captured \subseteq {log[o] : o \in 1..Offset},
                    Mismatches # {}
             PROVE  Pending # {}
  BY DEF DifferenceIsPending
<1>1. TypeOK /\ SerialDelivery /\ AppliedPrefix /\ applied \subseteq captured /\ ResolvedIsReflected
  BY DEF LocalInvariant, ClaimsTruthful
<1>2. PICK e \in captured : e \notin applied
  BY <1>1, ReconcileIsExact DEF ReconcileExact
<1>3. PICK o \in 1..Offset : log[o] = e
  BY <1>2
<1>4. e \in Message /\ ~Covers(docs[e.account], e)
  BY <1>1, <1>2 DEF AppliedPrefix, TypeOK, Envelope
<1>5. o \in quarantine
  BY <1>1, <1>3, <1>4 DEF SerialDelivery, Settled
<1>6. o \notin resolved
  BY <1>1, <1>3, <1>4 DEF ResolvedIsReflected
<1>7. QED
  BY <1>5, <1>6 DEF Pending

(* Reconciliation is equal exactly when everything captured was applied,   *)
(* and what was delivered and differs is pending in quarantine: no lost    *)
(* change is hidden (sync_demo.py:20-45, 152-156).                         *)
THEOREM NothingIsHidden == DemoSpec => []NoDifferenceHidden
<1>1. LocalInvariant => NoDifferenceHidden
  BY ReconcileIsExact, DifferencesPend DEF NoDifferenceHidden
<1>2. QED
  BY <1>1, InvariantHolds, PTL

-----------------------------------------------------------------------------
(* The emulator implements the sink.                                       *)

(* The empty database is an initial state of the sink.                     *)
LEMMA SinkInit == Init => Sink!Init
BY DEF Init, Sink!Init

(* The sink decides as the store does.                                     *)
LEMMA SameDecision ==
    ASSUME NEW doc, NEW e
    PROVE  /\ Sink!Valid(e) <=> Valid(e)
           /\ Sink!Covers(doc, e) <=> Covers(doc, e)
           /\ Sink!Transition(doc, e) = Transition(doc, e)
BY DEF Sink!Valid, Valid, Sink!Covers, Covers, Sink!Trusted, Trusted, Sink!Transition, Transition,
       Sink!CurrentVersion, CurrentVersion

(* The one partition, and what is settled on it.                           *)
LEMMA OnStream == [p \in {Stream} |-> log][Stream] = log
OBVIOUS

(* The sink and the store mean the same by a settled delivery.             *)
LEMMA SinkSettled ==
    ASSUME NEW o
    PROVE  /\ <<Stream, o>> \in {<<Stream, i>> : i \in quarantine} <=> o \in quarantine
           /\ Sink!Settled(Stream, o) <=> Settled(o)
<1>1. <<Stream, o>> \in {<<Stream, i>> : i \in quarantine} <=> o \in quarantine
  OBVIOUS
<1>2. QED
  BY <1>1, OnStream, SameDecision DEF Sink!Settled, Settled

(* A commit that touches none of what the sink knows is a stutter.         *)
LEMMA SinkStutters ==
    ASSUME UNCHANGED <<log, docs, quarantine, checkpoint, applied>>
    PROVE  UNCHANGED Sink!vars
BY DEF Sink!vars

(* All that precedes the delivery in progress is settled, and so is the    *)
(* delivery itself when it is checkpointed.                                *)
LEMMA BeforeIsSettled ==
    ASSUME LocalInvariant, pc \in {"apply", "quarantine", "save"}
    PROVE  /\ Offset \in 1..Len(log) /\ Event \in Message
           /\ Sink!SettledBefore(Stream, Offset)
           /\ pc = "save" => Sink!SettledBefore(Stream, Offset + 1)
<1>1. TypeOK /\ SerialDelivery /\ ProcessKnows
  BY DEF LocalInvariant
<1>2. Offset \in 1..Len(log) /\ Event \in Message /\ checkpoint = Offset - 1
  BY <1>1, EventInMessage DEF SerialDelivery, TypeOK
<1>3. \A o \in 1..(Offset - 1) : Settled(o)
  BY <1>1, <1>2 DEF SerialDelivery
<1>4. pc = "save" => Settled(Offset)
  BY <1>1 DEF ProcessKnows, Settled, Event
<1>5. \A o \in 1..(Offset + 1 - 1) : o \in 1..(Offset - 1) \/ o = Offset
  BY <1>2
<1>6. QED
  BY <1>2, <1>3, <1>4, <1>5, SinkSettled DEF Sink!SettledBefore

(* A quarantine step of the sink is a step of its specification.           *)
LEMMA SinkMoves ==
    ASSUME NEW o \in 1..Len(log), Sink!Quarantine(Stream, o)
    PROVE  Sink!Next
<1>1. Stream \in {Stream} /\ o \in 1..Len([p \in {Stream} |-> log][Stream])
  BY OnStream
<1>2. QED
  BY <1>1 DEF Sink!Next

(* Every commit is a step of the sink, or a stutter.                       *)
LEMMA SinkStep ==
    ASSUME LocalInvariant, Step
    PROVE  [Sink!Next]_(Sink!vars)
<1>1. TypeOK /\ SerialDelivery /\ ProcessKnows /\ AppliedPrefix
  BY DEF LocalInvariant
<1>2. ASSUME NEW e \in Message, Deliver(e)
      PROVE  Sink!Next
  <2>1. log' = Append(log, e) /\ UNCHANGED <<docs, quarantine, checkpoint, applied>>
    BY <1>2 DEF Deliver, Begin, store
  <2>2. e.account \in Account
    BY MessageAssumption
  <2>3. Sink!Publish(e)
    BY <2>1, <2>2 DEF Sink!Publish
  <2>4. QED
    BY <2>3 DEF Sink!Next
<1>3. CASE Apply
  <2>1. UNCHANGED <<log, quarantine, checkpoint>> /\ pc = "apply"
    BY <1>3 DEF Apply, input
  <2>2. CASE Transition(docs[Event.account], Event) = "applied"
    <3>1. docs' = [docs EXCEPT ![Event.account] = Event] /\ applied' = applied \cup {Event} /\ Valid(Event)
      BY <1>1, <1>3, <2>2 DEF Apply, ProcessKnows
    <3>2. Sink!Apply(Stream, Offset)
      BY <2>1, <2>2, <3>1, BeforeIsSettled, OnStream, SameDecision DEF Sink!Apply, Event
    <3>3. QED
      BY <2>1, <3>2, BeforeIsSettled DEF Sink!Next
  <2>3. CASE Transition(docs[Event.account], Event) # "applied"
    BY <1>3, <2>1, <2>3, SinkStutters DEF Apply
  <2>4. QED
    BY <2>2, <2>3
<1>4. CASE Quarantine
  <2>1. UNCHANGED <<log, docs, checkpoint, applied>> /\ quarantine' = quarantine \cup {Offset} /\ pc = "quarantine"
    BY <1>4 DEF Quarantine, input
  <2>2. Event.account \in Account /\ Offset \in 1..Len(log) /\ Sink!SettledBefore(Stream, Offset)
    BY <2>1, BeforeIsSettled, MessageAssumption
  <2>3. docs[Event.account] \in Sink!Had(Event.account)
    <3>1. CASE docs[Event.account] = Absent
      BY <3>1, SentinelAssumption DEF Sink!Had
    <3>2. CASE docs[Event.account] \in CapturedOf(Event.account)
      <4>1. /\ docs[Event.account] \in captured /\ docs[Event.account].account = Event.account
            /\ docs[Event.account] \in Message
        BY <1>1, <3>2 DEF CapturedOf, TypeOK, Envelope
      <4>2. Covers(docs[Event.account], docs[Event.account])
        BY <4>1, SentinelAssumption DEF Covers, Trusted
      <4>3. docs[Event.account] \in applied
        BY <1>1, <4>1, <4>2 DEF AppliedPrefix
      <4>4. QED
        BY <4>1, <4>3, SentinelAssumption DEF Sink!Had
    <3>3. QED
      BY <1>1, <2>2, <3>1, <3>2 DEF AppliedPrefix
  <2>4. Sink!Reflects(docs[Event.account], Stream, Offset)
    <3>1. ASSUME NEW i \in 1..(Offset - 1), log[i].account = log[Offset].account, i \notin quarantine
          PROVE  Covers(docs[Event.account], log[i])
      <4>1. Settled(i)
        BY <2>2, SinkSettled DEF Sink!SettledBefore
      <4>2. QED
        BY <3>1, <4>1 DEF Settled, Event
    <3>2. \A i \in 1..(Offset - 1) :
             \/ log[i].account # log[Offset].account
             \/ <<Stream, i>> \in {<<Stream, o>> : o \in quarantine}
             \/ Covers(docs[Event.account], log[i])
      BY <3>1, SinkSettled
    <3>3. QED
      BY <3>2, OnStream, SameDecision DEF Sink!Reflects
  <2>5. ~Valid(Event) \/ Transition(docs[Event.account], Event) = "quarantined"
    BY <1>1, <2>1 DEF ProcessKnows
  <2>6. {<<Stream, o>> : o \in quarantine'} = {<<Stream, o>> : o \in quarantine} \cup {<<Stream, Offset>>}
    BY <2>1
  <2>7. PICK o \in 1..Len(log) : o = Offset
    BY <2>2
  <2>8. Sink!Quarantine(Stream, o)
    BY <2>1, <2>2, <2>3, <2>4, <2>5, <2>6, <2>7, OnStream, SameDecision DEF Sink!Quarantine, Event
  <2>9. QED
    BY <2>7, <2>8, SinkMoves
<1>5. CASE SaveCheckpoint
  <2>1. UNCHANGED <<log, docs, quarantine, applied>> /\ checkpoint' = Offset /\ pc = "save"
    BY <1>5 DEF SaveCheckpoint, input
  <2>2. Sink!Checkpoint(Stream, Offset)
    BY <2>1, BeforeIsSettled DEF Sink!Checkpoint
  <2>3. QED
    BY <2>1, <2>2, BeforeIsSettled DEF Sink!Next
<1>6. CASE UNCHANGED <<log, docs, quarantine, checkpoint, applied>>
  BY <1>6, SinkStutters
<1>7. QED
  BY <1>2, <1>3, <1>4, <1>5, <1>6 DEF Step, Process, Redeliver, Begin, AuditSink, AuditCheckpoint,
     Transient, SimulatedCrash, Failure, Die, ResolveQuarantine, input, store, Capture

(* With its commits apart and the process dying between them, the emulator *)
(* keeps the promise the Cosmos consumer keeps: its effects are in order,  *)
(* each judged against a document that reflects what came before           *)
(* (sync_store.py:28, sync_engine.py:43).                                  *)
THEOREM LocalStoreKeepsSink == DemoSpec => KeepsSink
<1>1. LocalInvariant /\ [DemoNext]_demoVars => [Sink!Next]_(Sink!vars)
  BY SinkStep, SinkStutters, DemoSteps DEF vars, input, store
<1>2. DemoInit => Sink!Init
  BY SinkInit DEF DemoInit
<1>3. QED
  BY <1>1, <1>2, InvariantHolds, PTL DEF DemoSpec, KeepsSink, Sink!Spec
=============================================================================
