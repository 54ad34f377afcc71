-------------------------- MODULE GuidedRunProofs ---------------------------
(***************************************************************************)
(* What holds of a run of the guided demo for any number of requests,      *)
(* rows, partitions and phases, and any number of faults.                  *)
(***************************************************************************)
EXTENDS GuidedRun, TLAPS

-----------------------------------------------------------------------------
(* The data of a run.                                                      *)

(* The six steps and their places.                                         *)
LEMMA StepNames ==
    /\ Len(Steps) = 6 /\ DOMAIN Steps = 1..6
    /\ Step = {"source", "transfer", "parse", "publish", "apply", "verify"}
    /\ Steps[1] = "source" /\ Steps[2] = "transfer" /\ Steps[3] = "parse"
    /\ Steps[4] = "publish" /\ Steps[5] = "apply" /\ Steps[6] = "verify"
BY DEF Steps, Step

(* The place of a step in the list is the inverse of the list.             *)
LEMMA StepPlaces ==
    /\ \A s \in Step : Index(s) \in 1..6 /\ Steps[Index(s)] = s
    /\ \A i \in 1..6 : Steps[i] \in Step /\ Index(Steps[i]) = i
    /\ Index("source") = 1 /\ Index("transfer") = 2 /\ Index("parse") = 3
    /\ Index("publish") = 4 /\ Index("apply") = 5 /\ Index("verify") = 6
<1>1. \A s \in Step : \E i \in 1..6 : Steps[i] = s
  BY StepNames DEF Step
<1>2. \A s \in Step : Index(s) \in 1..6 /\ Steps[Index(s)] = s
  BY <1>1, StepNames DEF Index
<1>3. \A i, j \in 1..6 : Steps[i] = Steps[j] => i = j
  BY StepNames
<1>4. \A i \in 1..6 : Steps[i] \in Step
  BY StepNames DEF Step
<1>5. \A i \in 1..6 : Index(Steps[i]) = i
  BY <1>2, <1>3, <1>4
<1>6. QED
  BY <1>2, <1>4, <1>5, StepNames

(* A run has at least one row, and each account a partition.               *)
LEMMA RowsOfRun ==
    /\ Rows \in Seq(Account) /\ Len(Rows) \in Nat \ {0}
    /\ DOMAIN Rows = 1..Len(Rows) /\ Rows[1] \in Account
    /\ PartitionOf \in [Account -> Partition]
<1>1. Rows \in Seq(Account) /\ Rows # <<>> /\ PartitionOf \in [Account -> Partition]
  BY RunAssumption DEF Account
<1>2. QED
  BY <1>1

(* The events of a phase.                                                  *)
LEMMA PhaseEvents ==
    ASSUME NEW n \in Nat \ {0}
    PROVE  /\ RowsOf(n) \in Seq(Account)
           /\ Len(RowsOf(n)) \in 1..Len(Rows) /\ Len(RowsOf(n)) \in Nat
           /\ \A i \in 1..Len(RowsOf(n)) : Event(RowsOf(n)[i], n) \in EventsOf(n)
           /\ \A e \in EventsOf(n) :
                 /\ e \in [account : Account, phase : {n}]
                 /\ n # 1 => e.account = Rows[1]
                 /\ \E i \in 1..Len(RowsOf(n)) : e = Event(RowsOf(n)[i], n)
           /\ \A a \in Account : n = 1 \/ a = Rows[1] => Event(a, n) \in EventsOf(n)
<1>1. RowsOf(n) \in Seq(Account) /\ Len(RowsOf(n)) \in 1..Len(Rows)
  BY RowsOfRun DEF RowsOf
<1>2. EventsOf(n) = {Event(RowsOf(n)[i], n) : i \in 1..Len(RowsOf(n))}
  BY <1>1 DEF EventsOf
<1>3. \A i \in 1..Len(RowsOf(n)) : RowsOf(n)[i] \in Account
  BY <1>1
<1>4. n # 1 => Len(RowsOf(n)) = 1 /\ RowsOf(n)[1] = Rows[1]
  BY DEF RowsOf
<1>5. ASSUME NEW a \in Account, n = 1 \/ a = Rows[1]
      PROVE  \E i \in 1..Len(RowsOf(n)) : RowsOf(n)[i] = a
  BY <1>1, <1>4, <1>5, RowsOfRun DEF Account, RowsOf
<1>6. \A e \in EventsOf(n) : \E i \in 1..Len(RowsOf(n)) : e = Event(RowsOf(n)[i], n)
  BY <1>2
<1>7. \A i \in 1..Len(RowsOf(n)) : Event(RowsOf(n)[i], n) \in EventsOf(n)
  BY <1>2
<1>8. ASSUME NEW i \in 1..Len(RowsOf(n)), n # 1 PROVE RowsOf(n)[i] = Rows[1]
  <2>1. Len(RowsOf(n)) = 1
    BY <1>4, <1>8
  <2>2. i = 1
    BY <2>1
  <2>3. QED
    BY <2>2, <1>4, <1>8
<1>9. \A e \in EventsOf(n) : e \in [account : Account, phase : {n}]
  BY <1>3, <1>6 DEF Event
<1>10. \A e \in EventsOf(n) : n # 1 => e.account = Rows[1]
  BY <1>6, <1>8 DEF Event
<1>11. \A a \in Account : n = 1 \/ a = Rows[1] => Event(a, n) \in EventsOf(n)
  BY <1>5, <1>7
<1>12. Len(RowsOf(n)) \in Nat
  BY <1>1
<1>13. QED
  BY <1>1, <1>12, <1>6, <1>7, <1>9, <1>10, <1>11

(* The manifest of a new phase is a manifest.                              *)
LEMMA PreparedRun ==
    ASSUME NEW n \in 1..MaxPhase
    PROVE  Prepared(n) \in Run
BY RunAssumption, StepNames DEF Prepared, Run

(* What an entry in the journal changes.                                   *)
Enter(r, s, v, k) == [r EXCEPT !.steps[s] = v, !.stage = k]

-----------------------------------------------------------------------------
(* What a step does to the manifest, the log and the documents.            *)

Message == [account : Account, phase : 1..MaxPhase]

Uploads(w) == pc[w] \in Saving /\ MaySave(w) /\ Upload(w) /\ UNCHANGED <<log, docs, quarantine>>

Sends(w) ==
    /\ pc[w] = "send" /\ row[w] < Len(RowsOf(run[w].phase))
    /\ SendEvent(w)
    /\ UNCHANGED manifest

Applies(w) ==
    /\ pc[w] = "consume"
    /\ \E p \in Partition : \E o \in DOMAIN log[p] : Upcoming(w, p, o) /\ Process(log[p][o])
    /\ UNCHANGED manifest

Effect(w) == Uploads(w) \/ Sends(w) \/ Applies(w) \/ UNCHANGED <<manifest, log, docs, quarantine>>

(* Everybody but w goes on with what they had, or with less.               *)
Alone(w) ==
    \A u \in Worker \ {w} :
        /\ UNCHANGED <<pc[u], task[u], run[u], row[u], cursor[u]>>
        /\ current'[u] => current[u] /\ manifest' = manifest

(* What request w does.                                                    *)
Acts(w) ==
    \/ \E t \in Step \union {"change"} : Request(w, t)
    \/ Serve(w) \/ Release(w)
    \/ Renew(w)
    \/ Timeout(w) \/ CallFails(w) \/ Crash(w)

(* A step is the end of a lease or belongs to one request.                 *)
LEMMA ActionsOfNext == Next => Expire \/ \E w \in Worker : Acts(w)
BY DEF Next, Acts

(* Every step of a request has one of the four effects.                    *)
LEMMA EffectOfAct ==
    ASSUME NEW w \in Worker, Acts(w)
    PROVE  Effect(w)
<1> USE DEF Effect, control, stores, worker
<1>1. CASE \E t \in Step \union {"change"} : Request(w, t)
  BY <1>1 DEF Request
<1>2. CASE Serve(w)
  <2>1. CASE Load(w) \/ LoadRefused(w) \/ SaveRefused(w) \/ CheckFails(w)
    BY <2>1 DEF Load, LoadRefused, SaveRefused, CheckFails
  <2>2. CASE Saved(w)
    BY <2>2 DEF Saved, Uploads
  <2>3. CASE Put(w) \/ PutEvents(w) \/ ReadPositions(w) \/ Published(w)
    BY <2>3 DEF Put, PutEvents, ReadPositions, Published, PutArtifacts
  <2>4. CASE Send(w)
    BY <2>4 DEF Send, Sends
  <2>5. CASE Attach(w) \/ Consumed(w) \/ ReceiveFenced(w) \/ Verify(w)
    BY <2>5 DEF Attach, Consumed, ReceiveFenced, Verify
  <2>6. CASE \E p \in Partition : \E o \in DOMAIN log[p] : Receive(w, p, o)
    BY <2>6 DEF Receive, Applies
  <2>7. QED
    BY <1>2, <2>1, <2>2, <2>3, <2>4, <2>5, <2>6 DEF Serve
<1>3. CASE Release(w) \/ Renew(w) \/ Timeout(w) \/ Crash(w)
  BY <1>3 DEF Release, Renew, Timeout, Crash
<1>4. CASE CallFails(w)
  BY <1>4 DEF CallFails, Uploads, Sends, Applies, PutArtifacts
<1>5. QED
  BY <1>1, <1>2, <1>3, <1>4 DEF Acts

(* A step of a request leaves the local state of the others alone.         *)
LEMMA ActsAlone ==
    ASSUME TypeOK, NEW w \in Worker, Acts(w)
    PROVE  Alone(w)
<1> USE DEF Alone, control, stores, worker, Goto, Raise, End, TypeOK
<1>1. CASE \E t \in Step \union {"change"} : Request(w, t)
  BY <1>1 DEF Request
<1>2. CASE Serve(w)
  <2>1. CASE Load(w)
    BY <2>1 DEF Load, LoadStep, LoadChange, Answer
  <2>2. CASE LoadRefused(w) \/ SaveRefused(w) \/ CheckFails(w)
    BY <2>2 DEF LoadRefused, SaveRefused, CheckFails
  <2>3. CASE Saved(w)
    BY <2>3 DEF Saved
  <2>4. CASE Put(w) \/ PutEvents(w) \/ ReadPositions(w) \/ Published(w)
    BY <2>4 DEF Put, PutEvents, ReadPositions, Published, Complete
  <2>5. CASE Send(w)
    BY <2>5 DEF Send
  <2>6. CASE Attach(w) \/ Consumed(w) \/ ReceiveFenced(w)
    BY <2>6 DEF Attach, Consumed, ReceiveFenced, Complete
  <2>7. CASE \E p \in Partition : \E o \in DOMAIN log[p] : Receive(w, p, o)
    BY <2>7 DEF Receive
  <2>8. CASE Verify(w)
    BY <2>8 DEF Verify, Complete
  <2>9. QED
    BY <1>2, <2>1, <2>2, <2>3, <2>4, <2>5, <2>6, <2>7, <2>8 DEF Serve
<1>3. CASE Release(w) \/ Renew(w) \/ Timeout(w) \/ Crash(w)
  BY <1>3 DEF Release, Renew, Timeout, Crash
<1>4. CASE CallFails(w)
  BY <1>4 DEF CallFails
<1>5. QED
  BY <1>1, <1>2, <1>3, <1>4 DEF Acts

-----------------------------------------------------------------------------
(* Types.                                                                  *)

(* Each partition of the hub is a sequence of messages.                    *)
LEMMA LogTypes ==
    ASSUME TypeOK, NEW p \in Partition
    PROVE  log[p] \in Seq(Message) /\ Len(log[p]) \in Nat /\ DOMAIN log[p] = 1..Len(log[p])
<1>1. log[p] \in Seq(Message)
  BY DEF TypeOK, Message
<1>2. QED
  BY <1>1

(* The event that "publish" sends next.                                    *)
LEMMA SendingTypes ==
    ASSUME TypeOK, NEW w \in Worker, WorkerFits(w), Sends(w)
    PROVE  /\ run[w] \in Run /\ NextEvent(w) \in EventsOf(run[w].phase)
           /\ NextEvent(w) \in Message
           /\ PartitionOf[NextEvent(w).account] \in Partition
           /\ NextEvent(w) = Event(RowsOf(run[w].phase)[row[w] + 1], run[w].phase)
<1>1. run[w] \in Run /\ row[w] \in Nat /\ row[w] < Len(RowsOf(run[w].phase))
  BY DEF Sends, WorkerFits, CopyFits, AtStep, TypeOK
<1>2. run[w].phase \in 1..MaxPhase
  BY <1>1 DEF Run
<1>3. run[w].phase \in Nat \ {0}
  BY <1>2, RunAssumption
<1>4. row[w] + 1 \in 1..Len(RowsOf(run[w].phase))
  <2>1. Len(RowsOf(run[w].phase)) \in Nat
    BY <1>3, PhaseEvents
  <2>2. QED
    BY <1>1, <2>1
<1>5. NextEvent(w) \in EventsOf(run[w].phase)
  BY <1>3, <1>4, PhaseEvents DEF NextEvent
<1>6. NextEvent(w) \in Message
  BY <1>2, <1>3, <1>5, PhaseEvents DEF Message
<1>7. QED
  BY <1>1, <1>5, <1>6, RowsOfRun DEF NextEvent, Message

(* A send appends the next event to the partition of its account.          *)
LEMMA SendAppends ==
    ASSUME TypeOK, NEW w \in Worker, WorkerFits(w), Sends(w),
           NEW p, p = PartitionOf[NextEvent(w).account]
    PROVE  /\ log' \in [Partition -> Seq(Message)]
           /\ Len(log'[p]) = Len(log[p]) + 1
           /\ log'[p][Len(log[p]) + 1] = NextEvent(w)
           /\ \A o \in 1..Len(log[p]) : log'[p][o] = log[p][o]
           /\ \A q \in Partition : q # p => log'[q] = log[q]
           /\ UNCHANGED <<manifest, docs, quarantine>>
<1>1. p \in Partition /\ NextEvent(w) \in Message
  BY SendingTypes
<1>2. log' = [log EXCEPT ![p] = Append(@, NextEvent(w))] /\ UNCHANGED <<docs, quarantine>>
  BY DEF Sends, SendEvent
<1>3. log[p] \in Seq(Message) /\ log \in [Partition -> Seq(Message)]
  BY <1>1 DEF TypeOK, Message
<1>4. log'[p] = Append(log[p], NextEvent(w)) /\ \A q \in Partition : q # p => log'[q] = log[q]
  BY <1>1, <1>2, <1>3
<1>5. Append(log[p], NextEvent(w)) \in Seq(Message)
  BY <1>1, <1>3
<1>6. log' \in [Partition -> Seq(Message)]
  BY <1>1, <1>2, <1>3, <1>5
<1>7. QED
  BY <1>1, <1>2, <1>3, <1>4, <1>6 DEF Sends

(* What is applied is an event of the hub, of the phase of the copy.       *)
LEMMA ApplyingTypes ==
    ASSUME TypeOK, LogFits, NEW w \in Worker, WorkerFits(w), pc[w] = "consume",
           NEW p \in Partition, NEW o \in DOMAIN log[p], Upcoming(w, p, o)
    PROVE  /\ run[w] \in Run /\ log[p][o] \in Message
           /\ log[p][o].phase = run[w].phase
           /\ log[p][o] \in EventsOf(run[w].phase)
           /\ log[p][o].account \in Account
           /\ run[w].stage = 4 /\ run[w].start # None
           /\ CopyTrue(run[w])
           /\ run[w].phase <= manifest.phase
           /\ run[w].phase = manifest.phase => manifest.stage >= 4
<1>1. run[w] \in Run /\ CopyTrue(run[w]) /\ task[w] = "apply" /\ run[w].stage = 4
  BY StepPlaces DEF WorkerFits, TaskFits, CopyFits, AtStep
<1>2. log[p][o] \in Message /\ log[p][o].phase = run[w].phase
  BY LogTypes DEF Upcoming, Concerns
<1>3. log[p][o] \in EventsOf(run[w].phase) /\ log[p][o].account \in Account
  BY <1>2 DEF LogFits, Message
<1>4. run[w].start # None
  BY <1>1, StepNames DEF CopyTrue
<1>5. /\ run[w].phase <= manifest.phase
      /\ run[w].phase = manifest.phase => manifest.stage >= 4
  BY <1>1, StepPlaces DEF WorkerFits, CopyBehind, AtStep
<1>6. QED
  BY <1>1, <1>2, <1>3, <1>4, <1>5

(* The versions of a phase and of the one before.                          *)
LEMMA Versions ==
    ASSUME NEW a \in Account, NEW n \in Nat \ {0}
    PROVE  /\ Previous(a, n) \in Nat /\ Expected(a, n) \in Nat
           /\ Previous(a, n) <= Expected(a, n) /\ Expected(a, n) <= n
           /\ Expected(a, n) = Previous(a, n + 1)
           /\ \A e \in EventsOf(n) : e.account = a => Previous(a, n) = n - 1 /\ Expected(a, n) = n
           /\ (\A e \in EventsOf(n) : e.account # a) => Previous(a, n) = Expected(a, n)
           /\ \A m \in 1..(n - 1) : \A e \in EventsOf(m) : e.account = a => m <= Previous(a, n)
<1>1. \A m \in Nat \ {0} : \A e \in EventsOf(m) : e.account = a => m = 1 \/ a = Rows[1]
  BY PhaseEvents
<1>2. (\A e \in EventsOf(n) : e.account # a) => n # 1 /\ a # Rows[1]
  BY PhaseEvents DEF Event
<1>3. \A e \in EventsOf(n) : e.account = a => Previous(a, n) = n - 1 /\ Expected(a, n) = n
  BY <1>1 DEF Previous, Expected
<1>4. ASSUME NEW m \in 1..(n - 1), NEW e \in EventsOf(m), e.account = a
      PROVE  m <= Previous(a, n)
  BY <1>1, <1>4 DEF Previous, Expected
<1>5. QED
  BY <1>2, <1>3, <1>4 DEF Previous, Expected

(* An event of the hub that is applied again changes nothing, and none is  *)
(* early: the documents move only while "apply" is due, one version up.    *)
LEMMA ApplyMoves ==
    ASSUME TypeOK, LogFits, DocsFit, NEW w \in Worker, WorkerFits(w), pc[w] = "consume",
           NEW p \in Partition, NEW o \in DOMAIN log[p], Upcoming(w, p, o),
           Process(log[p][o]), UNCHANGED manifest,
           NEW e, e = log[p][o]
    PROVE  /\ quarantine' = quarantine /\ UNCHANGED log
           /\ \/ docs' = docs /\ docs[e.account] >= e.phase
              \/ /\ docs' = [docs EXCEPT ![e.account] = e.phase]
                 /\ e.phase = manifest.phase /\ manifest.stage = 4
                 /\ docs[e.account] = Previous(e.account, manifest.phase)
                 /\ docs[e.account] + 1 = e.phase
                 /\ Expected(e.account, manifest.phase) = e.phase
<1> DEFINE a == e.account
           n == manifest.phase
<1>1. /\ e \in Message /\ a \in Account /\ e \in EventsOf(e.phase) /\ e.phase <= n
      /\ e.phase = n => manifest.stage >= 4
  BY ApplyingTypes
<1>2. n \in Nat \ {0} /\ e.phase \in Nat \ {0} /\ manifest.stage \in Nat
  <2>1. n \in 1..MaxPhase /\ e.phase \in 1..MaxPhase /\ manifest.stage \in 0..6
    BY <1>1, StepNames DEF TypeOK, Run, Message
  <2>2. QED
    BY <2>1, RunAssumption
<1>3. /\ docs[a] \in {Previous(a, n), Expected(a, n)}
      /\ manifest.stage > 4 => docs[a] = Expected(a, n)
  BY <1>1 DEF DocsFit
<1>4. docs' = IF Outcome(e) = "applied" THEN [docs EXCEPT ![a] = e.phase] ELSE docs
  BY DEF Process
<1>5. /\ quarantine' = IF Outcome(e) = "quarantined" THEN quarantine \union {e} ELSE quarantine
      /\ UNCHANGED log
  BY DEF Process
<1>6. Previous(a, n) \in Nat /\ Expected(a, n) \in Nat /\ Previous(a, n) <= Expected(a, n)
  BY <1>1, <1>2, Versions
<1>7. CASE e.phase < n
  <2>1. e.phase \in 1..(n - 1)
    BY <1>2, <1>7
  <2>2. e.phase <= Previous(a, n)
    BY <1>1, <1>2, <2>1, Versions
  <2>3. docs[a] \in Nat /\ e.phase <= docs[a]
    BY <1>2, <1>3, <1>6, <2>2
  <2>4. Outcome(e) \in {"stale", "duplicate"}
    BY <1>2, <2>3 DEF Outcome
  <2>5. QED
    BY <1>4, <1>5, <2>3, <2>4
<1>8. CASE e.phase = n
  <2>1. Previous(a, n) = n - 1 /\ Expected(a, n) = n
    BY <1>1, <1>2, <1>8, Versions
  <2>2. CASE docs[a] = n
    <3>1. Outcome(e) = "duplicate"
      BY <1>2, <1>8, <2>2 DEF Outcome
    <3>2. QED
      BY <1>2, <1>4, <1>5, <1>8, <2>2, <3>1
  <2>3. CASE docs[a] = n - 1
    <3>1. Outcome(e) = "applied"
      BY <1>2, <1>8, <2>3 DEF Outcome
    <3>2. docs[a] # Expected(a, n)
      BY <1>2, <2>1, <2>3
    <3>3. manifest.stage = 4
      BY <1>1, <1>2, <1>3, <1>8, <3>2
    <3>4. QED
      BY <1>2, <1>4, <1>5, <1>8, <2>1, <2>3, <3>1, <3>3
  <2>4. QED
    BY <1>3, <2>1, <2>2, <2>3
<1>9. QED
  BY <1>1, <1>2, <1>7, <1>8

-----------------------------------------------------------------------------
(* The manifest, the log and the documents only move on.                   *)

Grows ==
    /\ \A p \in Partition : \A o \in DOMAIN log[p] : o \in DOMAIN log'[p] /\ log'[p][o] = log[p][o]
    /\ \A a \in Account : docs[a] <= docs'[a]

MovesOn ==
    /\ manifest.phase <= manifest'.phase
    /\ manifest.phase = manifest'.phase =>
          /\ manifest.stage <= manifest'.stage
          /\ manifest.start # None => manifest'.start # None

SharedTypes ==
    /\ manifest \in Run
    /\ log \in [Partition -> Seq(Message)]
    /\ docs \in [Account -> 0..MaxPhase]
    /\ quarantine \subseteq Message

(* A copy that is saved differs from the manifest as CopyCurrent says.     *)
LEMMA UploadMoves ==
    ASSUME TypeOK, NEW w \in Worker, WorkerFits(w), Uploads(w)
    PROVE  /\ manifest' = run[w] /\ run[w] \in Run /\ current[w]
           /\ \/ /\ AtStep(w) /\ pc[w] # "alter" /\ task[w] \in Step
                 /\ CopyTrue(run[w]) /\ CopyResumes(run[w])
                 /\ run[w].phase = manifest.phase
                 /\ manifest.stage = Index(task[w]) - 1
                 /\ manifest.start # None => run[w].start # None
                 /\ run[w].stage = IF pc[w] = "complete" THEN manifest.stage + 1 ELSE manifest.stage
              \/ /\ pc[w] = "alter" /\ manifest.stage = 6
                 /\ run[w] = Prepared(manifest.phase + 1)
<1>1. manifest' = run[w] /\ current[w] /\ pc[w] \in Saving
  BY DEF Uploads, Upload, MaySave
<1>2. CASE pc[w] = "alter"
  BY <1>1, <1>2, StepNames DEF WorkerFits, CopyFits, CopyCurrent
<1>3. CASE pc[w] # "alter"
  <2>1. AtStep(w)
    BY <1>1, <1>3 DEF AtStep, Saving
  <2>2. task[w] \in Step /\ Index(task[w]) \in 1..6
    BY <2>1, StepPlaces DEF WorkerFits, TaskFits
  <2>3. QED
    BY <1>1, <1>3, <2>1, <2>2 DEF WorkerFits, CopyFits, CopyCurrent
<1>4. QED
  BY <1>2, <1>3

(* Whatever a step does to the stores, they keep their types, the log and  *)
(* the documents only grow, and the manifest moves forward only.           *)
LEMMA SharedTypesKept ==
    ASSUME RunInvariant, NEW w \in Worker, Effect(w)
    PROVE  SharedTypes' /\ Grows /\ MovesOn
<1>1. TypeOK /\ LogFits /\ DocsFit /\ WorkerFits(w) /\ SharedTypes
  BY DEF RunInvariant, TypeOK, SharedTypes, Message
<1>2. \A p \in Partition : DOMAIN log[p] = 1..Len(log[p]) /\ Len(log[p]) \in Nat
  BY <1>1, LogTypes
<1>3. /\ manifest.phase \in 1..MaxPhase /\ manifest.stage \in 0..6
      /\ \A a \in Account : docs[a] \in Nat
  BY <1>1, RunAssumption, StepNames DEF SharedTypes, Run
<1>4. manifest.phase \in Nat
  BY <1>3, RunAssumption
<1>5. UNCHANGED manifest => MovesOn
  BY <1>3, <1>4 DEF MovesOn
<1>6. UNCHANGED <<log, docs>> => Grows
  BY <1>3 DEF Grows
<1>7. CASE Uploads(w)
  <2>1. manifest' = run[w] /\ run[w] \in Run /\ UNCHANGED <<log, docs, quarantine>>
    BY <1>1, <1>7, UploadMoves DEF Uploads
  <2>2. MovesOn
    <3>1. CASE pc[w] = "alter"
      <4>1. manifest'.phase = manifest.phase + 1
        BY <1>1, <1>7, <2>1, <3>1, UploadMoves DEF Prepared
      <4>2. QED
        BY <1>4, <4>1 DEF MovesOn
    <3>2. CASE pc[w] # "alter"
      <4>1. /\ manifest'.phase = manifest.phase
            /\ manifest.start # None => manifest'.start # None
            /\ manifest'.stage \in {manifest.stage, manifest.stage + 1}
        BY <1>1, <1>7, <2>1, <3>2, UploadMoves
      <4>2. QED
        BY <1>3, <1>4, <4>1 DEF MovesOn
    <3>3. QED
      BY <3>1, <3>2
  <2>3. QED
    BY <1>1, <1>6, <2>1, <2>2 DEF SharedTypes
<1>8. CASE Sends(w)
  <2>1. PICK p : p = PartitionOf[NextEvent(w).account]
    OBVIOUS
  <2>2. p \in Partition
    BY <1>1, <1>8, <2>1, SendingTypes
  <2>3. /\ log' \in [Partition -> Seq(Message)]
        /\ Len(log'[p]) = Len(log[p]) + 1
        /\ \A o \in 1..Len(log[p]) : log'[p][o] = log[p][o]
        /\ \A q \in Partition : q # p => log'[q] = log[q]
        /\ UNCHANGED <<manifest, docs, quarantine>>
    BY <1>1, <1>8, <2>1, SendAppends
  <2>4. log'[p] \in Seq(Message) /\ DOMAIN log'[p] = 1..(Len(log[p]) + 1)
    BY <2>2, <2>3
  <2>5. Grows
    BY <1>2, <1>3, <2>2, <2>3, <2>4 DEF Grows
  <2>6. QED
    BY <1>1, <1>5, <2>3, <2>5 DEF SharedTypes
<1>9. CASE Applies(w)
  <2>0. PICK p \in Partition : \E o \in DOMAIN log[p] : Upcoming(w, p, o) /\ Process(log[p][o])
    BY <1>9 DEF Applies
  <2>1. PICK o \in DOMAIN log[p] : Upcoming(w, p, o) /\ Process(log[p][o])
    BY <2>0
  <2>2. PICK e : e = log[p][o]
    OBVIOUS
  <2>3. pc[w] = "consume" /\ UNCHANGED manifest
    BY <1>9 DEF Applies
  <2>4. e.account \in Account /\ e.phase \in 1..MaxPhase
    BY <1>1, <2>1, <2>2, <2>3, ApplyingTypes DEF Message
  <2>5. /\ quarantine' = quarantine /\ UNCHANGED log
        /\ \/ docs' = docs
           \/ docs' = [docs EXCEPT ![e.account] = e.phase] /\ docs[e.account] + 1 = e.phase
    BY <1>1, <2>1, <2>2, <2>3, ApplyMoves
  <2>6. docs' \in [Account -> 0..MaxPhase] /\ \A a \in Account : docs[a] <= docs'[a]
    <3>1. e.phase \in 0..MaxPhase /\ docs[e.account] \in Nat /\ e.phase \in Nat
      BY <1>3, <2>4, RunAssumption
    <3>2. docs \in [Account -> 0..MaxPhase]
      BY <1>1 DEF SharedTypes
    <3>3. \A a \in Account : docs[a] <= docs[a]
      BY <1>3
    <3>4. QED
      BY <1>3, <2>4, <2>5, <3>1, <3>2, <3>3
  <2>7. QED
    BY <1>1, <1>5, <2>3, <2>5, <2>6 DEF SharedTypes, Grows
<1>10. QED
  BY <1>1, <1>5, <1>6, <1>7, <1>8, <1>9 DEF Effect, SharedTypes

(* What was true of a copy stays true of it.                               *)
LEMMA LogStays ==
    ASSUME TypeOK, Grows, NEW e, e.account \in Account, InLog(e)
    PROVE  InLog(e)'
<1>1. PartitionOf[e.account] \in Partition
  BY RowsOfRun
<1>2. QED
  BY <1>1 DEF Grows, InLog

(* What a copy of the manifest claims of the stores stays true while they  *)
(* grow.                                                                   *)
LEMMA CopyStaysTrue ==
    ASSUME TypeOK, SharedTypes', Grows, NEW r \in Run, CopyTrue(r)
    PROVE  CopyTrue(r)'
<1>1. r.phase \in Nat \ {0} /\ r.received \subseteq Message
  BY RunAssumption DEF Run, Message
<1>2. \A e \in r.received : docs'[e.account] >= e.phase
  <2> SUFFICES ASSUME NEW e \in r.received
               PROVE  docs'[e.account] >= e.phase
    OBVIOUS
  <2>1. e.account \in Account /\ e.phase \in Nat
    BY <1>1, RunAssumption DEF Message
  <2>2. docs[e.account] \in Nat /\ docs'[e.account] \in Nat
    BY <2>1, RunAssumption DEF TypeOK, SharedTypes
  <2>3. docs[e.account] >= e.phase /\ docs[e.account] <= docs'[e.account]
    BY <2>1 DEF CopyTrue, Grows
  <2>4. QED
    BY <2>1, <2>2, <2>3
<1>3. ASSUME NEW e \in EventsOf(r.phase), InLog(e) PROVE InLog(e)'
  BY <1>1, <1>3, PhaseEvents, LogStays
<1>4. QED
  BY <1>2, <1>3 DEF CopyTrue

(* That every event of the phase up to a position was received stays true  *)
(* while the log grows.                                                    *)
LEMMA ReceivedStays ==
    ASSUME TypeOK, SharedTypes', Grows, NEW r \in Run, NEW p \in Partition, NEW o \in Nat,
           ReceivedUpTo(r, p, o)
    PROVE  ReceivedUpTo(r, p, o)'
<1>1. /\ Len(log[p]) \in Nat /\ DOMAIN log[p] = 1..Len(log[p])
      /\ Len(log'[p]) \in Nat /\ DOMAIN log'[p] = 1..Len(log'[p])
  <2>1. log'[p] \in Seq(Message)
    BY DEF SharedTypes
  <2>2. QED
    BY <2>1, LogTypes
<1>2. o <= Len(log[p]) /\ o <= Len(log'[p])
  BY <1>1 DEF ReceivedUpTo, Grows
<1>3. \A i \in 1..o : log'[p][i] = log[p][i]
  BY <1>1, <1>2 DEF Grows
<1>4. QED
  BY <1>2, <1>3 DEF ReceivedUpTo

(* A copy from which a resumed apply would miss nothing stays one.         *)
LEMMA CopyStillResumes ==
    ASSUME TypeOK, SharedTypes', Grows, NEW r \in Run, CopyResumes(r)
    PROVE  CopyResumes(r)'
<1>1. r.start # None => \A p \in Partition : Position(r, p) \in Nat
  BY DEF Run, Position
<1>2. QED
  BY <1>1, ReceivedStays DEF CopyResumes

(* A new phase claims nothing, so its claims are true.                     *)
LEMMA PreparedTrue ==
    ASSUME NEW n \in Nat
    PROVE  CopyTrue(Prepared(n)) /\ CopyResumes(Prepared(n))
BY StepNames DEF CopyTrue, CopyResumes, Prepared, Completed, Received, NoCursor

(* A saved manifest is as true as the copy was.                            *)
LEMMA ManifestStaysTrue ==
    ASSUME RunInvariant, NEW w \in Worker, Effect(w)
    PROVE  CopyTrue(manifest)' /\ CopyResumes(manifest)'
<1>1. TypeOK /\ WorkerFits(w) /\ CopyTrue(manifest) /\ CopyResumes(manifest) /\ manifest \in Run
  BY DEF RunInvariant, TypeOK
<1>2. SharedTypes' /\ Grows
  BY SharedTypesKept
<1>3. PICK r : r = manifest'
  OBVIOUS
<1>4. CopyTrue(r) /\ CopyResumes(r) /\ r \in Run
  <2>1. CASE Uploads(w)
    <3>1. r = run[w] /\ r \in Run
      BY <1>1, <1>3, <2>1, UploadMoves
    <3>2. CASE pc[w] # "alter"
      BY <1>1, <2>1, <3>1, <3>2, UploadMoves
    <3>3. CASE pc[w] = "alter"
      <4>1. r = Prepared(manifest.phase + 1) /\ manifest.phase + 1 \in Nat
        BY <1>1, <2>1, <3>1, <3>3, UploadMoves, RunAssumption DEF Run
      <4>2. QED
        BY <3>1, <4>1, PreparedTrue
    <3>4. QED
      BY <3>2, <3>3
  <2>2. CASE UNCHANGED manifest
    BY <1>1, <1>3, <2>2
  <2>3. QED
    BY <2>1, <2>2 DEF Effect, Sends, Applies
<1>5. CopyTrue(r)' /\ CopyResumes(r)'
  BY <1>1, <1>2, <1>4, CopyStaysTrue, CopyStillResumes
<1>6. CopyTrue(manifest)'
  BY <1>3, <1>5 DEF CopyTrue, Received, Completed
<1>7. CopyResumes(manifest)'
  BY <1>3, <1>5 DEF CopyResumes, ReceivedUpTo, Position
<1>8. QED
  BY <1>6, <1>7

(* "apply" is completed only when every account is at the phase's version. *)
LEMMA ReceivedMeansReached ==
    ASSUME TypeOK, DocsFit, NEW r \in Run, CopyTrue(r), Completed(r, "apply"),
           r.phase = manifest.phase
    PROVE  \A a \in Account : docs[a] = Expected(a, manifest.phase)
<1> SUFFICES ASSUME NEW a \in Account
             PROVE  docs[a] = Expected(a, manifest.phase)
  OBVIOUS
<1> DEFINE n == manifest.phase
<1>1. n \in Nat \ {0} /\ docs[a] \in Nat
  BY RunAssumption, SMTT(30) DEF TypeOK, Run
<1>2. docs[a] \in {Previous(a, n), Expected(a, n)}
  BY DEF DocsFit
<1>3. CASE \E e \in EventsOf(n) : e.account = a
  <2>1. PICK e \in EventsOf(n) : e.account = a
    BY <1>3
  <2>2. e \in r.received /\ e.phase = n
    BY <1>1, <2>1, PhaseEvents DEF CopyTrue, Received
  <2>3. docs[a] >= n
    BY <2>1, <2>2 DEF CopyTrue
  <2>4. Previous(a, n) = n - 1 /\ Expected(a, n) = n
    BY <1>1, <2>1, Versions
  <2>5. QED
    BY <1>1, <1>2, <2>3, <2>4
<1>4. CASE \A e \in EventsOf(n) : e.account # a
  BY <1>1, <1>2, <1>4, Versions
<1>5. QED
  BY <1>3, <1>4

(* Each document stays at the version of the previous phase or of this     *)
(* one, as the stage says, and no event of the run is refused.             *)
LEMMA DocsStayFit ==
    ASSUME RunInvariant, NEW w \in Worker, Effect(w)
    PROVE  DocsFit' /\ NothingQuarantined'
<1>1. TypeOK /\ WorkerFits(w) /\ DocsFit /\ LogFits /\ NothingQuarantined /\ CopyTrue(manifest)
  BY DEF RunInvariant
<1>2. manifest.phase \in Nat \ {0} /\ manifest.stage \in 0..6
  <2>1. manifest \in Run
    BY <1>1 DEF TypeOK
  <2>2. QED
    BY <2>1, RunAssumption, StepNames DEF Run
<1>3. CASE UNCHANGED <<manifest, docs, quarantine>>
  BY <1>1, <1>3 DEF DocsFit, NothingQuarantined
<1>4. CASE Uploads(w)
  <2>1. UNCHANGED <<docs, quarantine>> /\ manifest' = run[w]
    BY <1>1, <1>4, UploadMoves DEF Uploads
  <2>2. CASE pc[w] = "alter"
    <3>1. manifest'.phase = manifest.phase + 1 /\ manifest'.stage = 0 /\ manifest.stage = 6
      BY <1>1, <1>4, <2>1, <2>2, UploadMoves DEF Prepared
    <3>2. \A a \in Account : docs[a] = Previous(a, manifest.phase + 1)
      BY <1>1, <1>2, <3>1, Versions DEF DocsFit
    <3>3. QED
      BY <1>1, <2>1, <3>1, <3>2 DEF DocsFit, NothingQuarantined
  <2>3. CASE pc[w] # "alter"
    <3>1. /\ AtStep(w) /\ task[w] \in Step /\ CopyTrue(run[w]) /\ run[w] \in Run
          /\ manifest'.phase = manifest.phase /\ manifest.stage = Index(task[w]) - 1
          /\ manifest'.stage = IF pc[w] = "complete" THEN manifest.stage + 1 ELSE manifest.stage
      BY <1>1, <1>4, <2>1, <2>3, UploadMoves
    <3>2. CASE manifest'.stage = manifest.stage
      BY <1>1, <2>1, <3>1, <3>2 DEF DocsFit, NothingQuarantined
    <3>3. CASE manifest'.stage = manifest.stage + 1
      <4>1. manifest.stage + 1 > 4 => \A a \in Account : docs[a] = Expected(a, manifest.phase)
        <5>1. CASE manifest.stage = 4
          <6>1. run[w].stage = 5 /\ run[w].phase = manifest.phase
            BY <2>1, <3>1, <3>3, <5>1
          <6>2. Completed(run[w], "apply")
            BY <3>1, <6>1, StepNames DEF CopyTrue
          <6>3. QED
            BY <1>1, <3>1, <6>1, <6>2, ReceivedMeansReached
        <5>2. CASE manifest.stage > 4
          BY <1>1, <5>2 DEF DocsFit
        <5>3. QED
          BY <1>2, <5>1, <5>2
      <4>2. manifest'.stage < 4 => manifest.stage < 4
        BY <1>2, <3>3
      <4>3. QED
        BY <1>1, <2>1, <3>1, <3>3, <4>1, <4>2 DEF DocsFit, NothingQuarantined
    <3>4. QED
      BY <3>1, <3>2, <3>3
  <2>4. QED
    BY <2>2, <2>3
<1>5. CASE Applies(w)
  <2>0. PICK p \in Partition : \E o \in DOMAIN log[p] : Upcoming(w, p, o) /\ Process(log[p][o])
    BY <1>5 DEF Applies
  <2>1. PICK o \in DOMAIN log[p] : Upcoming(w, p, o) /\ Process(log[p][o])
    BY <2>0
  <2>2. PICK e : e = log[p][o]
    OBVIOUS
  <2>3. pc[w] = "consume" /\ UNCHANGED manifest
    BY <1>5 DEF Applies
  <2>4. e.account \in Account
    BY <1>1, <2>1, <2>2, <2>3, ApplyingTypes
  <2>5. /\ quarantine' = quarantine
        /\ \/ docs' = docs
           \/ /\ docs' = [docs EXCEPT ![e.account] = e.phase]
              /\ manifest.stage = 4
              /\ Expected(e.account, manifest.phase) = e.phase
    BY <1>1, <2>1, <2>2, <2>3, ApplyMoves
  <2>6. CASE docs' = docs
    BY <1>3, <2>3, <2>5, <2>6
  <2>7. CASE /\ docs' = [docs EXCEPT ![e.account] = e.phase]
             /\ manifest.stage = 4
             /\ Expected(e.account, manifest.phase) = e.phase
    <3>1. \A a \in Account : docs'[a] \in {docs[a], Expected(a, manifest.phase)}
      BY <1>1, <2>4, <2>7 DEF TypeOK
    <3>2. QED
      BY <1>1, <2>3, <2>5, <2>7, <3>1 DEF DocsFit, NothingQuarantined
  <2>8. QED
    BY <2>5, <2>6, <2>7
<1>6. CASE Sends(w)
  BY <1>3, <1>6 DEF Sends, SendEvent
<1>7. QED
  BY <1>3, <1>4, <1>5, <1>6 DEF Effect

(* Every event in the hub belongs to a phase that has begun; events of     *)
(* this phase come only after the starting positions were saved.           *)
LEMMA LogStaysFit ==
    ASSUME RunInvariant, NEW w \in Worker, Effect(w)
    PROVE  LogFits'
<1>1. TypeOK /\ WorkerFits(w) /\ LogFits
  BY DEF RunInvariant
<1>2. manifest.phase \in Nat \ {0} /\ manifest \in Run
  <2>1. manifest \in Run
    BY <1>1 DEF TypeOK
  <2>2. QED
    BY <2>1, RunAssumption DEF Run
<1>3. CASE UNCHANGED <<manifest, log>>
  BY <1>1, <1>3 DEF LogFits
<1>4. CASE Uploads(w)
  <2>1. UNCHANGED log /\ manifest' = run[w]
    BY <1>1, <1>4, UploadMoves DEF Uploads
  <2>2. \A p \in Partition : \A o \in DOMAIN log[p] : log[p][o].phase \in Nat
    <3>1. \A p \in Partition : \A o \in DOMAIN log[p] : log[p][o] \in Message
      BY <1>1, LogTypes
    <3>2. \A m \in Message : m.phase \in Nat
      BY RunAssumption DEF Message
    <3>3. QED
      BY <3>1, <3>2
  <2>3. CASE pc[w] = "alter"
    <3>1. manifest'.phase = manifest.phase + 1
      BY <1>1, <1>4, <2>1, <2>3, UploadMoves DEF Prepared
    <3>2. ASSUME NEW p \in Partition, NEW o \in DOMAIN log[p]
          PROVE  /\ log[p][o] \in EventsOf(log[p][o].phase)
                 /\ log[p][o].phase <= manifest.phase + 1
                 /\ log[p][o].phase # manifest.phase + 1
      BY <1>1, <1>2, <2>2 DEF LogFits
    <3>3. QED
      BY <2>1, <3>1, <3>2 DEF LogFits
  <2>4. CASE pc[w] # "alter"
    <3>1. /\ manifest'.phase = manifest.phase
          /\ manifest.start # None => manifest'.start # None
      BY <1>1, <1>4, <2>1, <2>4, UploadMoves
    <3>2. QED
      BY <1>1, <2>1, <3>1 DEF LogFits
  <2>5. QED
    BY <2>3, <2>4
<1>5. CASE Sends(w)
  <2>1. PICK p : p = PartitionOf[NextEvent(w).account]
    OBVIOUS
  <2>2. PICK e : e = NextEvent(w)
    OBVIOUS
  <2>3. p \in Partition /\ e \in EventsOf(run[w].phase) /\ run[w] \in Run
    BY <1>1, <1>5, <2>1, <2>2, SendingTypes
  <2>4. /\ Len(log'[p]) = Len(log[p]) + 1
        /\ log'[p][Len(log[p]) + 1] = e
        /\ \A o \in 1..Len(log[p]) : log'[p][o] = log[p][o]
        /\ \A q \in Partition : q # p => log'[q] = log[q]
        /\ UNCHANGED manifest /\ log' \in [Partition -> Seq(Message)]
    <3>1. /\ log' \in [Partition -> Seq(Message)]
          /\ Len(log'[p]) = Len(log[p]) + 1
          /\ log'[p][Len(log[p]) + 1] = NextEvent(w)
          /\ \A o \in 1..Len(log[p]) : log'[p][o] = log[p][o]
          /\ \A q \in Partition : q # p => log'[q] = log[q]
          /\ UNCHANGED <<manifest, docs, quarantine>>
      BY <1>1, <1>5, <2>1, SendAppends
    <3>2. QED
      BY <1>5, <2>2, <3>1 DEF Sends
  <2>5. e.phase = run[w].phase
    <3>1. run[w].phase \in Nat \ {0}
      BY <2>3, RunAssumption DEF Run
    <3>2. QED
      BY <2>3, <3>1, PhaseEvents
  <2>6. /\ run[w].phase <= manifest.phase
        /\ run[w].phase = manifest.phase => manifest.start # None
    BY <1>1, <1>5 DEF Sends, WorkerFits, CopyBehind, LoopFits, AtStep
  <2>7. DOMAIN log'[p] = 1..(Len(log[p]) + 1) /\ DOMAIN log[p] = 1..Len(log[p]) /\ Len(log[p]) \in Nat
    <3>1. log'[p] \in Seq(Message)
      BY <2>3, <2>4
    <3>2. QED
      BY <1>1, <2>3, <2>4, <3>1, LogTypes
  <2>8. ASSUME NEW q \in Partition, NEW o \in DOMAIN log'[q]
        PROVE  \/ log'[q][o] = e
               \/ o \in DOMAIN log[q] /\ log'[q][o] = log[q][o]
    BY <2>4, <2>7
  <2>9. ASSUME NEW q \in Partition, NEW o \in DOMAIN log'[q]
        PROVE  /\ log'[q][o] \in EventsOf(log'[q][o].phase)
               /\ log'[q][o].phase <= manifest.phase
               /\ manifest.start = None => log'[q][o].phase # manifest.phase
    <3>1. CASE log'[q][o] = e
      BY <2>3, <2>5, <2>6, <3>1
    <3>2. CASE o \in DOMAIN log[q] /\ log'[q][o] = log[q][o]
      BY <1>1, <3>2 DEF LogFits
    <3>3. QED
      BY <2>8, <3>1, <3>2
  <2>10. QED
    BY <2>4, <2>9 DEF LogFits
<1>6. CASE Applies(w)
  BY <1>3, <1>6 DEF Applies, Process
<1>7. QED
  BY <1>3, <1>4, <1>5, <1>6 DEF Effect

-----------------------------------------------------------------------------
(* What a worker knows does not depend on what the others do.              *)

(* A worker whose copy can still be saved finds the manifest unchanged.    *)
LEMMA OthersStayFit ==
    ASSUME TypeOK, SharedTypes', Grows, MovesOn, NEW u \in Worker, WorkerFits(u),
           UNCHANGED <<pc[u], task[u], run[u], row[u], cursor[u]>>,
           current'[u] => current[u] /\ manifest' = manifest
    PROVE  WorkerFits(u)'
<1>1. pc'[u] = pc[u] /\ task'[u] = task[u] /\ run'[u] = run[u] /\ row'[u] = row[u] /\ cursor'[u] = cursor[u]
  OBVIOUS
<1>2. PICK c : c = run[u]
  OBVIOUS
<1>3. AtStep(u)' <=> AtStep(u)
  BY <1>1 DEF AtStep
<1>4. TaskFits(u)'
  BY <1>1, <1>3 DEF WorkerFits, TaskFits
<1>5. ASSUME AtStep(u) PROVE /\ c \in Run /\ CopyTrue(c) /\ CopyTrue(c)'
                             /\ task[u] \in Step /\ Index(task[u]) \in 1..6
                             /\ c.phase \in Nat /\ Len(RowsOf(c.phase)) \in Nat
                             /\ \A i \in 1..Len(RowsOf(c.phase)) :
                                    Event(RowsOf(c.phase)[i], c.phase).account \in Account
  <2>1. c \in Run /\ CopyTrue(c)
    BY <1>2, <1>5 DEF WorkerFits, CopyFits
  <2>2. task[u] \in Step
    BY <1>5 DEF WorkerFits, TaskFits
  <2>3. c.phase \in Nat \ {0}
    BY <2>1, RunAssumption DEF Run
  <2>4. \A e \in EventsOf(c.phase) : e.account \in Account
    BY <2>3, PhaseEvents
  <2>5. /\ Len(RowsOf(c.phase)) \in Nat
        /\ \A i \in 1..Len(RowsOf(c.phase)) : Event(RowsOf(c.phase)[i], c.phase) \in EventsOf(c.phase)
    BY <2>3, PhaseEvents
  <2>6. CopyTrue(c)'
    BY <2>1, CopyStaysTrue
  <2>7. QED
    BY <2>1, <2>2, <2>3, <2>4, <2>5, <2>6, StepPlaces
<1>6. CopyFits(u)'
  <2>1. AtStep(u) => CopyTrue(run[u])'
    BY <1>1, <1>2, <1>5 DEF CopyTrue, Received, Completed
  <2>2. QED
    BY <1>1, <1>3, <2>1 DEF WorkerFits, CopyFits
<1>7. CopyCurrent(u)'
  <2>1. ASSUME AtStep(u), current'[u] PROVE CopyResumes(run[u])'
    <3>1. c \in Run /\ CopyResumes(c)
      BY <1>2, <1>5, <2>1 DEF WorkerFits, CopyCurrent
    <3>2. CopyResumes(c)'
      BY <3>1, CopyStillResumes
    <3>3. QED
      BY <1>1, <1>2, <3>2 DEF CopyResumes, ReceivedUpTo, Position
  <2>2. QED
    BY <1>1, <1>3, <2>1 DEF WorkerFits, CopyCurrent
<1>8. CopyBehind(u)'
  <2> SUFFICES ASSUME AtStep(u), pc[u] # "journal"
               PROVE  /\ c.phase <= manifest'.phase
                      /\ c.phase = manifest'.phase =>
                            /\ manifest'.stage >= Index(task[u]) - 1
                            /\ pc[u] # "mark" /\ c.start # None => manifest'.start # None
    BY <1>1, <1>2, <1>3 DEF CopyBehind
  <2>1. /\ c.phase <= manifest.phase
        /\ c.phase = manifest.phase =>
              /\ manifest.stage >= Index(task[u]) - 1
              /\ pc[u] # "mark" /\ c.start # None => manifest.start # None
    BY <1>2 DEF WorkerFits, CopyBehind
  <2>2. manifest.phase \in Nat /\ manifest'.phase \in Nat /\ manifest.stage \in Nat /\ manifest'.stage \in Nat
    <3>1. /\ manifest.phase \in 1..MaxPhase /\ manifest'.phase \in 1..MaxPhase
          /\ manifest.stage \in 0..6 /\ manifest'.stage \in 0..6
      BY StepNames DEF TypeOK, SharedTypes, Run
    <3>2. QED
      BY <3>1, RunAssumption
  <2>3. c.phase \in Nat /\ Index(task[u]) \in 1..6
    BY <1>5
  <2>4. QED
    BY <2>1, <2>2, <2>3 DEF MovesOn
<1>9. LoopFits(u)'
  <2>1. ASSUME pc[u] = "send"
        PROVE  \A i \in 1..row[u] : InLog(Event(RowsOf(c.phase)[i], c.phase))'
    <3>1. AtStep(u)
      BY <2>1 DEF AtStep
    <3>2. row[u] <= Len(RowsOf(c.phase)) /\ \A i \in 1..row[u] : InLog(Event(RowsOf(c.phase)[i], c.phase))
      BY <1>2, <2>1 DEF WorkerFits, LoopFits
    <3>3. row[u] \in Nat
      BY DEF TypeOK
    <3>4. \A i \in 1..row[u] : Event(RowsOf(c.phase)[i], c.phase).account \in Account
      BY <1>5, <3>1, <3>2, <3>3
    <3>5. QED
      BY <3>2, <3>4, LogStays
  <2>2. ASSUME pc[u] \in {"consume", "record"}, current'[u], NEW p \in Partition
        PROVE  ReceivedUpTo(c, p, cursor[u][p])'
    <3>1. AtStep(u)
      BY <2>2 DEF AtStep
    <3>2. ReceivedUpTo(c, p, cursor[u][p])
      BY <1>2, <2>2 DEF WorkerFits, LoopFits
    <3>3. PICK o : o = cursor[u][p]
      OBVIOUS
    <3>4. o \in Nat /\ c \in Run
      BY <1>5, <3>1, <3>3 DEF TypeOK
    <3>5. ReceivedUpTo(c, p, o)'
      BY <3>2, <3>3, <3>4, ReceivedStays
    <3>6. QED
      BY <1>1, <3>3, <3>5 DEF ReceivedUpTo
  <2>3. pc[u] = "send" => \A i \in 1..row'[u] : InLog(Event(RowsOf(run[u].phase)[i], run[u].phase))'
    <3> SUFFICES ASSUME pc[u] = "send", NEW i \in 1..row'[u]
                 PROVE  InLog(Event(RowsOf(run[u].phase)[i], run[u].phase))'
      OBVIOUS
    <3>1. PICK e : e = Event(RowsOf(c.phase)[i], c.phase)
      OBVIOUS
    <3>2. InLog(Event(RowsOf(c.phase)[i], c.phase))'
      BY <1>1, <2>1
    <3>3. InLog(e)'
      BY <3>1, <3>2 DEF InLog
    <3>4. e = Event(RowsOf(run'[u].phase)[i], run'[u].phase)
      BY <1>1, <1>2, <3>1
    <3>5. QED
      BY <3>3, <3>4 DEF InLog
  <2>4. ASSUME pc[u] \in {"consume", "record"}, current'[u], NEW p \in Partition
        PROVE  ReceivedUpTo(run[u], p, cursor[u][p])'
    BY <1>1, <1>2, <2>2, <2>4 DEF ReceivedUpTo
  <2>5. QED
    BY <1>1, <2>3, <2>4 DEF WorkerFits, LoopFits
<1>10. QED
  BY <1>4, <1>6, <1>7, <1>8, <1>9 DEF WorkerFits

-----------------------------------------------------------------------------
(* What a request does to its own copy.                                    *)

(* An entry for the step that is due keeps the copy true.                  *)
LEMMA EntryKeepsTrue ==
    ASSUME NEW r \in Run, NEW s \in Step, CopyTrue(r), NEW k \in 0..6,
           NEW v \in {"running", "failed", "completed"},
           \/ v # "completed" /\ k = Index(s) - 1 /\ r.stage \in {Index(s) - 1, Index(s)}
           \/ /\ v = "completed" /\ k = Index(s) /\ r.stage = Index(s) - 1
              /\ s = "publish" => r.start # None /\ \A e \in EventsOf(r.phase) : InLog(e)
              /\ s = "apply" => Received(r),
           NEW q, q = Enter(r, s, v, k)
    PROVE  /\ q \in Run /\ CopyTrue(q) /\ q.stage = k
           /\ q.phase = r.phase /\ q.start = r.start
           /\ q.received = r.received /\ q.saved = r.saved
           /\ CopyResumes(r) => CopyResumes(q)
<1>1. /\ q \in Run /\ q.stage = k
      /\ q.phase = r.phase /\ q.start = r.start
      /\ q.received = r.received /\ q.saved = r.saved
      /\ \A i \in 1..6 : Steps[i] # s => (Completed(q, Steps[i]) <=> Completed(r, Steps[i]))
      /\ Completed(q, s) <=> v = "completed"
  BY StepNames, StepPlaces DEF Run, Completed, Enter
<1>2. Index(s) \in 1..6 /\ Steps[Index(s)] = s /\ \A i \in 1..6 : Steps[i] = s => i = Index(s)
  BY StepPlaces
<1>3. \A i \in 1..6 : Completed(r, Steps[i]) <=> i <= r.stage
  BY StepNames DEF CopyTrue
<1>4. \A i \in 1..6 : Completed(q, Steps[i]) <=> i <= q.stage
  <2> SUFFICES ASSUME NEW i \in 1..6
               PROVE  Completed(q, Steps[i]) <=> i <= k
    BY <1>1
  <2>1. CASE i = Index(s)
    BY <1>1, <1>2, <2>1
  <2>2. CASE i # Index(s)
    <3>1. Completed(q, Steps[i]) <=> i <= r.stage
      BY <1>1, <1>2, <1>3, <2>2
    <3>2. r.stage \in {Index(s) - 1, Index(s)}
      OBVIOUS
    <3>3. QED
      BY <1>2, <2>2, <3>1, <3>2
  <2>3. QED
    BY <2>1, <2>2
<1>5. Completed(q, "publish") => q.start # None /\ \A e \in EventsOf(q.phase) : InLog(e)
  <2>1. CASE s = "publish"
    BY <1>1, <2>1
  <2>2. CASE s # "publish"
    <3>1. Completed(q, "publish") => Completed(r, "publish")
      BY <1>1, <2>2, StepNames
    <3>2. QED
      BY <1>1, <3>1 DEF CopyTrue
  <2>3. QED
    BY <2>1, <2>2
<1>6. Completed(q, "apply") => Received(q)
  <2>1. CASE s = "apply"
    BY <1>1, <2>1 DEF Received
  <2>2. CASE s # "apply"
    <3>1. Completed(q, "apply") => Completed(r, "apply")
      BY <1>1, <2>2, StepNames
    <3>2. QED
      BY <1>1, <3>1 DEF CopyTrue, Received
  <2>3. QED
    BY <2>1, <2>2
<1>7. CopyTrue(q)
  BY <1>1, <1>4, <1>5, <1>6, StepNames DEF CopyTrue
<1>8. CopyResumes(r) => CopyResumes(q)
  BY <1>1 DEF CopyResumes, ReceivedUpTo, Position
<1>9. QED
  BY <1>1, <1>7, <1>8

(* A request that is answered, or over.                                    *)
LEMMA NothingToFit ==
    ASSUME NEW w \in Worker, pc'[w] \in {"idle", "release"}, pc'[w] = "idle" => row'[w] = 0
    PROVE  WorkerFits(w)'
BY DEF WorkerFits, TaskFits, CopyFits, CopyCurrent, CopyBehind, LoopFits, AtStep

(* What is so of the types of a request.                                   *)
LocalTypes ==
    /\ lease \in Worker \union {None}
    /\ leased \in BOOLEAN
    /\ leased => lease # None
    /\ blobs \subseteq {"source", "metadata", "landing", "parsed", "events"} \X (1..MaxPhase)
    /\ pc \in [Worker -> Label]
    /\ task \in [Worker -> Step \union {"change", None}]
    /\ run \in [Worker -> Run \union {None}]
    /\ current \in [Worker -> BOOLEAN]
    /\ fenced \in [Worker -> BOOLEAN]
    /\ row \in [Worker -> 0..Len(Rows)]
    /\ cursor \in [Worker -> [Partition -> Nat]]
    /\ faults \in 0..MaxFaults

(* The type invariant in two halves: the stores, and the workers.          *)
LEMMA TypesAreBoth == TypeOK <=> SharedTypes /\ LocalTypes
BY DEF TypeOK, SharedTypes, LocalTypes, Message

(* A request inside step's try block works on a copy.                      *)
LEMMA TryIsAtStep ==
    ASSUME NEW w \in Worker, WorkerFits(w), InTry(w)
    PROVE  /\ AtStep(w) /\ run[w] \in Run /\ CopyTrue(run[w])
           /\ task[w] \in Step /\ Index(task[w]) \in 1..6
           /\ run[w].stage \in {Index(task[w]) - 1, Index(task[w])}
BY StepPlaces DEF WorkerFits, InTry, AtStep, CopyFits, TaskFits

(* An exception: the journal entry is true, and can be saved only where    *)
(* nothing has been saved since.                                           *)
LEMMA RaiseKeeps ==
    ASSUME TypeOK, SharedTypes', Grows, NEW w \in Worker, WorkerFits(w),
           NEW r, Raise(w, r), InTry(w) => r = run[w],
           task' = task, current'[w] => current[w] /\ manifest' = manifest
    PROVE  /\ WorkerFits(w)'
           /\ pc' \in [Worker -> Label] /\ run' \in [Worker -> Run \union {None}]
<1>1. CASE ~InTry(w)
  <2>1. pc' = [pc EXCEPT ![w] = "release"] /\ run' = [run EXCEPT ![w] = None]
    BY <1>1 DEF Raise, Goto
  <2>2. QED
    BY <2>1, NothingToFit DEF TypeOK, Label
<1>2. CASE InTry(w)
  <2>1. pc' = [pc EXCEPT ![w] = "journal"] /\ run' = [run EXCEPT ![w] = FailedRun(w, r)] /\ r = run[w]
    BY <1>2 DEF Raise, Goto
  <2>2. PICK q : q = FailedRun(w, r)
    OBVIOUS
  <2>3. /\ AtStep(w) /\ r \in Run /\ CopyTrue(r)
        /\ task[w] \in Step /\ Index(task[w]) \in 1..6
        /\ r.stage \in {Index(task[w]) - 1, Index(task[w])}
    BY <1>2, <2>1, TryIsAtStep
  <2>4. /\ q \in Run /\ CopyTrue(q) /\ q.stage = Index(task[w]) - 1
        /\ q.phase = r.phase /\ q.start = r.start
        /\ CopyResumes(r) => CopyResumes(q)
    <3>1. q = Enter(r, task[w], "failed", Index(task[w]) - 1)
      BY <2>2 DEF FailedRun, Enter
    <3>2. PICK s \in Step : s = task[w]
      BY <2>3
    <3>3. PICK k \in 0..6 : k = Index(s) - 1
      BY <2>3, <3>2
    <3>4. q = Enter(r, s, "failed", k)
      BY <3>1, <3>2, <3>3
    <3>5. "failed" \in {"running", "failed", "completed"} /\ "failed" # "completed"
      OBVIOUS
    <3>6. k = Index(s) - 1 /\ r.stage \in {Index(s) - 1, Index(s)}
      BY <2>3, <3>2, <3>3
    <3>7. /\ q \in Run /\ CopyTrue(q) /\ q.stage = k
          /\ q.phase = r.phase /\ q.start = r.start
          /\ q.received = r.received /\ q.saved = r.saved
          /\ CopyResumes(r) => CopyResumes(q)
      BY <2>3, <3>4, <3>5, <3>6, EntryKeepsTrue
    <3>8. QED
      BY <3>2, <3>3, <3>7
  <2>5. run'[w] = q /\ pc'[w] = "journal" /\ AtStep(w)'
    BY <2>1, <2>2 DEF TypeOK, AtStep
  <2>6. CopyTrue(q)'
    BY <2>4, CopyStaysTrue
  <2>7. CopyTrue(run[w])'
    BY <2>5, <2>6 DEF CopyTrue, Received, Completed
  <2>8. CopyFits(w)'
    BY <2>4, <2>5, <2>7 DEF CopyFits
  <2>9. CopyCurrent(w)'
    <3> SUFFICES ASSUME current'[w]
                 PROVE  CopyCurrent(w)'
      BY <2>5 DEF CopyCurrent
    <3>1. current[w] /\ manifest' = manifest
      OBVIOUS
    <3>2. /\ r.phase = manifest.phase /\ manifest.stage = Index(task[w]) - 1
          /\ manifest.start # None => r.start # None
          /\ CopyResumes(r)
      BY <2>1, <2>3, <3>1 DEF WorkerFits, CopyCurrent
    <3>3. CopyResumes(q)'
      BY <2>4, <3>2, CopyStillResumes
    <3>4. CopyResumes(run[w])'
      BY <2>5, <3>3 DEF CopyResumes, ReceivedUpTo, Position
    <3>5. QED
      BY <2>4, <2>5, <3>1, <3>2, <3>4 DEF CopyCurrent
  <2>10. TaskFits(w)' /\ CopyBehind(w)' /\ LoopFits(w)'
    BY <2>3, <2>5 DEF TaskFits, CopyBehind, LoopFits
  <2>11. pc' \in [Worker -> Label] /\ run' \in [Worker -> Run \union {None}]
    BY <2>1, <2>2, <2>4 DEF TypeOK, Label
  <2>12. QED
    BY <2>8, <2>9, <2>10, <2>11 DEF WorkerFits
<1>3. QED
  BY <1>1, <1>2

(* A step that has come to its end.                                        *)
LEMMA CompleteKeeps ==
    ASSUME TypeOK, SharedTypes', NEW w \in Worker, WorkerFits(w),
           pc[w] \in {"put", "send", "consume", "verify"}, Complete(w),
           UNCHANGED <<manifest, log, docs, task, current>>,
           task[w] = "publish" =>
              run[w].start # None /\ \A e \in EventsOf(run[w].phase) : InLog(e),
           task[w] = "apply" => Received(run[w])
    PROVE  /\ WorkerFits(w)'
           /\ pc' \in [Worker -> Label] /\ run' \in [Worker -> Run \union {None}]
<1>1. pc' = [pc EXCEPT ![w] = "complete"] /\ run' = [run EXCEPT ![w] = CompletedRun(w)]
  BY DEF Complete, Goto
<1>2. PICK r : r = run[w]
  OBVIOUS
<1>3. PICK q : q = CompletedRun(w)
  OBVIOUS
<1>4. /\ AtStep(w) /\ r \in Run /\ CopyTrue(r)
      /\ task[w] \in Step /\ Index(task[w]) \in 1..6
      /\ r.stage = Index(task[w]) - 1
  BY <1>2, StepPlaces DEF WorkerFits, AtStep, CopyFits, TaskFits
<1>5. /\ q \in Run /\ CopyTrue(q) /\ q.stage = Index(task[w])
      /\ q.phase = r.phase /\ q.start = r.start
      /\ CopyResumes(r) => CopyResumes(q)
  <2>1. q = Enter(r, task[w], "completed", Index(task[w]))
    BY <1>2, <1>3 DEF CompletedRun, Enter
  <2>2. Index(task[w]) \in 0..6
    BY <1>4
  <2>3. QED
    BY <1>2, <1>4, <2>1, <2>2, EntryKeepsTrue
<1>6. run'[w] = q /\ pc'[w] = "complete" /\ AtStep(w)'
  BY <1>1, <1>3 DEF TypeOK, AtStep
<1>7. CopyTrue(run[w])' /\ (CopyResumes(q) => CopyResumes(run[w])')
  BY <1>5, <1>6 DEF CopyTrue, Received, Completed, InLog, CopyResumes, ReceivedUpTo, Position
<1>8. TaskFits(w)' /\ CopyFits(w)' /\ LoopFits(w)'
  BY <1>4, <1>5, <1>6, <1>7 DEF TaskFits, CopyFits, LoopFits
<1>9. CopyCurrent(w)'
  BY <1>2, <1>4, <1>5, <1>6, <1>7 DEF WorkerFits, CopyCurrent
<1>10. CopyBehind(w)'
  BY <1>2, <1>4, <1>5, <1>6 DEF WorkerFits, CopyBehind
<1>11. pc' \in [Worker -> Label] /\ run' \in [Worker -> Run \union {None}]
  BY <1>1, <1>3, <1>5 DEF TypeOK, Label
<1>12. QED
  BY <1>8, <1>9, <1>10, <1>11 DEF WorkerFits

-----------------------------------------------------------------------------
(* The steps of a request.                                                 *)

(* The faults stay within their bound.                                     *)
LEMMA FaultCounts ==
    ASSUME faults \in 0..MaxFaults, Fault \/ NoFault
    PROVE  faults' \in 0..MaxFaults
BY RunAssumption DEF Fault, NoFault

(* Taking the lease: the new request knows nothing of the manifest yet.    *)
LEMMA RequestKeeps ==
    ASSUME TypeOK, NEW w \in Worker, WorkerFits(w), NEW t \in Step \union {"change"}, Request(w, t)
    PROVE  WorkerFits(w)' /\ LocalTypes'
<1>1. /\ lease' = w /\ leased' = TRUE /\ UNCHANGED <<blobs, run, current, fenced, row, cursor, faults>>
      /\ task' = [task EXCEPT ![w] = t] /\ pc' = [pc EXCEPT ![w] = "load"]
  BY DEF Request, Goto, stores
<1>2. LocalTypes'
  BY <1>1, RunAssumption DEF TypeOK, LocalTypes, Label
<1>3. pc'[w] = "load" /\ task'[w] = t /\ row'[w] = 0
  BY <1>1 DEF TypeOK, Request, WorkerFits, LoopFits
<1>4. WorkerFits(w)'
  BY <1>3 DEF WorkerFits, TaskFits, CopyFits, CopyCurrent, CopyBehind, LoopFits, AtStep
<1>5. QED
  BY <1>2, <1>4

(* The end of a request, also by the death of its server.                  *)
LEMMA EndKeeps ==
    ASSUME TypeOK, NEW w \in Worker, Release(w) \/ Crash(w)
    PROVE  WorkerFits(w)' /\ LocalTypes'
<1>1. /\ pc' = [pc EXCEPT ![w] = "idle"] /\ task' = [task EXCEPT ![w] = None]
      /\ run' = [run EXCEPT ![w] = None] /\ current' = [current EXCEPT ![w] = FALSE]
      /\ fenced' = [fenced EXCEPT ![w] = FALSE] /\ row' = [row EXCEPT ![w] = 0]
      /\ cursor' = [cursor EXCEPT ![w] = NoCursor]
  BY DEF Release, Crash, End, Goto
<1>2. /\ lease' = lease /\ blobs' = blobs
      /\ leased' \in BOOLEAN /\ (leased' => leased)
      /\ Fault \/ NoFault
  <2>1. lease' = lease /\ blobs' = blobs /\ (Fault \/ NoFault)
    BY DEF Release, Crash, control, stores
  <2>2. CASE Crash(w) \/ UNCHANGED leased
    BY <2>1, <2>2 DEF Crash, control, TypeOK
  <2>3. CASE leased' = (leased /\ lease # w)
    <3>1. leased' \in BOOLEAN /\ (leased' => leased)
      BY <2>3
    <3>2. QED
      BY <2>1, <3>1
  <2>4. QED
    BY <2>2, <2>3 DEF Release
<1>3. faults' \in 0..MaxFaults
  BY <1>2, FaultCounts DEF TypeOK
<1>4. NoCursor \in [Partition -> Nat] /\ 0 \in 0..Len(Rows)
  BY RowsOfRun DEF NoCursor
<1>5. LocalTypes'
  BY <1>1, <1>2, <1>3, <1>4 DEF TypeOK, LocalTypes, Label
<1>6. pc'[w] = "idle" /\ row'[w] = 0
  BY <1>1 DEF TypeOK
<1>7. QED
  BY <1>5, <1>6, NothingToFit

(* The renewal of the lease, or its failure.                               *)
LEMMA RenewKeeps ==
    ASSUME TypeOK, SharedTypes', Grows, MovesOn, NEW w \in Worker, WorkerFits(w), Renew(w)
    PROVE  WorkerFits(w)' /\ LocalTypes'
<1>1. /\ UNCHANGED <<manifest, lease, blobs, pc, task, run, current, row, cursor>>
      /\ leased' \in BOOLEAN /\ fenced' \in [Worker -> BOOLEAN]
      /\ leased' => leased \/ lease = w
      /\ Fault \/ NoFault
  <2>1. UNCHANGED <<manifest, lease, blobs, pc, task, run, current, row, cursor>>
    BY DEF Renew, stores
  <2>2. Fault \/ NoFault
    BY DEF Renew
  <2>3. leased' \in BOOLEAN /\ (leased' => leased \/ lease = w)
    <3>1. (leased' = TRUE /\ lease = w) \/ leased' = leased
      BY DEF Renew
    <3>2. leased \in BOOLEAN
      BY DEF TypeOK
    <3>3. CASE leased' = TRUE /\ lease = w
      BY <3>3
    <3>4. CASE leased' = leased
      <4>1. leased' \in BOOLEAN
        BY <3>2, <3>4
      <4>2. leased' => leased
        BY <3>4
      <4>3. QED
        BY <4>1, <4>2
    <3>5. QED
      BY <3>1, <3>3, <3>4
  <2>4. fenced' \in [Worker -> BOOLEAN]
    BY DEF Renew, TypeOK
  <2>5. QED
    BY <2>1, <2>2, <2>3, <2>4
<1>2. faults' \in 0..MaxFaults
  BY <1>1, FaultCounts DEF TypeOK
<1>3. LocalTypes'
  BY <1>1, <1>2, RunAssumption DEF TypeOK, LocalTypes
<1>4. WorkerFits(w)'
  BY <1>1, OthersStayFit
<1>5. QED
  BY <1>3, <1>4

(* Artifacts are named by what they are and by their phase.                *)
LEMMA ArtifactTypes ==
    ASSUME TypeOK, NEW w \in Worker, run[w] \in Run, PutArtifacts(w)
    PROVE  blobs' \subseteq {"source", "metadata", "landing", "parsed", "events"} \X (1..MaxPhase)
<1>1. Artifact(task[w]) \subseteq {"source", "metadata", "landing", "parsed", "events"}
  BY DEF Artifact
<1>2. run[w].phase \in 1..MaxPhase
  BY DEF Run
<1>3. QED
  BY <1>1, <1>2 DEF TypeOK, PutArtifacts

(* All that ends in an exception.                                          *)
LEMMA ExceptionKeeps ==
    ASSUME TypeOK, SharedTypes', Grows, NEW w \in Worker, WorkerFits(w),
           \/ LoadRefused(w) \/ SaveRefused(w) \/ CheckFails(w)
           \/ ReceiveFenced(w) \/ Timeout(w) \/ CallFails(w)
    PROVE  WorkerFits(w)' /\ LocalTypes'
<1>1. Raise(w, run[w]) \/ (Raise(w, None) /\ ~InTry(w))
  BY DEF LoadRefused, SaveRefused, CheckFails, ReceiveFenced, Timeout, CallFails, InTry
<1>2. UNCHANGED <<lease, leased, task, row, cursor>>
  BY DEF LoadRefused, SaveRefused, CheckFails, ReceiveFenced, Timeout, CallFails, control
<1>3. fenced' \in [Worker -> BOOLEAN] /\ current' \in [Worker -> BOOLEAN]
  BY DEF LoadRefused, SaveRefused, CheckFails, ReceiveFenced, Timeout, CallFails, TypeOK
<1>4. current'[w] => current[w] /\ manifest' = manifest
  BY DEF LoadRefused, SaveRefused, CheckFails, ReceiveFenced, Timeout, CallFails, control
<1>5. faults' \in 0..MaxFaults
  <2>1. Fault \/ NoFault
    BY DEF LoadRefused, SaveRefused, CheckFails, ReceiveFenced, Timeout, CallFails, NoFault
  <2>2. QED
    BY <2>1, FaultCounts DEF TypeOK
<1>6. blobs' \subseteq {"source", "metadata", "landing", "parsed", "events"} \X (1..MaxPhase)
  <2>1. CASE blobs' = blobs
    BY <2>1 DEF TypeOK
  <2>2. CASE CallFails(w) /\ pc[w] \in {"put", "events"} /\ PutArtifacts(w)
    BY <2>2, ArtifactTypes, TryIsAtStep DEF InTry
  <2>3. QED
    BY <2>1, <2>2 DEF LoadRefused, SaveRefused, CheckFails, ReceiveFenced, Timeout, CallFails, stores,
                      SendEvent, Process
<1>7. /\ WorkerFits(w)'
      /\ pc' \in [Worker -> Label] /\ run' \in [Worker -> Run \union {None}]
  <2>1. CASE Raise(w, run[w])
    BY <2>1, <1>2, <1>4, RaiseKeeps
  <2>2. CASE Raise(w, None) /\ ~InTry(w)
    BY <2>2, <1>2, <1>4, RaiseKeeps
  <2>3. QED
    BY <1>1, <2>1, <2>2
<1>8. LocalTypes'
  BY <1>2, <1>3, <1>5, <1>6, <1>7 DEF TypeOK, LocalTypes
<1>9. QED
  BY <1>7, <1>8

(* Loading the manifest: the copy is the manifest, and the etag is         *)
(* current.                                                                *)
LEMMA LoadKeeps ==
    ASSUME RunInvariant, NEW w \in Worker, Load(w)
    PROVE  WorkerFits(w)' /\ LocalTypes'
<1>1. TypeOK /\ WorkerFits(w) /\ manifest \in Run /\ CopyTrue(manifest) /\ CopyResumes(manifest)
  BY DEF RunInvariant, TypeOK
<1>2. /\ UNCHANGED <<manifest, lease, leased, blobs, log, docs, task, fenced, row, cursor, faults>>
      /\ current' = [current EXCEPT ![w] = TRUE] /\ pc[w] = "load"
  BY DEF Load, control, stores
<1>3. row[w] = 0 /\ task[w] \in Step \union {"change"} /\ manifest.phase \in Nat \ {0}
  BY <1>1, <1>2, RunAssumption DEF WorkerFits, LoopFits, TaskFits, Run
<1>4. ASSUME NEW r \in Run \union {None}, NEW l \in Label,
             pc' = [pc EXCEPT ![w] = l], run' = [run EXCEPT ![w] = r]
      PROVE  LocalTypes' /\ pc'[w] = l /\ run'[w] = r
  BY <1>1, <1>2, <1>4 DEF TypeOK, LocalTypes
<1>5. CASE \E r \in Run \union {None} : Answer(w, r)
  <2>1. PICK r \in Run \union {None} : Answer(w, r)
    BY <1>5
  <2>2. LocalTypes' /\ pc'[w] = "release"
    BY <1>4, <2>1 DEF Answer, Goto, Label
  <2>3. QED
    BY <2>2, NothingToFit
<1>6. CASE /\ task[w] \in Step /\ ~Completed(manifest, task[w]) /\ Ready(manifest, task[w])
           /\ run' = [run EXCEPT ![w] = [manifest EXCEPT !.steps[task[w]] = "running"]]
           /\ Goto(w, "begin")
  <2>1. PICK s \in Step : s = task[w]
    BY <1>6
  <2>2. PICK q : q = [manifest EXCEPT !.steps[s] = "running"]
    OBVIOUS
  <2>3. manifest.stage = Index(s) - 1
    <3>1. Index(s) \in 1..6 /\ Steps[Index(s)] = s
      BY StepPlaces
    <3>2. \A i \in 1..6 : Completed(manifest, Steps[i]) <=> i <= manifest.stage
      BY <1>1, StepNames DEF CopyTrue
    <3>3. ~(Index(s) <= manifest.stage)
      BY <1>6, <2>1, <3>1, <3>2
    <3>4. \A i \in 1..(Index(s) - 1) : i <= manifest.stage
      BY <1>6, <2>1, <3>1, <3>2 DEF Ready
    <3>5. manifest.stage \in Nat
      BY <1>1, StepNames DEF Run
    <3>6. CASE Index(s) = 1
      BY <3>3, <3>5, <3>6
    <3>7. CASE Index(s) # 1
      <4>1. Index(s) - 1 \in 1..(Index(s) - 1)
        BY <3>1, <3>7
      <4>2. Index(s) - 1 <= manifest.stage
        BY <3>4, <4>1
      <4>3. QED
        BY <3>1, <3>3, <3>5, <4>2
    <3>8. QED
      BY <3>6, <3>7
  <2>4. q = Enter(manifest, s, "running", manifest.stage)
    BY <1>1, <2>2 DEF Enter, Run
  <2>5. /\ q \in Run /\ CopyTrue(q) /\ q.stage = manifest.stage
        /\ q.phase = manifest.phase /\ q.start = manifest.start
        /\ CopyResumes(q)
    <3>1. PICK k \in 0..6 : k = manifest.stage
      BY <1>1, StepNames DEF Run
    <3>2. PICK m : m = manifest
      OBVIOUS
    <3>3. m \in Run /\ CopyTrue(m) /\ CopyResumes(m) /\ m.stage = Index(s) - 1 /\ k = Index(s) - 1
      BY <1>1, <2>3, <3>1, <3>2
    <3>4. q = Enter(m, s, "running", k)
      BY <2>4, <3>1, <3>2
    <3>5. "running" \in {"running", "failed", "completed"} /\ "running" # "completed"
      OBVIOUS
    <3>6. /\ q \in Run /\ CopyTrue(q) /\ q.stage = k
          /\ q.phase = m.phase /\ q.start = m.start
          /\ q.received = m.received /\ q.saved = m.saved
          /\ CopyResumes(m) => CopyResumes(q)
      BY <3>3, <3>4, <3>5, EntryKeepsTrue
    <3>7. QED
      BY <3>1, <3>2, <3>3, <3>6
  <2>6. LocalTypes' /\ pc'[w] = "begin" /\ run'[w] = q
    BY <1>4, <1>6, <2>1, <2>2, <2>5 DEF Goto, Label
  <2>7. CopyTrue(run[w])' /\ CopyResumes(run[w])'
    BY <1>2, <2>5, <2>6
       DEF CopyTrue, Received, Completed, InLog, CopyResumes, ReceivedUpTo, Position
  <2>8. TaskFits(w)' /\ CopyFits(w)' /\ LoopFits(w)'
    BY <1>2, <1>3, <2>1, <2>3, <2>5, <2>6, <2>7 DEF TaskFits, CopyFits, LoopFits
  <2>9. CopyCurrent(w)' /\ CopyBehind(w)'
    <3>1. Index(s) \in 1..6 /\ manifest.stage >= Index(s) - 1 /\ manifest.phase <= manifest.phase
      BY <1>3, <2>3, StepPlaces
    <3>2. QED
      BY <1>2, <2>1, <2>3, <2>5, <2>6, <2>7, <3>1 DEF CopyCurrent, CopyBehind
  <2>10. QED
    BY <2>6, <2>8, <2>9 DEF WorkerFits
<1>7. CASE /\ task[w] = "change" /\ Completed(manifest, "verify") /\ manifest.phase < MaxPhase
           /\ run' = [run EXCEPT ![w] = Prepared(manifest.phase + 1)]
           /\ Goto(w, "alter")
  <2>1. manifest.phase + 1 \in 1..MaxPhase
    BY <1>3, <1>7, RunAssumption
  <2>2. Prepared(manifest.phase + 1) \in Run
    BY <2>1, PreparedRun
  <2>3. LocalTypes' /\ pc'[w] = "alter" /\ run'[w] = Prepared(manifest.phase + 1)
    BY <1>4, <1>7, <2>2 DEF Goto, Label
  <2>4. manifest.stage = 6
    BY <1>1, <1>7, StepNames DEF CopyTrue, Run
  <2>5. CopyCurrent(w)'
    BY <1>2, <2>3, <2>4, StepNames DEF CopyCurrent, AtStep
  <2>6. TaskFits(w)' /\ CopyFits(w)' /\ CopyBehind(w)' /\ LoopFits(w)'
    BY <2>2, <2>3 DEF TaskFits, CopyFits, CopyBehind, LoopFits, AtStep
  <2>7. QED
    BY <2>3, <2>5, <2>6 DEF WorkerFits
<1>8. QED
  BY <1>1, <1>5, <1>6, <1>7 DEF Load, LoadStep, LoadChange, Answer

(* Saving the copy: the manifest is the copy, and every other etag is      *)
(* outdated.                                                               *)
LEMMA SavedKeeps ==
    ASSUME TypeOK, SharedTypes', Grows, NEW w \in Worker, WorkerFits(w), Saved(w)
    PROVE  WorkerFits(w)' /\ LocalTypes'
<1>1. /\ UNCHANGED <<lease, leased, blobs, log, docs, task, fenced, row, cursor, faults>>
      /\ pc' = [pc EXCEPT ![w] = AfterSave(w)]
      /\ current' = [u \in Worker |-> u = w]
      /\ run' = IF pc[w] = "journal" THEN [run EXCEPT ![w] = None] ELSE run
      /\ pc[w] \in Saving
      /\ Uploads(w)
  BY DEF Saved, Uploads, stores, Goto
<1>2. AfterSave(w) \in Label
  BY DEF AfterSave, FirstLabel, Label
<1>3. LocalTypes'
  BY <1>1, <1>2 DEF TypeOK, LocalTypes
<1>4. CASE pc[w] \in {"alter", "complete", "journal"}
  <2>1. pc'[w] = "release"
    BY <1>1, <1>4 DEF TypeOK, AfterSave
  <2>2. QED
    BY <1>3, <2>1, NothingToFit
<1>5. CASE pc[w] \in {"begin", "mark", "record"}
  <2>1. PICK r : r = run[w]
    OBVIOUS
  <2>2. /\ r \in Run /\ manifest' = r /\ run'[w] = r /\ current[w]
        /\ AtStep(w) /\ task[w] \in Step /\ Index(task[w]) \in 1..6
        /\ CopyTrue(r) /\ CopyResumes(r)
        /\ r.stage = Index(task[w]) - 1
    BY <1>1, <1>5, <2>1, UploadMoves, StepPlaces
  <2>3. pc'[w] = AfterSave(w)
    BY <1>1 DEF TypeOK
  <2>4. /\ pc[w] = "begin" => pc'[w] = FirstLabel(task[w])
        /\ pc[w] = "mark" => pc'[w] = "send"
        /\ pc[w] = "record" => pc'[w] = "consume"
    BY <2>3 DEF AfterSave
  <2>5. /\ pc'[w] \in {"put", "events", "attach", "verify", "send", "consume"}
        /\ pc'[w] = "put" => task[w] \in {"source", "transfer", "parse"}
        /\ pc'[w] = "events" => task[w] = "publish" /\ row[w] = 0
        /\ pc'[w] = "attach" => task[w] = "apply"
        /\ pc'[w] = "verify" => task[w] = "verify" /\ row[w] = 0
        /\ pc'[w] = "send" => task[w] = "publish" /\ row[w] = 0 /\ r.start # None
        /\ pc'[w] = "consume" => task[w] = "apply" /\ pc[w] = "record"
    <3>1. CASE pc[w] = "begin"
      <4>1. row[w] = 0
        BY <3>1 DEF WorkerFits, LoopFits
      <4>2. QED
        BY <2>2, <2>4, <3>1, <4>1, StepNames DEF FirstLabel
    <3>2. CASE pc[w] = "mark"
      BY <2>1, <2>4, <3>2 DEF WorkerFits, LoopFits, TaskFits
    <3>3. CASE pc[w] = "record"
      BY <2>4, <3>3 DEF WorkerFits, TaskFits
    <3>4. QED
      BY <1>5, <3>1, <3>2, <3>3
  <2>6. CopyTrue(run[w])' /\ CopyResumes(run[w])'
    BY <1>1, <2>2 DEF CopyTrue, Received, Completed, InLog, CopyResumes, ReceivedUpTo, Position
  <2>7. TaskFits(w)' /\ CopyFits(w)'
    BY <1>1, <2>2, <2>5, <2>6 DEF TaskFits, CopyFits
  <2>8. CopyCurrent(w)'
    BY <1>1, <2>2, <2>5, <2>6 DEF CopyCurrent
  <2>9. CopyBehind(w)'
    <3>1. r.phase \in Nat /\ r.stage \in Nat
      BY <2>2, RunAssumption, StepNames DEF Run
    <3>2. QED
      BY <1>1, <2>2, <2>5, <3>1 DEF CopyBehind
  <2>10. LoopFits(w)'
    <3>1. /\ r.phase \in Nat \ {0} /\ Len(RowsOf(r.phase)) \in Nat /\ Len(Rows) \in Nat \ {0}
      <4>1. r.phase \in Nat \ {0}
        BY <2>2, RunAssumption DEF Run
      <4>2. QED
        BY <4>1, PhaseEvents, RowsOfRun
    <3>2. pc'[w] = "send" => \A i \in 1..row'[w] : InLog(Event(RowsOf(run[w].phase)[i], run[w].phase))'
      BY <1>1, <2>5
    <3>3. ASSUME pc'[w] = "consume", NEW p \in Partition
          PROVE  ReceivedUpTo(run[w], p, cursor[w][p])'
      <4>1. ReceivedUpTo(r, p, cursor[w][p])
        BY <2>1, <2>2, <2>5, <3>3 DEF WorkerFits, LoopFits
      <4>2. QED
        BY <1>1, <2>2, <4>1 DEF ReceivedUpTo
    <3>4. QED
      BY <1>1, <2>2, <2>5, <3>1, <3>2, <3>3 DEF LoopFits
  <2>11. QED
    BY <1>3, <2>7, <2>8, <2>9, <2>10 DEF WorkerFits
<1>6. QED
  BY <1>1, <1>4, <1>5 DEF Saving

(* A worker whose request goes on without an exception.                    *)
LEMMA WorkingCopy ==
    ASSUME TypeOK, NEW w \in Worker, WorkerFits(w), AtStep(w)
    PROVE  /\ run[w] \in Run /\ CopyTrue(run[w]) /\ task[w] \in Step
           /\ run[w].phase \in Nat \ {0} /\ run[w].phase \in 1..MaxPhase
           /\ RowsOf(run[w].phase) \in Seq(Account)
           /\ Len(RowsOf(run[w].phase)) \in Nat /\ Len(RowsOf(run[w].phase)) \in 1..Len(Rows)
<1>1. run[w] \in Run /\ CopyTrue(run[w]) /\ task[w] \in Step
  BY DEF WorkerFits, CopyFits, TaskFits
<1>2. run[w].phase \in 1..MaxPhase
  BY <1>1 DEF Run
<1>3. run[w].phase \in Nat \ {0}
  BY <1>2, RunAssumption
<1>4. QED
  BY <1>1, <1>2, <1>3, PhaseEvents

(* Uploading the artifacts of source, transfer and parse.                  *)
LEMMA PutKeeps ==
    ASSUME TypeOK, SharedTypes', NEW w \in Worker, WorkerFits(w), Put(w)
    PROVE  WorkerFits(w)' /\ LocalTypes'
<1>1. /\ UNCHANGED <<manifest, lease, leased, log, docs, task, current, fenced, row, cursor, faults>>
      /\ Complete(w) /\ pc[w] = "put" /\ PutArtifacts(w)
  BY DEF Put, PutArtifacts, control
<1>2. run[w] \in Run /\ task[w] # "publish" /\ task[w] # "apply"
  BY <1>1 DEF WorkerFits, CopyFits, TaskFits, AtStep
<1>3. /\ WorkerFits(w)'
      /\ pc' \in [Worker -> Label] /\ run' \in [Worker -> Run \union {None}]
  BY <1>1, <1>2, CompleteKeeps
<1>4. blobs' \subseteq {"source", "metadata", "landing", "parsed", "events"} \X (1..MaxPhase)
  BY <1>1, <1>2, ArtifactTypes
<1>5. QED
  BY <1>1, <1>3, <1>4 DEF TypeOK, LocalTypes

(* The end of publish: all events of the phase are in the hub, behind the  *)
(* starting positions.                                                     *)
LEMMA PublishedKeeps ==
    ASSUME TypeOK, SharedTypes', NEW w \in Worker, WorkerFits(w), Published(w)
    PROVE  WorkerFits(w)' /\ LocalTypes'
<1>1. /\ UNCHANGED <<manifest, lease, leased, blobs, log, docs, task, current, fenced, row, cursor, faults>>
      /\ Complete(w) /\ pc[w] = "send" /\ row[w] = Len(RowsOf(run[w].phase))
  BY DEF Published, control, stores
<1>2. /\ run[w].start # None /\ task[w] = "publish"
      /\ \A i \in 1..Len(RowsOf(run[w].phase)) : InLog(Event(RowsOf(run[w].phase)[i], run[w].phase))
  BY <1>1 DEF WorkerFits, LoopFits, TaskFits
<1>3. run[w].phase \in Nat \ {0}
  BY <1>1, WorkingCopy DEF AtStep
<1>4. \A e \in EventsOf(run[w].phase) : InLog(e)
  BY <1>2, <1>3, PhaseEvents
<1>5. /\ WorkerFits(w)'
      /\ pc' \in [Worker -> Label] /\ run' \in [Worker -> Run \union {None}]
  BY <1>1, <1>2, <1>4, CompleteKeeps
<1>6. QED
  BY <1>1, <1>5 DEF TypeOK, LocalTypes

(* The end of apply: consume returns when every event of the phase was     *)
(* received.                                                               *)
LEMMA ConsumedKeeps ==
    ASSUME TypeOK, SharedTypes', NEW w \in Worker, WorkerFits(w), Consumed(w)
    PROVE  WorkerFits(w)' /\ LocalTypes'
<1>1. /\ UNCHANGED <<manifest, lease, leased, blobs, log, docs, task, current, fenced, row, cursor, faults>>
      /\ Complete(w) /\ pc[w] = "consume" /\ Received(run[w])
  BY DEF Consumed, control, stores
<1>2. task[w] = "apply"
  BY <1>1 DEF WorkerFits, TaskFits
<1>3. /\ WorkerFits(w)'
      /\ pc' \in [Worker -> Label] /\ run' \in [Worker -> Run \union {None}]
  BY <1>1, <1>2, CompleteKeeps
<1>4. QED
  BY <1>1, <1>3 DEF TypeOK, LocalTypes

(* One point read of verify, and its end when all accounts were equal.     *)
LEMMA VerifyKeeps ==
    ASSUME TypeOK, SharedTypes', Grows, MovesOn, NEW w \in Worker, WorkerFits(w), Verify(w)
    PROVE  WorkerFits(w)' /\ LocalTypes'
<1>1. /\ UNCHANGED <<manifest, lease, leased, blobs, log, docs, task, current, fenced, cursor, faults>>
      /\ pc[w] = "verify"
  BY DEF Verify, control, stores
<1>2. task[w] = "verify" /\ row[w] < Len(Rows) /\ row[w] \in Nat /\ Len(Rows) \in Nat
  BY <1>1, RowsOfRun DEF WorkerFits, TaskFits, LoopFits, TypeOK
<1>3. CASE Raise(w, run[w]) /\ UNCHANGED row
  <2>1. current'[w] => current[w] /\ manifest' = manifest
    BY <1>1
  <2>2. /\ WorkerFits(w)'
        /\ pc' \in [Worker -> Label] /\ run' \in [Worker -> Run \union {None}]
    BY <1>1, <1>3, <2>1, RaiseKeeps
  <2>3. QED
    BY <1>1, <1>3, <2>2 DEF TypeOK, LocalTypes
<1>4. CASE row' = [row EXCEPT ![w] = @ + 1] /\ row[w] + 1 = Len(Rows) /\ Complete(w)
  <2>1. /\ WorkerFits(w)'
        /\ pc' \in [Worker -> Label] /\ run' \in [Worker -> Run \union {None}]
    BY <1>1, <1>2, <1>4, CompleteKeeps
  <2>2. row[w] + 1 \in 0..Len(Rows)
    BY <1>2, <1>4
  <2>3. row' \in [Worker -> 0..Len(Rows)]
    BY <1>4, <2>2 DEF TypeOK
  <2>4. QED
    BY <1>1, <2>1, <2>3 DEF TypeOK, LocalTypes
<1>5. CASE row' = [row EXCEPT ![w] = @ + 1] /\ row[w] + 1 # Len(Rows) /\ UNCHANGED <<pc, run>>
  <2>1. row[w] + 1 \in 0..Len(Rows) /\ row[w] + 1 < Len(Rows)
    BY <1>2, <1>5
  <2>2. row' \in [Worker -> 0..Len(Rows)] /\ row'[w] = row[w] + 1
    BY <1>5, <2>1 DEF TypeOK
  <2>3. PICK r : r = run[w]
    OBVIOUS
  <2>4. CopyTrue(run[w])' /\ (CopyResumes(run[w]) => CopyResumes(run[w])')
    <3>1. CopyTrue(run[w])
      BY <1>1, WorkingCopy DEF AtStep
    <3>2. QED
      BY <1>1, <1>5, <3>1
         DEF CopyTrue, Received, Completed, InLog, CopyResumes, ReceivedUpTo, Position
  <2>5. TaskFits(w)' /\ CopyFits(w)' /\ CopyCurrent(w)' /\ CopyBehind(w)'
    BY <1>1, <1>5, <2>4 DEF WorkerFits, TaskFits, CopyFits, CopyCurrent, CopyBehind, AtStep
  <2>6. LoopFits(w)'
    BY <1>1, <1>5, <2>1, <2>2 DEF LoopFits
  <2>7. QED
    BY <1>1, <1>5, <2>2, <2>5, <2>6 DEF WorkerFits, TypeOK, LocalTypes
<1>6. QED
  BY <1>3, <1>4, <1>5 DEF Verify

(* Uploading the events of the phase before they are published.            *)
LEMMA PutEventsKeeps ==
    ASSUME TypeOK, SharedTypes', Grows, MovesOn, NEW w \in Worker, WorkerFits(w), PutEvents(w)
    PROVE  WorkerFits(w)' /\ LocalTypes'
<1>1. /\ UNCHANGED <<manifest, lease, leased, log, docs, task, run, current, fenced, row, cursor, faults>>
      /\ pc[w] = "events" /\ PutArtifacts(w)
      /\ pc' = [pc EXCEPT ![w] = IF run[w].start = None THEN "positions" ELSE "send"]
  BY DEF PutEvents, PutArtifacts, control, Goto
<1>2. /\ run[w] \in Run /\ CopyTrue(run[w]) /\ task[w] = "publish" /\ row[w] = 0
      /\ Len(RowsOf(run[w].phase)) \in Nat
  BY <1>1, WorkingCopy DEF AtStep, WorkerFits, TaskFits, LoopFits
<1>3. blobs' \subseteq {"source", "metadata", "landing", "parsed", "events"} \X (1..MaxPhase)
  BY <1>1, <1>2, ArtifactTypes
<1>4. LocalTypes'
  BY <1>1, <1>3 DEF TypeOK, LocalTypes, Label
<1>5. pc'[w] = IF run[w].start = None THEN "positions" ELSE "send"
  BY <1>1 DEF TypeOK
<1>6. CopyTrue(run[w])' /\ (CopyResumes(run[w]) => CopyResumes(run[w])')
  BY <1>1, <1>2 DEF CopyTrue, Received, Completed, InLog, CopyResumes, ReceivedUpTo, Position
<1>7. TaskFits(w)' /\ CopyFits(w)'
  BY <1>1, <1>2, <1>5, <1>6 DEF WorkerFits, TaskFits, CopyFits, AtStep
<1>8. CopyCurrent(w)' /\ CopyBehind(w)'
  BY <1>1, <1>5, <1>6 DEF WorkerFits, CopyCurrent, CopyBehind, AtStep
<1>9. LoopFits(w)'
  <2>1. \A i \in 1..row'[w] : InLog(Event(RowsOf(run[w].phase)[i], run[w].phase))'
    BY <1>1, <1>2
  <2>2. QED
    BY <1>1, <1>2, <1>5, <2>1 DEF LoopFits
<1>10. QED
  BY <1>4, <1>7, <1>8, <1>9 DEF WorkerFits

(* The positions are read before anything of the phase is sent, so that no *)
(* event of it lies below them.                                            *)
LEMMA ReadPositionsKeeps ==
    ASSUME TypeOK, SharedTypes', LogFits, NEW w \in Worker, WorkerFits(w), ReadPositions(w)
    PROVE  WorkerFits(w)' /\ LocalTypes'
<1> DEFINE here == [p \in Partition |-> Len(log[p])]
<1>1. /\ UNCHANGED <<manifest, lease, leased, blobs, log, docs, task, current, fenced, row, cursor, faults>>
      /\ pc[w] = "positions" /\ pc' = [pc EXCEPT ![w] = "mark"]
      /\ run' = [run EXCEPT ![w] = [@ EXCEPT !.start = here]]
  BY DEF ReadPositions, control, stores, Goto
<1>2. PICK r : r = run[w]
  OBVIOUS
<1>3. PICK q : q = [r EXCEPT !.start = here]
  OBVIOUS
<1>4. /\ r \in Run /\ CopyTrue(r) /\ task[w] = "publish" /\ row[w] = 0 /\ r.start = None
      /\ r.stage = Index(task[w]) - 1 /\ r.stage = 3
  BY <1>1, <1>2, StepPlaces DEF AtStep, WorkerFits, TaskFits, CopyFits, LoopFits
<1>5. here \in [Partition -> Nat] /\ here # None
  BY LogTypes, RunAssumption
<1>6. /\ q \in Run /\ q.phase = r.phase /\ q.stage = r.stage /\ q.steps = r.steps
      /\ q.received = r.received /\ q.saved = r.saved /\ q.start = here
  <2> HIDE DEF here
  <2>1. r \in Run
    BY <1>4
  <2>2. QED
    BY <1>3, <1>5, <2>1 DEF Run
<1>7. r.saved = NoCursor /\ \A p \in Partition : q.saved[p] = 0
  BY <1>4, <1>6 DEF CopyTrue, NoCursor
<1>8. CopyTrue(q)
  <2>1. ~Completed(r, "publish") /\ ~Completed(r, "apply")
    BY <1>4, StepNames DEF CopyTrue
  <2>2. \A s : Completed(q, s) <=> Completed(r, s)
    BY <1>6 DEF Completed
  <2>3. QED
    BY <1>4, <1>5, <1>6, <2>1, <2>2 DEF CopyTrue
<1>9. run' = [run EXCEPT ![w] = q] /\ run'[w] = q /\ pc'[w] = "mark"
  BY <1>1, <1>2, <1>3 DEF TypeOK
<1>10. LocalTypes'
  BY <1>1, <1>6, <1>9 DEF TypeOK, LocalTypes, Label
<1>11. CopyTrue(run[w])' /\ (CopyResumes(q) => CopyResumes(run[w])')
  BY <1>1, <1>8, <1>9 DEF CopyTrue, Received, Completed, InLog, CopyResumes, ReceivedUpTo, Position
<1>12. TaskFits(w)' /\ CopyFits(w)' /\ LoopFits(w)'
  <2>1. AtStep(w) /\ pc'[w] = "mark" /\ task'[w] = "publish" /\ row'[w] = 0
    BY <1>1, <1>4, <1>9 DEF AtStep
  <2>2. TaskFits(w)'
    BY <2>1, StepNames DEF TaskFits
  <2>3. CopyFits(w)'
    BY <1>1, <1>4, <1>6, <1>9, <1>11, <2>1 DEF CopyFits
  <2>4. LoopFits(w)'
    BY <1>5, <1>6, <1>9, <2>1 DEF LoopFits
  <2>5. QED
    BY <2>2, <2>3, <2>4
<1>13. CopyCurrent(w)'
  <2> SUFFICES ASSUME current[w]
               PROVE  CopyCurrent(w)'
    BY <1>1, <1>9 DEF CopyCurrent
  <2>1. /\ r.phase = manifest.phase /\ manifest.stage = Index(task[w]) - 1
        /\ manifest.start = None
    BY <1>1, <1>2, <1>4 DEF WorkerFits, CopyCurrent, AtStep
  <2>2. ASSUME NEW p \in Partition PROVE ReceivedUpTo(q, p, Position(q, p))
    <3>1. Position(q, p) = Len(log[p])
      BY <1>6, <1>7 DEF Position
    <3>2. Len(log[p]) \in Nat /\ DOMAIN log[p] = 1..Len(log[p])
      BY LogTypes
    <3>3. \A i \in 1..Len(log[p]) : log[p][i].phase # q.phase
      BY <1>6, <2>1, <3>2 DEF LogFits
    <3>4. QED
      BY <3>1, <3>2, <3>3 DEF ReceivedUpTo
  <2>3. CopyResumes(run[w])'
    BY <1>11, <2>2 DEF CopyResumes
  <2>4. QED
    BY <1>1, <1>6, <1>9, <2>1, <2>3 DEF CopyCurrent
<1>14. CopyBehind(w)'
  BY <1>1, <1>2, <1>4, <1>6, <1>9 DEF WorkerFits, CopyBehind, AtStep
<1>15. QED
  BY <1>10, <1>12, <1>13, <1>14 DEF WorkerFits

(* One event sent to the hub.                                              *)
LEMMA SendKeeps ==
    ASSUME TypeOK, SharedTypes', Grows, NEW w \in Worker, WorkerFits(w), Send(w)
    PROVE  WorkerFits(w)' /\ LocalTypes'
<1>1. /\ UNCHANGED <<manifest, lease, leased, blobs, docs, pc, task, run, current, fenced, cursor, faults>>
      /\ row' = [row EXCEPT ![w] = @ + 1]
      /\ pc[w] = "send" /\ row[w] < Len(RowsOf(run[w].phase))
      /\ Sends(w)
  BY DEF Send, Sends, SendEvent, control
<1>2. PICK r : r = run[w]
  OBVIOUS
<1>3. /\ r \in Run /\ CopyTrue(r) /\ AtStep(w) /\ r.phase \in Nat \ {0}
      /\ RowsOf(r.phase) \in Seq(Account)
      /\ Len(RowsOf(r.phase)) \in Nat /\ Len(RowsOf(r.phase)) <= Len(Rows)
  BY <1>1, <1>2, WorkingCopy DEF AtStep
<1>4. row[w] \in Nat /\ Len(Rows) \in Nat
  BY RowsOfRun DEF TypeOK
<1>5. row[w] + 1 \in 0..Len(Rows) /\ row[w] + 1 <= Len(RowsOf(r.phase))
  BY <1>1, <1>2, <1>3, <1>4
<1>6. row' \in [Worker -> 0..Len(Rows)] /\ row'[w] = row[w] + 1
  BY <1>1, <1>5 DEF TypeOK
<1>7. LocalTypes'
  BY <1>1, <1>6 DEF TypeOK, LocalTypes
<1>8. CopyTrue(r)' /\ (CopyResumes(r) => CopyResumes(r)')
  BY <1>3, CopyStaysTrue, CopyStillResumes
<1>9. CopyTrue(run[w])' /\ (CopyResumes(r) => CopyResumes(run[w])')
  BY <1>1, <1>2, <1>8
     DEF CopyTrue, Received, Completed, InLog, CopyResumes, ReceivedUpTo, Position
<1>10. TaskFits(w)' /\ CopyFits(w)' /\ CopyCurrent(w)' /\ CopyBehind(w)'
  BY <1>1, <1>2, <1>9 DEF WorkerFits, TaskFits, CopyFits, CopyCurrent, CopyBehind, AtStep
<1>11. \A i \in 1..(row[w] + 1) : InLog(Event(RowsOf(r.phase)[i], r.phase))'
  <2> SUFFICES ASSUME NEW i \in 1..(row[w] + 1)
               PROVE  InLog(Event(RowsOf(r.phase)[i], r.phase))'
    OBVIOUS
  <2>1. PICK e : e = Event(RowsOf(r.phase)[i], r.phase)
    OBVIOUS
  <2>2. i \in 1..Len(RowsOf(r.phase)) /\ e.account \in Account
    BY <1>3, <1>4, <1>5, <2>1 DEF Event
  <2>3. CASE i = row[w] + 1
    <3>1. PICK p : p = PartitionOf[NextEvent(w).account]
      OBVIOUS
    <3>2. e = NextEvent(w) /\ p \in Partition
      BY <1>1, <1>2, <2>1, <2>3, <3>1, SendingTypes
    <3>3. /\ log' \in [Partition -> Seq(Message)]
          /\ Len(log'[p]) = Len(log[p]) + 1
          /\ log'[p][Len(log[p]) + 1] = NextEvent(w)
          /\ \A o \in 1..Len(log[p]) : log'[p][o] = log[p][o]
          /\ \A q \in Partition : q # p => log'[q] = log[q]
          /\ UNCHANGED <<manifest, docs, quarantine>>
      BY <1>1, <3>1, SendAppends
    <3>4. Len(log[p]) \in Nat
      BY <3>2, LogTypes
    <3>5. log'[p] \in Seq(Message)
      BY <3>2, <3>3
    <3>6. Len(log[p]) + 1 \in DOMAIN log'[p]
      BY <3>3, <3>4, <3>5
    <3>7. InLog(e)'
      BY <3>1, <3>2, <3>3, <3>6 DEF InLog
    <3>8. QED
      BY <2>1, <3>7 DEF InLog
  <2>4. CASE i # row[w] + 1
    <3>1. i \in 1..row[w]
      BY <1>4, <2>4
    <3>2. InLog(e)
      BY <1>1, <1>2, <2>1, <3>1 DEF WorkerFits, LoopFits
    <3>3. InLog(e)'
      BY <2>2, <3>2, LogStays
    <3>4. QED
      BY <2>1, <3>3 DEF InLog
  <2>5. QED
    BY <2>3, <2>4
<1>12. LoopFits(w)'
  <2>1. \A i \in 1..row'[w] : InLog(Event(RowsOf(run[w].phase)[i], run[w].phase))'
    BY <1>1, <1>2, <1>6, <1>11 DEF InLog
  <2>2. QED
    BY <1>1, <1>2, <1>5, <1>6, <2>1 DEF WorkerFits, LoopFits
<1>13. QED
  BY <1>7, <1>10, <1>12 DEF WorkerFits

(* The start of apply at the saved positions.                              *)
LEMMA AttachKeeps ==
    ASSUME TypeOK, SharedTypes', NEW w \in Worker, WorkerFits(w), Attach(w)
    PROVE  WorkerFits(w)' /\ LocalTypes'
<1>1. /\ UNCHANGED <<manifest, lease, leased, blobs, log, docs, task, run, current, fenced, row, faults>>
      /\ pc[w] = "attach" /\ pc' = [pc EXCEPT ![w] = "consume"]
      /\ cursor' = [cursor EXCEPT ![w] = [p \in Partition |-> Position(run[w], p)]]
  BY DEF Attach, control, stores, Goto
<1>2. PICK r : r = run[w]
  OBVIOUS
<1>3. /\ r \in Run /\ CopyTrue(r) /\ task[w] = "apply" /\ AtStep(w)
      /\ r.stage = 4
  BY <1>1, <1>2, StepPlaces DEF AtStep, WorkerFits, TaskFits, CopyFits
<1>4. r.start # None
  BY <1>3, StepNames DEF CopyTrue
<1>5. \A p \in Partition : Position(r, p) \in Nat
  BY <1>3, <1>4 DEF Run, Position
<1>6. /\ cursor' \in [Worker -> [Partition -> Nat]]
      /\ \A p \in Partition : cursor'[w][p] = Position(r, p)
  BY <1>1, <1>2, <1>5 DEF TypeOK
<1>7. LocalTypes' /\ pc'[w] = "consume"
  BY <1>1, <1>6 DEF TypeOK, LocalTypes, Label
<1>8. CopyTrue(run[w])' /\ (CopyResumes(r) => CopyResumes(run[w])')
  BY <1>1, <1>2, <1>3 DEF CopyTrue, Received, Completed, InLog, CopyResumes, ReceivedUpTo, Position
<1>9. TaskFits(w)' /\ CopyFits(w)' /\ CopyCurrent(w)' /\ CopyBehind(w)'
  BY <1>1, <1>2, <1>3, <1>7, <1>8 DEF WorkerFits, TaskFits, CopyFits, CopyCurrent, CopyBehind, AtStep
<1>10. LoopFits(w)'
  <2>1. ASSUME current[w], NEW p \in Partition
        PROVE  ReceivedUpTo(run[w], p, cursor[w][p])'
    <3>1. ReceivedUpTo(r, p, Position(r, p))
      BY <1>2, <1>3, <1>4, <2>1 DEF WorkerFits, CopyCurrent, CopyResumes
    <3>2. QED
      BY <1>1, <1>2, <1>6, <3>1 DEF ReceivedUpTo
  <2>2. QED
    BY <1>1, <1>7, <2>1 DEF LoopFits
<1>11. QED
  BY <1>7, <1>9, <1>10 DEF WorkerFits

(* What is applied is remembered, and the checkpoint passes over nothing   *)
(* that is still to be received.                                           *)
LEMMA ReceiveKeeps ==
    ASSUME TypeOK, SharedTypes', Grows, LogFits, DocsFit, NEW w \in Worker, WorkerFits(w),
           NEW p \in Partition, NEW o \in DOMAIN log[p], Receive(w, p, o)
    PROVE  WorkerFits(w)' /\ LocalTypes'
<1>1. /\ UNCHANGED <<manifest, lease, leased, blobs, log, task, current, fenced, row, faults>>
      /\ pc[w] = "consume" /\ Upcoming(w, p, o) /\ Process(log[p][o])
      /\ cursor' = [cursor EXCEPT ![w][p] = o]
  BY DEF Receive, Process, control
<1>2. PICK r : r = run[w]
  OBVIOUS
<1>3. PICK e : e = log[p][o]
  OBVIOUS
<1>4. /\ r \in Run /\ e \in Message /\ e.phase = r.phase /\ e.account \in Account
      /\ r.stage = 4 /\ r.start # None /\ CopyTrue(r)
  BY <1>1, <1>2, <1>3, ApplyingTypes
<1>5. Len(log[p]) \in Nat /\ DOMAIN log[p] = 1..Len(log[p]) /\ o \in Nat \ {0} /\ o <= Len(log[p])
  BY LogTypes
<1>6. /\ cursor' \in [Worker -> [Partition -> Nat]]
      /\ cursor'[w][p] = o /\ \A q \in Partition : q # p => cursor'[w][q] = cursor[w][q]
  BY <1>1, <1>5 DEF TypeOK
<1>7. ASSUME pc' \in [Worker -> Label], run' \in [Worker -> Run \union {None}] PROVE LocalTypes'
  BY <1>1, <1>6, <1>7 DEF TypeOK, LocalTypes
<1>8. CASE Raise(w, run[w])
  BY <1>1, <1>7, <1>8, RaiseKeeps
<1>9. CASE /\ run' = [run EXCEPT ![w] = Remember(@, p, o, log[p][o])] /\ Goto(w, "record")
  <2>1. PICK c : c = Remember(r, p, o, e)
    OBVIOUS
  <2>2. /\ c \in Run /\ c.phase = r.phase /\ c.stage = r.stage /\ c.steps = r.steps
        /\ c.start = r.start /\ c.received = r.received \union {e}
        /\ c.saved[p] = o /\ \A q \in Partition : q # p => c.saved[q] = r.saved[q]
    BY <1>4, <1>5, <2>1 DEF Run, Remember, Message
  <2>3. run' = [run EXCEPT ![w] = c] /\ run'[w] = c /\ pc' = [pc EXCEPT ![w] = "record"] /\ pc'[w] = "record"
    BY <1>2, <1>3, <1>9, <2>1 DEF TypeOK, Goto
  <2>4. LocalTypes'
    <3>1. pc' \in [Worker -> Label]
      BY <2>3 DEF TypeOK, Label
    <3>2. run' \in [Worker -> Run \union {None}]
      BY <2>2, <2>3 DEF TypeOK
    <3>3. QED
      BY <1>7, <3>1, <3>2
  <2>5. docs'[e.account] >= e.phase
    <3>1. \/ docs' = docs /\ docs[e.account] >= e.phase
          \/ docs' = [docs EXCEPT ![e.account] = e.phase]
      BY <1>1, <1>3, ApplyMoves
    <3>2. e.phase \in Nat
      BY <1>4, RunAssumption DEF Message
    <3>3. QED
      BY <1>4, <3>1, <3>2, SMTT(30) DEF TypeOK
  <2>6. CopyTrue(r)'
    BY <1>4, CopyStaysTrue
  <2>7. task[w] = "apply" /\ AtStep(w)
    BY <1>1 DEF AtStep, WorkerFits, TaskFits
  <2>8. CopyTrue(run[w])'
    <3>1. \A s : Completed(c, s) <=> Completed(r, s)
      BY <2>2 DEF Completed
    <3>2. \A i \in 1..6 : Completed(c, Steps[i]) <=> i <= c.stage
      BY <2>2, <2>6, <3>1, StepNames DEF CopyTrue
    <3>3. \A f \in c.received : docs'[f.account] >= f.phase
      BY <2>2, <2>5, <2>6 DEF CopyTrue
    <3>4. Completed(r, "publish") => \A f \in EventsOf(r.phase) : InLog(f)'
      BY <2>6 DEF CopyTrue
    <3>5. ~Completed(r, "apply")
      BY <1>4, StepNames DEF CopyTrue
    <3>6. CopyTrue(c)'
      BY <1>4, <2>2, <3>1, <3>2, <3>3, <3>4, <3>5, StepNames DEF CopyTrue
    <3>7. QED
      BY <2>3, <3>6 DEF CopyTrue, Received, Completed, InLog
  <2>9. TaskFits(w)' /\ CopyFits(w)'
    <3>1. run[w].stage = Index(task[w]) - 1
      BY <1>1, <2>7 DEF WorkerFits, CopyFits
    <3>2. QED
      BY <1>1, <1>2, <2>2, <2>3, <2>7, <2>8, <3>1, StepNames DEF TaskFits, CopyFits
  <2>10. ASSUME current[w], NEW q \in Partition, NEW k \in Nat, ReceivedUpTo(r, q, k)
         PROVE  ReceivedUpTo(c, q, k)
    BY <2>2, <2>10 DEF ReceivedUpTo
  <2>11. ASSUME current[w] PROVE ReceivedUpTo(c, p, o)
    <3>1. ReceivedUpTo(r, p, cursor[w][p]) /\ cursor[w][p] \in Nat
      BY <1>1, <1>2, <2>11 DEF WorkerFits, LoopFits, TypeOK
    <3>2. \A i \in (cursor[w][p] + 1)..(o - 1) : log[p][i].phase = r.phase => log[p][i] \in r.received
      BY <1>1, <1>2 DEF Upcoming, Concerns
    <3>3. ASSUME NEW i \in 1..o, log[p][i].phase = c.phase
          PROVE  log[p][i] \in c.received
      <4>1. CASE i = o
        BY <1>3, <2>2, <4>1
      <4>2. CASE i <= cursor[w][p]
        <5>1. i \in 1..cursor[w][p]
          BY <3>1, <4>2
        <5>2. QED
          BY <2>2, <3>1, <3>3, <5>1 DEF ReceivedUpTo
      <4>3. CASE i # o /\ ~(i <= cursor[w][p])
        <5>1. i \in (cursor[w][p] + 1)..(o - 1)
          BY <1>5, <3>1, <4>3
        <5>2. QED
          BY <2>2, <3>2, <3>3, <5>1
      <4>4. QED
        BY <4>1, <4>2, <4>3
    <3>4. QED
      BY <1>5, <3>3 DEF ReceivedUpTo
  <2>12. ASSUME current[w], NEW q \in Partition
         PROVE  ReceivedUpTo(c, q, Position(c, q)) /\ ReceivedUpTo(c, q, cursor'[w][q])
    <3>1. CASE q = p
      <4>1. Position(c, q) = o /\ cursor'[w][q] = o
        BY <1>5, <1>6, <2>2, <3>1 DEF Position
      <4>2. QED
        BY <2>11, <2>12, <3>1, <4>1
    <3>2. CASE q # p
      <4>1. Position(c, q) = Position(r, q) /\ cursor'[w][q] = cursor[w][q]
        BY <1>6, <2>2, <3>2 DEF Position
      <4>2. Position(r, q) \in Nat /\ cursor[w][q] \in Nat
        BY <1>4 DEF Position, Run, TypeOK
      <4>3. ReceivedUpTo(r, q, Position(r, q)) /\ ReceivedUpTo(r, q, cursor[w][q])
        BY <1>1, <1>2, <1>4, <2>7, <2>12 DEF WorkerFits, CopyCurrent, CopyResumes, LoopFits
      <4>4. QED
        BY <2>10, <2>12, <4>1, <4>2, <4>3
    <3>3. QED
      BY <3>1, <3>2
  <2>13. current[w] => CopyResumes(run[w])'
    BY <1>1, <2>3, <2>12 DEF CopyResumes, ReceivedUpTo, Position
  <2>14. CopyCurrent(w)'
    BY <1>1, <1>2, <2>2, <2>3, <2>7, <2>13 DEF WorkerFits, CopyCurrent
  <2>15. CopyBehind(w)'
    BY <1>1, <1>2, <2>2, <2>3, <2>7 DEF WorkerFits, CopyBehind
  <2>16. LoopFits(w)'
    <3>1. ASSUME current[w], NEW q \in Partition
          PROVE  ReceivedUpTo(run[w], q, cursor[w][q])'
      BY <1>1, <2>3, <2>12, <3>1 DEF ReceivedUpTo
    <3>2. QED
      BY <1>1, <2>3, <3>1 DEF LoopFits
  <2>17. QED
    BY <2>4, <2>9, <2>14, <2>15, <2>16 DEF WorkerFits
<1>10. QED
  BY <1>8, <1>9 DEF Receive

-----------------------------------------------------------------------------
(* The invariant.                                                          *)

(* A run that was created satisfies the invariant.                         *)
LEMMA RunInit == Init => RunInvariant
<1> SUFFICES ASSUME Init PROVE RunInvariant
  OBVIOUS
<1> USE DEF Init
<1>1. manifest \in Run /\ manifest = Prepared(1)
  BY PreparedRun, RunAssumption
<1>2. SharedTypes
  BY <1>1, RunAssumption DEF SharedTypes
<1>3. LocalTypes
  <2>1. 0 \in 0..Len(Rows) /\ 0 \in 0..MaxFaults /\ NoCursor \in [Partition -> Nat]
    BY RowsOfRun, RunAssumption DEF NoCursor
  <2>2. QED
    BY <2>1 DEF LocalTypes, Label
<1>4. CopyTrue(manifest) /\ CopyResumes(manifest)
  BY <1>1, PreparedTrue
<1>5. LogFits /\ NothingQuarantined
  BY DEF LogFits, NothingQuarantined
<1>6. DocsFit
  BY <1>1 DEF DocsFit, Prepared, Previous
<1>7. ASSUME NEW w \in Worker PROVE WorkerFits(w)
  BY DEF WorkerFits, TaskFits, CopyFits, CopyCurrent, CopyBehind, LoopFits, AtStep
<1>8. QED
  BY <1>2, <1>3, <1>4, <1>5, <1>6, <1>7, TypesAreBoth DEF RunInvariant

(* Whatever a server that lives does next for a request keeps its local    *)
(* state fitting.                                                          *)
LEMMA ServeKeeps ==
    ASSUME RunInvariant, NEW w \in Worker, Serve(w), SharedTypes', Grows, MovesOn
    PROVE  WorkerFits(w)' /\ LocalTypes'
<1>1. TypeOK /\ WorkerFits(w) /\ LogFits /\ DocsFit
  BY DEF RunInvariant
<1>2. CASE Load(w)
  BY <1>2, LoadKeeps
<1>3. CASE LoadRefused(w) \/ SaveRefused(w) \/ CheckFails(w) \/ ReceiveFenced(w)
  BY <1>1, <1>3, ExceptionKeeps
<1>4. CASE Saved(w)
  BY <1>1, <1>4, SavedKeeps
<1>5. CASE Put(w)
  BY <1>1, <1>5, PutKeeps
<1>6. CASE PutEvents(w)
  BY <1>1, <1>6, PutEventsKeeps
<1>7. CASE ReadPositions(w)
  BY <1>1, <1>7, ReadPositionsKeeps
<1>8. CASE Send(w)
  BY <1>1, <1>8, SendKeeps
<1>9. CASE Published(w)
  BY <1>1, <1>9, PublishedKeeps
<1>10. CASE Attach(w)
  BY <1>1, <1>10, AttachKeeps
<1>11. CASE Consumed(w)
  BY <1>1, <1>11, ConsumedKeeps
<1>12. CASE \E p \in Partition : \E o \in DOMAIN log[p] : Receive(w, p, o)
  BY <1>1, <1>12, ReceiveKeeps
<1>13. CASE Verify(w)
  BY <1>1, <1>13, VerifyKeeps
<1>14. QED
  BY <1>2, <1>3, <1>4, <1>5, <1>6, <1>7, <1>8, <1>9, <1>10, <1>11, <1>12, <1>13 DEF Serve

(* Every step of a request keeps the invariant.                            *)
LEMMA ActKeeps ==
    ASSUME RunInvariant, NEW w \in Worker, Acts(w)
    PROVE  RunInvariant'
<1>1. TypeOK /\ \A u \in Worker : WorkerFits(u)
  BY DEF RunInvariant
<1>2. Effect(w) /\ Alone(w)
  BY <1>1, EffectOfAct, ActsAlone
<1>3. SharedTypes' /\ Grows /\ MovesOn
  BY <1>2, SharedTypesKept
<1>4. WorkerFits(w)' /\ LocalTypes'
  <2>1. CASE \E t \in Step \union {"change"} : Request(w, t)
    BY <1>1, <2>1, RequestKeeps
  <2>2. CASE Serve(w)
    BY <1>3, <2>2, ServeKeeps
  <2>3. CASE Release(w) \/ Crash(w)
    BY <1>1, <2>3, EndKeeps
  <2>4. CASE Renew(w)
    BY <1>1, <1>3, <2>4, RenewKeeps
  <2>5. CASE Timeout(w) \/ CallFails(w)
    BY <1>1, <1>3, <2>5, ExceptionKeeps
  <2>6. QED
    BY <2>1, <2>2, <2>3, <2>4, <2>5 DEF Acts
<1>5. ASSUME NEW u \in Worker PROVE WorkerFits(u)'
  <2>1. CASE u = w
    BY <1>4, <2>1
  <2>2. CASE u # w
    <3>1. /\ UNCHANGED <<pc[u], task[u], run[u], row[u], cursor[u]>>
          /\ current'[u] => current[u] /\ manifest' = manifest
      BY <1>2, <2>2 DEF Alone
    <3>2. QED
      BY <1>1, <1>3, <3>1, OthersStayFit
  <2>3. QED
    BY <2>1, <2>2
<1>6. TypeOK'
  BY <1>3, <1>4 DEF SharedTypes, LocalTypes, TypeOK, Message
<1>7. CopyTrue(manifest)' /\ CopyResumes(manifest)' /\ LogFits' /\ DocsFit' /\ NothingQuarantined'
  BY <1>2, ManifestStaysTrue, LogStaysFit, DocsStayFit
<1>8. QED
  BY <1>5, <1>6, <1>7 DEF RunInvariant

(* The loss of a lease keeps the invariant: nothing in it rests on holding *)
(* one.                                                                    *)
LEMMA ExpireKeeps ==
    ASSUME RunInvariant, Expire
    PROVE  RunInvariant'
<1>1. TypeOK /\ leased /\ \A u \in Worker : WorkerFits(u)
  BY DEF RunInvariant, Expire
<1>2. UNCHANGED <<manifest, lease, stores, worker>> /\ leased' = FALSE /\ (Fault \/ NoFault)
  BY DEF Expire
<1>3. PICK w \in Worker : w = lease
  BY <1>1 DEF TypeOK
<1>4. Effect(w)
  BY <1>2 DEF Effect, stores
<1>5. SharedTypes' /\ Grows /\ MovesOn
  BY <1>4, SharedTypesKept
<1>6. \A u \in Worker : WorkerFits(u)'
  BY <1>1, <1>2, <1>5, OthersStayFit DEF worker
<1>7. TypeOK'
  <2>1. faults' \in 0..MaxFaults
    BY <1>1, <1>2, FaultCounts DEF TypeOK
  <2>2. LocalTypes'
    BY <1>1, <1>2, <2>1 DEF TypeOK, LocalTypes, stores, worker
  <2>3. QED
    BY <1>5, <2>2 DEF SharedTypes, LocalTypes, TypeOK, Message
<1>8. QED
  BY <1>4, <1>6, <1>7, ManifestStaysTrue, LogStaysFit, DocsStayFit DEF RunInvariant

(* A step that changes nothing of the run keeps the invariant.             *)
LEMMA StutterKeeps ==
    ASSUME RunInvariant, UNCHANGED <<control, stores, worker>>, Fault \/ NoFault
    PROVE  RunInvariant'
<1>1. /\ UNCHANGED <<manifest, lease, leased, blobs, log, docs, quarantine, pc, task, run, current,
                     fenced, row, cursor>>
      /\ faults' \in 0..MaxFaults
  BY FaultCounts DEF RunInvariant, TypeOK, control, stores, worker
<1>2. TypeOK' /\ LogFits' /\ DocsFit' /\ NothingQuarantined'
  BY <1>1 DEF RunInvariant, TypeOK, LogFits, DocsFit, NothingQuarantined
<1>3. CopyTrue(manifest)' /\ CopyResumes(manifest)'
  BY <1>1 DEF RunInvariant, CopyTrue, Received, Completed, InLog, CopyResumes, ReceivedUpTo, Position
<1>4. ASSUME NEW u \in Worker PROVE WorkerFits(u)'
  <2>1. WorkerFits(u)
    BY DEF RunInvariant
  <2>2. TaskFits(u)' /\ CopyBehind(u)'
    BY <1>1, <2>1 DEF WorkerFits, TaskFits, CopyBehind, AtStep
  <2>3. CopyFits(u)'
    BY <1>1, <2>1 DEF WorkerFits, CopyFits, AtStep, CopyTrue, Received, Completed, InLog
  <2>4. CopyCurrent(u)'
    BY <1>1, <2>1 DEF WorkerFits, CopyCurrent, AtStep, CopyResumes, ReceivedUpTo, Position
  <2>5. LoopFits(u)'
    BY <1>1, <2>1 DEF WorkerFits, LoopFits, InLog, ReceivedUpTo
  <2>6. QED
    BY <2>2, <2>3, <2>4, <2>5 DEF WorkerFits
<1>5. QED
  BY <1>2, <1>3, <1>4 DEF RunInvariant

(* RunInvariant holds in every state of a run.                             *)
THEOREM InvariantHolds == Spec => []RunInvariant
<1>1. RunInvariant /\ [Next]_vars => RunInvariant'
  <2>1. UNCHANGED vars => UNCHANGED <<control, stores, worker>> /\ NoFault
    BY DEF vars, NoFault
  <2>2. QED
    BY <2>1, ActionsOfNext, ActKeeps, ExpireKeeps, StutterKeeps
<1>2. QED
  BY RunInit, <1>1, PTL DEF Spec

(* All state keeps its type (guided_pipeline.py's run, guided_cloud.py's   *)
(* stores).                                                                *)
THEOREM RunTypeCorrect == Spec => []TypeOK
<1>1. RunInvariant => TypeOK
  BY DEF RunInvariant
<1>2. QED
  BY InvariantHolds, <1>1, PTL

(* What the manifest calls completed, received or verified is so, for any  *)
(* number of overlapping requests, lost leases and failed calls.           *)
THEOREM ManifestIsTruthful == Spec => []NoFalseSuccess
<1>1. RunInvariant => NoFalseSuccess
  <2> SUFFICES ASSUME RunInvariant PROVE NoFalseSuccess
    OBVIOUS
  <2>1. TypeOK /\ CopyTrue(manifest) /\ DocsFit
    BY DEF RunInvariant
  <2>2. Completed(manifest, "verify") => manifest.stage > 4
    BY <2>1, StepNames DEF CopyTrue, TypeOK, Run
  <2>3. QED
    BY <2>1, <2>2 DEF NoFalseSuccess, CopyTrue, InLog, DocsFit
<1>2. QED
  BY InvariantHolds, <1>1, PTL

(* "apply" resumes before every event of its phase that is still missing.  *)
THEOREM ResumingSkipsNothing == Spec => []NothingSkipped
<1>1. RunInvariant => NothingSkipped
  <2> SUFFICES ASSUME RunInvariant, manifest.start # None,
                      NEW p \in Partition, NEW o \in DOMAIN log[p],
                      o <= Position(manifest, p), log[p][o].phase = manifest.phase
               PROVE  log[p][o] \in manifest.received
    BY DEF NothingSkipped
  <2>1. TypeOK /\ ReceivedUpTo(manifest, p, Position(manifest, p)) /\ manifest \in Run
    BY DEF RunInvariant, CopyResumes, TypeOK
  <2>2. Position(manifest, p) \in Nat /\ o \in 1..Len(log[p]) /\ Len(log[p]) \in Nat
    BY <2>1, LogTypes DEF Position, Run
  <2>3. o \in 1..Position(manifest, p)
    BY <2>2
  <2>4. QED
    BY <2>1, <2>3 DEF ReceivedUpTo
<1>2. QED
  BY InvariantHolds, <1>1, PTL

(* No phase's event reaches Cosmos before the previous phase's.            *)
THEOREM NoEventIsRefused == Spec => []NothingQuarantined
<1>1. RunInvariant => NothingQuarantined
  BY DEF RunInvariant
<1>2. QED
  BY InvariantHolds, <1>1, PTL

(* The stage counts the steps that are completed, the first ones.          *)
THEOREM StageIsCount == Spec => []StageCountsCompleted
<1>1. RunInvariant => StageCountsCompleted
  BY DEF RunInvariant, CopyTrue, StageCountsCompleted
<1>2. QED
  BY InvariantHolds, <1>1, PTL

-----------------------------------------------------------------------------
(* The run keeps its promise.                                              *)

(* The promise and the run expect the same document of an account.         *)
LEMMA PromiseTarget ==
    ASSUME NEW a \in Account
    PROVE  Promise!Target(a) = Expected(a, manifest.phase)
BY DEF Promise!Target, Expected

(* A run that was created is an initial state of the promise.              *)
LEMMA PromiseInit == Init => Promise!Init
BY DEF Init, Promise!Init, Prepared

(* Every step is a step of the promise, or a stutter.                      *)
LEMMA PromiseKept ==
    ASSUME RunInvariant, NEW w \in Worker, Effect(w)
    PROVE  [Promise!Next]_(Promise!vars)
<1> USE DEF Promise!vars
<1>1. TypeOK /\ WorkerFits(w) /\ LogFits /\ DocsFit /\ manifest.stage \in 0..6 /\ manifest.phase \in Nat
  <2>1. TypeOK /\ WorkerFits(w) /\ LogFits /\ DocsFit
    BY DEF RunInvariant
  <2>2. manifest.stage \in 0..6 /\ manifest.phase \in 1..MaxPhase
    BY <2>1, StepNames DEF TypeOK, Run
  <2>3. QED
    BY <2>1, <2>2, RunAssumption
<1>2. CASE UNCHANGED <<manifest, docs>>
  BY <1>2
<1>3. CASE Uploads(w)
  <2>1. manifest' = run[w] /\ UNCHANGED docs
    BY <1>1, <1>3, UploadMoves DEF Uploads
  <2>2. CASE pc[w] = "alter"
    <3>1. manifest.stage = 6 /\ manifest'.phase = manifest.phase + 1 /\ manifest'.stage = 0
      BY <1>1, <1>3, <2>1, <2>2, UploadMoves DEF Prepared
    <3>2. QED
      BY <2>1, <3>1 DEF Promise!Next, Promise!NewPhase
  <2>3. CASE pc[w] # "alter"
    <3>1. /\ task[w] \in Step /\ CopyTrue(run[w]) /\ run[w] \in Run
          /\ manifest'.phase = manifest.phase /\ manifest.stage = Index(task[w]) - 1
          /\ manifest'.stage = IF pc[w] = "complete" THEN manifest.stage + 1 ELSE manifest.stage
      BY <1>1, <1>3, <2>1, <2>3, UploadMoves
    <3>2. CASE manifest'.stage = manifest.stage
      BY <2>1, <3>1, <3>2
    <3>3. CASE manifest'.stage = manifest.stage + 1
      <4>1. manifest.stage < 6
        BY <3>1, StepPlaces
      <4>2. manifest.stage >= 4 => \A a \in Account : docs[a] = Expected(a, manifest.phase)
        <5>1. CASE manifest.stage = 4
          <6>1. run[w].stage = 5 /\ run[w].phase = manifest.phase
            BY <2>1, <3>1, <3>3, <5>1
          <6>2. Completed(run[w], "apply")
            BY <3>1, <6>1, StepNames DEF CopyTrue
          <6>3. QED
            BY <1>1, <3>1, <6>1, <6>2, ReceivedMeansReached
        <5>2. CASE manifest.stage > 4
          BY <1>1, <5>2 DEF DocsFit
        <5>3. QED
          BY <1>1, <5>1, <5>2
      <4>3. manifest.stage >= 4 => Promise!Reached
        BY <4>2, PromiseTarget DEF Promise!Reached
      <4>4. QED
        BY <2>1, <3>1, <3>3, <4>1, <4>3 DEF Promise!Next, Promise!Finish
    <3>4. QED
      BY <3>1, <3>2, <3>3
  <2>4. QED
    BY <2>2, <2>3
<1>4. CASE Applies(w)
  <2>0. PICK p \in Partition : \E o \in DOMAIN log[p] : Upcoming(w, p, o) /\ Process(log[p][o])
    BY <1>4 DEF Applies
  <2>1. PICK o \in DOMAIN log[p] : Upcoming(w, p, o) /\ Process(log[p][o])
    BY <2>0
  <2>2. PICK e : e = log[p][o]
    OBVIOUS
  <2>3. pc[w] = "consume" /\ UNCHANGED manifest
    BY <1>4 DEF Applies
  <2>4. PICK a \in Account : a = e.account
    BY <1>1, <2>1, <2>2, <2>3, ApplyingTypes
  <2>5. \/ docs' = docs
        \/ /\ docs' = [docs EXCEPT ![e.account] = e.phase]
           /\ manifest.stage = 4
           /\ docs[e.account] + 1 = e.phase
           /\ Expected(e.account, manifest.phase) = e.phase
    BY <1>1, <2>1, <2>2, <2>3, ApplyMoves
  <2>6. CASE docs' = docs
    BY <1>2, <2>3, <2>6
  <2>7. CASE /\ docs' = [docs EXCEPT ![e.account] = e.phase]
             /\ manifest.stage = 4
             /\ docs[e.account] + 1 = e.phase
             /\ Expected(e.account, manifest.phase) = e.phase
    <3>1. docs' = [docs EXCEPT ![a] = docs[a] + 1] /\ docs[a] + 1 = Promise!Target(a)
      BY <2>4, <2>7, PromiseTarget
    <3>2. Promise!Apply(a)
      BY <2>3, <2>7, <3>1 DEF Promise!Apply
    <3>3. QED
      BY <3>2 DEF Promise!Next
  <2>8. QED
    BY <2>5, <2>6, <2>7
<1>5. CASE Sends(w)
  BY <1>2, <1>5 DEF Sends, SendEvent
<1>6. QED
  BY <1>2, <1>3, <1>4, <1>5 DEF Effect

(* Completed steps are never taken back, and accounts change only while    *)
(* "apply" is due.                                                         *)
THEOREM RunKeepsPromise == Spec => ImplementsPromise
<1>1. RunInvariant /\ [Next]_vars => [Promise!Next]_(Promise!vars)
  <2> SUFFICES ASSUME RunInvariant, [Next]_vars
               PROVE  [Promise!Next]_(Promise!vars)
    OBVIOUS
  <2>1. CASE Expire \/ UNCHANGED vars
    BY <2>1 DEF Expire, vars, control, stores, Promise!vars
  <2>2. ASSUME NEW w \in Worker, Acts(w) PROVE [Promise!Next]_(Promise!vars)
    BY <2>2, EffectOfAct, PromiseKept
  <2>3. QED
    BY <2>1, <2>2, ActionsOfNext
<1>2. QED
  BY InvariantHolds, PromiseInit, <1>1, PTL DEF Spec, ImplementsPromise, Promise!Spec
=============================================================================
