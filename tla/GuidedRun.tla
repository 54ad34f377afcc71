----------------------------- MODULE GuidedRun ------------------------------
(***************************************************************************)
(* One run of the guided demo: its manifest in Blob Storage, the requests  *)
(* that work on it (GuidedPipeline.step, GuidedPipeline.change) and the    *)
(* lease that is to keep them apart (AzureCloud.lock, ManifestLease).      *)
(*                                                                         *)
(* A worker is one request in some server process.  It acquires the lease, *)
(* loads the manifest, works on its own copy, and saves the copy with the  *)
(* lease and the etag it loaded.  The lease can expire under a worker that *)
(* is paused or cannot renew; the worker learns of it only from a failed   *)
(* renewal or a refused save, and until then goes on sending and applying. *)
(* Every remote call is a step, and may fail before or after its effect;   *)
(* a worker may die between any two.                                       *)
(*                                                                         *)
(* Phase 1 creates an account per row; each later phase changes the first  *)
(* row's account.  The event of account a in phase n carries version n and *)
(* follows version n - 1; its contents are fixed by the manifest and the   *)
(* immutable landing blob, so two copies of one event are equal.           *)
(***************************************************************************)
EXTENDS Naturals, Sequences, FiniteSets

CONSTANTS
    Worker,        \* requests in progress
    Rows,          \* SAMPLE_ROWS: the sequence of the run's accounts
    Partition,     \* partitions of the event hub
    PartitionOf,   \* account -> partition
    None,
    MaxPhase,      \* bound: phases of the run
    MaxLog,        \* bound: messages in one partition
    MaxFaults      \* bound: crashes, failed calls, lost leases, time-outs

ASSUME RunAssumption ==
    /\ None \notin Worker \union [Partition -> Nat]
    /\ Rows \in Seq({Rows[i] : i \in DOMAIN Rows}) /\ Rows # <<>>
    /\ \A i, j \in DOMAIN Rows : Rows[i] = Rows[j] => i = j
    /\ PartitionOf \in [{Rows[i] : i \in DOMAIN Rows} -> Partition]
    /\ MaxPhase \in Nat \ {0}
    /\ MaxLog \in Nat
    /\ MaxFaults \in Nat

Account == {Rows[i] : i \in DOMAIN Rows}

Steps == <<"source", "transfer", "parse", "publish", "apply", "verify">>
Step == {Steps[i] : i \in DOMAIN Steps}
Index(s) == CHOOSE i \in DOMAIN Steps : Steps[i] = s

VARIABLES
    manifest,      \* the run as Blob Storage holds it
    lease,         \* the worker the manifest's lease was last granted to
    leased,        \* that lease has neither expired nor been released
    blobs,         \* <<artifact, phase>> of the immutable blobs
    log,           \* partition -> sequence of events the hub retains
    docs,          \* account -> version of its Cosmos document, 0 if none
    quarantine,    \* events with a quarantine document
    pc,            \* worker -> the remote call it is about to make
    task,          \* worker -> the step it was asked for, or "change"
    run,           \* worker -> its copy of the run
    current,       \* worker -> its etag is the manifest's
    fenced,        \* worker -> ManifestLease.failure is set
    row,           \* worker -> rows done by its loop (publish, verify)
    cursor,        \* worker -> partition -> last offset received
    faults

Promise == INSTANCE GuidedPromise
    WITH Primary <- Rows[1], phase <- manifest.phase, stage <- manifest.stage

stores == <<blobs, log, docs, quarantine>>
control == <<manifest, lease, leased>>
worker == <<pc, task, run, current, fenced, row, cursor>>
vars == <<control, stores, worker, faults>>

-----------------------------------------------------------------------------
(* The data of a run.                                                      *)

Event(a, n) == [account |-> a, phase |-> n]

(* _metadata: all rows in phase 1, the primary account's row afterwards.   *)
RowsOf(n) == IF n = 1 THEN Rows ELSE <<Rows[1]>>

EventsOf(n) == {Event(RowsOf(n)[i], n) : i \in DOMAIN RowsOf(n)}

(* _expected: the version each account has when the phase is over.         *)
Expected(a, n) == IF a = Rows[1] THEN n ELSE 1

(* _prepare: what a phase starts with.                                     *)
Prepared(n) ==
    [phase |-> n,
     stage |-> 0,
     steps |-> [s \in Step |-> "none"],
     start |-> None,                             \* _publish.startingPositions
     received |-> {},                            \* _received
     saved |-> [p \in Partition |-> 0]]          \* _checkpoints, 0 if none

Completed(r, s) == r.steps[s] = "completed"

Ready(r, s) == \A i \in 1..(Index(s) - 1) : Completed(r, Steps[i])

(* starting_positions, overridden by the run's own checkpoints.            *)
Position(r, p) == IF r.saved[p] # 0 THEN r.saved[p] ELSE r.start[p]

Received(r) == EventsOf(r.phase) \subseteq r.received

NoCursor == [p \in Partition |-> 0]

Init ==
    /\ manifest = Prepared(1)
    /\ lease = None
    /\ leased = FALSE
    /\ blobs = {}
    /\ log = [p \in Partition |-> <<>>]
    /\ docs = [a \in Account |-> 0]
    /\ quarantine = {}
    /\ pc = [w \in Worker |-> "idle"]
    /\ task = [w \in Worker |-> None]
    /\ run = [w \in Worker |-> None]
    /\ current = [w \in Worker |-> FALSE]
    /\ fenced = [w \in Worker |-> FALSE]
    /\ row = [w \in Worker |-> 0]
    /\ cursor = [w \in Worker |-> NoCursor]
    /\ faults = 0

-----------------------------------------------------------------------------
(* Control of a worker.                                                    *)

Fault == faults < MaxFaults /\ faults' = faults + 1
NoFault == faults' = faults

Goto(w, label) == pc' = [pc EXCEPT ![w] = label]

Holds(w) == lease = w /\ leased

(* The request is over: its local variables are gone.                      *)
End(w) ==
    /\ Goto(w, "idle")
    /\ task' = [task EXCEPT ![w] = None]
    /\ run' = [run EXCEPT ![w] = None]
    /\ current' = [current EXCEPT ![w] = FALSE]
    /\ fenced' = [fenced EXCEPT ![w] = FALSE]
    /\ row' = [row EXCEPT ![w] = 0]
    /\ cursor' = [cursor EXCEPT ![w] = NoCursor]

(* An exception.  Inside step's try block it is journalled: the entry      *)
(* becomes "failed" in the worker's copy, which is then saved.  Anywhere   *)
(* else, and while journalling, it ends the request.  What run[w] holds at *)
(* "release" is the answer, None if that is an error.                      *)
InTry(w) == pc[w] \notin {"idle", "load", "begin", "alter", "journal", "release"}

(* Mutant: the failure leaves the stage the completion had set.            *)
FailedRunKeepingStage(w, r) == [r EXCEPT !.steps[task[w]] = "failed"]

FailedRun(w, r) ==
    [r EXCEPT !.steps[task[w]] = "failed", !.stage = Index(task[w]) - 1]

Raise(w, r) ==
    IF InTry(w)
    THEN /\ Goto(w, "journal")
         /\ run' = [run EXCEPT ![w] = FailedRun(w, r)]
    ELSE /\ Goto(w, "release")
         /\ run' = [run EXCEPT ![w] = None]

(* ManifestLease.save: check, then an upload conditional on lease and etag.*)
Saving == {"begin", "alter", "mark", "record", "complete", "journal"}

(* Mutant: an upload without lease and etag.                               *)
MaySaveUnlessFenced(w) == ~fenced[w]

MaySave(w) == ~fenced[w] /\ Holds(w) /\ current[w]

Upload(w) == manifest' = run[w]

FirstLabel(s) ==
    CASE s = "publish" -> "events"
      [] s = "apply" -> "attach"
      [] s = "verify" -> "verify"
      [] OTHER -> "put"

AfterSave(w) ==
    CASE pc[w] = "begin" -> FirstLabel(task[w])
      [] pc[w] = "mark" -> "send"
      [] pc[w] = "record" -> "consume"
      [] OTHER -> "release"

Saved(w) ==
    /\ pc[w] \in Saving
    /\ MaySave(w)
    /\ Upload(w)
    /\ current' = [u \in Worker |-> u = w]
    /\ Goto(w, AfterSave(w))
    /\ run' = IF pc[w] = "journal" THEN [run EXCEPT ![w] = None] ELSE run
    /\ UNCHANGED <<lease, leased, stores, task, fenced, row, cursor, faults>>

(* 409 or 412, or the write gate was closed already.                       *)
SaveRefused(w) ==
    /\ pc[w] \in Saving
    /\ ~MaySave(w)
    /\ fenced' = [fenced EXCEPT ![w] = TRUE]
    /\ Raise(w, run[w])
    /\ UNCHANGED <<control, stores, task, current, row, cursor, faults>>

(* check() raises: before the work, between its rows, and after it.        *)
Checked == {"put", "events", "attach", "send", "verify"}

CheckFails(w) ==
    /\ pc[w] \in Checked
    /\ fenced[w]
    /\ Raise(w, run[w])
    /\ UNCHANGED <<control, stores, task, current, fenced, row, cursor, faults>>

-----------------------------------------------------------------------------
(* The lease.                                                              *)

(* POST /steps/<t> or /change: acquire, unless the lease is taken.         *)
Request(w, t) ==
    /\ pc[w] = "idle"
    /\ ~leased
    /\ lease' = w
    /\ leased' = TRUE
    /\ task' = [task EXCEPT ![w] = t]
    /\ Goto(w, "load")
    /\ UNCHANGED <<manifest, stores, run, current, fenced, row, cursor, faults>>

(* The finally clause of lock(): release what is still ours; if that fails *)
(* the lease stays until it expires.                                       *)
Release(w) ==
    /\ pc[w] = "release"
    /\ End(w)
    /\ \/ leased' = (leased /\ lease # w) /\ NoFault
       \/ leased /\ lease = w /\ UNCHANGED leased /\ Fault
    /\ UNCHANGED <<manifest, lease, stores>>

(* Sixty seconds without a renewal: the worker is gone, or it is paused or *)
(* cannot reach the storage.                                               *)
Expire ==
    /\ leased
    /\ leased' = FALSE
    /\ IF pc[lease] = "idle" THEN NoFault ELSE Fault
    /\ UNCHANGED <<manifest, lease, stores, worker>>

(* The renewal thread: an expired lease that nobody took is renewed; any   *)
(* failure closes the worker's gate and ends the thread.                   *)
Renew(w) ==
    /\ pc[w] \notin {"idle", "release"}
    /\ ~fenced[w]
    /\ \/ /\ lease = w
          /\ ~leased
          /\ leased' = TRUE
          /\ NoFault
          /\ UNCHANGED fenced
       \/ /\ IF lease = w THEN Fault ELSE NoFault
          /\ fenced' = [fenced EXCEPT ![w] = TRUE]
          /\ UNCHANGED leased
    /\ UNCHANGED <<manifest, lease, stores, pc, task, run, current, row, cursor>>

-----------------------------------------------------------------------------
(* GuidedPipeline.step and change.                                         *)

(* control.load, and what is decided on the manifest.  A completed step is *)
(* answered, one whose predecessors are not completed is refused; a step   *)
(* that is due is entered as running.                                      *)
Answer(w, r) == Goto(w, "release") /\ run' = [run EXCEPT ![w] = r]

(* Mutant: a step that says "running" is taken to be at work.              *)
LoadStepUnlessRunning(w) ==
    /\ task[w] \in Step
    /\ IF Completed(manifest, task[w]) THEN Answer(w, manifest)
       ELSE IF ~Ready(manifest, task[w]) \/ manifest.steps[task[w]] = "running" THEN Answer(w, None)
       ELSE /\ run' = [run EXCEPT ![w] = [manifest EXCEPT !.steps[task[w]] = "running"]]
            /\ Goto(w, "begin")

LoadStep(w) ==
    /\ task[w] \in Step
    /\ IF Completed(manifest, task[w]) THEN Answer(w, manifest)
       ELSE IF ~Ready(manifest, task[w]) THEN Answer(w, None)
       ELSE /\ run' = [run EXCEPT ![w] = [manifest EXCEPT !.steps[task[w]] = "running"]]
            /\ Goto(w, "begin")

(* Mutant: a change is accepted once the events are published.             *)
LoadChangeUnverified(w) ==
    /\ task[w] = "change"
    /\ IF Completed(manifest, "publish")
       THEN /\ manifest.phase < MaxPhase
            /\ run' = [run EXCEPT ![w] = Prepared(manifest.phase + 1)]
            /\ Goto(w, "alter")
       ELSE Answer(w, None)

(* The next phase, once the result of this one has been verified; a phase  *)
(* that has just been created is answered again.                           *)
LoadChange(w) ==
    /\ task[w] = "change"
    /\ IF Completed(manifest, "verify")
       THEN /\ manifest.phase < MaxPhase
            /\ run' = [run EXCEPT ![w] = Prepared(manifest.phase + 1)]
            /\ Goto(w, "alter")
       ELSE IF manifest.phase > 1 /\ manifest = Prepared(manifest.phase) THEN Answer(w, manifest)
       ELSE Answer(w, None)

Load(w) ==
    /\ pc[w] = "load"
    /\ Holds(w) /\ ~fenced[w]
    /\ LoadStep(w) \/ LoadChange(w)
    /\ current' = [current EXCEPT ![w] = TRUE]
    /\ UNCHANGED <<control, stores, task, fenced, row, cursor, faults>>

LoadRefused(w) ==
    /\ pc[w] = "load"
    /\ ~Holds(w) \/ fenced[w]
    /\ Raise(w, None)
    /\ UNCHANGED <<control, stores, task, current, fenced, row, cursor, faults>>

(* Mutant: the stage counts one too many.                                  *)
CompletedRunOffByOne(w) ==
    [run[w] EXCEPT !.steps[task[w]] = "completed", !.stage = Index(task[w]) + 1]

(* The result is entered in the copy, which is then saved.                 *)
CompletedRun(w) ==
    [run[w] EXCEPT !.steps[task[w]] = "completed", !.stage = Index(task[w])]

Complete(w) ==
    /\ Goto(w, "complete")
    /\ run' = [run EXCEPT ![w] = CompletedRun(w)]

Artifact(s) ==
    CASE s = "source" -> {"source", "metadata"}
      [] s = "transfer" -> {"landing"}
      [] s = "parse" -> {"parsed"}
      [] OTHER -> {"events"}

Input(s) ==
    CASE s = "source" -> {}
      [] s = "transfer" -> {"source"}
      [] s = "apply" -> {"events"}
      [] OTHER -> {"landing"}

Available(w) == \A k \in Input(task[w]) : <<k, run[w].phase>> \in blobs

PutArtifacts(w) ==
    /\ Available(w)
    /\ blobs' = blobs \union {<<k, run[w].phase>> : k \in Artifact(task[w])}
    /\ UNCHANGED <<log, docs, quarantine>>

(* _source, _transfer, _parse: read the previous artifact, write the next. *)
Put(w) ==
    /\ pc[w] = "put"
    /\ ~fenced[w]
    /\ PutArtifacts(w)
    /\ Complete(w)
    /\ UNCHANGED <<control, task, current, fenced, row, cursor, faults>>

(* Mutant: a retry reads the starting positions anew.                      *)
PutEventsAnew(w) ==
    /\ pc[w] = "events"
    /\ ~fenced[w]
    /\ PutArtifacts(w)
    /\ Goto(w, "positions")
    /\ UNCHANGED <<control, task, run, current, fenced, row, cursor, faults>>

(* _publish: the events blob, and the first time the starting positions.   *)
PutEvents(w) ==
    /\ pc[w] = "events"
    /\ ~fenced[w]
    /\ PutArtifacts(w)
    /\ Goto(w, IF run[w].start = None THEN "positions" ELSE "send")
    /\ UNCHANGED <<control, task, run, current, fenced, row, cursor, faults>>

(* starting_positions; they are saved (label "mark") before the first send.*)
ReadPositions(w) ==
    /\ pc[w] = "positions"
    /\ run' = [run EXCEPT ![w].start = [p \in Partition |-> Len(log[p])]]
    /\ Goto(w, "mark")
    /\ UNCHANGED <<control, stores, task, current, fenced, row, cursor, faults>>

NextEvent(w) == Event(RowsOf(run[w].phase)[row[w] + 1], run[w].phase)

SendEvent(w) ==
    LET p == PartitionOf[NextEvent(w).account]
    IN  /\ Len(log[p]) < MaxLog
        /\ log' = [log EXCEPT ![p] = Append(@, NextEvent(w))]
        /\ UNCHANGED <<blobs, docs, quarantine>>

Send(w) ==
    /\ pc[w] = "send"
    /\ ~fenced[w]
    /\ row[w] < Len(RowsOf(run[w].phase))
    /\ SendEvent(w)
    /\ row' = [row EXCEPT ![w] = @ + 1]
    /\ UNCHANGED <<control, pc, task, run, current, fenced, cursor, faults>>

Published(w) ==
    /\ pc[w] = "send"
    /\ ~fenced[w]
    /\ row[w] = Len(RowsOf(run[w].phase))
    /\ Complete(w)
    /\ UNCHANGED <<control, stores, task, current, fenced, row, cursor, faults>>

(* _apply: one receiver per partition from the run's position.             *)
Attach(w) ==
    /\ pc[w] = "attach"
    /\ ~fenced[w]
    /\ Available(w)
    /\ cursor' = [cursor EXCEPT ![w] = [p \in Partition |-> Position(run[w], p)]]
    /\ Goto(w, "consume")
    /\ UNCHANGED <<control, stores, task, run, current, fenced, row, faults>>

(* The next message that concerns this run: others, of another phase, or   *)
(* received before, are passed over and move no checkpoint.                *)
Concerns(w, e) == e.phase = run[w].phase /\ e \notin run[w].received

Upcoming(w, p, o) ==
    /\ o \in (cursor[w][p] + 1)..Len(log[p])
    /\ Concerns(w, log[p][o])
    /\ \A i \in (cursor[w][p] + 1)..(o - 1) : ~Concerns(w, log[p][i])

(* SyncEngine.process, which on one account is a compare-and-set.          *)
Outcome(e) ==
    CASE e.phase < docs[e.account] -> "stale"
      [] e.phase = docs[e.account] -> "duplicate"
      [] e.phase = docs[e.account] + 1 -> "applied"
      [] OTHER -> "quarantined"

Process(e) ==
    /\ docs' = IF Outcome(e) = "applied" THEN [docs EXCEPT ![e.account] = e.phase] ELSE docs
    /\ quarantine' = IF Outcome(e) = "quarantined" THEN quarantine \union {e} ELSE quarantine
    /\ UNCHANGED <<blobs, log>>

Remember(r, p, o, e) ==
    [r EXCEPT !.received = @ \union {e}, !.saved[p] = o]

Receive(w, p, o) ==
    /\ pc[w] = "consume"
    /\ ~fenced[w]
    /\ Upcoming(w, p, o)
    /\ Process(log[p][o])
    /\ cursor' = [cursor EXCEPT ![w][p] = o]
    /\ IF Outcome(log[p][o]) \in {"applied", "duplicate"}
       THEN /\ run' = [run EXCEPT ![w] = Remember(@, p, o, log[p][o])]
            /\ Goto(w, "record")
       ELSE Raise(w, run[w])
    /\ UNCHANGED <<control, task, current, fenced, row, faults>>

(* Any message makes receive() run into check().                           *)
ReceiveFenced(w) ==
    /\ pc[w] = "consume"
    /\ fenced[w]
    /\ \E p \in Partition : cursor[w][p] < Len(log[p])
    /\ Raise(w, run[w])
    /\ UNCHANGED <<control, stores, task, current, fenced, row, cursor, faults>>

(* Mutant: consume returns at its deadline, whatever is still missing.     *)
ConsumedAtDeadline(w) ==
    /\ pc[w] = "consume"
    /\ Complete(w)
    /\ UNCHANGED <<control, stores, task, current, fenced, row, cursor, faults>>

Consumed(w) ==
    /\ pc[w] = "consume"
    /\ Received(run[w])
    /\ Complete(w)
    /\ UNCHANGED <<control, stores, task, current, fenced, row, cursor, faults>>

(* consume's deadline passes: a fault only if there was a message to get.  *)
Timeout(w) ==
    /\ pc[w] = "consume"
    /\ ~Received(run[w])
    /\ IF \E p \in Partition : \E o \in DOMAIN log[p] : Upcoming(w, p, o)
       THEN Fault ELSE NoFault
    /\ Raise(w, run[w])
    /\ UNCHANGED <<control, stores, task, current, fenced, row, cursor>>

(* _verify: a point read per account of the run.                           *)
Verify(w) ==
    /\ pc[w] = "verify"
    /\ ~fenced[w]
    /\ LET a == Rows[row[w] + 1]
       IN  IF docs[a] # Expected(a, run[w].phase) THEN Raise(w, run[w]) /\ UNCHANGED row
           ELSE /\ row' = [row EXCEPT ![w] = @ + 1]
                /\ IF row[w] + 1 = Len(Rows) THEN Complete(w) ELSE UNCHANGED <<pc, run>>
    /\ UNCHANGED <<control, stores, task, current, fenced, cursor, faults>>

-----------------------------------------------------------------------------
(* Failures.                                                               *)

(* A remote call raises, without or after its effect.                      *)
CallFails(w) ==
    /\ Fault
    /\ pc[w] \notin {"idle", "release"}
    /\ \/ UNCHANGED <<manifest, stores, current>>
       \/ /\ pc[w] \in Saving /\ MaySave(w)
          /\ Upload(w)
          /\ current' = [u \in Worker |-> FALSE]
          /\ UNCHANGED stores
       \/ pc[w] \in {"put", "events"} /\ PutArtifacts(w) /\ UNCHANGED <<manifest, current>>
       \/ /\ pc[w] = "send" /\ row[w] < Len(RowsOf(run[w].phase))
          /\ SendEvent(w)
          /\ UNCHANGED <<manifest, current>>
       \/ /\ pc[w] = "consume"
          /\ \E p \in Partition : \E o \in DOMAIN log[p] :
                Upcoming(w, p, o) /\ Process(log[p][o])
          /\ UNCHANGED <<manifest, current>>
    /\ Raise(w, run[w])
    /\ UNCHANGED <<lease, leased, task, fenced, row, cursor>>

(* The server process dies; the lease stays until it expires.              *)
Crash(w) ==
    /\ Fault
    /\ pc[w] # "idle"
    /\ End(w)
    /\ UNCHANGED <<control, stores>>

-----------------------------------------------------------------------------

Serve(w) ==
    \/ Load(w) \/ LoadRefused(w)
    \/ Saved(w) \/ SaveRefused(w) \/ CheckFails(w)
    \/ Put(w)
    \/ PutEvents(w) \/ ReadPositions(w) \/ Send(w) \/ Published(w)
    \/ Attach(w) \/ Consumed(w) \/ ReceiveFenced(w)
    \/ \E p \in Partition : \E o \in DOMAIN log[p] : Receive(w, p, o)
    \/ Verify(w)

Next ==
    \/ Expire
    \/ \E w \in Worker :
          \/ \E t \in Step \union {"change"} : Request(w, t)
          \/ Serve(w) \/ Release(w)
          \/ Renew(w)
          \/ Timeout(w) \/ CallFails(w) \/ Crash(w)

Spec == Init /\ [][Next]_vars

(* Servers work on, abandoned leases expire, and the operator keeps asking *)
(* for the step that is due.                                               *)
Due ==
    IF Completed(manifest, "verify") THEN "change"
    ELSE CHOOSE s \in Step : ~Completed(manifest, s) /\ Ready(manifest, s)

Fairness ==
    /\ \A w \in Worker : WF_vars(Serve(w) \/ Release(w)) /\ WF_vars(Timeout(w))
    /\ WF_vars(Expire /\ NoFault)
    /\ SF_vars(\E w \in Worker : Request(w, Due))

FairSpec == Spec /\ Fairness

-----------------------------------------------------------------------------
(* Properties.                                                             *)

Run ==
    [phase : 1..MaxPhase,
     stage : 0..Len(Steps),
     steps : [Step -> {"none", "running", "failed", "completed"}],
     start : {None} \union [Partition -> Nat],
     received : SUBSET [account : Account, phase : 1..MaxPhase],
     saved : [Partition -> Nat]]

Label == {"idle", "load", "begin", "put", "events", "positions", "mark", "send",
          "attach", "consume", "record", "verify", "complete", "journal", "alter", "release"}

TypeOK ==
    /\ manifest \in Run
    /\ lease \in Worker \union {None}
    /\ leased \in BOOLEAN
    /\ leased => lease # None
    /\ blobs \subseteq {"source", "metadata", "landing", "parsed", "events"} \X (1..MaxPhase)
    /\ log \in [Partition -> Seq([account : Account, phase : 1..MaxPhase])]
    /\ docs \in [Account -> 0..MaxPhase]
    /\ quarantine \subseteq [account : Account, phase : 1..MaxPhase]
    /\ pc \in [Worker -> Label]
    /\ task \in [Worker -> Step \union {"change", None}]
    /\ run \in [Worker -> Run \union {None}]
    /\ current \in [Worker -> BOOLEAN]
    /\ fenced \in [Worker -> BOOLEAN]
    /\ row \in [Worker -> 0..Len(Rows)]
    /\ cursor \in [Worker -> [Partition -> Nat]]
    /\ faults \in 0..MaxFaults

(* The manifest is never ahead of the stores (guided_pipeline.py:154       *)
(* "never manufacture success", 277 "Cosmos is durable before this         *)
(* run-scoped Blob checkpoint"): a step it calls completed has had its     *)
(* effect, an event it calls received is in Cosmos, and what it calls      *)
(* verified is still so, whatever a worker that lost its lease goes on     *)
(* doing.                                                                  *)
NoFalseSuccess ==
    /\ \A e \in manifest.received : docs[e.account] >= e.phase
    /\ Completed(manifest, "publish") =>
          \A e \in EventsOf(manifest.phase) : \E o \in DOMAIN log[PartitionOf[e.account]] :
              log[PartitionOf[e.account]][o] = e
    /\ Completed(manifest, "apply") => Received(manifest)
    /\ Completed(manifest, "verify") =>
          \A a \in Account : docs[a] = Expected(a, manifest.phase)

(* Resuming skips nothing: no event of the phase that is still to be       *)
(* received lies at or before the position apply starts from               *)
(* (guided_pipeline.py:236 "Before the first send, including sends that    *)
(* fail ambiguously").                                                     *)
NothingSkipped ==
    manifest.start # None =>
        \A p \in Partition : \A o \in DOMAIN log[p] :
            o <= Position(manifest, p) /\ log[p][o].phase = manifest.phase
                => log[p][o] \in manifest.received

(* A run's own events are never refused: however its requests overlap, no  *)
(* phase's event reaches Cosmos before the previous phase's.               *)
NothingQuarantined == quarantine = {}

(* stage, which tells the panel what is due, is the number of completed    *)
(* steps, and these are the first ones.                                    *)
StageCountsCompleted ==
    \A i \in DOMAIN Steps : Completed(manifest, Steps[i]) <=> i <= manifest.stage

(* The run keeps GuidedPromise.  In particular a completed step is never   *)
(* taken back, neither by a late failure journal nor by a paused worker,   *)
(* and no such worker changes an account outside the apply step.           *)
ImplementsPromise == Promise!Spec

(* When faults stop, an operator who keeps asking for the step that is due *)
(* gets the run verified in every phase: nothing a crash, a lost lease, a  *)
(* failed call or a repeated publish leaves behind blocks the run.         *)
EventuallyVerified == <>(manifest.phase = MaxPhase /\ Completed(manifest, "verify"))

-----------------------------------------------------------------------------
(* The inductive invariant behind the safety properties.                   *)

(* What is so of the manifest and of every copy of it that a worker works  *)
(* on, however old: log and documents only grow.                           *)
InLog(e) == \E o \in DOMAIN log[PartitionOf[e.account]] : log[PartitionOf[e.account]][o] = e

CopyTrue(r) ==
    /\ \A i \in DOMAIN Steps : Completed(r, Steps[i]) <=> i <= r.stage
    /\ \A e \in r.received : docs[e.account] >= e.phase
    /\ r.start = None => r.saved = NoCursor
    /\ Completed(r, "publish") => r.start # None /\ \A e \in EventsOf(r.phase) : InLog(e)
    /\ Completed(r, "apply") => Received(r)

(* No event up to offset o of partition p is missing in copy r.            *)
ReceivedUpTo(r, p, o) ==
    /\ o <= Len(log[p])
    /\ \A i \in 1..o : log[p][i].phase = r.phase => log[p][i] \in r.received

(* So is what apply starts from, as long as the copy may be saved.         *)
CopyResumes(r) ==
    r.start # None => \A p \in Partition : ReceivedUpTo(r, p, Position(r, p))

(* A worker that has begun with a step works on a copy of the manifest.    *)
AtStep(w) == pc[w] \notin {"idle", "load", "alter", "release"}

TaskFits(w) ==
    /\ pc[w] = "load" => task[w] \in Step \union {"change"}
    /\ AtStep(w) => task[w] \in Step
    /\ pc[w] = "put" => task[w] \in {"source", "transfer", "parse"}
    /\ pc[w] \in {"events", "positions", "mark", "send"} => task[w] = "publish"
    /\ pc[w] \in {"attach", "consume", "record"} => task[w] = "apply"
    /\ pc[w] = "verify" => task[w] = "verify"

CopyFits(w) ==
    /\ AtStep(w) =>
         /\ run[w] \in Run
         /\ CopyTrue(run[w])
         /\ run[w].stage = IF pc[w] = "complete" THEN Index(task[w]) ELSE Index(task[w]) - 1
    /\ pc[w] = "alter" => run[w] \in Run

(* As long as its etag is the manifest's, the copy differs from it by what *)
(* the step has done since.                                                *)
CopyCurrent(w) ==
    /\ AtStep(w) /\ current[w] =>
         /\ run[w].phase = manifest.phase
         /\ manifest.stage = Index(task[w]) - 1
         /\ manifest.start # None => run[w].start # None
         /\ CopyResumes(run[w])
    /\ pc[w] = "alter" /\ current[w] =>
         /\ manifest.stage = Len(Steps)
         /\ run[w] = Prepared(manifest.phase + 1)

(* After that it is behind: what was due at its step has been done.        *)
CopyBehind(w) ==
    AtStep(w) /\ pc[w] # "journal" =>
        /\ run[w].phase <= manifest.phase
        /\ run[w].phase = manifest.phase =>
              /\ manifest.stage >= Index(task[w]) - 1
              /\ pc[w] # "mark" /\ run[w].start # None => manifest.start # None

(* The loops of publish, apply and verify.                                 *)
LoopFits(w) ==
    /\ pc[w] \in {"idle", "load", "begin", "events", "positions", "mark"} => row[w] = 0
    /\ pc[w] = "positions" => run[w].start = None
    /\ pc[w] \in {"mark", "send"} => run[w].start # None
    /\ pc[w] = "send" =>
         /\ row[w] <= Len(RowsOf(run[w].phase))
         /\ \A i \in 1..row[w] : InLog(Event(RowsOf(run[w].phase)[i], run[w].phase))
    /\ pc[w] \in {"consume", "record"} /\ current[w] =>
         \A p \in Partition : ReceivedUpTo(run[w], p, cursor[w][p])
    /\ pc[w] = "verify" => row[w] < Len(Rows)

WorkerFits(w) == TaskFits(w) /\ CopyFits(w) /\ CopyCurrent(w) /\ CopyBehind(w) /\ LoopFits(w)

(* The hub holds events of the manifest's phases; of its own phase only    *)
(* once the starting positions are saved.                                  *)
LogFits ==
    \A p \in Partition : \A o \in DOMAIN log[p] :
        /\ log[p][o] \in EventsOf(log[p][o].phase)
        /\ log[p][o].phase <= manifest.phase
        /\ manifest.start = None => log[p][o].phase # manifest.phase

(* Accounts are at the version of the previous phase until "apply" is due, *)
(* and at the version of this one afterwards.                              *)
Previous(a, n) == IF n = 1 THEN 0 ELSE Expected(a, n - 1)

DocsFit ==
    \A a \in Account :
        /\ docs[a] \in {Previous(a, manifest.phase), Expected(a, manifest.phase)}
        /\ manifest.stage < 4 => docs[a] = Previous(a, manifest.phase)
        /\ manifest.stage > 4 => docs[a] = Expected(a, manifest.phase)

RunInvariant ==
    /\ TypeOK
    /\ CopyTrue(manifest) /\ CopyResumes(manifest)
    /\ LogFits /\ DocsFit /\ NothingQuarantined
    /\ \A w \in Worker : WorkerFits(w)
=============================================================================
