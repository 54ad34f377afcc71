---------------------------- MODULE GuidedConsume ---------------------------
(***************************************************************************)
(* AzureCloud.consume: a request starts one receiver thread per partition, *)
(* waits until the run has its events, an error or the deadline, and then  *)
(* closes the receivers.  The SDK's close() does nothing to a receiver     *)
(* that has not started up, so each is closed by a thread of its own (its  *)
(* supervisor) that waits for the start-up and may outlive the request;    *)
(* while one does, the process refuses further requests.                   *)
(*                                                                         *)
(* Requests of different runs may be here at the same time (a run's own    *)
(* requests are kept apart by its lease).  Everything lives in the memory  *)
(* of one process.  Message n of a partition is the n-th after the start   *)
(* of the run; a request resumes at the run's checkpoints, which are at    *)
(* events of the run.                                                      *)
(***************************************************************************)
EXTENDS Naturals, FiniteSets

CONSTANTS
    Call,          \* requests
    Partition,
    Positions,     \* call -> the partitions whose positions it is given
    Wanted,        \* partition -> the last message of it the run waits for
    None,
    MaxLog,        \* bound: messages in one partition
    ThreadFaults   \* the threads whose start may fail: "receiver", "supervisor"

ASSUME ConsumeAssumption ==
    /\ MaxLog \in Nat
    /\ Positions \in [Call -> SUBSET Partition]
    /\ Wanted \in [Partition -> 0..MaxLog]
    /\ None \notin Partition
    /\ ThreadFaults \subseteq {"receiver", "supervisor"}

VARIABLES
    pc,            \* call -> where consume is, or its answer
    cursor,        \* call -> partition -> last message on_message accepted
    stopped,       \* call -> the stopped event is set
    errors,        \* call -> errors is not empty
    gate,          \* call -> the partition whose callback holds the gate
    thread,        \* call -> partition -> receiver thread and its client
    ready,         \* call -> partition -> the ready event is set
    told,          \* call -> partition -> the running client has been closed
    closer         \* call -> partition -> supervisor in _closing

request == <<pc, cursor, stopped, errors, gate>>
vars == <<request, thread, ready, told, closer>>

Answers == {"ok", "refused", "failed"}

Goto(c, label) == pc' = [pc EXCEPT ![c] = label]

Set(f, c, p, v) == [f EXCEPT ![c][p] = v]

(* done(): the run has received all of its events.                         *)
Done(c) == \A p \in Positions[c] : cursor[c][p] >= Wanted[p]

ThreadAlive == {"starting", "receiving"}

(* The threads of _closing that is_alive() keeps in the list.  A closer is *)
(* started under the lock that adds it, so no one sees it listed and not   *)
(* yet started, unless its start failed.                                   *)
Closing == {r \in Call \X Partition : closer[r[1]][r[2]] \in {"waiting", "joining"}}

Init ==
    /\ pc = [c \in Call |-> "idle"]
    /\ cursor \in {f \in [Call -> [Partition -> 0..MaxLog]] :
                     \A c \in Call, p \in Partition :
                        f[c][p] <= IF p \in Positions[c] THEN Wanted[p] ELSE 0}
    /\ stopped = [c \in Call |-> FALSE]
    /\ errors = [c \in Call |-> FALSE]
    /\ gate = [c \in Call |-> None]
    /\ thread = [c \in Call |-> [p \in Partition |-> "none"]]
    /\ ready = [c \in Call |-> [p \in Partition |-> FALSE]]
    /\ told = [c \in Call |-> [p \in Partition |-> FALSE]]
    /\ closer = [c \in Call |-> [p \in Partition |-> "none"]]

-----------------------------------------------------------------------------
(* The request.                                                            *)

Admit(c) ==
    /\ pc[c] = "idle"
    /\ \/ Closing # {} /\ Goto(c, "refused")
       \/ Closing = {} /\ Done(c) /\ Goto(c, "ok")
       \/ Closing = {} /\ ~Done(c) /\ Goto(c, "starting")
    /\ UNCHANGED <<cursor, stopped, errors, gate, thread, ready, told, closer>>

(* One turn of the loop.  A client that cannot be made, or a thread that   *)
(* cannot be started, is an exception: consume ends with it whatever else  *)
(* happens, so it is kept with the errors.                                 *)
StartReceiver(c, p) ==
    /\ pc[c] = "starting"
    /\ p \in Positions[c]
    /\ thread[c][p] = "none"
    /\ \/ /\ thread' = Set(thread, c, p, "starting")
          /\ UNCHANGED <<pc, errors>>
       \/ /\ Goto(c, "stopping")
          /\ errors' = [errors EXCEPT ![c] = TRUE]
          /\ \/ UNCHANGED thread
             \/ /\ "receiver" \in ThreadFaults
                /\ thread' = Set(thread, c, p, "unstarted")
    /\ UNCHANGED <<cursor, stopped, gate, ready, told, closer>>

(* Mutant: waits for the event without a deadline.                         *)
AwakeWhenStopped(c) ==
    /\ pc[c] = "starting"
    /\ \A p \in Positions[c] : thread[c][p] # "none"
    /\ stopped[c]
    /\ Goto(c, "stopping")
    /\ UNCHANGED <<cursor, stopped, errors, gate, thread, ready, told, closer>>

(* After the loop, stopped.wait(timeout): the event is set, or time is up.  *)
Awake(c) ==
    /\ pc[c] = "starting"
    /\ \A p \in Positions[c] : thread[c][p] # "none"
    /\ Goto(c, "stopping")
    /\ UNCHANGED <<cursor, stopped, errors, gate, thread, ready, told, closer>>

(* Mutant: stopped is set without the gate.                                *)
StopUngated(c) ==
    /\ pc[c] = "stopping"
    /\ stopped' = [stopped EXCEPT ![c] = TRUE]
    /\ Goto(c, "closing")
    /\ UNCHANGED <<cursor, errors, gate, thread, ready, told, closer>>

Stop(c) ==
    /\ pc[c] = "stopping"
    /\ gate[c] = None
    /\ stopped' = [stopped EXCEPT ![c] = TRUE]
    /\ Goto(c, "closing")
    /\ UNCHANGED <<cursor, errors, gate, thread, ready, told, closer>>

(* Mutant: only receivers that have come up get a supervisor.              *)
SuperviseReady(c) ==
    /\ pc[c] = "closing"
    /\ closer' = [closer EXCEPT ![c] =
           [p \in Partition |-> IF ready[c][p] THEN "waiting" ELSE "none"]]
    /\ Goto(c, "joining")
    /\ UNCHANGED <<cursor, stopped, errors, gate, thread, ready, told>>

(* The supervisors, listed and started under _closing_lock.  When one      *)
(* cannot be started those after it are not either, and consume ends.      *)
Supervise(c) ==
    /\ pc[c] = "closing"
    /\ LET clients == {p \in Partition : thread[c][p] # "none"} IN
       \E begun \in SUBSET clients :
         /\ begun # clients => "supervisor" \in ThreadFaults
         /\ closer' = [closer EXCEPT ![c] = [p \in Partition |->
                IF p \in begun THEN "waiting"
                ELSE IF p \in clients THEN "unstarted" ELSE "none"]]
         /\ Goto(c, IF begun = clients THEN "joining" ELSE "failed")
    /\ UNCHANGED <<cursor, stopped, errors, gate, thread, ready, told>>

(* The supervisors have ended or CLEANUP_TIMEOUT is over; then errors.     *)
Joined(c) ==
    /\ pc[c] = "joining"
    /\ Goto(c, IF errors[c] THEN "failed" ELSE "checking")
    /\ UNCHANGED <<cursor, stopped, errors, gate, thread, ready, told, closer>>

(* Mutant: the answer does not look at the supervisors.                    *)
AnswerByEvents(c) ==
    /\ pc[c] = "checking"
    /\ Goto(c, IF Done(c) THEN "ok" ELSE "failed")
    /\ UNCHANGED <<cursor, stopped, errors, gate, thread, ready, told, closer>>

Answer(c) ==
    /\ pc[c] = "checking"
    /\ Goto(c, IF \E p \in Partition : <<c, p>> \in Closing \/ ~Done(c)
               THEN "failed" ELSE "ok")
    /\ UNCHANGED <<cursor, stopped, errors, gate, thread, ready, told, closer>>

-----------------------------------------------------------------------------
(* A receiver's thread, which runs the SDK and, in it, the callbacks.      *)

StartUp(c, p) ==
    /\ thread[c][p] = "starting"
    /\ thread' = Set(thread, c, p, "receiving")
    /\ ready' = Set(ready, c, p, TRUE)
    /\ UNCHANGED <<request, told, closer>>

(* callback: from the gate and the look at stopped...                      *)
Enter(c, p) ==
    /\ thread[c][p] = "receiving"
    /\ cursor[c][p] < MaxLog
    /\ gate[c] = None
    /\ ~stopped[c]
    /\ gate' = [gate EXCEPT ![c] = p]
    /\ UNCHANGED <<pc, cursor, stopped, errors, thread, ready, told, closer>>

Failing(c) ==
    /\ stopped' = [stopped EXCEPT ![c] = TRUE]
    /\ errors' = [errors EXCEPT ![c] = errors[c] \/ ~stopped[c]]

(* Mutant: one event advances the cursor twice.                            *)
LeaveTwice(c, p) ==
    /\ gate[c] = p
    /\ cursor' = Set(cursor, c, p, cursor[c][p] + 2)
    /\ stopped' = [stopped EXCEPT ![c] = @ \/ Done(c)']
    /\ gate' = [gate EXCEPT ![c] = None]
    /\ UNCHANGED <<pc, errors, thread, ready, told, closer>>

(* ... to the end of on_message, or its exception.                         *)
Leave(c, p) ==
    /\ gate[c] = p
    /\ \/ /\ cursor' = Set(cursor, c, p, cursor[c][p] + 1)
          /\ stopped' = [stopped EXCEPT ![c] = @ \/ Done(c)']
          /\ UNCHANGED errors
       \/ /\ Failing(c)
          /\ UNCHANGED cursor
    /\ gate' = [gate EXCEPT ![c] = None]
    /\ UNCHANGED <<pc, thread, ready, told, closer>>

(* on_error: the SDK reports an error and goes on.                         *)
OnError(c, p) ==
    /\ thread[c][p] = "receiving"
    /\ gate[c] = None
    /\ Failing(c)
    /\ UNCHANGED <<pc, cursor, gate, thread, ready, told, closer>>

(* receive() returns, once told, or raises.                                *)
EndReceive(c, p) ==
    /\ thread[c][p] \in ThreadAlive
    /\ gate[c] # p
    /\ \/ told[c][p] /\ UNCHANGED <<stopped, errors>>
       \/ gate[c] = None /\ Failing(c)
    /\ thread' = Set(thread, c, p, "ended")
    /\ ready' = Set(ready, c, p, TRUE)
    /\ UNCHANGED <<pc, cursor, gate, told, closer>>

-----------------------------------------------------------------------------
(* A supervisor: ready.wait(), client.close(), worker.join().              *)

(* Mutant: close() without waiting for the start-up.                       *)
CloseEarly(c, p) ==
    /\ closer[c][p] = "waiting"
    /\ told' = Set(told, c, p, thread[c][p] = "receiving")
    /\ closer' = Set(closer, c, p, "joining")
    /\ UNCHANGED <<request, thread, ready>>

(* close() reaches the client only if it is running; it may also raise,    *)
(* once it has stopped it.                                                 *)
Close(c, p) ==
    /\ closer[c][p] = "waiting"
    /\ ready[c][p]
    /\ told' = Set(told, c, p, thread[c][p] = "receiving")
    /\ errors' \in {errors, [errors EXCEPT ![c] = TRUE]}
    /\ closer' = Set(closer, c, p, "joining")
    /\ UNCHANGED <<pc, cursor, stopped, gate, thread, ready>>

Join(c, p) ==
    /\ closer[c][p] = "joining"
    /\ thread[c][p] = "ended"
    /\ closer' = Set(closer, c, p, "ended")
    /\ UNCHANGED <<request, thread, ready, told>>

-----------------------------------------------------------------------------
Request(c) ==
    \/ Awake(c) \/ Stop(c) \/ Supervise(c) \/ Joined(c) \/ Answer(c)
    \/ \E p \in Partition : StartReceiver(c, p)

Receiver(c, p) == StartUp(c, p) \/ Enter(c, p) \/ Leave(c, p) \/ EndReceive(c, p)

Supervisor(c, p) == Close(c, p) \/ Join(c, p)

Next ==
    \/ \E c \in Call : Admit(c) \/ Request(c)
    \/ \E c \in Call, p \in Partition :
         Receiver(c, p) \/ OnError(c, p) \/ Supervisor(c, p)

Spec == Init /\ [][Next]_vars

(* Fairness.  The request's thread and the supervisors go on when nothing  *)
(* holds them, the deadlines pass, on_message returns (its remote calls    *)
(* have time limits), and of the SDK: a receiver that was started comes up *)
(* or fails, and one that was closed returns.  No message need arrive.     *)
FairSpec ==
    /\ Spec
    /\ \A c \in Call : WF_vars(Request(c))
    /\ \A c \in Call, p \in Partition :
         /\ WF_vars(StartUp(c, p))
         /\ WF_vars(Leave(c, p))
         /\ WF_vars(told[c][p] /\ EndReceive(c, p))
         /\ WF_vars(Supervisor(c, p))

-----------------------------------------------------------------------------
(* Properties.                                                             *)

TypeOK ==
    /\ pc \in [Call -> {"idle", "starting", "stopping", "closing",
                        "joining", "checking"} \cup Answers]
    /\ cursor \in [Call -> [Partition -> 0..MaxLog]]
    /\ stopped \in [Call -> BOOLEAN]
    /\ errors \in [Call -> BOOLEAN]
    /\ gate \in [Call -> Partition \cup {None}]
    /\ thread \in [Call -> [Partition -> {"none", "unstarted", "starting",
                                          "receiving", "ended"}]]
    /\ ready \in [Call -> [Partition -> BOOLEAN]]
    /\ told \in [Call -> [Partition -> BOOLEAN]]
    /\ closer \in [Call -> [Partition -> {"none", "unstarted", "waiting",
                                          "joining", "ended"}]]

(* The state of consume as its callers and the service see it.             *)
Status ==
    [c \in Call |-> IF pc[c] = "idle" \/ pc[c] = "ok" THEN pc[c]
                    ELSE IF pc[c] \in Answers THEN "error" ELSE "running"]

Living == {r \in Call \X Partition : thread[r[1]][r[2]] \in ThreadAlive}

(* consume keeps ConsumePromise: no message reaches a request that has its *)
(* answer, success means everything received and every receiver gone, and  *)
(* no request is let in beside the receivers of an answered one            *)
(* (guided_cloud.py:212-216, 227-232, 291-296).                            *)
Promise == INSTANCE ConsumePromise WITH status <- Status, seen <- cursor, alive <- Living

KeepsPromise == Promise!Spec

(* Once stopped is set, by the last event, an error or the deadline, no    *)
(* callback of any partition processes a message any more, the one that    *)
(* had begun included (guided_cloud.py:227-232, 279-280).                  *)
StoppedMeansFenced ==
    [][\A c \in Call : stopped[c] => cursor'[c] = cursor[c]]_vars

(* A receiver that outlives its request has a live supervisor, which is    *)
(* what makes the process refuse the next request: retrying cannot         *)
(* accumulate orphan receivers (test_guided_pipeline.py:391).              *)
NoOrphan ==
    \A c \in Call, p \in Partition :
        pc[c] \in Answers /\ thread[c][p] \in ThreadAlive => <<c, p>> \in Closing

(* Every request is answered, whatever its receivers do.                   *)
Answered ==
    \A c \in Call : pc[c] # "idle" ~> pc[c] \in Answers

(* Nothing keeps the process from admitting requests again but a receiver  *)
(* whose thread could not be started (guided_cloud.py:212-216, 259-267).   *)
OnlyUnstartedBlocks ==
    (Closing # {}) ~>
        \/ Closing = {}
        \/ \E c \in Call, p \in Partition : thread[c][p] = "unstarted"

(* A request that is refused because a consumer is still closing has only  *)
(* to wait (guided_cloud.py:215).                                          *)
Readmitted == (Closing # {}) ~> (Closing = {})
-----------------------------------------------------------------------------
(* The inductive invariant behind NoOrphan, StoppedMeansFenced and         *)
(* KeepsPromise.                                                           *)

Working == {"starting", "stopping"}

Alive(c, p) == thread[c][p] \in ThreadAlive

(* Whoever holds the gate works for a request that has not been stopped.   *)
GateHeld ==
    \A c \in Call : gate[c] # None =>
        /\ ~stopped[c]
        /\ pc[c] \in Working
        /\ thread[c][gate[c]] = "receiving"
        /\ cursor[c][gate[c]] < MaxLog

(* A request that has not been admitted has no receivers.                  *)
Unadmitted == \A c \in Call, p \in Partition : pc[c] = "idle" => thread[c][p] = "none"

(* A receiver that runs past the wait of its request finds it stopped.     *)
FencedSince == \A c \in Call, p \in Partition : Alive(c, p) /\ pc[c] \notin Working => stopped[c]

(* ... and past the closing it has a supervisor.                           *)
Supervised ==
    \A c \in Call, p \in Partition :
        Alive(c, p) /\ pc[c] \notin Working \cup {"closing"} => <<c, p>> \in Closing

ConsumeInvariant == TypeOK /\ GateHeld /\ Unadmitted /\ FencedSince
=============================================================================
