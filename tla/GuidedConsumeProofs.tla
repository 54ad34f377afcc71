------------------------ MODULE GuidedConsumeProofs -------------------------
(***************************************************************************)
(* What holds of AzureCloud.consume for every set of requests and          *)
(* partitions, whatever positions they are given and whatever they wait    *)
(* for.  Where supervisors may fail to start, NoOrphan and KeepsPromise    *)
(* do not hold; their theorems assume that supervisors can be started.     *)
(***************************************************************************)
EXTENDS GuidedConsume, TLAPS

(* No request has begun: nothing holds the gate and nothing runs.          *)
LEMMA InvariantInit == Init => ConsumeInvariant
BY ConsumeAssumption
   DEF Init, ConsumeInvariant, TypeOK, GateHeld, Unadmitted, FencedSince, Alive, ThreadAlive, Answers

(* One entry of a table of flags.                                          *)
LEMMA FlagType ==
    ASSUME NEW f \in [Call -> BOOLEAN], NEW c \in Call, NEW b \in BOOLEAN
    PROVE  [f EXCEPT ![c] = b] \in [Call -> BOOLEAN]
OBVIOUS

(* The steps of a request keep the types.                                  *)
LEMMA RequestTypes ==
    ASSUME TypeOK, NEW c \in Call, Admit(c) \/ Request(c)
    PROVE  TypeOK'
<1> USE ConsumeAssumption DEF TypeOK, Answers, Goto, Set
<1>1. CASE Admit(c)
  BY <1>1 DEF Admit
<1>2. ASSUME NEW p \in Partition, StartReceiver(c, p) PROVE TypeOK'
  <2>1. pc' \in {pc, [pc EXCEPT ![c] = "stopping"]}
    BY <1>2 DEF StartReceiver
  <2>2. errors' \in {errors, [errors EXCEPT ![c] = TRUE]}
    BY <1>2 DEF StartReceiver
  <2>3. \/ thread' = thread
        \/ thread' = [thread EXCEPT ![c][p] = "starting"]
        \/ thread' = [thread EXCEPT ![c][p] = "unstarted"]
    BY <1>2 DEF StartReceiver
  <2>4. UNCHANGED <<cursor, stopped, gate, ready, told, closer>>
    BY <1>2 DEF StartReceiver
  <2>5. thread' \in [Call -> [Partition -> {"none", "unstarted", "starting", "receiving", "ended"}]]
    <3>1. CASE thread' = thread
      BY <3>1
    <3>2. CASE thread' = [thread EXCEPT ![c][p] = "starting"]
      BY <3>2
    <3>3. CASE thread' = [thread EXCEPT ![c][p] = "unstarted"]
      BY <3>3
    <3>4. QED
      BY <2>3, <3>1, <3>2, <3>3
  <2>6. errors' \in [Call -> BOOLEAN]
    BY <2>2
  <2>7. pc' \in [Call -> {"idle", "starting", "stopping", "closing", "joining", "checking"} \cup Answers]
    BY <2>1
  <2>8. QED
    BY <2>4, <2>5, <2>6, <2>7
<1>3. CASE Awake(c)
  BY <1>3 DEF Awake
<1>4. CASE Stop(c)
  BY <1>4 DEF Stop
<1>5. CASE Supervise(c)
  BY <1>5 DEF Supervise
<1>6. CASE Joined(c)
  BY <1>6 DEF Joined
<1>7. CASE Answer(c)
  BY <1>7 DEF Answer
<1>8. QED
  BY <1>1, <1>2, <1>3, <1>4, <1>5, <1>6, <1>7 DEF Request

(* So do those of receivers and supervisors; a callback that holds the     *)
(* gate has room for its message.                                          *)
LEMMA ThreadTypes ==
    ASSUME TypeOK, GateHeld, NEW c \in Call, NEW p \in Partition,
           Receiver(c, p) \/ OnError(c, p) \/ Supervisor(c, p)
    PROVE  TypeOK'
<1> USE ConsumeAssumption DEF TypeOK, Answers, Set, Failing
<1>1. CASE StartUp(c, p)
  BY <1>1 DEF StartUp, request
<1>2. CASE Enter(c, p)
  BY <1>2 DEF Enter
<1>3. CASE Leave(c, p)
  <2>1. cursor[c][p] + 1 \in 0..MaxLog
    <3>1. gate[c] = p /\ gate[c] # None
      BY <1>3 DEF Leave
    <3>2. cursor[c][p] < MaxLog
      BY <3>1 DEF GateHeld
    <3>3. cursor[c] \in [Partition -> 0..MaxLog]
      OBVIOUS
    <3>4. cursor[c][p] \in 0..MaxLog
      BY <3>3
    <3>5. QED
      BY <3>2, <3>4
  <2>2. cursor' \in {cursor, [cursor EXCEPT ![c][p] = cursor[c][p] + 1]}
    BY <1>3 DEF Leave
  <2>3. cursor' \in [Call -> [Partition -> 0..MaxLog]]
    <3>1. CASE cursor' = cursor
      BY <3>1
    <3>2. CASE cursor' = [cursor EXCEPT ![c][p] = cursor[c][p] + 1]
      BY <2>1, <3>2
    <3>3. QED
      BY <2>2, <3>1, <3>2
  <2>4. stopped' \in [Call -> BOOLEAN]
    <3>1. CASE stopped' = [stopped EXCEPT ![c] = stopped[c] \/ Done(c)']
      <4>1. (stopped[c] \/ Done(c)') \in BOOLEAN
        OBVIOUS
      <4>2. QED
        BY <3>1, <4>1, FlagType
    <3>2. CASE stopped' = [stopped EXCEPT ![c] = TRUE]
      BY <3>2
    <3>3. \/ stopped' = [stopped EXCEPT ![c] = stopped[c] \/ Done(c)']
          \/ stopped' = [stopped EXCEPT ![c] = TRUE]
      BY <1>3, Zenon DEF Leave, Failing
    <3>4. QED
      BY <3>1, <3>2, <3>3
  <2>5. errors' \in [Call -> BOOLEAN]
    <3>1. CASE errors' = [errors EXCEPT ![c] = errors[c] \/ ~stopped[c]]
      BY <3>1
    <3>2. QED
      BY <1>3, <3>1 DEF Leave
  <2>6. gate' \in [Call -> Partition \cup {None}]
    BY <1>3 DEF Leave
  <2>7. UNCHANGED <<pc, thread, ready, told, closer>>
    BY <1>3 DEF Leave
  <2>8. QED
    BY <2>3, <2>4, <2>5, <2>6, <2>7
<1>4. CASE EndReceive(c, p)
  BY <1>4 DEF EndReceive
<1>5. CASE OnError(c, p)
  BY <1>5 DEF OnError
<1>6. CASE Close(c, p)
  BY <1>6 DEF Close
<1>7. CASE Join(c, p)
  BY <1>7 DEF Join, request
<1>8. QED
  BY <1>1, <1>2, <1>3, <1>4, <1>5, <1>6, <1>7 DEF Receiver, Supervisor

(* The steps of a request keep the gate, the stopped event and the phases  *)
(* in line: it stops only while no callback holds the gate.                *)
LEMMA RequestSteps ==
    ASSUME ConsumeInvariant, NEW c \in Call, Admit(c) \/ Request(c)
    PROVE  GateHeld' /\ Unadmitted' /\ FencedSince'
<1> USE ConsumeAssumption
        DEF ConsumeInvariant, TypeOK, GateHeld, Unadmitted, FencedSince, Alive, ThreadAlive,
            Answers, Working, Goto, Set
<1>1. CASE Admit(c)
  <2>1. pc[c] = "idle" /\ UNCHANGED <<gate, cursor, stopped, thread>>
    BY <1>1 DEF Admit
  <2>2. pc'[c] # "idle" /\ \A d \in Call \ {c} : pc'[d] = pc[d]
    BY <1>1 DEF Admit
  <2>3. gate[c] = None /\ \A q \in Partition : thread[c][q] = "none"
    BY <2>1
  <2>4. GateHeld'
    <3>1. ASSUME NEW d \in Call, gate[d] # None
          PROVE  ~stopped[d] /\ pc'[d] \in Working /\ thread[d][gate[d]] = "receiving" /\ cursor[d][gate[d]] < MaxLog
      BY <2>2, <2>3, <3>1
    <3>2. QED
      BY <2>1, <3>1
  <2>5. Unadmitted'
    BY <2>1, <2>2
  <2>6. FencedSince'
    <3>1. ASSUME NEW d \in Call, NEW q \in Partition, Alive(d, q), pc'[d] \notin Working
          PROVE  stopped[d]
      BY <2>2, <2>3, <3>1
    <3>2. QED
      BY <2>1, <3>1
  <2>7. QED
    BY <2>4, <2>5, <2>6
<1>2. ASSUME NEW p \in Partition, StartReceiver(c, p)
      PROVE  GateHeld' /\ Unadmitted' /\ FencedSince'
  <2>1. pc[c] = "starting" /\ thread[c][p] = "none" /\ UNCHANGED <<gate, cursor, stopped>>
    BY <1>2 DEF StartReceiver
  <2>2. pc'[c] \in Working /\ \A d \in Call \ {c} : pc'[d] = pc[d]
    <3>1. \/ pc' = pc
          \/ pc' = [pc EXCEPT ![c] = "stopping"]
      BY <1>2 DEF StartReceiver
    <3>2. QED
      BY <2>1, <3>1
  <2>3. \A d \in Call, q \in Partition : d # c \/ q # p => thread'[d][q] = thread[d][q]
    <3>1. \/ thread' = thread
          \/ thread' = [thread EXCEPT ![c][p] = "starting"]
          \/ thread' = [thread EXCEPT ![c][p] = "unstarted"]
      BY <1>2 DEF StartReceiver
    <3>2. QED
      BY <3>1
  <2>4. GateHeld'
    <3>1. ASSUME NEW d \in Call, gate[d] # None
          PROVE  pc'[d] \in Working /\ thread'[d][gate[d]] = "receiving"
      <4>1. pc[d] \in Working /\ thread[d][gate[d]] = "receiving" /\ gate[d] \in Partition
        BY <3>1
      <4>2. d # c \/ gate[d] # p
        BY <2>1, <4>1
      <4>3. thread'[d][gate[d]] = thread[d][gate[d]]
        BY <2>3, <4>1, <4>2
      <4>4. QED
        BY <2>2, <4>1, <4>3
    <3>2. ASSUME NEW d \in Call, gate[d] # None
          PROVE  ~stopped[d] /\ cursor[d][gate[d]] < MaxLog
      BY <3>2
    <3>3. QED
      BY <2>1, <3>1, <3>2
  <2>5. Unadmitted'
    <3>1. ASSUME NEW d \in Call, NEW q \in Partition, pc'[d] = "idle"
          PROVE  thread'[d][q] = "none"
      <4>1. d # c
        BY <2>2, <3>1
      <4>2. pc[d] = "idle" /\ thread'[d][q] = thread[d][q]
        BY <2>2, <2>3, <3>1, <4>1
      <4>3. QED
        BY <4>2
    <3>2. QED
      BY <3>1
  <2>6. FencedSince'
    <3>1. ASSUME NEW d \in Call, NEW q \in Partition, thread'[d][q] \in ThreadAlive, pc'[d] \notin Working
          PROVE  stopped[d]
      <4>1. d # c
        BY <2>2, <3>1
      <4>2. pc[d] \notin Working /\ thread[d][q] \in ThreadAlive
        BY <2>2, <2>3, <3>1, <4>1
      <4>3. QED
        BY <4>2
    <3>2. QED
      BY <2>1, <3>1
  <2>7. QED
    BY <2>4, <2>5, <2>6
<1>3. CASE Awake(c)
  BY <1>3 DEF Awake
<1>4. CASE Stop(c)
  BY <1>4 DEF Stop
<1>5. CASE Supervise(c)
  BY <1>5 DEF Supervise
<1>6. CASE Joined(c)
  BY <1>6 DEF Joined
<1>7. CASE Answer(c)
  BY <1>7 DEF Answer
<1>8. QED
  BY <1>1, <1>2, <1>3, <1>4, <1>5, <1>6, <1>7 DEF Request

(* The steps of receivers and supervisors do, too: a callback enters only  *)
(* while the request is not stopped.                                       *)
LEMMA ThreadSteps ==
    ASSUME ConsumeInvariant, NEW c \in Call, NEW p \in Partition,
           Receiver(c, p) \/ OnError(c, p) \/ Supervisor(c, p)
    PROVE  GateHeld' /\ Unadmitted' /\ FencedSince'
<1> USE ConsumeAssumption
        DEF ConsumeInvariant, TypeOK, GateHeld, Unadmitted, FencedSince, Alive, ThreadAlive,
            Answers, Working, Set
<1>1. CASE StartUp(c, p)
  BY <1>1 DEF StartUp, request
<1>2. CASE Enter(c, p)
  BY <1>2 DEF Enter
<1>3. CASE Leave(c, p)
  <2>1. gate[c] = p /\ gate' = [gate EXCEPT ![c] = None] /\ UNCHANGED <<pc, thread>>
    BY <1>3 DEF Leave
  <2>2. \A d \in Call \ {c} : stopped'[d] = stopped[d] /\ cursor'[d] = cursor[d]
    BY <1>3 DEF Leave, Failing
  <2>3. stopped[c] => stopped'[c]
    BY <1>3 DEF Leave, Failing
  <2>4. QED
    BY <2>1, <2>2, <2>3
<1>4. CASE EndReceive(c, p)
  BY <1>4 DEF EndReceive, Failing
<1>5. CASE OnError(c, p)
  BY <1>5 DEF OnError, Failing
<1>6. CASE Close(c, p)
  BY <1>6 DEF Close
<1>7. CASE Join(c, p)
  BY <1>7 DEF Join, request
<1>8. QED
  BY <1>1, <1>2, <1>3, <1>4, <1>5, <1>6, <1>7 DEF Receiver, Supervisor

(* Every step keeps the invariant.                                         *)
LEMMA InvariantStep == ConsumeInvariant /\ [Next]_vars => ConsumeInvariant'
<1> SUFFICES ASSUME ConsumeInvariant, [Next]_vars
             PROVE  ConsumeInvariant'
  OBVIOUS
<1>1. ASSUME NEW c \in Call, Admit(c) \/ Request(c)
      PROVE  ConsumeInvariant'
  BY <1>1, RequestTypes, RequestSteps DEF ConsumeInvariant
<1>2. ASSUME NEW c \in Call, NEW p \in Partition,
             Receiver(c, p) \/ OnError(c, p) \/ Supervisor(c, p)
      PROVE  ConsumeInvariant'
  BY <1>2, ThreadTypes, ThreadSteps DEF ConsumeInvariant
<1>3. CASE UNCHANGED vars
  BY <1>3 DEF ConsumeInvariant, TypeOK, GateHeld, Unadmitted, FencedSince, Alive, vars, request
<1>4. QED
  BY <1>1, <1>2, <1>3 DEF Next

(* The invariant holds in every state of consume, with or without          *)
(* failures of its threads (guided_cloud.py:227-232, 279-283).             *)
THEOREM InvariantHolds == Spec => []ConsumeInvariant
BY InvariantInit, InvariantStep, PTL DEF Spec

(* Every variable keeps its type: a cursor never runs past the log.        *)
THEOREM ConsumeTypeCorrect == Spec => []TypeOK
<1>1. ConsumeInvariant => TypeOK
  BY DEF ConsumeInvariant
<1>2. QED
  BY <1>1, InvariantHolds, PTL

(* Only the end of a callback moves a cursor, and it moves that of its own *)
(* request by one, while the request is not stopped.                       *)
LEMMA CursorSteps ==
    ASSUME ConsumeInvariant, [Next]_vars
    PROVE  \A d \in Call : stopped[d] => cursor'[d] = cursor[d]
<1>1. ASSUME NEW c \in Call, Admit(c) \/ Request(c)
      PROVE  cursor' = cursor
  BY <1>1 DEF Admit, Request, Awake, Stop, Supervise, Joined, Answer, StartReceiver
<1>2. ASSUME NEW c \in Call, NEW p \in Partition,
             OnError(c, p) \/ Supervisor(c, p) \/ StartUp(c, p) \/ Enter(c, p) \/ EndReceive(c, p)
      PROVE  cursor' = cursor
  BY <1>2 DEF OnError, Supervisor, Close, Join, StartUp, Enter, EndReceive, request
<1>3. ASSUME NEW c \in Call, NEW p \in Partition, Leave(c, p), NEW d \in Call, stopped[d]
      PROVE  cursor'[d] = cursor[d]
  <2>1. gate[c] # None /\ ~stopped[c]
    BY <1>3, ConsumeAssumption DEF Leave, ConsumeInvariant, GateHeld
  <2>2. cursor' \in {cursor, [cursor EXCEPT ![c][p] = cursor[c][p] + 1]}
    BY <1>3 DEF Leave, Set
  <2>3. d # c
    BY <1>3, <2>1
  <2>4. QED
    BY <2>2, <2>3 DEF ConsumeInvariant, TypeOK
<1>4. CASE UNCHANGED vars
  BY <1>4 DEF vars, request
<1>5. QED
  BY <1>1, <1>2, <1>3, <1>4 DEF Next, Receiver

(* Once stopped is set no callback of any partition processes a message,   *)
(* whatever the number of partitions and of requests                       *)
(* (guided_cloud.py:227-232, 279-280).                                     *)
THEOREM StoppedIsFenced == Spec => StoppedMeansFenced
<1>1. ConsumeInvariant /\ [Next]_vars => [\A c \in Call : stopped[c] => cursor'[c] = cursor[c]]_vars
  BY CursorSteps
<1>2. QED
  BY <1>1, InvariantHolds, PTL DEF Spec, StoppedMeansFenced

-----------------------------------------------------------------------------
(* The supervisors, where they can be started.                             *)

(* At first nothing runs, so nothing needs a supervisor.                   *)
LEMMA SupervisedInit == Init => Supervised
BY DEF Init, Supervised, Alive, ThreadAlive

(* Supervisors are there from the moment a request stops closing, and stay *)
(* until their receiver has ended.                                         *)
LEMMA SupervisedStep ==
    ASSUME "supervisor" \notin ThreadFaults, ConsumeInvariant, Supervised, [Next]_vars
    PROVE  Supervised'
<1> DEFINE Watched == {"waiting", "joining"}
           Early == {"starting", "stopping", "closing"}
<1>1. ASSUME NEW d \in Call, NEW q \in Partition
      PROVE  thread[d][q] \in ThreadAlive /\ pc[d] \notin Early => closer[d][q] \in Watched
  BY DEF Supervised, Alive, Closing, Working
<1>2. SUFFICES ASSUME NEW d \in Call, NEW q \in Partition,
                      thread'[d][q] \in ThreadAlive, pc'[d] \notin Early
               PROVE  closer'[d][q] \in Watched
  BY DEF Supervised, Alive, Closing, Working
<1> USE DEF ConsumeInvariant, TypeOK, ThreadAlive, Goto, Set
<1>3. ASSUME NEW c \in Call, Admit(c)
      PROVE  closer'[d][q] \in Watched
  <2>1. pc[c] = "idle" /\ \A r \in Partition : thread[c][r] = "none"
    BY <1>3 DEF Admit, Unadmitted
  <2>2. UNCHANGED <<thread, closer>> /\ \A e \in Call \ {c} : pc'[e] = pc[e]
    BY <1>3 DEF Admit
  <2>3. d # c
    BY <1>2, <2>1, <2>2
  <2>4. QED
    BY <1>1, <1>2, <2>2, <2>3
<1>4. ASSUME NEW c \in Call, NEW p \in Partition, StartReceiver(c, p)
      PROVE  closer'[d][q] \in Watched
  <2>1. pc'[c] \in Early /\ closer' = closer /\ \A e \in Call \ {c} : pc'[e] = pc[e]
    BY <1>4 DEF StartReceiver
  <2>2. d # c
    BY <1>2, <2>1
  <2>3. thread'[d][q] = thread[d][q]
    BY <1>4, <2>2 DEF StartReceiver
  <2>4. QED
    BY <1>1, <1>2, <2>1, <2>2, <2>3
<1>5. ASSUME NEW c \in Call, Awake(c) \/ Stop(c) \/ Joined(c) \/ Answer(c)
      PROVE  closer'[d][q] \in Watched
  <2>1. UNCHANGED <<thread, closer>>
    BY <1>5 DEF Awake, Stop, Joined, Answer
  <2>2. pc'[d] = pc[d] \/ pc'[d] \in Early \/ pc[d] \notin Early
    BY <1>5 DEF Awake, Stop, Joined, Answer
  <2>3. QED
    BY <1>1, <1>2, <2>1, <2>2
<1>6. ASSUME NEW c \in Call, Supervise(c)
      PROVE  closer'[d][q] \in Watched
  <2>1. thread' = thread /\ \A e \in Call \ {c} : pc'[e] = pc[e] /\ closer'[e] = closer[e]
    BY <1>6 DEF Supervise
  <2>2. CASE d = c
    <3>1. PICK begun \in SUBSET {p \in Partition : thread[c][p] # "none"} :
            /\ begun = {p \in Partition : thread[c][p] # "none"}
            /\ closer' = [closer EXCEPT ![c] = [p \in Partition |->
                 IF p \in begun THEN "waiting"
                 ELSE IF p \in {r \in Partition : thread[c][r] # "none"} THEN "unstarted" ELSE "none"]]
      BY <1>6 DEF Supervise
    <3>2. thread[c][q] # "none"
      BY <1>2, <2>1, <2>2
    <3>3. QED
      BY <2>2, <3>1, <3>2
  <2>3. QED
    BY <1>1, <1>2, <2>1, <2>2
<1>7. ASSUME NEW c \in Call, NEW p \in Partition, StartUp(c, p) \/ EndReceive(c, p)
      PROVE  closer'[d][q] \in Watched
  <2>1. UNCHANGED <<pc, closer>>
    BY <1>7 DEF StartUp, EndReceive, request
  <2>2. thread[d][q] \in ThreadAlive
    <3>1. CASE d = c /\ q = p
      BY <1>7, <3>1 DEF StartUp, EndReceive
    <3>2. CASE ~(d = c /\ q = p)
      <4>1. thread' \in {[thread EXCEPT ![c][p] = "receiving"], [thread EXCEPT ![c][p] = "ended"]}
        BY <1>7 DEF StartUp, EndReceive
      <4>2. thread'[d][q] = thread[d][q]
        BY <3>2, <4>1
      <4>3. QED
        BY <1>2, <4>2
    <3>3. QED
      BY <3>1, <3>2
  <2>3. QED
    BY <1>1, <1>2, <2>1, <2>2
<1>8. ASSUME NEW c \in Call, NEW p \in Partition,
             Enter(c, p) \/ Leave(c, p) \/ OnError(c, p)
      PROVE  closer'[d][q] \in Watched
  BY <1>1, <1>2, <1>8 DEF Enter, Leave, OnError
<1>9. ASSUME NEW c \in Call, NEW p \in Partition, Close(c, p) \/ Join(c, p)
      PROVE  closer'[d][q] \in Watched
  <2>1. UNCHANGED <<pc, thread>>
    BY <1>9 DEF Close, Join, request
  <2>2. closer[d][q] \in Watched
    BY <1>1, <1>2, <2>1
  <2>3. closer'[d][q] = closer[d][q] \/ closer'[d][q] = "joining" \/ thread[d][q] = "ended"
    <3>1. CASE closer' = [closer EXCEPT ![c][p] = "joining"]
      BY <3>1
    <3>2. CASE thread[c][p] = "ended" /\ closer' = [closer EXCEPT ![c][p] = "ended"]
      <4>1. CASE d = c /\ q = p
        BY <3>2, <4>1
      <4>2. CASE ~(d = c /\ q = p)
        BY <3>2, <4>2
      <4>3. QED
        BY <4>1, <4>2
    <3>3. QED
      BY <1>9, <3>1, <3>2 DEF Close, Join
  <2>4. QED
    BY <1>2, <2>1, <2>2, <2>3
<1>10. CASE UNCHANGED vars
  BY <1>1, <1>2, <1>10 DEF vars, request
<1>11. QED
  BY <1>3, <1>4, <1>5, <1>6, <1>7, <1>8, <1>9, <1>10 DEF Next, Request, Receiver, Supervisor

(* Both invariants together.                                               *)
LEMMA AllSupervised ==
    ASSUME "supervisor" \notin ThreadFaults
    PROVE  Spec => [](ConsumeInvariant /\ Supervised)
<1>1. ConsumeInvariant /\ Supervised /\ [Next]_vars => Supervised'
  BY SupervisedStep
<1>2. QED
  BY <1>1, SupervisedInit, InvariantHolds, PTL DEF Spec

(* Where a supervisor's thread can always be started, a receiver that      *)
(* outlives its request has a live supervisor, and with it the refusal of  *)
(* the next request (guided_cloud.py:259-283, 212-216).                    *)
THEOREM ReceiversAreSupervised ==
    ASSUME "supervisor" \notin ThreadFaults
    PROVE  Spec => []NoOrphan
<1>1. Supervised => NoOrphan
  BY DEF Supervised, NoOrphan, Alive, Answers, Working
<1>2. QED
  BY <1>1, AllSupervised, PTL

-----------------------------------------------------------------------------
(* consume implements ConsumePromise.                                      *)

Seen(label) ==
    IF label \in {"idle", "ok"} THEN label
    ELSE IF label \in Answers THEN "error" ELSE "running"

(* What a step of a request means for its status...                        *)
LEMMA StatusMoves ==
    ASSUME TypeOK, NEW c \in Call, NEW label, Goto(c, label)
    PROVE  Status' = [Status EXCEPT ![c] = Seen(label)]
BY DEF TypeOK, Goto, Status, Seen

(* ... what any other step means for it...                                 *)
LEMMA StatusStays == ASSUME pc' = pc PROVE Status' = Status
BY DEF Status

(* ... and for the receivers that run.                                     *)
LEMMA LivingStays == ASSUME thread' = thread PROVE Living' = Living
BY DEF Living

(* The initial states of consume are initial states of the promise.        *)
LEMMA PromiseInit == Init => Promise!Init
<1> SUFFICES ASSUME Init PROVE Promise!Init
  OBVIOUS
<1>1. Status = [c \in Call |-> "idle"]
  BY DEF Init, Status
<1>2. cursor \in [Call -> [Partition -> Nat]]
  BY ConsumeAssumption DEF Init
<1>3. Living = {}
  BY DEF Init, Living, ThreadAlive
<1>4. QED
  BY <1>1, <1>2, <1>3 DEF Promise!Init

(* A step that changes nothing of what the promise speaks of.              *)
LEMMA PromiseStutters ==
    ASSUME Status' = Status, Living' = Living, cursor' = cursor
    PROVE  [Promise!Next]_(Promise!vars)
BY DEF Promise!vars

(* Nothing of a request runs once no supervisor does.                      *)
LEMMA NothingLives ==
    ASSUME ConsumeInvariant, Supervised, NEW c \in Call,
           pc[c] \notin {"starting", "stopping", "closing"},
           \A p \in Partition : <<c, p>> \notin Closing
    PROVE  Promise!Of(c) = {}
BY DEF Supervised, Alive, Working, Living, Promise!Of

(* Admission: a request begins, succeeds at once or is refused.            *)
LEMMA AdmitPromised ==
    ASSUME ConsumeInvariant, Supervised, NEW c \in Call, Admit(c)
    PROVE  [Promise!Next]_(Promise!vars)
<1>1. Status[c] = "idle" /\ cursor' = cursor /\ Living' = Living
  BY LivingStays DEF Admit, Status
<1>2. CASE Goto(c, "refused")
  <2>1. Status' = [Status EXCEPT ![c] = "error"]
    BY <1>2, StatusMoves DEF ConsumeInvariant, Seen, Answers
  <2>2. Promise!Fail(c)
    BY <1>1, <2>1 DEF Promise!Fail, Promise!Become
  <2>3. QED
    BY <2>2 DEF Promise!Next
<1>3. CASE Closing = {} /\ Done(c) /\ Goto(c, "ok")
  <2>1. Status' = [Status EXCEPT ![c] = "ok"]
    BY <1>3, StatusMoves DEF ConsumeInvariant, Seen
  <2>2. pc[c] = "idle"
    BY DEF Admit
  <2>3. Promise!Of(c) = {}
    BY <1>3, <2>2, NothingLives
  <2>4. Promise!Complete(c)
    BY <1>3 DEF Done, Promise!Complete
  <2>5. Promise!Succeed(c)
    BY <1>1, <2>1, <2>3, <2>4 DEF Promise!Succeed, Promise!Become
  <2>6. QED
    BY <2>5 DEF Promise!Next
<1>4. CASE Closing = {} /\ Goto(c, "starting")
  <2>1. Status' = [Status EXCEPT ![c] = "running"]
    BY <1>4, StatusMoves DEF ConsumeInvariant, Seen, Answers
  <2>2. ASSUME NEW d \in Call, Promise!Answered(d)
        PROVE  Promise!Of(d) = {}
    <3>1. pc[d] \notin {"starting", "stopping", "closing"}
      BY <2>2 DEF Promise!Answered, Status, Answers
    <3>2. QED
      BY <1>4, <3>1, NothingLives
  <2>3. Promise!Begin(c)
    BY <1>1, <2>1, <2>2 DEF Promise!Begin, Promise!Become
  <2>4. QED
    BY <2>3 DEF Promise!Next
<1>5. QED
  BY <1>2, <1>3, <1>4 DEF Admit

(* The later steps of a request: a receiver begins, or the answer is given. *)
LEMMA RequestPromised ==
    ASSUME "supervisor" \notin ThreadFaults, ConsumeInvariant, Supervised,
           NEW c \in Call, Request(c)
    PROVE  [Promise!Next]_(Promise!vars)
<1>1. ASSUME NEW p \in Partition, StartReceiver(c, p)
      PROVE  [Promise!Next]_(Promise!vars)
  <2>1. Status' = Status
    <3>1. pc' = pc \/ (pc[c] = "starting" /\ Goto(c, "stopping"))
      BY <1>1 DEF StartReceiver
    <3>2. CASE pc[c] = "starting" /\ Goto(c, "stopping")
      BY <3>2 DEF Goto, Status, Answers, ConsumeInvariant, TypeOK
    <3>3. QED
      BY <3>1, <3>2, StatusStays
  <2>2. cursor' = cursor /\ thread[c][p] = "none" /\ Status[c] = "running"
    BY <1>1 DEF StartReceiver, Status, Answers
  <2>3. CASE thread' = Set(thread, c, p, "starting")
    <3>1. Living' = Living \cup {<<c, p>>}
      BY <2>3 DEF Living, Set, ThreadAlive, ConsumeInvariant, TypeOK
    <3>2. Promise!Receive(c, p)
      BY <2>1, <2>2, <3>1 DEF Promise!Receive
    <3>3. QED
      BY <3>2 DEF Promise!Next
  <2>4. CASE thread' = Set(thread, c, p, "unstarted")
    <3>1. Living' = Living
      BY <2>2, <2>4 DEF Living, Set, ThreadAlive, ConsumeInvariant, TypeOK
    <3>2. QED
      BY <2>1, <2>2, <3>1, PromiseStutters
  <2>5. CASE thread' = thread
    BY <2>1, <2>2, <2>5, LivingStays, PromiseStutters
  <2>6. QED
    BY <1>1, <2>3, <2>4, <2>5 DEF StartReceiver
<1>2. CASE Awake(c) \/ Stop(c) \/ Supervise(c)
  <2>1. cursor' = cursor /\ thread' = thread
    BY <1>2 DEF Awake, Stop, Supervise
  <2>2. /\ pc[c] \in {"starting", "stopping", "closing"}
        /\ Goto(c, "stopping") \/ Goto(c, "closing") \/ Goto(c, "joining")
    BY <1>2 DEF Awake, Stop, Supervise
  <2>3. Status' = Status
    BY <2>2 DEF Goto, Status, Answers, ConsumeInvariant, TypeOK
  <2>4. QED
    BY <2>1, <2>3, LivingStays, PromiseStutters
<1>3. CASE Joined(c) \/ Answer(c)
  <2>1. /\ cursor' = cursor
        /\ Living' = Living
        /\ pc[c] \in {"joining", "checking"}
        /\ Status[c] = "running"
    BY <1>3, LivingStays DEF Joined, Answer, Status, Answers
  <2>2. CASE Goto(c, "checking")
    <3>1. Status' = Status
      BY <2>1, <2>2 DEF Goto, Status, Answers, ConsumeInvariant, TypeOK
    <3>2. QED
      BY <2>1, <3>1, PromiseStutters
  <2>3. CASE Goto(c, "failed")
    <3>1. Status' = [Status EXCEPT ![c] = "error"]
      BY <2>3, StatusMoves DEF ConsumeInvariant, Seen, Answers
    <3>2. Promise!Fail(c)
      BY <2>1, <3>1 DEF Promise!Fail, Promise!Become
    <3>3. QED
      BY <3>2 DEF Promise!Next
  <2>4. CASE Goto(c, "ok") /\ Done(c) /\ \A p \in Partition : <<c, p>> \notin Closing
    <3>1. Status' = [Status EXCEPT ![c] = "ok"]
      BY <2>4, StatusMoves DEF ConsumeInvariant, Seen
    <3>2. Promise!Complete(c)
      BY <2>4 DEF Done, Promise!Complete
    <3>3. Promise!Of(c) = {}
      BY <2>1, <2>4, NothingLives
    <3>4. Promise!Succeed(c)
      BY <2>1, <3>1, <3>2, <3>3 DEF Promise!Succeed, Promise!Become
    <3>5. QED
      BY <3>4 DEF Promise!Next
  <2>5. CASE Joined(c)
    BY <2>2, <2>3, <2>5 DEF Joined
  <2>6. CASE Answer(c)
    <3>1. CASE \E p \in Partition : <<c, p>> \in Closing \/ ~Done(c)
      BY <2>3, <2>6, <3>1 DEF Answer
    <3>2. CASE ~(\E p \in Partition : <<c, p>> \in Closing \/ ~Done(c))
      <4>1. Goto(c, "ok")
        BY <2>6, <3>2 DEF Answer
      <4>2. QED
        <5>1. Positions[c] \subseteq Partition
          BY ConsumeAssumption
        <5>2. Done(c) /\ \A p \in Partition : <<c, p>> \notin Closing
          BY <3>2, <5>1 DEF Done
        <5>3. QED
          BY <2>4, <4>1, <5>2
    <3>3. QED
      BY <3>1, <3>2
  <2>7. QED
    BY <1>3, <2>5, <2>6
<1>4. QED
  BY <1>1, <1>2, <1>3 DEF Request

(* A receiver hands over a message or ends; the rest is not seen.          *)
LEMMA ThreadPromised ==
    ASSUME ConsumeInvariant, NEW c \in Call, NEW p \in Partition,
           Receiver(c, p) \/ OnError(c, p) \/ Supervisor(c, p)
    PROVE  [Promise!Next]_(Promise!vars)
<1>1. CASE StartUp(c, p)
  <2>1. UNCHANGED <<pc, cursor>>
    BY <1>1 DEF StartUp, request
  <2>2. Living' = Living
    BY <1>1 DEF StartUp, Living, Set, ThreadAlive, ConsumeInvariant, TypeOK
  <2>3. QED
    BY <2>1, <2>2, StatusStays, PromiseStutters
<1>2. CASE Enter(c, p) \/ OnError(c, p) \/ Close(c, p) \/ Join(c, p)
  <2>1. UNCHANGED <<pc, cursor, thread>>
    BY <1>2 DEF Enter, OnError, Close, Join, request
  <2>2. QED
    BY <2>1, StatusStays, LivingStays, PromiseStutters
<1>3. CASE Leave(c, p)
  <2>1. UNCHANGED <<pc, thread>>
    BY <1>3 DEF Leave
  <2>2. CASE cursor' = cursor
    BY <2>1, <2>2, StatusStays, LivingStays, PromiseStutters
  <2>3. CASE cursor' = [cursor EXCEPT ![c][p] = cursor[c][p] + 1]
    <3>1. gate[c] = p /\ p # None
      BY <1>3, ConsumeAssumption DEF Leave
    <3>2. pc[c] \in Working /\ thread[c][p] = "receiving"
      BY <3>1 DEF ConsumeInvariant, GateHeld
    <3>3. Status[c] = "running"
      BY <3>2 DEF Status, Working, Answers
    <3>4. <<c, p>> \in Living
      BY <3>2 DEF Living, ThreadAlive
    <3>5. Promise!Hand(c, p)
      BY <2>1, <2>3, <3>3, <3>4, StatusStays, LivingStays DEF Promise!Hand
    <3>6. QED
      BY <3>5 DEF Promise!Next
  <2>4. QED
    BY <1>3, <2>2, <2>3 DEF Leave, Set
<1>4. CASE EndReceive(c, p)
  <2>1. UNCHANGED <<pc, cursor>> /\ <<c, p>> \in Living
    BY <1>4 DEF EndReceive, Living
  <2>2. Living' = Living \ {<<c, p>>}
    BY <1>4 DEF EndReceive, Living, Set, ThreadAlive, ConsumeInvariant, TypeOK
  <2>3. Promise!End(<<c, p>>)
    BY <2>1, <2>2, StatusStays DEF Promise!End
  <2>4. QED
    BY <2>1, <2>3 DEF Promise!Next
<1>5. QED
  BY <1>1, <1>2, <1>3, <1>4 DEF Receiver, Supervisor

(* Every step is a step of the promise, or is not seen.                    *)
LEMMA PromiseStep ==
    ASSUME "supervisor" \notin ThreadFaults, ConsumeInvariant, Supervised, [Next]_vars
    PROVE  [Promise!Next]_(Promise!vars)
<1>1. CASE UNCHANGED vars
  BY <1>1, StatusStays, LivingStays, PromiseStutters DEF vars, request
<1>2. QED
  BY <1>1, AdmitPromised, RequestPromised, ThreadPromised DEF Next

(* Where a supervisor's thread can always be started, consume keeps its    *)
(* promise, whatever its receivers and its messages do                     *)
(* (guided_cloud.py:212-216, 227-232, 291-296).                            *)
THEOREM ConsumeKeepsPromise ==
    ASSUME "supervisor" \notin ThreadFaults
    PROVE  Spec => KeepsPromise
<1>1. ConsumeInvariant /\ Supervised /\ [Next]_vars => [Promise!Next]_(Promise!vars)
  BY PromiseStep
<1>2. QED
  BY <1>1, PromiseInit, AllSupervised, PTL DEF Spec, KeepsPromise, Promise!Spec
=============================================================================
