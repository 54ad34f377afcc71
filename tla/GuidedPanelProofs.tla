------------------------- MODULE GuidedPanelProofs --------------------------
(***************************************************************************)
(* What the panel of the guided demo shows, for any number of requests and *)
(* clients, rows, partitions, phases and faults.                           *)
(***************************************************************************)
EXTENDS GuidedPanel, GuidedRunProofs

-----------------------------------------------------------------------------
(* The steps of the panel are steps of the run, or leave it alone.         *)

RunStands == UNCHANGED <<control, stores, worker>> /\ (Fault \/ NoFault)

(* What the panel and its operator do to the run is a step of GuidedRun,   *)
(* or nothing.                                                             *)
LEMMA PanelActs ==
    ASSUME PanelNext
    PROVE  Expire \/ RunStands \/ \E w \in Worker : Acts(w)
<1> USE DEF Acts
<1>1. CASE \E t \in Step \union {"change"} : ClickFails(t) \/ \E w \in Worker : Click(w, t)
  BY <1>1 DEF ClickFails, Click, RunStands
<1>2. CASE \E w \in Worker : Respond(w) \/ ServerDies(w)
  BY <1>2 DEF Respond, ServerDies
<1>3. CASE Abandon \/ Refresh \/ Unauthorized \/ Reload \/ Initialize
  <2>1. UNCHANGED vars
    BY <1>3 DEF Abandon, Refresh, Unauthorized, Reload, Initialize
  <2>2. QED
    BY <2>1 DEF vars, RunStands, NoFault
<1>4. CASE ServerSteps
  BY <1>4 DEF ServerSteps
<1>5. CASE Elsewhere
  BY <1>5 DEF Elsewhere
<1>6. QED
  BY <1>1, <1>2, <1>3, <1>4, <1>5 DEF PanelNext, PanelAlone

(* Whatever happens, the run goes on from where it is.                     *)
LEMMA RunGoesOn ==
    ASSUME RunInvariant, Expire \/ RunStands \/ \E w \in Worker : Acts(w)
    PROVE  RunInvariant' /\ MovesOn
<1>1. /\ TypeOK /\ manifest.phase \in Nat /\ manifest.stage \in Nat
  <2>1. TypeOK
    BY DEF RunInvariant
  <2>2. manifest.phase \in 1..MaxPhase /\ manifest.stage \in 0..6
    BY <2>1, StepNames DEF TypeOK, Run
  <2>3. QED
    BY <2>1, <2>2, RunAssumption
<1>2. CASE Expire \/ RunStands
  <2>1. manifest' = manifest
    BY <1>2 DEF Expire, RunStands, control
  <2>2. RunInvariant'
    BY <1>2, ExpireKeeps, StutterKeeps DEF RunStands
  <2>3. QED
    BY <1>1, <2>1, <2>2 DEF MovesOn
<1>3. ASSUME NEW w \in Worker, Acts(w) PROVE RunInvariant' /\ MovesOn
  BY <1>3, ActKeeps, EffectOfAct, SharedTypesKept
<1>4. QED
  BY <1>2, <1>3

(* What a request answers is the manifest as it is when it answers.        *)
LEMMA AnswerIsManifest ==
    ASSUME TypeOK, NEW w \in Worker, Acts(w), pc'[w] = "release", run'[w] # None
    PROVE  run'[w] = manifest'
<1> USE DEF TypeOK, Goto, Raise
<1>1. CASE Load(w)
  BY <1>1 DEF Load, LoadStep, LoadChange, Answer, control
<1>2. CASE Saved(w)
  BY <1>2 DEF Saved, Upload
<1>3. CASE \/ LoadRefused(w) \/ SaveRefused(w) \/ CheckFails(w) \/ ReceiveFenced(w)
          \/ Timeout(w) \/ CallFails(w)
  BY <1>3 DEF LoadRefused, SaveRefused, CheckFails, ReceiveFenced, Timeout, CallFails
<1>4. CASE Put(w) \/ PutEvents(w) \/ ReadPositions(w) \/ Send(w) \/ Published(w)
  BY <1>4 DEF Put, PutEvents, ReadPositions, Send, Published, Complete
<1>5. CASE Attach(w) \/ Consumed(w) \/ Verify(w)
  BY <1>5 DEF Attach, Consumed, Verify, Complete
<1>6. CASE \E p \in Partition : \E o \in DOMAIN log[p] : Receive(w, p, o)
  BY <1>6 DEF Receive
<1>7. CASE Release(w) \/ Crash(w) \/ \E t \in Step \union {"change"} : Request(w, t)
  BY <1>7 DEF Release, Crash, Request, End
<1>8. CASE Renew(w)
  BY <1>8 DEF Renew
<1>9. QED
  BY <1>1, <1>2, <1>3, <1>4, <1>5, <1>6, <1>7, <1>8 DEF Acts, Serve

(* A request that is at work stays so until it is answered or dies.        *)
Works(w) == Serve(w) \/ Renew(w) \/ Timeout(w) \/ CallFails(w)

(* A request at work keeps its task, does not return to the idle state,    *)
(* and does not load the manifest a second time.                           *)
LEMMA WorkGoesOn ==
    ASSUME TypeOK, NEW w \in Worker, Works(w), pc[w] # "idle"
    PROVE  /\ Acts(w) /\ task'[w] = task[w]
           /\ pc'[w] # "idle"
           /\ pc'[w] = "load" => pc[w] = "load"
<1> USE DEF TypeOK, Goto, Raise
<1>1. CASE Load(w)
  BY <1>1 DEF Load, LoadStep, LoadChange, Answer, Acts, Serve
<1>2. CASE Saved(w)
  BY <1>2 DEF Saved, AfterSave, FirstLabel, Acts, Serve
<1>3. CASE LoadRefused(w) \/ SaveRefused(w) \/ CheckFails(w) \/ ReceiveFenced(w)
  BY <1>3 DEF LoadRefused, SaveRefused, CheckFails, ReceiveFenced, Acts, Serve
<1>4. CASE Timeout(w) \/ CallFails(w)
  BY <1>4 DEF Timeout, CallFails, Acts
<1>5. CASE Put(w) \/ PutEvents(w) \/ ReadPositions(w) \/ Send(w) \/ Published(w)
  BY <1>5 DEF Put, PutEvents, ReadPositions, Send, Published, Complete, Acts, Serve
<1>6. CASE Attach(w) \/ Consumed(w) \/ Verify(w)
  BY <1>6 DEF Attach, Consumed, Verify, Complete, Acts, Serve
<1>7. CASE \E p \in Partition : \E o \in DOMAIN log[p] : Receive(w, p, o)
  <2>1. Acts(w)
    BY <1>7 DEF Acts, Serve
  <2>2. PICK p \in Partition : \E o \in DOMAIN log[p] : Receive(w, p, o)
    BY <1>7
  <2>3. task'[w] = task[w] /\ pc \in [Worker -> Label]
    BY <2>2 DEF Receive
  <2>4. pc'[w] \notin {"idle", "load"}
    BY <2>2, <2>3 DEF Receive
  <2>5. QED
    BY <2>1, <2>3, <2>4
<1>8. CASE Renew(w)
  BY <1>8 DEF Renew, Acts
<1>9. QED
  BY <1>1, <1>2, <1>3, <1>4, <1>5, <1>6, <1>7, <1>8 DEF Works, Serve

-----------------------------------------------------------------------------
(* The course of the run.                                                  *)

(* The manifest counts its completed steps.                                *)
LEMMA ManifestFits ==
    ASSUME RunInvariant
    PROVE  /\ manifest \in Run /\ manifest.phase \in Nat /\ manifest.stage \in Nat
           /\ StageCounts(manifest)
<1>1. manifest \in Run /\ StageCounts(manifest)
  BY DEF RunInvariant, TypeOK, CopyTrue, StageCounts
<1>2. manifest.phase \in 1..MaxPhase /\ manifest.stage \in 0..6
  BY <1>1, StepNames DEF Run
<1>3. QED
  BY <1>1, <1>2, RunAssumption

(* A copy that is not ahead of the manifest is not overtaken: the manifest *)
(* moves forward only.                                                     *)
LEMMA NotAfterMoves ==
    ASSUME RunInvariant, RunInvariant', MovesOn,
           NEW v, v.phase \in Nat, v.stage \in Nat, NotAfter(v, manifest),
           NEW x, x = manifest'
    PROVE  NotAfter(v, x)
<1>1. manifest.phase \in Nat /\ manifest.stage \in Nat
  BY ManifestFits
<1>2. x.phase \in Nat /\ x.stage \in Nat
  <2>1. TypeOK'
    BY DEF RunInvariant
  <2>2. x.phase \in 1..MaxPhase /\ x.stage \in 0..6
    BY <2>1, StepNames DEF TypeOK, Run
  <2>3. QED
    BY <2>2, RunAssumption
<1>3. QED
  BY <1>1, <1>2 DEF MovesOn, NotAfter

(* The same of the next state, where the new manifest is not ahead of      *)
(* itself.                                                                 *)
LEMMA ManifestFitsNext ==
    ASSUME RunInvariant', NEW x, x = manifest'
    PROVE  /\ x \in Run /\ x.phase \in Nat /\ x.stage \in Nat
           /\ StageCounts(x) /\ NotAfter(x, x)
<1>1. TypeOK' /\ CopyTrue(manifest)'
  BY DEF RunInvariant
<1>2. x \in Run /\ StageCounts(x)
  BY <1>1 DEF TypeOK, CopyTrue, StageCounts, Completed
<1>3. x.phase \in 1..MaxPhase /\ x.stage \in 0..6
  BY <1>2, StepNames DEF Run
<1>4. x.phase \in Nat /\ x.stage \in Nat
  BY <1>3, RunAssumption
<1>5. QED
  BY <1>2, <1>4 DEF NotAfter

(* A request that is about to answer carries a copy the manifest has had,  *)
(* whatever the other requests do meanwhile.                               *)
LEMMA AnswersKept ==
    ASSUME RunInvariant, RunInvariant', MovesOn, \A u \in Worker : AnswerFits(u),
           Expire \/ RunStands \/ \E w \in Worker : Acts(w)
    PROVE  \A u \in Worker : AnswerFits(u)'
<1> SUFFICES ASSUME NEW u \in Worker, pc'[u] = "release", run'[u] # None
             PROVE  AnswerFits(u)'
  BY DEF AnswerFits
<1>1. PICK x : x = manifest'
  OBVIOUS
<1>2. TypeOK
  BY DEF RunInvariant
<1>3. CASE pc'[u] = pc[u] /\ run'[u] = run[u]
  <2>1. run[u] \in Run /\ StageCounts(run[u]) /\ NotAfter(run[u], manifest)
    BY <1>3 DEF AnswerFits
  <2>2. PICK r : r = run[u]
    OBVIOUS
  <2>3. r.phase \in Nat /\ r.stage \in Nat
    <3>1. r.phase \in 1..MaxPhase /\ r.stage \in 0..6
      BY <2>1, <2>2, StepNames DEF Run
    <3>2. QED
      BY <3>1, RunAssumption
  <2>4. NotAfter(r, x)
    BY <1>1, <2>1, <2>2, <2>3, NotAfterMoves
  <2>5. QED
    BY <1>1, <1>3, <2>1, <2>2, <2>4 DEF AnswerFits, StageCounts, Completed, NotAfter
<1>4. CASE Expire \/ RunStands
  BY <1>3, <1>4 DEF Expire, RunStands, worker
<1>5. ASSUME NEW w \in Worker, Acts(w) PROVE AnswerFits(u)'
  <2>1. CASE u # w
    BY <1>2, <1>3, <1>5, <2>1, ActsAlone DEF Alone
  <2>2. CASE u = w
    <3>1. run'[u] = x
      BY <1>1, <1>2, <1>5, <2>2, AnswerIsManifest
    <3>2. x \in Run /\ StageCounts(x) /\ NotAfter(x, x)
      BY <1>1, ManifestFitsNext
    <3>3. QED
      BY <1>1, <3>1, <3>2 DEF AnswerFits, StageCounts, Completed, NotAfter
  <2>3. QED
    BY <2>1, <2>2
<1>6. QED
  BY <1>4, <1>5

-----------------------------------------------------------------------------
(* What is shown.                                                          *)

(* A view that stays is still not ahead of the manifest.                   *)
LEMMA ViewStays ==
    ASSUME RunInvariant, RunInvariant', MovesOn, ViewFits, view' = view \/ view' = None
    PROVE  ViewFits'
<1> SUFFICES ASSUME view' # None PROVE ViewFits'
  BY DEF ViewFits
<1>1. view' = view /\ view # None
  OBVIOUS
<1>2. PICK v : v = view
  OBVIOUS
<1>3. PICK x : x = manifest'
  OBVIOUS
<1>4. v.phase \in Nat /\ v.stage \in Nat /\ StageCounts(v) /\ NotAfter(v, manifest)
  BY <1>1, <1>2 DEF ViewFits
<1>5. NotAfter(v, x)
  BY <1>3, <1>4, NotAfterMoves
<1>6. QED
  BY <1>1, <1>2, <1>3, <1>4, <1>5 DEF ViewFits, StageCounts, Completed, NotAfter

(* A view of the manifest, or of an answer, is one.                        *)
LEMMA ViewShown ==
    ASSUME RunInvariant, UNCHANGED manifest, NEW r \in Run, StageCounts(r), NotAfter(r, manifest),
           view' = Shown(r)
    PROVE  ViewFits'
<1>1. r.phase \in Nat /\ r.stage \in Nat
  <2>1. r.phase \in 1..MaxPhase /\ r.stage \in 0..6
    BY StepNames DEF Run
  <2>2. QED
    BY <2>1, RunAssumption
<1>2. PICK v : v = Shown(r)
  OBVIOUS
<1>3. v.phase = r.phase /\ v.stage = r.stage /\ v.steps = r.steps
  BY <1>2 DEF Shown
<1>4. QED
  BY <1>1, <1>2, <1>3 DEF ViewFits, StageCounts, Completed, NotAfter

(* The awaited request is not disturbed by what others do.                 *)
LEMMA WaitingStays ==
    ASSUME TypeOK, WaitingFits, UNCHANGED <<view, waiting>>,
           waiting # None => UNCHANGED <<pc[waiting], task[waiting], run[waiting]>>
    PROVE  WaitingFits'
<1> SUFFICES ASSUME waiting # None PROVE WaitingFits'
  BY DEF WaitingFits
<1>1. waiting' = waiting /\ view' = view
  OBVIOUS
<1>2. PICK w : w = waiting
  OBVIOUS
<1>3. pc'[w] = pc[w] /\ task'[w] = task[w] /\ run'[w] = run[w]
  BY <1>2
<1>4. QED
  BY <1>1, <1>2, <1>3 DEF WaitingFits, NotAfter

(* A step of another request leaves alone the one the panel waits for.     *)
LEMMA WaitingApart ==
    ASSUME TypeOK, WaitingFits, NEW w \in Worker, Acts(w), waiting # w, UNCHANGED waiting
    PROVE  waiting # None => UNCHANGED <<pc[waiting], task[waiting], run[waiting]>>
<1> SUFFICES ASSUME waiting # None
             PROVE  UNCHANGED <<pc[waiting], task[waiting], run[waiting]>>
  OBVIOUS
<1>1. PICK u \in Worker \ {w} : u = waiting
  BY DEF WaitingFits
<1>2. pc'[u] = pc[u] /\ task'[u] = task[u] /\ run'[u] = run[u]
  BY ActsAlone DEF Alone
<1>3. QED
  BY <1>1, <1>2

(* What the panel shows next is not older than what it shows.              *)
ViewMovesOn == view # None /\ view' # None => NotAfter(view, view')

(* A panel that keeps its copy, or forgets it, takes nothing back.         *)
LEMMA SameViewMovesOn ==
    ASSUME ViewFits, view' = view \/ view' = None
    PROVE  ViewMovesOn
BY DEF ViewFits, ViewMovesOn, NotAfter

(* Steps of the run that the panel does not take part in.                  *)
LEMMA ServerKeeps ==
    ASSUME PanelInvariant, RunInvariant', MovesOn,
           ServerSteps \/ Elsewhere \/ RunStands, UNCHANGED <<view, waiting>>
    PROVE  WaitingFits'
<1>1. TypeOK /\ WaitingFits
  BY DEF PanelInvariant, RunInvariant
<1>2. CASE waiting = None
  BY <1>2 DEF WaitingFits
<1>3. CASE waiting # None
  <2>1. PICK w \in Worker : w = waiting
    BY <1>1, <1>3 DEF WaitingFits
  <2>2. /\ view # None /\ pc[w] # "idle"
        /\ pc[w] = "load" /\ task[w] \in Step => view.stage + 1 = Index(task[w])
    BY <1>1, <1>3, <2>1 DEF WaitingFits
  <2>3. CASE Expire \/ RunStands
    BY <1>1, <2>3, WaitingStays DEF Expire, RunStands, worker
  <2>4. ASSUME NEW u \in Worker, Acts(u), u # w PROVE WaitingFits'
    BY <1>1, <2>1, <2>4, ActsAlone, WaitingStays DEF Alone
  <2>5. ASSUME Works(w) PROVE WaitingFits'
    <3>1. /\ Acts(w) /\ task'[w] = task[w]
          /\ pc'[w] # "idle"
          /\ pc'[w] = "load" => pc[w] = "load"
      BY <1>1, <2>2, <2>5, WorkGoesOn
    <3>2. PICK x : x = manifest'
      OBVIOUS
    <3>3. PICK v : v = view
      OBVIOUS
    <3>4. NotAfter(v, x)
      <4>1. v.phase \in Nat /\ v.stage \in Nat /\ NotAfter(v, manifest) /\ RunInvariant
        BY <2>2, <3>3 DEF PanelInvariant, ViewFits
      <4>2. QED
        BY <3>2, <4>1, NotAfterMoves
    <3>5. pc'[w] = "release" /\ run'[w] # None => run'[w] = x
      BY <1>1, <3>1, <3>2, AnswerIsManifest
    <3>6. waiting' = w /\ view' = v
      BY <2>1, <3>3
    <3>7. pc'[w] = "release" /\ run'[w] # None => NotAfter(v, run'[w])
      BY <3>4, <3>5
    <3>8. pc'[w] = "load" /\ task'[w] \in Step => v.stage + 1 = Index(task'[w])
      BY <2>2, <3>1, <3>3
    <3>9. view' # None /\ pc'[w] # "idle"
      BY <2>2, <3>1, <3>3, <3>6
    <3>10. (NotAfter(view, run[waiting]))' <=> NotAfter(v, run'[w])
      BY <3>6 DEF NotAfter
    <3>11. QED
      BY <3>6, <3>7, <3>8, <3>9, <3>10 DEF WaitingFits
  <2>6. CASE ServerSteps
    <3>1. Expire \/ \E u \in Worker : Works(u)
      BY <2>6 DEF ServerSteps, Works
    <3>2. \A u \in Worker : Works(u) => Acts(u)
      BY DEF Works, Acts
    <3>3. QED
      BY <2>3, <2>4, <2>5, <3>1, <3>2
  <2>7. CASE Elsewhere
    <3>1. PICK u \in Worker : \E t \in Step \union {"change"} : Request(u, t)
      BY <2>7 DEF Elsewhere
    <3>2. Acts(u) /\ pc[u] = "idle"
      BY <3>1 DEF Acts, Request
    <3>3. QED
      BY <2>2, <2>4, <3>2
  <2>8. QED
    BY <2>3, <2>6, <2>7
<1>4. QED
  BY <1>2, <1>3

(* A click changes no copy; the panel waits for the request it made.       *)
LEMMA ClickKeeps ==
    ASSUME PanelInvariant, NEW w \in Worker, NEW t \in Step \union {"change"}, Click(w, t)
    PROVE  WaitingFits' /\ view' = view
<1>1. TypeOK
  BY DEF PanelInvariant, RunInvariant
<1>2. waiting' = w /\ view' = view /\ view # None /\ Request(w, t) /\ Clickable(t)
  BY DEF Click, Clickable, CanChange, CanExecute, Idle
<1>3. pc'[w] = "load" /\ task'[w] = t
  BY <1>1, <1>2 DEF Request, Goto, TypeOK
<1>4. t \in Step => view.stage + 1 = Index(t)
  BY <1>2, StepNames DEF Clickable, CanExecute
<1>5. QED
  BY <1>2, <1>3, <1>4 DEF WaitingFits

(* An answer that is shown is not older than the copy it replaces.         *)
LEMMA RespondKeeps ==
    ASSUME PanelInvariant, RunInvariant', MovesOn, NEW w \in Worker, Respond(w)
    PROVE  ViewFits' /\ WaitingFits' /\ ViewMovesOn
<1>1. TypeOK /\ ViewFits /\ WaitingFits /\ AnswerFits(w) /\ RunInvariant
  BY DEF PanelInvariant, RunInvariant
<1>2. pc[w] = "release" /\ UNCHANGED manifest /\ Acts(w) /\ w # None
  BY RunAssumption DEF Respond, Release, Acts
<1>3. CASE waiting = w /\ run[w] # None
  <2>1. PICK r : r = run[w]
    OBVIOUS
  <2>2. /\ view' = Shown(r) /\ waiting' = None
        /\ r \in Run /\ StageCounts(r) /\ NotAfter(r, manifest)
    BY <1>1, <1>2, <1>3, <2>1 DEF Respond, AnswerFits
  <2>3. ViewFits'
    BY <1>1, <1>2, <2>2, ViewShown
  <2>4. NotAfter(view, r)
    BY <1>1, <1>2, <1>3, <2>1 DEF WaitingFits
  <2>5. ViewMovesOn
    BY <2>2, <2>4 DEF ViewMovesOn, NotAfter, Shown
  <2>6. WaitingFits'
    BY <2>2 DEF WaitingFits
  <2>7. QED
    BY <2>3, <2>5, <2>6
<1>4. CASE ~(waiting = w /\ run[w] # None)
  <2>1. view' = view
    BY <1>4 DEF Respond
  <2>2. ViewFits' /\ ViewMovesOn
    BY <1>1, <2>1, ViewStays, SameViewMovesOn
  <2>3. CASE waiting = w
    <3>1. WaitingFits'
      BY <2>3 DEF Respond, WaitingFits
    <3>2. QED
      BY <2>2, <3>1
  <2>4. CASE waiting # w
    <3>1. waiting' = waiting
      BY <2>4 DEF Respond
    <3>2. waiting # None => UNCHANGED <<pc[waiting], task[waiting], run[waiting]>>
      BY <1>1, <1>2, <2>4, <3>1, WaitingApart
    <3>3. QED
      BY <1>1, <2>1, <2>2, <3>1, <3>2, WaitingStays
  <2>5. QED
    BY <2>2, <2>3, <2>4
<1>5. QED
  BY <1>3, <1>4

(* When a server dies the panel keeps its copy, and stops waiting if it    *)
(* waited for it.                                                          *)
LEMMA DeathKeeps ==
    ASSUME PanelInvariant, NEW w \in Worker, ServerDies(w)
    PROVE  WaitingFits' /\ view' = view
<1>1. TypeOK /\ WaitingFits /\ Acts(w) /\ view' = view
  BY DEF PanelInvariant, RunInvariant, ServerDies, Acts
<1>2. CASE waiting = w
  BY <1>1, <1>2 DEF ServerDies, WaitingFits
<1>3. CASE waiting # w
  <2>1. waiting' = waiting
    BY <1>3 DEF ServerDies
  <2>2. waiting # None => UNCHANGED <<pc[waiting], task[waiting], run[waiting]>>
    BY <1>1, <1>3, <2>1, WaitingApart
  <2>3. QED
    BY <1>1, <2>1, <2>2, WaitingStays
<1>4. QED
  BY <1>2, <1>3

(* Every step of panel, operator and server keeps the invariant and takes  *)
(* nothing back.                                                           *)
LEMMA PanelStep ==
    ASSUME PanelInvariant, PanelNext
    PROVE  PanelInvariant' /\ ViewMovesOn
<1>1. RunInvariant /\ ViewFits /\ WaitingFits /\ \A u \in Worker : AnswerFits(u)
  BY DEF PanelInvariant
<1>2. RunInvariant' /\ MovesOn /\ \A u \in Worker : AnswerFits(u)'
  BY <1>1, PanelActs, RunGoesOn, AnswersKept
<1>3. ASSUME view' = view \/ view' = None, WaitingFits'
      PROVE  PanelInvariant' /\ ViewMovesOn
  BY <1>1, <1>2, <1>3, ViewStays, SameViewMovesOn DEF PanelInvariant
<1>4. CASE \E t \in Step \union {"change"} : ClickFails(t)
  <2>1. RunStands /\ UNCHANGED <<view, waiting>>
    BY <1>4 DEF ClickFails, RunStands
  <2>2. QED
    BY <1>2, <1>3, <2>1, ServerKeeps
<1>5. CASE \E t \in Step \union {"change"} : \E w \in Worker : Click(w, t)
  BY <1>3, <1>5, ClickKeeps
<1>6. CASE \E w \in Worker : Respond(w)
  BY <1>2, <1>6, RespondKeeps DEF PanelInvariant
<1>7. CASE \E w \in Worker : ServerDies(w)
  BY <1>3, <1>7, DeathKeeps
<1>8. CASE Abandon \/ Unauthorized \/ Reload
  <2>1. waiting' = None /\ (view' = view \/ view' = None)
    BY <1>8 DEF Abandon, Unauthorized, Reload, RequireLogin, Idle
  <2>2. WaitingFits'
    BY <2>1 DEF WaitingFits
  <2>3. QED
    BY <1>3, <2>1, <2>2
<1>9. CASE Refresh \/ Initialize
  <2>1. view' = Shown(manifest) /\ waiting' = None /\ UNCHANGED manifest
    BY <1>9 DEF Refresh, Initialize, Idle, vars, control
  <2>2. PICK r : r = manifest
    OBVIOUS
  <2>3. r \in Run /\ r.phase \in Nat /\ r.stage \in Nat /\ StageCounts(r)
    BY <1>1, <2>2, ManifestFits
  <2>4. NotAfter(r, manifest)
    BY <2>2, <2>3 DEF NotAfter
  <2>5. ViewFits'
    BY <1>1, <2>1, <2>2, <2>3, <2>4, ViewShown
  <2>6. ViewMovesOn
    BY <1>1, <2>1 DEF ViewMovesOn, ViewFits, NotAfter, Shown
  <2>7. WaitingFits'
    BY <2>1 DEF WaitingFits
  <2>8. QED
    BY <1>2, <2>5, <2>6, <2>7 DEF PanelInvariant
<1>10. CASE (ServerSteps \/ Elsewhere) /\ UNCHANGED panel
  <2>1. UNCHANGED <<view, waiting>>
    BY <1>10 DEF panel
  <2>2. QED
    BY <1>2, <1>3, <1>10, <2>1, ServerKeeps
<1>11. QED
  BY <1>4, <1>5, <1>6, <1>7, <1>8, <1>9, <1>10 DEF PanelNext, PanelAlone, Elsewhere

(* A stutter keeps the invariant.                                          *)
LEMMA PanelStutters ==
    ASSUME PanelInvariant, UNCHANGED panelVars
    PROVE  PanelInvariant' /\ UNCHANGED view
<1>1. RunStands /\ UNCHANGED <<view, waiting>>
  BY DEF panelVars, panel, vars, RunStands, NoFault
<1>2. RunInvariant /\ ViewFits /\ WaitingFits /\ \A u \in Worker : AnswerFits(u)
  BY DEF PanelInvariant
<1>3. RunInvariant' /\ MovesOn /\ \A u \in Worker : AnswerFits(u)'
  BY <1>1, <1>2, RunGoesOn, AnswersKept
<1>4. ViewFits' /\ WaitingFits'
  BY <1>1, <1>2, <1>3, ViewStays, ServerKeeps
<1>5. QED
  BY <1>1, <1>3, <1>4 DEF PanelInvariant

(* The initial states satisfy the invariant.                               *)
LEMMA PanelStarts == PanelInit => PanelInvariant
<1> SUFFICES ASSUME PanelInit PROVE PanelInvariant
  OBVIOUS
<1>1. RunInvariant /\ view = Shown(manifest) /\ waiting = None /\ Init
  BY RunInit DEF PanelInit
<1>2. ViewFits
  <2>1. manifest.phase \in Nat /\ manifest.stage \in Nat /\ StageCounts(manifest)
    BY <1>1, ManifestFits
  <2>2. QED
    BY <1>1, <2>1 DEF ViewFits, NotAfter, StageCounts, Completed, Shown
<1>3. WaitingFits /\ \A u \in Worker : AnswerFits(u)
  BY <1>1 DEF WaitingFits, AnswerFits, Init
<1>4. QED
  BY <1>1, <1>2, <1>3 DEF PanelInvariant

-----------------------------------------------------------------------------
(* The theorems.                                                           *)

(* PanelInvariant holds in every state of the panel and its run.           *)
THEOREM PanelInvariantHolds == PanelSpec => []PanelInvariant
<1>1. PanelInvariant /\ [PanelNext]_panelVars => PanelInvariant'
  BY PanelStep, PanelStutters
<1>2. QED
  BY PanelStarts, <1>1, PTL DEF PanelSpec

(* The panel shows no success that the manifest does not hold              *)
(* (guided_ui.html:641 "Nenhum sucesso foi presumido").                    *)
THEOREM PanelPresumesNothing == PanelSpec => []NoSuccessPresumed
<1>1. PanelInvariant => NoSuccessPresumed
  <2> SUFFICES ASSUME PanelInvariant, view # None PROVE NoSuccessPresumed
    BY DEF NoSuccessPresumed
  <2>1. StageCounts(view) /\ NotAfter(view, manifest) /\ view.stage \in Nat
    BY DEF PanelInvariant, ViewFits
  <2>2. StageCounts(manifest) /\ manifest.stage \in Nat /\ manifest.phase \in Nat
    BY ManifestFits DEF PanelInvariant
  <2>3. ASSUME view.phase = manifest.phase, NEW s \in Step, view.steps[s] = "completed"
        PROVE  Completed(manifest, s)
    <3>1. Index(s) \in 1..6 /\ Steps[Index(s)] = s
      BY StepPlaces
    <3>2. Index(s) <= view.stage /\ view.stage <= manifest.stage
      BY <2>1, <2>2, <2>3, <3>1, StepNames DEF StageCounts, Completed, NotAfter
    <3>3. Index(s) <= manifest.stage
      BY <2>1, <2>2, <3>1, <3>2
    <3>4. QED
      BY <2>2, <3>1, <3>3, StepNames DEF StageCounts
  <2>4. QED
    BY <2>1, <2>3 DEF NoSuccessPresumed
<1>2. QED
  BY PanelInvariantHolds, <1>1, PTL

(* A click is refused as premature only if another phase has begun since   *)
(* the panel last looked (guided_pipeline.py:137).                         *)
THEOREM RefusalMeansOutdated == PanelSpec => []RefusedOnlyIfOutdated
<1>1. PanelInvariant => RefusedOnlyIfOutdated
  <2> SUFFICES ASSUME PanelInvariant, waiting # None, pc[waiting] = "load", task[waiting] \in Step,
                      ~(manifest.phase > view.phase)
               PROVE  Ready(manifest, task[waiting])
    BY DEF RefusedOnlyIfOutdated
  <2>1. /\ view # None /\ view.stage + 1 = Index(task[waiting])
        /\ view.phase \in Nat /\ view.stage \in Nat /\ NotAfter(view, manifest)
    BY DEF PanelInvariant, WaitingFits, ViewFits
  <2>2. StageCounts(manifest) /\ manifest.stage \in Nat /\ manifest.phase \in Nat
    BY ManifestFits DEF PanelInvariant
  <2>3. view.stage <= manifest.stage
    BY <2>1, <2>2 DEF NotAfter
  <2>4. Index(task[waiting]) \in 1..6
    BY StepPlaces
  <2>5. ASSUME NEW i \in 1..(Index(task[waiting]) - 1) PROVE Completed(manifest, Steps[i])
    <3>1. i \in 1..6 /\ i <= manifest.stage
      BY <2>1, <2>2, <2>3, <2>4
    <3>2. QED
      BY <2>2, <3>1, StepNames DEF StageCounts
  <2>6. QED
    BY <2>5 DEF Ready
<1>2. QED
  BY PanelInvariantHolds, <1>1, PTL

(* What the operator has seen is never taken back.                         *)
THEOREM SeenIsNotTakenBack == PanelSpec => ViewNeverGoesBack
<1>1. PanelInvariant /\ [PanelNext]_panelVars => [view # None /\ view' # None => NotAfter(view, view')]_view
  BY PanelStep, PanelStutters DEF ViewMovesOn
<1>2. QED
  BY PanelInvariantHolds, <1>1, PTL DEF PanelSpec, ViewNeverGoesBack
=============================================================================
