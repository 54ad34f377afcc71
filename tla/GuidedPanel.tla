---------------------------- MODULE GuidedPanel -----------------------------
(***************************************************************************)
(* The browser panel of the guided demo (guided_ui.html) on top of a run:  *)
(* what the operator sees, when the buttons are enabled, and what becomes  *)
(* of a click whose answer is late, lost or an error.                      *)
(*                                                                         *)
(* The panel waits for one request at a time.  A request it has given up   *)
(* goes on in the server; a POST whose answer it never saw leaves it       *)
(* "uncertain" until the operator refreshes.  Other tabs and API clients   *)
(* may send requests for the same run.  Reading the manifest is one step:  *)
(* until the answer is shown nothing else happens in the panel.            *)
(* The panel forgets the run when a request is refused because the session *)
(* has ended, or when its page is loaded again, and finds it once more by  *)
(* the identifier kept in its address.                                     *)
(***************************************************************************)
EXTENDS GuidedRun

VARIABLES
    view,          \* state.run: phase, stage and the status of each step, or None
    waiting,       \* the worker whose answer is awaited (state.busy), or None
    uncertain      \* state.uncertain

panel == <<view, waiting, uncertain>>
panelVars == <<vars, panel>>

(* public: what the server shows of a run.                                 *)
Shown(r) == [phase |-> r.phase, stage |-> r.stage, steps |-> r.steps]

(* POST /api/runs has been answered.                                       *)
PanelInit ==
    /\ Init
    /\ view = Shown(manifest)
    /\ waiting = None
    /\ uncertain = FALSE

(* A run is shown and no request is awaited.                               *)
Idle == waiting = None /\ view # None

ServerRunning == \E s \in Step : view.steps[s] = "running"

(* Mutant: any step that is not completed can be selected and executed.    *)
CanExecuteAhead(s) ==
    /\ Idle /\ ~uncertain /\ ~ServerRunning
    /\ view.stage < Index(s)

(* Mutant: a completed step can be executed again.                         *)
CanExecuteAgain(s) ==
    /\ Idle /\ ~uncertain /\ ~ServerRunning
    /\ view.stage + 1 >= Index(s)

(* canExecute, the selected step being s.                                  *)
CanExecute(s) ==
    /\ Idle /\ ~uncertain /\ ~ServerRunning
    /\ view.stage + 1 = Index(s)

CanChange ==
    /\ Idle /\ ~uncertain /\ ~ServerRunning
    /\ view.stage = Len(Steps)

Clickable(t) == IF t = "change" THEN CanChange ELSE CanExecute(t)

(* The click's POST reaches the server and gets the lease.                 *)
Click(w, t) ==
    /\ Clickable(t)
    /\ Request(w, t)
    /\ waiting' = w
    /\ uncertain' = TRUE
    /\ UNCHANGED view

(* It meets another request's lease (409), or does not reach the server.   *)
ClickFails(t) ==
    /\ Clickable(t)
    /\ \/ leased /\ NoFault
       \/ Fault
    /\ uncertain' = TRUE
    /\ UNCHANGED <<control, stores, worker, view, waiting>>

(* Mutant: the panel takes any answer for the completion of the step.      *)
RespondPresumingSuccess(w) ==
    /\ Release(w)
    /\ waiting' = IF waiting = w THEN None ELSE waiting
    /\ IF waiting = w /\ view.stage < Len(Steps)
       THEN view' = [view EXCEPT !.stage = @ + 1] /\ uncertain' = FALSE
       ELSE UNCHANGED <<view, uncertain>>

(* The request ends; its answer is shown if the panel still waits for it.  *)
(* An error leaves the view as it is and the outcome uncertain.            *)
Respond(w) ==
    /\ Release(w)
    /\ waiting' = IF waiting = w THEN None ELSE waiting
    /\ IF waiting = w /\ run[w] # None
       THEN view' = Shown(run[w]) /\ uncertain' = FALSE
       ELSE UNCHANGED <<view, uncertain>>

(* 180 seconds without an answer; the server goes on.                      *)
Abandon ==
    /\ waiting # None
    /\ waiting' = None
    /\ UNCHANGED <<vars, view, uncertain>>

(* Mutant: the state can be refreshed while an answer is awaited.          *)
RefreshWhileBusy ==
    /\ view' = Shown(manifest)
    /\ uncertain' = FALSE
    /\ UNCHANGED <<vars, waiting>>

(* Mutant: a refresh leaves the last outcome uncertain.                    *)
RefreshStillUncertain ==
    /\ Idle
    /\ view' = Shown(manifest)
    /\ UNCHANGED <<vars, waiting, uncertain>>

(* "Atualizar estado", or resuming the run by its identifier.              *)
Refresh ==
    /\ Idle
    /\ view' = Shown(manifest)
    /\ uncertain' = FALSE
    /\ UNCHANGED <<vars, waiting>>

RequireLogin == view' = None

(* A request is refused since the session has ended: it was a refresh, or  *)
(* a click, which leaves its outcome uncertain although nothing began.  A  *)
(* request is checked when it comes, so that one at work is not affected.  *)
Unauthorized ==
    /\ Idle
    /\ RequireLogin
    /\ \/ UNCHANGED uncertain
       \/ (\E t \in Step \union {"change"} : Clickable(t)) /\ uncertain' = TRUE
    /\ UNCHANGED <<vars, waiting>>

(* The page is loaded again, perhaps while an answer is awaited.           *)
Reload ==
    /\ view' = None
    /\ waiting' = None
    /\ uncertain' = FALSE
    /\ UNCHANGED vars

(* The session is open: the panel reads the run its address names.         *)
Initialize ==
    /\ waiting = None
    /\ view = None
    /\ view' = Shown(manifest)
    /\ uncertain' = FALSE
    /\ UNCHANGED <<vars, waiting>>

(* The server dies; a panel that waits for it sees the connection fail.    *)
ServerDies(w) ==
    /\ Crash(w)
    /\ waiting' = IF waiting = w THEN None ELSE waiting
    /\ UNCHANGED <<view, uncertain>>

ServerSteps ==
    \/ Expire
    \/ \E w \in Worker : Serve(w) \/ Renew(w) \/ Timeout(w) \/ CallFails(w)

PanelAlone ==
    \/ \E t \in Step \union {"change"} : ClickFails(t) \/ \E w \in Worker : Click(w, t)
    \/ \E w \in Worker : Respond(w) \/ ServerDies(w)
    \/ Abandon
    \/ Refresh \/ Unauthorized \/ Reload \/ Initialize
    \/ ServerSteps /\ UNCHANGED panel

(* A request of another tab or client.                                     *)
Elsewhere ==
    /\ \E w \in Worker : \E t \in Step \union {"change"} : Request(w, t)
    /\ UNCHANGED panel

PanelNext == PanelAlone \/ Elsewhere

PanelSpec == PanelInit /\ [][PanelNext]_panelVars

(* One operator, who enters again, refreshes and clicks whatever can be    *)
(* clicked, on a server that works on.                                     *)
PanelFairness ==
    /\ \A w \in Worker :
          /\ WF_panelVars(Serve(w) /\ UNCHANGED panel)
          /\ WF_panelVars(Timeout(w) /\ UNCHANGED panel)
          /\ WF_panelVars(Respond(w))
    /\ WF_panelVars(Expire /\ NoFault /\ UNCHANGED panel)
    /\ WF_panelVars(Refresh)
    /\ WF_panelVars(Initialize)
    /\ SF_panelVars(\E t \in Step \union {"change"} : \E w \in Worker : Click(w, t))

PanelFairSpec == PanelInit /\ [][PanelAlone]_panelVars /\ PanelFairness

-----------------------------------------------------------------------------
(* Properties.                                                             *)

(* v is not later than x in the course of the run.                         *)
NotAfter(v, x) == v.phase < x.phase \/ (v.phase = x.phase /\ v.stage <= x.stage)

(* The panel never shows a success the manifest does not hold              *)
(* (guided_ui.html:641 "Nenhum sucesso foi presumido"), though the answer  *)
(* it shows is the worker's copy and the worker's last save may have       *)
(* failed or been undone.                                                  *)
NoSuccessPresumed ==
    view # None =>
       /\ NotAfter(view, manifest)
       /\ view.phase = manifest.phase =>
             \A s \in Step : view.steps[s] = "completed" => Completed(manifest, s)

(* What the operator has seen is not taken back: no answer older than the  *)
(* last refresh is ever shown.                                             *)
ViewNeverGoesBack ==
    [][view # None /\ view' # None => NotAfter(view, view')]_view

(* "Conclua as etapas anteriores primeiro" (guided_pipeline.py:137) is an  *)
(* answer the panel can get only if somebody else has begun another phase. *)
RefusedOnlyIfOutdated ==
    (waiting # None /\ pc[waiting] = "load" /\ task[waiting] \in Step) =>
        Ready(manifest, task[waiting]) \/ manifest.phase > view.phase

(* A click's POST names a step and no phase (guided_ui.html:1096): the     *)
(* step that runs is still of the phase the operator sees, although an     *)
(* earlier change, given up or refreshed over, may complete at any time.   *)
(* With another client at work it need not be.                             *)
RunsInPhaseSeen ==
    waiting # None /\ task[waiting] \in Step /\ run[waiting] # None =>
        run[waiting].phase = view.phase

(* A step says "running" and nobody runs it.                               *)
Orphaned ==
    \E s \in Step : manifest.steps[s] = "running" /\ \A w \in Worker : task[w] # s

Verified == manifest.phase = MaxPhase /\ Completed(manifest, "verify")

(* One operator gets the run verified in every phase, whatever answers are *)
(* lost or late, unless an orphaned step stays in the manifest: nothing    *)
(* else can block the panel.                                               *)
OnlyOrphansBlock == <>Verified \/ <>[]Orphaned

(* A step orphaned by the death of a host or by a lost lease does not stay *)
(* orphaned (guided_cloud.py:172 "Finite leases recover after host death", *)
(* guided_pipeline.py:156 "Etapa não concluída; tente novamente").         *)
OrphanRecovers == Orphaned ~> ~Orphaned

-----------------------------------------------------------------------------
(* The inductive invariant behind the panel's safety properties, besides   *)
(* that of the run.                                                        *)

StageCounts(r) == \A i \in DOMAIN Steps : Completed(r, Steps[i]) <=> i <= r.stage

(* What is shown, and what a request that ends answers, was so of the      *)
(* manifest at some time.                                                  *)
ViewFits ==
    view # None =>
       /\ view.phase \in Nat /\ view.stage \in Nat
       /\ StageCounts(view)
       /\ NotAfter(view, manifest)

AnswerFits(w) ==
    pc[w] = "release" /\ run[w] # None =>
       /\ run[w] \in Run
       /\ StageCounts(run[w])
       /\ NotAfter(run[w], manifest)

(* The request that is awaited is at work; it was due by the view it was   *)
(* clicked in, and its answer is not older than that view.                 *)
WaitingFits ==
    waiting # None =>
       /\ waiting \in Worker /\ view # None
       /\ pc[waiting] # "idle"
       /\ pc[waiting] = "load" /\ task[waiting] \in Step => view.stage + 1 = Index(task[waiting])
       /\ pc[waiting] = "release" /\ run[waiting] # None => NotAfter(view, run[waiting])

PanelInvariant ==
    /\ RunInvariant
    /\ ViewFits
    /\ \A w \in Worker : AnswerFits(w)
    /\ WaitingFits
=============================================================================
