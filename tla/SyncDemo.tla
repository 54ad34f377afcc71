------------------------------ MODULE SyncDemo ------------------------------
(***************************************************************************)
(* The local emulator and who drives it: anybody, who captures, delivers   *)
(* and resolves in any order, or sync_demo.run_demo, which follows a       *)
(* script, knows the outcome it expects of every delivery and puts checks  *)
(* in its report.  A line of the script captures a change, delivers an     *)
(* event (with fail_after_apply or fail_next set for some), resolves a     *)
(* quarantined event, or checks the reconciliation.                        *)
(***************************************************************************)
EXTENDS LocalStore

CONSTANT Script

ASSUME ScriptAssumption ==
    \A i \in DOMAIN Script :
        Script[i].do \in {"capture", "deliver", "resolve"} => Script[i].event \in Message

VARIABLES
    line,          \* the line that is next or under way; 0: there is no script
    delivering,    \* it is a delivery, and process() has been called
    checks         \* every check so far has passed

demo == <<line, delivering, checks>>
demoVars == <<vars, demo>>

Line == Script[line]

Doing(what) == line \in DOMAIN Script /\ Line.do = what

NextLine(passed) ==
    /\ line' = line + 1
    /\ delivering' = FALSE
    /\ checks' = (checks /\ passed)

DemoInit == Init /\ line \in {0, 1} /\ delivering = FALSE /\ checks = TRUE

CaptureLine ==
    /\ Doing("capture")
    /\ Capture(Line.event)
    /\ NextLine(TRUE)

(* deliver: a new offset, or the last one again.                           *)
DeliverLine ==
    /\ Doing("deliver")
    /\ ~delivering
    /\ IF Line.again THEN Redeliver /\ Event = Line.event ELSE Deliver(Line.event)
    /\ delivering' = TRUE
    /\ UNCHANGED <<line, checks>>

(* What fails is what the line injects, and nothing else.                  *)
ProcessLine ==
    /\ delivering
    /\ \/ ~(Line.fault = "transient" /\ pc = "apply")
          /\ ~(Line.fault = "crash" /\ pc = "save")
          /\ Process
       \/ Line.fault = "transient" /\ Transient
       \/ Line.fault = "crash" /\ SimulatedCrash
    /\ UNCHANGED demo

ReturnLine ==
    /\ delivering
    /\ pc = "ready"
    /\ NextLine(/\ outcome = Line.expected
                /\ Line.fault # "none" => checkpoint < Offset)
    /\ UNCHANGED vars

ResolveLine ==
    /\ Doing("resolve")
    /\ ResolveQuarantine(Line.event)
    /\ NextLine(TRUE)

CheckLine ==
    /\ Doing("check")
    /\ NextLine(/\ Mismatches = Line.mismatches
                /\ Cardinality(Pending) = Line.pending)
    /\ UNCHANGED vars

ScriptNext ==
    CaptureLine \/ DeliverLine \/ ProcessLine \/ ReturnLine \/ ResolveLine \/ CheckLine

Anybody(Action) == line = 0 /\ Action /\ UNCHANGED demo

DemoNext == Anybody(Next) \/ ScriptNext

(* Fairness: the process runs, the demo goes on with its script, and       *)
(* whoever drives the engine redelivers what failed.                       *)
DemoSpec ==
    /\ DemoInit /\ [][DemoNext]_demoVars
    /\ WF_demoVars(Anybody(Process))
    /\ WF_demoVars(Anybody(Redeliver))
    /\ WF_demoVars(ScriptNext)

(* The demo comes to its report, and every check in it has passed          *)
(* (sync_demo.py:105-155, test_sync_demo.py).                              *)
InvariantsPassed == line = 1 ~> line > Len(Script) /\ checks
=============================================================================
