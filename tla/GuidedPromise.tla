--------------------------- MODULE GuidedPromise ----------------------------
(***************************************************************************)
(* What a run of the guided demo promises to whoever looks at it, however  *)
(* many requests work on it and whatever becomes of them: its steps are    *)
(* completed one after the other and never taken back, accounts change     *)
(* only while "apply" is due, and "apply" and "verify" are completed only  *)
(* when every account is at the version its phase calls for.               *)
(***************************************************************************)
EXTENDS Naturals

CONSTANTS
    Account,
    Primary        \* the account that later phases change

VARIABLES
    phase,
    stage,         \* steps of the phase that are completed, 0..6
    docs           \* account -> version of its document, 0 if none

vars == <<phase, stage, docs>>

Target(a) == IF a = Primary THEN phase ELSE 1

Reached == \A a \in Account : docs[a] = Target(a)

Init ==
    /\ phase = 1
    /\ stage = 0
    /\ docs = [a \in Account |-> 0]

Finish ==
    /\ stage < 6
    /\ stage >= 4 => Reached
    /\ stage' = stage + 1
    /\ UNCHANGED <<phase, docs>>

Apply(a) ==
    /\ stage = 4
    /\ docs[a] + 1 = Target(a)
    /\ docs' = [docs EXCEPT ![a] = @ + 1]
    /\ UNCHANGED <<phase, stage>>

NewPhase ==
    /\ stage = 6
    /\ phase' = phase + 1
    /\ stage' = 0
    /\ UNCHANGED docs

Next == Finish \/ NewPhase \/ \E a \in Account : Apply(a)

Spec == Init /\ [][Next]_vars
=============================================================================
