---------------------------- MODULE RunLifecycle ----------------------------
(***************************************************************************)
(* What a captured DesignState run promises to whoever reads it: it is     *)
(* captured once, it is tried until it is judged or given up, and only a   *)
(* captured run can be superseded, together with every other captured run  *)
(* of its project but one. A run that left "captured" never comes back.    *)
(* DsavWatcher implements this for a service whose lifespan is entered     *)
(* once per process.                                                       *)
(***************************************************************************)
EXTENDS Naturals

CONSTANTS Run, Project, ProjectOf

VARIABLES phase, tries
lifecycleVars == <<phase, tries>>

Waiting(p) == {r \in Run : ProjectOf[r] = p /\ phase[r] = "captured"}

Init ==
    /\ phase = [r \in Run |-> "absent"]
    /\ tries = [r \in Run |-> 0]

Capture(r) ==
    /\ phase[r] = "absent"
    /\ phase' = [phase EXCEPT ![r] = "captured"]
    /\ UNCHANGED tries

(* One captured run survives; the others of its project are given up.         *)
Coalesce(k) ==
    /\ phase[k] = "captured"
    /\ phase' = [r \in Run |-> IF r \in Waiting(ProjectOf[k]) \ {k}
                               THEN "superseded" ELSE phase[r]]
    /\ UNCHANGED tries

Judge(r) ==
    /\ phase[r] = "captured"
    /\ phase' = [phase EXCEPT ![r] = "completed"]
    /\ UNCHANGED tries

(* A try without a verdict is counted exactly once.                           *)
Try(r) ==
    /\ phase[r] = "captured"
    /\ tries' = [tries EXCEPT ![r] = @ + 1]
    /\ \E outcome \in {"captured", "failed"} : phase' = [phase EXCEPT ![r] = outcome]

Next == \E r \in Run : Capture(r) \/ Coalesce(r) \/ Judge(r) \/ Try(r)

Spec == Init /\ [][Next]_lifecycleVars
==============================================================================
