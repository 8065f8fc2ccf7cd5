----------------------------- MODULE AtLeastOnce -----------------------------
(***************************************************************************)
(* What a work queue with manual acknowledgement promises, whatever fails: *)
(* a job is retired only after work has been done that no earlier          *)
(* retirement accounts for.  Work may be repeated, and jobs may be retired *)
(* in any order or never.                                                  *)
(***************************************************************************)
EXTENDS Naturals

CONSTANT Jobs      \* what a job is about

VARIABLES
    submitted,     \* jobs that the queue has accepted
    performed,     \* times that the work has been done
    retired        \* jobs that the queue has forgotten

vars == <<submitted, performed, retired>>

Init ==
    /\ submitted = [j \in Jobs |-> 0]
    /\ performed = [j \in Jobs |-> 0]
    /\ retired = [j \in Jobs |-> 0]

Open(j) == retired[j] < submitted[j]

Submit(j) ==
    /\ submitted' = [submitted EXCEPT ![j] = @ + 1]
    /\ UNCHANGED <<performed, retired>>

Perform(j) ==
    /\ Open(j)
    /\ performed' = [performed EXCEPT ![j] = @ + 1]
    /\ UNCHANGED <<submitted, retired>>

Retire(j) ==
    /\ Open(j)
    /\ retired[j] < performed[j]
    /\ retired' = [retired EXCEPT ![j] = @ + 1]
    /\ UNCHANGED <<submitted, performed>>

Next == \E j \in Jobs : Submit(j) \/ Perform(j) \/ Retire(j)

Spec == Init /\ [][Next]_vars
=============================================================================
