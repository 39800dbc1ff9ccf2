--------------------------- MODULE VerifyExecution ---------------------------
(***************************************************************************)
(* What the API may rely on of a verification, whatever Lambdas, retries   *)
(* and catches make it up: it ends once, and only with its result on       *)
(* record does it succeed.  A result may still arrive after the end.       *)
(***************************************************************************)
VARIABLES execution, recorded

Init == execution = "running" /\ recorded = FALSE

Record ==
    /\ ~recorded
    /\ recorded' = TRUE
    /\ UNCHANGED execution

End(w) ==
    /\ execution = "running"
    /\ w = "succeeded" => recorded
    /\ execution' = w
    /\ UNCHANGED recorded

Next == Record \/ \E w \in {"succeeded", "failed", "timed_out", "aborted"} : End(w)

Spec == Init /\ [][Next]_<<execution, recorded>>
=============================================================================
