--------------------------- MODULE MCRunLifecycle ---------------------------
(* Values for model-checking RunLifecycle.                                 *)
EXTENDS RunLifecycle, TLC

CONSTANTS q1, q2, q3

MCSymmetry == Permutations(Request)
=============================================================================
