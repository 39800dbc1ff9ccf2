-------------------------- MODULE MCShadowCluster --------------------------
(* Small instances of ShadowCluster for TLC.                               *)
EXTENDS ShadowCluster, TLC

CONSTANTS r1, r2, r3, alice

\* r1 and r2 belong to alice, any other run to nobody (an anonymous run).
MCOwnerOf == [r \in Run |-> IF r \in {r1, r2} THEN alice ELSE NoOwner]

\* Sound where the runs permuted have the same owner.
MCSymmetry      == Permutations(Run) \cup Permutations(ClusterId) \cup Permutations(Invocation)
MCOwnerSymmetry == Permutations({r1, r2}) \cup Permutations(ClusterId) \cup Permutations(Invocation)

\* Bound: one teardown request at a time.  Requests for different rows touch
\* nothing in common; each still races the sweeper and every Lambda.
OneTeardown == Cardinality({r \in Run : tear[r].pc # "idle"}) <= 1

\* Bound: two runs and one cluster, or one run and two.
SmallWorld ==
    /\ OneTeardown
    /\ Cardinality({r \in Run : status[r] # "absent"})
         + Cardinality({c \in ClusterId : cluster[c].state # "unused"}) <= 3
=============================================================================
