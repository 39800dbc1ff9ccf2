------------------------------ MODULE SlotPool ------------------------------
(***************************************************************************)
(* What admission control promises, without the rows, clusters, Lambdas or *)
(* sweeper that make it up: a pool of Slots slots, each run holding one    *)
(* for a while, once.  A run whose slot was taken from it is spent, and    *)
(* does not come back.                                                     *)
(***************************************************************************)
EXTENDS FiniteSets, Integers

CONSTANTS Run, Slots

VARIABLES holding, spent

Init == holding = {} /\ spent = {}

Acquire(r) ==
    /\ r \notin holding \cup spent
    /\ Cardinality(holding) < Slots
    /\ holding' = holding \cup {r}
    /\ UNCHANGED spent

Release(r) ==
    /\ r \in holding
    /\ holding' = holding \ {r}
    /\ spent' = spent \cup {r}

Next == \E r \in Run : Acquire(r) \/ Release(r)

Spec == Init /\ [][Next]_<<holding, spent>>
=============================================================================
