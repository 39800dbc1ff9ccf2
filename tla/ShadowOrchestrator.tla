------------------------- MODULE ShadowOrchestrator -------------------------
(***************************************************************************)
(* ShadowClusterOrchestrator.run_lifecycle, the in-process path of the     *)
(* demo and verification scripts: create, wait, load, migrate, destroy, as *)
(* a function of the set of calls that raise.                              *)
(***************************************************************************)
EXTENDS Integers, Sequences, FiniteSets

\* The calls of the try block, in order.  The migration and the storing of
\* its snapshots count as one: the finally stores them either way.
Calls == <<"create", "set_identity", "await_ready", "sql_access", "ready",
           "seeding", "load", "migrating", "migrate", "store_snapshot">>

FirstFailure(fails) ==
    LET bad == {k \in 1..Len(Calls) : Calls[k] \in fails}
    IN IF bad = {} THEN 0 ELSE CHOOSE k \in bad : \A j \in bad : k <= j

\* store_snapshot runs when migrate has failed, too.
Made(fails) ==
    LET f == FirstFailure(fails)
        upTo == IF f = 0 THEN Len(Calls) ELSE f
    IN {Calls[k] : k \in 1..upTo}
       \cup (IF f # 0 /\ Calls[f] = "migrate" THEN {"store_snapshot"} ELSE {})

\* _teardown: the row first, then the cluster, then the row again.  What
\* fails is recorded, and the row marked FAILED if that is possible.
TearDown(fails) ==
    [destroyed |-> {"destroying", "destroy"} \cap fails = {},
     tornDown  |-> {"destroying", "destroy", "destroyed"} \cap fails = {},
     raises    |-> {"destroying", "destroy", "destroyed"} \cap fails # {}
                   /\ "set_error" \in fails]

\* The report, or raises: set_error and record_timings are not guarded.
RunLifecycle(fails) ==
    LET failed == FirstFailure(fails) # 0
        down == TearDown(fails)
    IN [succeeded |-> ~failed,
        tornDown  |-> down.tornDown,
        destroyed |-> down.destroyed,
        raises    |-> \/ down.raises
                      \/ "record_timings" \in fails
                      \/ failed /\ "set_error" \in fails,
        growth    |-> ~failed /\ "measure" \notin fails]
=============================================================================
