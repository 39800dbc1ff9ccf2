------------------------------ MODULE MCRunView ------------------------------
(* RunView for model checking, with the pure mapping layer evaluated over    *)
(* bounded inputs.                                                           *)
EXTENDS RunView, ClusterComparison

-----------------------------------------------------------------------------
(* Runs and clusters as the API may answer them. *)

MCRuns ==
    [status : {"pending", "predicting", "awaiting_approval", "running", "completed", "failed"},
     workflow : {"not_started", "running", "succeeded"} \cup WorkflowBroken,
     policy : {None, "block"}, arn : {None, "sfn"}]

\* Exactly one stage is under way or failed, unless the run is completed.
ASSUME OneStage ==
    \A run \in MCRuns :
        Cardinality({i \in DOMAIN ProcessOrder : ProcessStages(run)[i] \in {"current", "failed"}})
            = (IF run.status = "completed" THEN 0 ELSE 1)

\* A terminal answer is never of a live run, once its workflow was synced.
ASSUME SyncedIsNotLive ==
    \A run \in MCRuns :
        (run.status \in {"completed", "failed"} /\ run.workflow # "running") => ~Measuring(run)

\* The stages of a cluster, with the timings recorded by then.
Lives == <<[status |-> "provisioning", timings |-> {}],
           [status |-> "ready", timings |-> {"provision"}],
           [status |-> "seeding", timings |-> {"provision"}],
           [status |-> "seeding", timings |-> {"provision", "seed"}],
           [status |-> "migrating", timings |-> {"provision", "seed"}],
           [status |-> "migrating", timings |-> {"provision", "seed", "migrate"}],
           [status |-> "holding", timings |-> {"provision", "seed", "migrate"}],
           [status |-> "destroying", timings |-> {"provision", "seed", "migrate"}],
           [status |-> "destroyed", timings |-> {"provision", "seed", "migrate", "teardown"}]>>

\* The rail never goes back while the cluster gets on; where it fails, the
\* failed stage is the one under way or the next - except that a teardown
\* which failed is shown as a failed measurement.
ASSUME RailForward ==
    \A i \in DOMAIN Lives :
        /\ i > 1 => RailCursor(Lives[i - 1]) <= RailCursor(Lives[i])
        /\ LET at == RailCursor([Lives[i] EXCEPT !.status = "failed"])
           IN IF Lives[i].status \in {"holding", "destroying"} THEN at = 4
              ELSE at \in {RailCursor(Lives[i]), RailCursor(Lives[i]) + 1}

-----------------------------------------------------------------------------
(* Snapshots of at most two tables of one or two columns. *)

Column(name) == [name |-> name, raw |-> {"int"}, width |-> 0, nullable |-> TRUE]

MCTable ==
    [schema : {"public", "pg_catalog"}, name : {"t", "u"},
     columns : {{Column("a")}, {Column("a"), Column("b")}}, pk : {{}}, indexes : {{}},
     fks : {{}}, constraints : {{}}, rows : {None, 3}]

\* A snapshot lists a table once.
MCSnapshots == {s \in {{t, u} : t, u \in MCTable} \cup {{}} :
                    \A t, u \in s : t # u => Key(t) # Key(u)}

Cluster(before, after) ==
    [status |-> "holding", before |-> before, after |-> after,
     diff |-> BuildSchemaDiff(before, after), counts_before |-> <<>>, counts_after |-> <<>>]

Customer == [snapshot |-> {}]

Compared(before, after) == ClusterComparison(Customer, Cluster(before, after), None)

\* Every change the two cards show is counted, and no other; a comparison of
\* a snapshot with itself shows none.
ASSUME ChangesOfCards ==
    \A before, after \in MCSnapshots :
        LET c == Compared(before, after)
            gone == {Key(t) : t \in UserTables(before)}
            here == {Key(t) : t \in UserTables(after)}
        IN IF gone \cup here = {} THEN c.status = "unavailable"
           ELSE /\ c.changes.added = here \ gone
                /\ c.changes.removed = gone \ here
                /\ (before = after => c.changes.changed = {} /\ c.columns = <<>>)
                /\ Cardinality(gone \cup here) =
                       c.changes.unchanged + Cardinality(c.changes.added)
                       + Cardinality(c.changes.removed) + Cardinality(c.changes.changed)

\* Narrowing to the table the statement names narrows the cards and leaves
\* the counts of changes as they are.
ASSUME NarrowedCards ==
    \A before, after \in MCSnapshots :
        LET all == Compared(before, after)
            one == ClusterComparison(Customer, Cluster(before, after), "t")
        IN all.status = "ready" =>
            /\ one.changes = all.changes
            /\ (one.source # None /\ "t" \in {t.name : t \in UserTables(before)})
                  => one.source.tableCount = 1

\* A missing estimate is no row, not a sum: the total is None only where no
\* table has an estimate.
ASSUME TotalsOfCards ==
    \A before \in MCSnapshots :
        LET c == Compared(before, before)
        IN c.status = "ready" =>
            (c.source.rowCount = None) = (\A t \in UserTables(before) : t.rows = None)

\* The check "schema change applied" passes for a migration that changed
\* nothing: unchanged tables are in the diff's list like the others.
ASSUME NoChangePasses ==
    \A before \in MCSnapshots \ {{}} :
        UserTables(before) # {} =>
            Check("schema_diff", "pass") \in
                ShadowChecks([execution |-> None, grade |-> None,
                              shadow |-> [diff |-> BuildSchemaDiff(before, before), error |-> FALSE]])
=============================================================================
