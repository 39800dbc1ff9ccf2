-------------------------- MODULE ShadowExecution --------------------------
(***************************************************************************)
(* What happens on one shadow cluster between its READY and its outcome:   *)
(* the schema is loaded, the tables are seeded by concurrent workers that  *)
(* share one list, and the migration runs in one transaction while a       *)
(* second connection polls its job and a changefeed watches its tables.    *)
(* Connections may be lost at any await, and both Lambdas may be delivered *)
(* again, after their work is done or while an abandoned attempt runs on.  *)
(*                                                                         *)
(* The database's part of a schema change (external): a statement changes  *)
(* rows, or the schema directly, or it queues a schema-change job, which   *)
(* runs once the transaction is in.  The COMMIT waits for that job, and    *)
(* fails if the job does or the wait times out; the rest stays committed.  *)
(*                                                                         *)
(* Rows are counted in units: the server-side statement inserts a table's  *)
(* Target at once, the client-side path one unit per batch.                *)
(***************************************************************************)
EXTENDS ShadowSchema, FiniteSetsExt

CONSTANTS
    TableCount,      \* the tables to seed, numbered in the order they are taken
    Worker,          \* the seeding workers
    Target,          \* row batches a table gets
    Statements,      \* statements of the migration
    MaxDeliveries,   \* bound: deliveries of the LoadSchema invocation
    MaxAttempts,     \* bound: deliveries of the ExecuteMigration invocation
    MaxFaults,       \* bound: connections lost
    MaxPolls         \* bound on the observations of the job

ASSUME ExecutionConstants ==
    /\ Worker # {}
    /\ {TableCount, Target, Statements, MaxDeliveries, MaxAttempts, MaxPolls}
          \subseteq Nat \ {0}
    /\ MaxFaults \in Nat

Table == 1..TableCount

VARIABLES
    stage,        \* where the stage Lambdas are
    deliveries,   \* LoadSchema invocations so far
    rows,         \* committed row batches per table
    pending,      \* index of the next table in the shared iterator
    worker,       \* what each worker does
    results,      \* what the workers appended: table, rows, what went wrong
    report,       \* rows the SeedReport claims per table, once made
    faults,       \* connections lost
    conn,         \* the migration's connection
    next,         \* the statement it is at
    attempts,     \* ExecuteMigration invocations so far
    did,          \* what the transaction's statements change of the schema
    applied,      \* whether this invocation's transaction is committed
    schema,       \* what of the migration is in the cluster's schema
    job,          \* the schema-change job of the transaction
    stray,        \* an earlier invocation, or its job, may yet reach the schema
    strayed,      \* history: one did since the baseline
    poller,       \* the poll task
    seen,         \* observations appended by the poll task
    feed,         \* this invocation's changefeed, and whether its id is known
    before,       \* the structural snapshot taken first, or Missing
    outcome       \* the ExecutionOutcome, or "raised"

seeding == <<pending, worker, results, report>>
running == <<attempts, conn, next, did, job, poller, seen>>
cluster == <<applied, schema, stray, strayed>>
vars == <<stage, deliveries, rows, seeding, faults, running, cluster, feed,
          before, outcome>>

Idle == [at |-> "idle", table |-> 0, done |-> 0, live |-> TRUE]
OutcomeKind == {"none", "success", "failure", "raised"}
NoOutcome == [kind |-> "none"]

\* How a statement may change the schema: with its transaction, or by a job.
Change == {"direct", "job"}

\* A snapshot that could not be taken.
Missing == {"missing"}
Snapshot == {Missing} \cup (SUBSET Change)

-----------------------------------------------------------------------------
(* How many rows a table gets, and how they are sent.                      *)

\* No estimate: a tenth of the tier's cap; -1 stands for None.
RowTarget(estimate, cap) ==
    IF estimate = -1 THEN Max({1, cap \div 10}) ELSE Min({estimate, cap})

\* Rows of one INSERT, under the limit on bind parameters.
RowsPerBatch(columns) ==
    IF columns <= 0 THEN 1000 ELSE Max({1, Min({1000, 60000 \div columns})})

TierRowCap == [small |-> 1000, medium |-> 10000, large |-> 50000]

SelectScaleTier(rowCount) ==
    CASE rowCount = -1 \/ rowCount <= 1000 -> "small"
      [] rowCount > 1000 /\ rowCount <= 100000 -> "medium"
      [] OTHER -> "large"

\* A value of the generated column is distinct for every row: the row's own
\* number in a key, or a fresh uuid.  A string key keeps only its first
\* characters, so a short one repeats.
ServerValueDistinct(column, isPk, target) ==
    CASE TypeFamily(column) = "uuid" -> TRUE
      [] TypeFamily(column) = "int" -> isPk
      [] TypeFamily(column) = "string" ->
            isPk /\ (column.width = 0 \/ target < 10 ^ (Max({column.width, 2}) - 2))
      [] OTHER -> FALSE

TypeOK ==
    /\ stage \in {"load", "seed", "loaded", "baseline", "migrate", "measure", "done",
                  "failed"}
    /\ deliveries \in 1..MaxDeliveries
    /\ rows \in [Table -> 0..(MaxDeliveries * Target)]
    /\ pending \in 1..(TableCount + 1)
    /\ worker \in [Worker -> [at : {"idle", "server", "client", "ended"},
                              table : 0..TableCount, done : 0..Target, live : BOOLEAN]]
    /\ results \subseteq [table : Table, rows : 0..Target,
                    failed : {"no", "refused", "lost"}]
    /\ report \in [Table -> 0..Target] \cup {<<>>}
    /\ faults \in 0..MaxFaults
    /\ attempts \in 1..MaxAttempts
    /\ conn \in {"none", "open", "committing", "lost", "failed", "succeeded"}
    /\ next \in 1..(Statements + 1)
    /\ did \subseteq Change /\ schema \subseteq Change
    /\ applied \in BOOLEAN /\ stray \in BOOLEAN /\ strayed \in BOOLEAN
    /\ job \in {"none", "running", "succeeded", "failed"}
    /\ poller \in {"none", "polling", "ended"}
    /\ seen \in Seq({"running", "succeeded", "failed"})
    /\ feed \in [running : BOOLEAN, known : BOOLEAN]
    /\ before \in Snapshot
    /\ outcome.kind \in OutcomeKind

Init ==
    /\ stage = "load" /\ deliveries = 1
    /\ rows = [t \in Table |-> 0]
    /\ pending = 1 /\ worker = [w \in Worker |-> Idle]
    /\ results = {} /\ report = <<>>
    /\ faults = 0
    /\ attempts = 1 /\ conn = "none" /\ next = 1 /\ did = {}
    /\ applied = FALSE /\ schema = {} /\ stray = FALSE /\ strayed = FALSE
    /\ job = "none" /\ poller = "none" /\ seen = <<>>
    /\ feed = [running |-> FALSE, known |-> FALSE]
    /\ before = Missing /\ outcome = NoOutcome

-----------------------------------------------------------------------------
(* LoadSchema: the DDL, then the workers.                                  *)

\* A refused CREATE TABLE fails the stage; any other refused statement is a
\* warning of the report.
LoadSchema ==
    /\ stage = "load"
    /\ stage' \in {"seed", "failed"}
    /\ UNCHANGED <<deliveries, rows, seeding, faults, running, cluster, feed, before,
                   outcome>>

\* A worker that gets no connection raises out of the gather; the handler
\* raises, and the end of its event loop cancels the other workers.
ConnectFails(w) ==
    /\ stage = "seed" /\ worker[w] = Idle
    /\ faults < MaxFaults
    /\ faults' = faults + 1
    /\ stage' = "failed"
    /\ UNCHANGED <<deliveries, rows, seeding, running, cluster, feed, before, outcome>>

Works(w, at, table, done, live) ==
    worker' = [worker EXCEPT ![w] = [at |-> at, table |-> table, done |-> done, live |-> live]]

\* The worker w is done with its table.
Finished(w, inserted, failed) ==
    /\ results' = results \cup
          {[table |-> worker[w].table, rows |-> inserted, failed |-> failed]}
    /\ Works(w, "idle", worker[w].table, 0, worker[w].live /\ failed # "lost")
    /\ UNCHANGED <<pending, report>>

\* The iterator is shared: a table is handed out once.
TakeTable(w) ==
    /\ stage = "seed" /\ worker[w].at = "idle"
    /\ pending <= TableCount
    /\ pending' = pending + 1
    /\ Works(w, "server", pending, 0, worker[w].live)
    /\ UNCHANGED <<stage, deliveries, rows, results, report, faults, running, cluster,
                   feed, before, outcome>>

\* INSERT .. SELECT FROM generate_series: all or nothing.  A refusal falls
\* back to the client-side path.
ServerInsert(w) ==
    /\ stage = "seed" /\ worker[w].at = "server" /\ worker[w].live
    /\ \/ /\ rows' = [rows EXCEPT ![worker[w].table] = @ + Target]
          /\ Finished(w, Target, "no")
       \/ /\ Works(w, "client", worker[w].table, 0, worker[w].live)
          /\ UNCHANGED <<rows, pending, results, report>>
    /\ UNCHANGED <<stage, deliveries, faults, running, cluster, feed, before, outcome>>

\* Mutated form: the last batch is taken for one more.
ClientBatchOneMore(w) ==
    /\ stage = "seed" /\ worker[w].at = "client" /\ worker[w].live
    /\ rows' = [rows EXCEPT ![worker[w].table] = @ + 1]
    /\ IF worker[w].done = Target
       THEN Finished(w, Target, "no")
       ELSE /\ Works(w, "client", worker[w].table, worker[w].done + 1, TRUE)
            /\ UNCHANGED <<pending, results, report>>
    /\ UNCHANGED <<stage, deliveries, faults, running, cluster, feed, before, outcome>>

\* One batch, a transaction of its own.  A refused batch fails the table,
\* though the batches before it stay.
ClientBatch(w) ==
    /\ stage = "seed" /\ worker[w].at = "client" /\ worker[w].live
    /\ \/ /\ rows' = [rows EXCEPT ![worker[w].table] = @ + 1]
          /\ IF worker[w].done + 1 = Target
             THEN Finished(w, Target, "no")
             ELSE /\ Works(w, "client", worker[w].table, worker[w].done + 1, TRUE)
                  /\ UNCHANGED <<pending, results, report>>
       \/ /\ Finished(w, 0, "refused")
          /\ UNCHANGED rows
    /\ UNCHANGED <<stage, deliveries, faults, running, cluster, feed, before, outcome>>

\* Mutated form: the worker opens a new connection for the fall-back.
SeedReconnects(w) ==
    /\ stage = "seed" /\ worker[w].at \in {"server", "client"} /\ worker[w].live
    /\ faults < MaxFaults
    /\ faults' = faults + 1
    /\ \E n \in {0, IF worker[w].at = "server" THEN Target ELSE 1} :
          rows' = [rows EXCEPT ![worker[w].table] = @ + n]
    /\ Works(w, "client", worker[w].table, worker[w].done, TRUE)
    /\ UNCHANGED <<stage, deliveries, pending, results, report, running, cluster, feed,
                   before, outcome>>

\* The connection is lost under a statement, which may have been committed.
\* The worker keeps its connection, and every statement on it now fails.
SeedConnectionLost(w) ==
    /\ stage = "seed" /\ worker[w].at \in {"server", "client"} /\ worker[w].live
    /\ faults < MaxFaults
    /\ faults' = faults + 1
    /\ \E n \in {0, IF worker[w].at = "server" THEN Target ELSE 1} :
          rows' = [rows EXCEPT ![worker[w].table] = @ + n]
    /\ Works(w, "client", worker[w].table, worker[w].done, FALSE)
    /\ UNCHANGED <<stage, deliveries, pending, results, report, running, cluster, feed,
                   before, outcome>>

DeadConnection(w) ==
    /\ stage = "seed" /\ worker[w].at \in {"server", "client"} /\ ~worker[w].live
    /\ Finished(w, 0, "lost")
    /\ UNCHANGED <<stage, deliveries, rows, faults, running, cluster, feed, before,
                   outcome>>

EndWorker(w) ==
    /\ stage = "seed" /\ worker[w].at = "idle"
    /\ pending > TableCount
    /\ Works(w, "ended", worker[w].table, 0, worker[w].live)
    /\ UNCHANGED <<stage, deliveries, rows, pending, results, report, faults, running,
                   cluster, feed, before, outcome>>

\* The gather returns when every worker has ended.
ReportSeed ==
    /\ stage = "seed"
    /\ \A w \in Worker : worker[w].at = "ended"
    /\ report' = [t \in Table |->
          LET r == CHOOSE x \in results : x.table = t IN r.rows]
    /\ stage' = "loaded"
    /\ UNCHANGED <<deliveries, rows, pending, worker, results, faults, running, cluster,
                   feed, before, outcome>>

\* The answer, or the whole invocation, is lost and LoadSchema is delivered
\* again: SEEDING lets it through, and it seeds what is already seeded.
Redeliver ==
    /\ stage \in {"seed", "loaded"}
    /\ deliveries < MaxDeliveries
    /\ deliveries' = deliveries + 1
    /\ stage' = "load"
    /\ pending' = 1 /\ worker' = [w \in Worker |-> Idle]
    /\ results' = {} /\ report' = <<>>
    /\ UNCHANGED <<rows, faults, running, cluster, feed, before, outcome>>

-----------------------------------------------------------------------------
(* ExecuteMigration: run_migration.                                        *)

Raise ==
    /\ outcome' = [kind |-> "raised"]
    /\ stage' = "failed"

\* Storage and structure before.  The first connection may be refused; a
\* snapshot is tried three times and may still be missing.
TakeBaseline ==
    /\ stage = "loaded"
    /\ \/ /\ stage' = "baseline"
          /\ before' \in {Missing, schema}
          /\ strayed' = FALSE
          /\ UNCHANGED <<faults, outcome>>
       \/ /\ faults < MaxFaults
          /\ faults' = faults + 1
          /\ Raise
          /\ UNCHANGED <<before, strayed>>
    /\ UNCHANGED <<deliveries, rows, seeding, running, applied, schema, stray, feed>>

\* A feed whose id is known is one that runs.
FeedStarts == {f \in [running : BOOLEAN, known : BOOLEAN] : f.known => f.running}

\* Off, refused, created, or created with its answer lost: then no one
\* knows its job id.
StartFeed ==
    /\ stage = "baseline"
    /\ stage' = "migrate"
    /\ feed' \in FeedStarts
    /\ UNCHANGED <<deliveries, rows, seeding, faults, running, cluster, before, outcome>>

\* The connection is opened outside the try.
Connect ==
    /\ stage = "migrate" /\ conn = "none"
    /\ \/ /\ conn' = "open"
          /\ UNCHANGED <<stage, faults, outcome>>
       \/ /\ faults < MaxFaults
          /\ faults' = faults + 1
          /\ Raise
          /\ UNCHANGED conn
    /\ UNCHANGED <<deliveries, rows, seeding, attempts, next, did, job, poller, seen,
                   cluster, feed, before>>

\* A statement of the transaction.  A refused one rolls it back.
Execute ==
    /\ stage = "migrate" /\ conn = "open"
    /\ next <= Statements
    /\ \/ /\ next' = next + 1
          /\ \E c \in SUBSET Change : Cardinality(c) <= 1 /\ did' = did \cup c
          /\ UNCHANGED conn
       \/ /\ conn' = "failed"
          /\ UNCHANGED <<next, did>>
    /\ UNCHANGED <<stage, deliveries, rows, seeding, faults, attempts, job, poller, seen,
                   cluster, feed, before, outcome>>

\* The transaction is in; what it queued begins.
TransactionIn ==
    /\ applied' = TRUE
    /\ schema' = schema \cup (did \cap {"direct"})
    /\ job' = IF "job" \in did THEN "running" ELSE "none"

\* A COMMIT may be refused; otherwise its answer waits for the job, if any.
Commit ==
    /\ stage = "migrate" /\ conn = "open"
    /\ next > Statements
    /\ \/ /\ conn' = "failed"
          /\ UNCHANGED <<applied, schema, job>>
       \/ /\ TransactionIn
          /\ conn' = IF "job" \in did THEN "committing" ELSE "succeeded"
    /\ UNCHANGED <<stage, deliveries, rows, seeding, faults, attempts, next, did, poller,
                   seen, stray, strayed, feed, before, outcome>>

\* The answer: the job's, or that the statement timed out while it runs on.
\* The transaction is in either way.
CommitAnswered ==
    /\ stage = "migrate" /\ conn = "committing"
    /\ conn' = IF job = "succeeded" THEN "succeeded" ELSE "failed"
    /\ UNCHANGED <<stage, deliveries, rows, seeding, faults, attempts, next, did, job,
                   poller, seen, cluster, feed, before, outcome>>

\* The connection is lost: under the commit, the transaction may be in.
ConnectionLost ==
    /\ stage = "migrate" /\ conn \in {"open", "committing"}
    /\ faults < MaxFaults
    /\ faults' = faults + 1
    /\ conn' = "lost"
    /\ \/ UNCHANGED <<applied, schema, job>>
       \/ conn = "open" /\ next > Statements /\ TransactionIn
    /\ UNCHANGED <<stage, deliveries, rows, seeding, attempts, next, did, poller, seen,
                   stray, strayed, feed, before, outcome>>

\* The job itself, on the cluster.  One that fails is reverted.
JobEnds ==
    /\ job = "running"
    /\ \/ job' = "succeeded" /\ schema' = schema \cup {"job"}
       \/ job' = "failed" /\ UNCHANGED schema
    /\ UNCHANGED <<stage, deliveries, rows, seeding, faults, attempts, conn, next, did,
                   poller, seen, applied, stray, strayed, feed, before, outcome>>

\* What an earlier invocation left open, or its job, reaches the schema.
StrayLands ==
    /\ stray
    /\ \E c \in SUBSET Change : schema' = schema \cup c
    /\ schema' # schema
    /\ strayed' = TRUE
    /\ stray' \in BOOLEAN
    /\ UNCHANGED <<stage, deliveries, rows, seeding, faults, running, applied, feed,
                   before, outcome>>

\* ExecuteMigration is delivered again: MIGRATING lets it through, on the
\* schema as the invocation before has left it, or is still to change it.
RedeliverMigration ==
    /\ stage \in {"loaded", "baseline", "migrate", "measure", "done"}
    /\ attempts < MaxAttempts
    /\ attempts' = attempts + 1
    /\ stage' = "loaded"
    /\ conn' = "none" /\ next' = 1 /\ did' = {}
    /\ job' = "none" /\ poller' = "none" /\ seen' = <<>>
    /\ feed' = [running |-> FALSE, known |-> FALSE]
    /\ before' = Missing /\ outcome' = NoOutcome
    /\ applied' = FALSE
    /\ stray' = (stray \/ stage \in {"loaded", "baseline", "migrate"} \/ job = "running")
    /\ UNCHANGED <<deliveries, rows, seeding, faults, schema, strayed>>

\* A notice with a job id may arrive while the commit waits; the first one
\* starts the poll task.
Notice ==
    /\ stage = "migrate" /\ conn = "committing" /\ poller = "none"
    /\ poller' = "polling"
    /\ UNCHANGED <<stage, deliveries, rows, seeding, faults, attempts, conn, next, did,
                   job, seen, cluster, feed, before, outcome>>

\* SHOW JOB by id, until it is terminal, fails or has polled enough.
PollJob ==
    /\ poller = "polling"
    /\ \/ /\ Len(seen) < MaxPolls
          /\ seen' = Append(seen, job)
          /\ poller' = IF job = "running" THEN "polling" ELSE "ended"
       \/ /\ poller' = "ended"
          /\ UNCHANGED seen
    /\ UNCHANGED <<stage, deliveries, rows, seeding, faults, attempts, conn, next, did,
                   job, cluster, feed, before, outcome>>

\* Mutated form: a rollback that fails is swallowed, as in the storage probe.
ReturnProgressGuarded ==
    /\ stage = "migrate" /\ conn \in {"lost", "failed", "succeeded"}
    /\ poller' = IF poller = "none" THEN "none" ELSE "ended"
    /\ stage' = "measure"
    /\ UNCHANGED <<deliveries, rows, seeding, faults, attempts, conn, next, did, job, seen,
                   cluster, feed, before, outcome>>

\* Mutated form: the poll task is left to end on its own.
ReturnProgressDetached ==
    /\ stage = "migrate" /\ conn \in {"lost", "failed", "succeeded"}
    /\ IF conn = "lost" THEN Raise ELSE stage' = "measure" /\ UNCHANGED outcome
    /\ UNCHANGED <<deliveries, rows, seeding, faults, running, cluster, feed, before>>

\* run_with_job_progress ends: the poll task has ended, or is cancelled
\* after its five seconds.  On a lost connection the rollback has raised;
\* otherwise the feed is cancelled, which may fail unnoticed.
ReturnProgress ==
    /\ stage = "migrate" /\ conn \in {"lost", "failed", "succeeded"}
    /\ poller' = IF poller = "none" THEN "none" ELSE "ended"
    /\ IF conn = "lost"
       THEN Raise /\ UNCHANGED feed
       ELSE /\ stage' = "measure"
            /\ IF feed.known
               THEN feed' \in {feed, [feed EXCEPT !.running = FALSE]}
               ELSE UNCHANGED feed
            /\ UNCHANGED outcome
    /\ UNCHANGED <<deliveries, rows, seeding, faults, attempts, conn, next, did, job, seen,
                   cluster, before>>

\* build_schema_diff over whole snapshots: one that is missing makes every
\* table of the other added or removed.
Diff(b, a) ==
    IF b = Missing /\ a = Missing THEN "none"
    ELSE IF b = Missing \/ a = Missing THEN "all"
    ELSE IF a = b THEN "unchanged" ELSE "changed"

\* -1 stands for a measurement that failed.
Growth(baseline, post) ==
    IF baseline = -1 \/ post = -1 THEN 0 ELSE Max({0, post - baseline})

\* Three concurrent best-effort measurements, none of which can raise.
Measure ==
    /\ stage = "measure"
    /\ \E after \in {Missing, schema} :
          outcome' = [kind |-> IF conn = "succeeded" THEN "success" ELSE "failure",
                      rollback |-> conn # "succeeded",
                      after |-> after,
                      diff |-> Diff(before, after)]
    /\ stage' = "done"
    /\ UNCHANGED <<deliveries, rows, seeding, faults, running, cluster, feed, before>>

Next ==
    \/ LoadSchema \/ ReportSeed \/ Redeliver
    \/ \E w \in Worker :
          \/ ConnectFails(w) \/ TakeTable(w) \/ ServerInsert(w) \/ ClientBatch(w)
          \/ SeedConnectionLost(w) \/ DeadConnection(w) \/ EndWorker(w)
    \/ TakeBaseline \/ StartFeed \/ Connect \/ Execute \/ Commit \/ CommitAnswered
    \/ ConnectionLost \/ JobEnds \/ Notice \/ PollJob \/ ReturnProgress \/ Measure
    \/ StrayLands \/ RedeliverMigration

Spec == Init /\ [][Next]_vars

-----------------------------------------------------------------------------
(* Properties.                                                             *)

\* The seed report claims no row that is not there, and one delivery never
\* gives a table more than its target: neither the fall-back to client-side
\* rows nor a second worker inserts again what is already in.
SeedAccounted ==
    /\ \A t \in Table : rows[t] <= deliveries * Target
    /\ report # <<>> => \A t \in Table : report[t] <= rows[t]

\* The outcome that grading is built on tells what happened on the cluster.
\* A success has its transaction in, its schema-change job done, and all it
\* changes of the schema in the snapshot taken after it.  A failure, which
\* asks for a rollback, left nothing behind, unless a job was waited for:
\* then only the job's part is reverted.  A commit whose answer is lost is
\* never told as rolled back.  And a change the two snapshots show is this
\* invocation's own, or an abandoned one's that landed between them.
OutcomeAgrees ==
    outcome.kind \in {"success", "failure"} =>
        /\ outcome.kind = "success" =>
              /\ applied /\ job \in {"none", "succeeded"}
              /\ outcome.after # Missing => did \subseteq outcome.after
        /\ outcome.rollback /\ applied => job # "none"
        /\ before # Missing /\ outcome.after # Missing =>
              (outcome.diff = "changed" => applied \/ strayed)

\* Once run_migration has its progress, the poll task writes no further
\* observation into the list the outcome shares with it.
ObservationsFrozen ==
    [][(stage \in {"measure", "done", "failed"} /\ attempts' = attempts)
          => UNCHANGED seen]_vars
=============================================================================
