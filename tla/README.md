# Migration Oracle: a formal model

Migration Oracle predicts what a schema migration will do, has a person approve
it, runs it on a disposable CockroachDB cluster, grades the prediction and
remembers the result.  This directory holds TLA+ modules of the parts of that
program in which several actors change the same state, the TLC configurations
that check them, and TLAPS proofs of the properties that matter most.  Paths are
relative to the repository; `B/` stands for `backend/app/`.

## 1. The system

### Components, their state and their operations

| Component | State | Operations | Model |
|---|---|---|---|
| Shadow cluster lifecycle (`B/services/shadow_cluster_service.py`, `B/shadow/concurrency.py`, `B/shadow/sweeper.py`, the provision, cleanup and sweep Lambdas) | `shadow_clusters` rows: status, cluster id, `expires_at`; the run's secret | admit, set identity, transition, hold, teardown-now, sweep | `ShadowCluster`, `SlotPool` |
| Shadow providers (`B/shadow/*_provider.py`) | the clusters at the provider | create, await ready, destroy, list | inside `ShadowCluster` |
| Run status and API requests (`B/services/migration_run_service.py`, `approval_service.py`, `workflow_orchestration_service.py`, `local_shadow_verify_service.py`) | the `migration_runs` row and its prediction, approval and result | predict, approve, start, sync, abort, verify locally, PATCH, discard | `RunLifecycle` |
| Prediction pipeline (`B/services/prediction_pipeline_service.py`, `B/prediction/`) | the prediction with its policy verdict and retrieval | Bedrock prediction and recommendation with one repair each, gates, then persist or fail | `PredictionPipeline`; its effect on the run in `RunLifecycle` |
| Closed loop (`B/services/closed_loop_service.py`) | none | predict, approve, start in one request | steps of `RunLifecycle` |
| Verify workflow (`infra/stepfunctions/migration_workflow.asl.json`, `B/aws/workflow/`) | the Step Functions execution | seven Lambda tasks with retry, catch and timeout; cleanup | `MigrationWorkflow`, `VerifyExecution` |
| Lambda step handlers (`B/lambdas/handlers/`) | none | one task each | `MigrationWorkflow`, with the detail in `ShadowCluster`, `ShadowExecution`, `RunEvidence` |
| Shadow execution (`B/shadow/schema_loader.py`, `seeder.py`, `job_progress.py`, `changefeed.py`, `schema_snapshot.py`, `row_sample.py`, `blast_radius*.py`) | the shadow database, its job and changefeed | load the schema, seed rows, run the migration, observe it, compare | `ShadowExecution`; pure: `ShadowSchema`, `ShadowCapture`, `ShadowInvestigation`, `ShadowOrchestrator` |
| Execution results, grading, memory (`B/services/execution_service.py`, `grading_pipeline_service.py`, `B/memory/writer.py`) | result, grade, memory and its embedding | upsert, one commit each | `RunEvidence` |
| Cross-customer memory (`B/services/cross_customer_promotion_service.py`) | one row per migration shape, contributor count | promote | `RunEvidence` |
| Grading engine, policy engine (`B/grading/engine.py`, `B/policy/engine.py`) | none | pure computation | `Grading`, `Policy` |
| Memory retrieval and metrics (`B/memory/retrieval.py`, `B/services/*metrics*`) | none | select and rank memories | `MemoryRetrieval` |
| Schema discovery (`B/schema_analysis/`, `B/services/schema_discovery_service.py`) | the run's schema snapshot | connect, check, read, store or fail | `SchemaDiscovery` |
| Workspaces and invites (`B/services/workspace_*_service.py`) | workspaces, members, invites | create, rename, link, delete, invite, accept, revoke, remove | `Workspaces` |
| OAuth connections, Slack (`B/services/*oauth_service.py`) | a user's GitHub identity and Slack workspace | start, callback, disconnect, notify | `OAuthConnections` |
| GitHub integration (`B/services/github_webhook_service.py`, `github_notification_service.py`) | pull request links | create a run per commit, check run, terminal comment | `GithubIntegration` |
| Reports (`B/services/*`, `B/api/routes/runs.py`, `metrics.py`) | none | list, accuracy, activity feed, volume | `RunReports` |
| Who may do what (`B/api/middleware_auth.py`, `B/auth/tenancy.py`, `B/dependencies.py`) | none | the identity of a request, the runs it may open | `RunAccess` |
| Frontend (`frontend/oracle/apps/web/`) | form, pinned run, polling loops, streams | make a run, watch it, act on it | `MigrationWizard`, `RunView`; pure: `RunMapping`, `ClusterComparison` |
| Schema migrations of the application (`backend/alembic/`) | the objects of its own database, the recorded revision | upgrade, downgrade, killed and run again | `SchemaMigrations`, `SchemaUpgrade` |
| Transaction retry (`B/database/retry.py`, `B/repositories/base.py`) | the session's identity map | run again after error 40001 | in every action |
| Diagnostics columns, AWS and HTTP wrappers, deployment and scripts | - | - | not modelled (section 7) |

### How they interact

The browser calls the API.  `predict` takes a run from PENDING through
PREDICTING to AWAITING_APPROVAL; `approve` with *proceed* makes it RUNNING and
starts a Step Functions execution named after the run.  The execution invokes
the Lambdas in turn; they share nothing with the API but the database, the
secrets and the provider.  Nothing calls back: the dashboard polls
`sync-workflow`, which describes the execution and settles the run.  The
execution's last task puts the cluster on hold; a sweeper that EventBridge
invokes every 15 minutes destroys it when the hold is over, and any cluster
that outlived its row.  A user may tear the cluster down at any time, abort the
workflow, verify locally, or PATCH the status by hand.

### What is hard

Every operation is a few transactions with provider, AWS or Bedrock calls in
between, so what was read before a call may be stale after it.  Three things in
the code decide what can happen, and the modules model each of them:

* **`with_txn_retry` retries a function, not a request.**  The database is
  serializable: a commit against a row that has changed since the transaction
  read it is refused (40001), the session rolls back and the wrapped function
  runs again on the new row.  A guard *inside* the function therefore holds of
  the row that is changed (approve, `update_status`, the prediction's persist);
  a guard *before* it holds of the row as the request first saw it (discard,
  start, abort, local verify, `_fail_run`).
* **A session answers from its identity map.**  `session.get` returns a row it
  has loaded without asking the database, and `expire_on_commit` is off.  Within
  the transaction that loaded it this is harmless; the sweeper lists many rows
  and commits after the first, so from the second row on it decides on, and
  overwrites from, a stale status.
* **Lambdas die and are retried while they may still run.**  Step Functions
  retries on `States.Timeout` and client errors, so two invocations of one task
  may overlap, and any of them may stop between any two steps.
* **The browser learns late.**  Answers, stream frames and ticks of several
  polling loops overtake each other, a hidden tab stops asking, and a page acts
  on the copy of the run its last answer brought.

`PROJECT.json` lists the hazards of the code line by line, with the properties
that watch each of them.

## 2. The modules

### `ShadowCluster` (checked through `MCShadowCluster`, proved in `ShadowClusterProofs`)

One row per run, the provider's clusters, one secret per run, and the processes
that change them.

| Variable | Code |
|---|---|
| `status`, `clusterId` | the columns of `shadow_clusters`; `"absent"` is no row |
| `expiry`, `lapsed` | which deadline `expires_at` holds (lifetime or hold), and which have passed |
| `cluster` | each cluster the provider may have: unused, live or gone, for which run, older than the maximum lifetime or not |
| `secret` | the cluster that `migration-oracle/shadow/<run>` leads to |
| `prov` | the overlapping invocations of ProvisionShadowCluster: program counter, cluster, the status last refreshed into the session |
| `tear` | the teardown-now request of each run |
| `sweep` | the sweeper: rows listed, statuses and ids cached, whether the listing transaction is open (`covered`), whether the claim of the current row wrote nothing (`blind`), whether a rollback has expired the cache (`rolled`) |

`ProvBegin`, `ProvReuse`/`ProvAdmit` (`acquire_slot` around `try_admit`),
`ProvCreate`/`ProvResume`, `ProvIdentify`, `ProvReady`, `ProvPublish` are the
provision handler from one external call to the next; `ProvStop` is its death at
any of them.  `LoadSchema`, `ExecuteMigration` and `StartHold` are one
transaction each.  `TearRead` to `TearFail` are the teardown route, `SweepList`
to `SweepEnd` one sweep.  In `SweepClaim` the three ways a cached row can be
claimed are three disjuncts: nothing to write (`SweepClaimed`), a write that goes
through, blindly once the listing transaction is over (`SweepOverwrite`), and a
refused write that is repeated on the row as it is (`SweepReread`).  The order of
the Lambdas is left open, which includes every order the workflow produces.
`ProvCreate` is open to every invocation past admission: the handler creates a
cluster for a row without one, but also for a row with one whose secret could not
be read, and its `except Exception` (`provision_shadow.py:137`) does not tell a
missing secret from a refused call.

A `status` is only ever written by these actions; branches of the code that
return or raise without a write are not steps.

### `SlotPool`

What admission promises without the mechanism: a run acquires one of `Slots`
slots at most once and releases it at most once.  `ShadowCluster` implements it
with `holding` the rows in a working stage and `spent` the rows whose teardown
has begun.

### `RunLifecycle` (checked through `MCRunLifecycle`, proved in `RunLifecycleProofs`)

One run, its prediction, approval and result, its execution, and a set of
requests that overlap on it.

| Variable | Code |
|---|---|
| `status`, `arn`, `workflow` | `status`, `sfn_execution_arn`, `workflow_status` of `migration_runs`; `"deleted"` is the row gone |
| `prediction`, `approval`, `result` | whether the child rows exist, and the decision |
| `execution` | the state of the execution of that name in AWS |
| `notified` | the outcomes Slack has been told of |
| `req` | where each request is, and the workflow status AWS last told it |

A request is one step if all its checks are inside the retried function
(`Approve`, `Patch`), and otherwise one step from each outside call or commit to
the next: `StartRequest`, `StartChecked`, `StartExecution`, `StartRecord` are
`start_for_run`; `SyncRequest`, `SyncDescribe`, `SyncCommit` are `sync_status`;
`AbortRequest`, `AbortStop`, `AbortCommit` the abort; `VerifyRequest` to
`VerifyFinalize` the local verification; `DiscardRequest`, `DiscardCommit` the
discard; `PredictBegin`, `PredictPersist`, `PredictFail` the prediction pipeline.
`RequestStop` is an error response or the death of the request.
`ExecutionPersist` and `ExecutionEnd` are all this module sees of the workflow.

`PatchTo` is the set of statuses an operator may PATCH to.  The run allows every
status but `completed`, which an operator could give a run without evidence; the
theorems hold for any `PatchTo`.

### `MigrationWorkflow` and `VerifyExecution` (`MCMigrationWorkflow`, `MigrationWorkflowProofs`)

`Asl` is the table of `migration_workflow.asl.json`: each state with its type,
retries, catch and next (`DeployableAssumption` states what
`validate_definition_structure` insists on, and TLC evaluates it).  `Invoke`,
`Answer`, `Raise`, `GiveUp`, `Tag` and `ChooseOutcome` interpret it;
`EndFromOutside` is the timeout of the machine and StopExecution.  `inv` holds the
Lambda invocations, of which the machine awaits at most one: `GiveUp` may leave
its invocation running (`abandoned`) beside the retry.  The handlers are steps
from one transaction or outside call to the next.  Provisioning is here in
outline, on one `shadow` status; `ShadowCluster` has the detail.
`VerifyExecution` is the execution as the API sees it: running, then ended once,
and succeeded only with a result on record.

### `ShadowExecution`, `ShadowSchema`, `ShadowCapture`, `ShadowInvestigation`, `ShadowOrchestrator` (`MCShadowExecution`, `ShadowExecutionProofs`)

`ShadowExecution` is what happens on one cluster between READY and its outcome:
LoadSchema with its pool of seeding workers that draw tables from one shared
iterator, ExecuteMigration with the migration's transaction, the job poller on a
second connection and the changefeed.  Connections may be lost at any await, and
both Lambdas may be delivered again.

| Variable | Code |
|---|---|
| `did` | how the statements of the transaction change the schema: with it (`direct`), by a job queued behind it (`job`), or, a migration of data, not at all |
| `applied`, `job` | whether the transaction is in, and the schema-change job behind it, which runs after the commit and is reverted if it fails |
| `conn` | the connection: `committing` waits for the job; `failed` and `succeeded` know the answer, `lost` does not |
| `schema` | what of the migration the cluster has, from whichever delivery |
| `stray`, `strayed` | an earlier delivery's transaction or job is still open; one has landed since the baseline (history) |

`Commit` puts the transaction in before the job has run, so `CommitAnswered` may
report a failure although it is in; `RedeliverMigration` starts again on the
schema as it is.  That the migration is one transaction is `run_with_job_progress`
as written; it holds of DDL where CockroachDB's `autocommit_before_ddl` is off, and
jobs (`JobEnds`) are modelled as CockroachDB documents them.  The other four are pure: which DDL is
recreated in which order and how snapshots are compared and diffed
(`ShadowSchema`), which tables and rows are sampled and what the changefeed's
events say (`ShadowCapture`), the bounded tool-use loop (`ShadowInvestigation`),
and the scripts' in-process path (`ShadowOrchestrator`).

### `RunEvidence` and `Grading` (`MCRunEvidence`, `RunEvidenceProofs`)

Result, grade, memory, embedding, the verdict on a recommendation and the
contribution to the shared pool are separate commits of a pipeline that may stop
between any two of them; PersistResults, a local verification and the grade
request may overlap on one run, and any of them that measured records its result
whenever it comes (`RecordExecution`), also under another pipeline that has read
the one before.  `raced` is the history of that: the runs whose result was changed
under a pipeline at work, until nobody is at work on them.  `Grading` is the engine: bands, unverifiable
dimensions, outcome class, score.

### `SchemaDiscovery`, `Policy`, `MemoryRetrieval`, `PredictionPipeline` (`MCPredictionPipeline`, `PredictionPipelineProofs`)

A discovery reads the catalogue query by query while the customer changes it
(`Cockroach` tells whether in one snapshot) and replaces the snapshot on the run.
`PredictionPipeline` extends it: two pipelines load that snapshot once, take the
policy verdict (`Policy`) and the retrieved memories (`MemoryRetrieval`), ask
Bedrock, and persist everything in one transaction or fail the run.  A failing
pipeline asks for the status its session read last, and then moves whatever the
run is by now (`FailRun`); `UpdateStatus` is PATCH, with every transition of
`ALLOWED_STATUS_TRANSITIONS`.  A pipeline may die with its process, and PATCH may
move a run to predicting that no pipeline has seen: `lost` is the history of both.
In `Policy`, a text that does not parse is one finding and nothing else, whatever
its other statements are; a migration of several statements does not get that far
(`create_migration_run` refuses it: the assumption `OneStatement`), nor does a text
with a token the lexer refuses, which is refused there as well.

### `Workspaces`, `OAuthConnections`, `GithubIntegration` (`MCGithubIntegration`, `GithubIntegrationProofs`)

One request type over three modules, each extending the last.  A handler that
reads and commits in one transaction is one step; one that commits twice, or whose
retry repeats only the write, is a step per transaction.  `GithubIntegration` adds
webhook deliveries, the run and the link each commit separately, and the start,
sync and abort that write the row's copy of the workflow status, the latter two of
which post a terminal comment.  Start and sync are a step from one outside call to
the next: what AWS told them (`told`) is written by `Record` whatever the row has
become, so `running` may be written over a terminal copy; `revived` counts these,
`posted` is the history of the comments with the count their sync found.

### `RunReports`, `RunAccess`

The lists, metrics, feed and volume as operators over sets of runs, and who a
request acts for: pure, evaluated by `MCRunEvidence` and `MCGithubIntegration`.

### `SchemaMigrations` and `SchemaUpgrade` (`MCSchemaMigrations`)

`SchemaMigrations` is `backend/alembic/versions/`: each revision, up and down, as
blocks of statements over the set of objects that exist (tables, columns, indexes,
constraints, NOT NULLs, defaults), with the existence checks of the guarded ones,
the rows the backfills write, and the autogenerate filter of `env.py`.
`SchemaUpgrade` is the start of a container: it upgrades revision by revision, may
be killed after any statement, is started again, and serves at head.
`MCSchemaMigrations` evaluates every revision, whole and cut; `MCGithubIntegration`
extends it, so that it is evaluated with the `github` run.

### `RunMapping`, `ClusterComparison`, `MigrationWizard`, `RunView` (`MCRunView`, `MigrationWizardProofs`)

`RunMapping` and `ClusterComparison` are `map-run.ts`: what stage, rail, checks and
cards a run is shown with.  `MigrationWizard` is the five-step form with the run it
makes on the server; `RunView` the workspace and shadow pages with their two
polling loops, event stream and buttons, over a server that moves on.  `flights`
are the requests under way, answered in any order; `timers` the scheduled ticks;
`spent` the loops that are on but past their ceiling (`ceilingMs`, half an hour
since the loop came on, `poll.ts:85,97`): they tick no more, and only a loop that
goes off and comes on anew, or a page that is loaded again, starts afresh.

## 3. The runs

| Run | Question | Answer | States |
|---|---|---|---|
| `shadow_safety` | Can a late Lambda, a stale sweep or a teardown revive a row being destroyed (`NoResurrection`), destroy the cluster of a row at work (`WorkingClusterSafe`), or leave a row in use without its secret (`UsableRowHasSecret`) or, one invocation being at work at a time, with the secret of another cluster while the workflow may connect with it (`SecretLeadsToRowCluster`)? | no | 2.1 million |
| `shadow_caps` | Does the cap per owner hold while runs of two kinds of owner compete (`OwnerCap`), and is admission a slot pool (`ImplementsSlotPool`)? | yes | 0.65 million |
| `shadow_liveness` | Is every cluster destroyed (`EveryClusterReaped`) and every slot released (`EverySlotReleased`) whatever dies? | yes | 32 thousand |
| `run` | Two overlapping requests of any kind and PATCHes: is anything executed unapproved (`ExecutionApproved`), a decision undone (`DecisionRespected`), a status change illegal (`LegalStatus`), a notification wrong (`NoticeMatchesOutcome`), a run completed without evidence (`CompletedHasEvidence`)? Does a run whose execution ended settle (`LinkedRunSettles`), and its copy of the workflow status too (`WorkflowSettles`)? | no; yes | 12 thousand |
| `run_discard_race` | Is only a pending run ever discarded (`DiscardOnlyPending`)? | violated | 49 to the counterexample |
| `workflow` | Abandoned attempts beside their retries, teardowns at any time: does an execution succeed only with its result on record and no cluster at work (`SucceededIsComplete`), is a success one that was applied to a loaded shadow (`OkWasApplied`), does cleanup leave nothing at work (`NothingLeftAtWork`), and is it `VerifyExecution` (`ImplementsExecution`)? | yes | 1 million |
| `shadow_execution` | Is no table seeded by two workers and no row lost from the count (`SeedAccounted`), does the outcome say what transaction, job and schema have become (`OutcomeAgrees`), and do the observations stay as they were read (`ObservationsFrozen`)? | yes | 0.3 million |
| `run_evidence` | Overlapping pipelines, results recorded anew, embedding repairs and consent: does a pipeline that went through leave all in agreement with the result on record, unless a result was changed under a pipeline at work (`CompletedAgrees`), does an embedding belong to its text (`EmbeddingOfText`), does the pool count promotions (`PoolCountsPromotions`)? | yes | 1.2 million |
| `run_analysis` | Is a snapshot a catalogue that existed (`SnapshotWasCatalogue`), is what is stored together of one snapshot (`PredictionOfOneSnapshot`), and is a run left predicting only by a process that ended without a word or by a PATCH (`NoOrphanPredicting`)? | yes | 1.1 million |
| `github` | Three overlapping requests of any kind: has an accepted invite its member (`AcceptedIsMember`), does a webhook's prediction find its pull request (`ReadyFindsLink`), do syncs report an end once each time the copy of the workflow status becomes terminal (`OnePostPerEnd`)? | yes | 0.4 million |
| `frontend` | Does the pin name the run of the form (`PinNamesThisRun`), is the outcome shown at last (`OutcomeShown`), and the end of the hold (`HoldEndsShown`), unless the loop reaches its ceiling? | yes | 0.5 million |
| `schema_upgrade` | Does an API that serves have every object of its schema, wherever its upgrade was killed (`ServesHeadSchema`)? | violated | 200 in all |

Each violated property is a sentence of the repository's own (quoted in
`PROJECT.json` under `findings`).  A discard whose delete is retried removes a run
that has left PENDING, because the guard is outside the retried function.  And an
upgrade killed between the two statements of `s2n0k7f1j9e0` finds no plain index
on the next try, skips both and records the revision, so that `shape_hash` is
never made unique, although the docstring promises that a killed run can be re-run.

The pure modules are evaluated by TLC before these runs start, as assumptions of
the MC modules over bounded inputs:

* `MCPredictionPipeline`: another statement that parses never softens a verdict and
  a bigger table never lowers a severity; an unparsed statement is never let through; a
  confidence is lowered by exactly its adjustments; `schema_size_mismatch` can
  only fire in the largest tier.
* `MCRunEvidence`: a closer prediction never grades worse; a timeout never grades
  full; every figure of the accuracy card counts the same runs; the feed is in
  order and of what is on record; each run counts on one day; pages make up the
  list.
* `MCShadowExecution`: what is loaded compares equal to what was discovered, and
  what the cluster refused is seen; diffs are symmetric; row targets and batches
  keep their limits; an investigation keeps its budget; samples before and after
  are of the same rows; the scripts' path always tears down.
* `MCRunView`: exactly one stage is current or failed; a rail never goes back;
  the cards count every change once.
* `MCGithubIntegration`: what a listing shows is the session owner's; a query token
  is accepted on the stream only; members open what they share.
* `MCSchemaMigrations`: every downgrade undoes its upgrade; a guarded revision cut
  anywhere and run again ends in the same schema, an unguarded one is refused, and
  one alone (the finding above) is recorded short; backfills settle; the noise
  filter goes by name.

### Known deviations

Found while modelling, and followed by the modules as the code has them.  No run
states them as properties, except for the discard race and the cut upgrade.

* Runs: the discard race; a failing pipeline fails a run that another pipeline
  has brought to its approval (`prediction_pipeline_service.py:441`).
* Schema migrations: a killed `s2n0k7f1j9e0` loses its unique index for good; an
  index made unique under its own name is filtered out as noise.
* Shadow clusters: two overlapping provision invocations can leave a READY row
  that names one cluster while its secret leads to the other; a secret that could
  not be read, for whatever reason, makes another cluster and leaves the first to the
  provider sweep, also behind a row that is held (`provision_shadow.py:137`); the
  sweeper can
  write DESTROYING over DESTROYED from its session's cache
  (`shadow_cluster_service.py:39`, `base.py:28`); an identity stored late leaves a
  live cluster behind a DESTROYED row until the provider sweep; a teardown-now
  that loses to the sweeper answers 409, not with the row; the cap counts rows,
  not clusters; the age rule can destroy a cluster whose hold has not run out;
  `merge_timings` reads outside its retry.
* Workflow: a retry after a timeout may apply the migration twice; an execution
  that fails before the migration ends as CleanupFailed, since a row that is not
  MIGRATING cannot be held; an abandoned invocation may put a cluster to work
  after the cleanup.
* Shadow execution: a COMMIT that fails with its schema-change job is reported as
  rolled back although the rest of the transaction is in
  (`job_progress.py:162-165`; `migration_runner.py:193` says that nothing is left
  half-applied); ExecuteMigration delivered again is not idempotent, as
  `migration_workflow.asl.json:112` says: it takes its baseline on a schema that has
  the migration already, and is refused or shows no change; a connection lost
  during COMMIT makes the rollback raise although `job_progress.py:123` promises never to, and the observations are lost;
  a worker with a dead connection drains the shared list of tables
  (`seeder.py:168`); a repeated LoadSchema seeds again and may pass
  `TIER_ROW_CAPS`; a table that failed after some batches is reported with 0 rows;
  a changefeed whose answer was lost is never cancelled; indexes and constraints
  are compared by name only.
* Evidence: a result recorded while another pipeline is between reading and grading
  the one before leaves that older grade on record
  (`grading_pipeline_service.py:126-179`); a promotion that loses the insert can overwrite a worse outcome
  (`cross_customer_promotion_service.py:139`); `contributor_count` counts
  regrades; a swallowed grading failure is reported as graded.
* Discovery and prediction: a failing pipeline, whose session still has the run as
  predicting, fails one that awaits its approval or is running, and the prediction
  stays; a PATCH to predicting leaves a run that nobody works on, one to
  awaiting approval a run without a prediction; one statement that does not parse
  drops the findings of all others; on PostgreSQL a snapshot may be torn; a later
  discovery replaces the snapshot a prediction was made on; the policy rule for a
  missing referenced table fires on a CREATE TABLE's own.
* Collaboration: a late start or a stale describe writes running over a terminal
  workflow status, and the next sync reports the end again, until one comment is
  on record (`github_notification_service.py:141` says a later re-sync cannot);
  an abort does not ask whether a sync has commented already;
  overlapping deliveries of one commit make two runs; a delivery acknowledged with
  202 is lost with its process; an accepted invite overwrites a revocation in
  between, and one invite may admit two users; a late OAuth callback connects
  again after a disconnect.
* Reports and access: invited members may open but not list a workspace's runs
  (`runs.py:87`); the accuracy card includes chaos and debug runs.
* Frontend: a page that has polled for half an hour, or was hidden that long, stays
  as it was until it is loaded again, though a verification may take an hour
  (`migration_workflow.asl.json:4`) and a hold up to one (`config.py:74`); a retry after a lost answer makes a second run; SQL edited after the
  run was made is never sent; a failed teardown is shown as a failed measurement;
  "schema change applied" passes for a migration that changed nothing; a Delete-now
  on the workspace page is not reflected there.

### Bounds, and why they are enough

* `SchemaUpgrade`: one kill, which a second only repeats at a later statement or on a
  schema that a re-run has left as it should be, or refused.
* `ShadowCluster`: rows interact only through the cap, the sweeper's session and
  the provider.  Two rows show the cached second row of a sweep; three rows and
  a cap of two, two of them of one owner with a cap of one, show both caps
  full and a third run waiting.  One cluster identity with two rows is enough for
  one row's actor to reach another's cluster; two identities with one row show the
  duplicate that an invocation, or a lost response, leaves behind.  `SmallWorld` cuts
  the product of the two: rows and clusters that were ever used are at most three.
  The caps do not depend on clusters, so that run has none.  `OneTeardown` allows one
  teardown request at a time: requests for different rows share no state.
* `RunLifecycle`: every race in it is between a request that checked and one
  that changed the row since, so two requests show it; each can run again after
  it ended.  The theorems cover any number.
* `MigrationWorkflow`: three invocations, `RetryBound = 1`: an awaited one and two
  abandoned ones, of the same task or of different ones.  The theorems cover any
  number of both.
* `ShadowExecution`: two workers and three tables (a worker meets the other's
  table, and one is left over), two statements, two lost connections
  (`MaxFaults`), and two deliveries of either Lambda (`MaxDeliveries`,
  `MaxAttempts`), so that a second one meets what the first has left or still has
  under way.  Rows are counted in units.  `SeededPlainly` follows the migration
  behind one outcome of the seeding, with which it shares only the stage.
* `RunEvidence`: two runs of one shape, one revising the other, two pipelines;
  `PoolBound` ends the counting of contributions.  `RevisedFirst`: the revised run is
  through before the revising one is measured, so that pipelines overlap on one run
  at a time, which is where they share rows (and the shape, which is the same);
  the second run may be measured twice, differently.  `ConsentKept`: consent is
  asked for at each promotion, so once a shape is in the pool a withdrawal only takes
  steps away.
* `PredictionPipeline`: two pipelines, `MaxStarts = 2` of them; one discovery
  request that may repeat and one change of the catalogue (`MaxChanges`), enough to
  fall between any two of its queries.  `Undecided`: a run that was decided or has
  failed is not followed further; nothing of it is written then.
* `GithubIntegration`: three requests over two users, two workspaces, one invite
  and one commit.  Runs are to be created for it, or are there at the start,
  awaiting their approval or verified, with or without a pull request.  `ReviveCap`:
  the copy of an ended workflow is written back once.  `Apart`: invites are explored
  without runs, and the verification of one run without others, with settled
  workspaces and without connections; they share no rows.
* `RunView`: two flights and one mishap (a lost answer, a visit to another tab, or
  a loop at its ceiling), two run ids, so that the pin may name a run other than the
  one shown.
* No run bounds the length of behaviours otherwise; deadlock is not checked where
  a system without requests, rows or executions in progress may rest.

`SYMMETRY` is used for safety only: the identities permuted are never compared
or ordered.  In `github` workspaces and runs are permuted along with the requests.

### Fairness, and why the code justifies it

`ShadowCluster!FairSpec`: the EventBridge rule invokes the sweeper for ever
(weak fairness of `SweepList`, `SweepEnd`), a sweep may die but not every sweep
at the same row (strong fairness of its steps), a destroy that is tried again
and again succeeds once (`SweepReapOk`), and time passes.  Nothing is assumed of
Lambdas, users or the teardown route: they may all die.

`RunLifecycle!FairSpec`: the execution ends (`TimeoutSeconds: 3600` in the state
machine), every request ends, successfully or not, and the dashboard polls
`sync-workflow` while the run or its workflow shows as running (`Polled`; that is
the condition in the web client), with not every poll failing.  A run whose
start was lost before the ARN was recorded is not polled, and nothing is claimed
of it.

`RunView!FairSpec`: the page mounts, a request under way is answered or fails
(`fetch` has an end), a scheduled tick fires (`setTimeout`), and the server's
verification goes on.  Nothing is assumed of the user, nor of the clock: a loop may
be at its ceiling at any time, from then on its timer fires in vain, and
`OutcomeShown` and `HoldEndsShown` claim nothing of it.  Mishaps are finite: a page
that is never looked at, or whose every answer is lost, shows nothing new.

## 4. The proofs

`ShadowClusterProofs` proves for any runs, clusters, invocations, owners and
caps, from the named assumptions of the module (`Run` is finite, the null values
are no members, the caps are numbers):

* `TypeCorrect`, the type invariant;
* `CapsHold`: `AdmissionCap` and `OwnerCap`.  The caps count rows at work, but a
  stale write of the sweeper can put a row that gave its slot back, DESTROYED,
  back to DESTROYING, which counts as active.  The working rows are therefore
  bounded directly: only `ProvAdmit` makes a row working, where there is room
  among the *active* rows, a superset; every other step only takes rows out.
  This needs that no step leads from DESTROYING or beyond to a working stage;
* `NeverRevived` (`NoResurrection`), from the same lemma about steps;
* `SlotPoolImplemented` (`ImplementsSlotPool`): the initial states map, and each
  step acquires a slot, releases one, or stutters;
* `WorkingClustersKept` (`WorkingClusterSafe`).  Who destroys a cluster acts on an
  id and a status read earlier, so the invariant says what these are still good
  for.  `Named`: an id held anywhere (row, teardown, sweep, invocation) is of a
  cluster made for that run, so one run's destroyer never reaches another's
  cluster.  `Doomed`: a destroyer that has made its claim works for a row that has
  ended, and what the sweep reaps for its age is gone or old;
* `UsableRowsEquipped` (`UsableRowHasSecret`).  `Equipped` adds what an invocation
  has (`Has`): one about to publish its row has stored the cluster's id and secret,
  and no teardown can have taken them without ending the row;
* `SecretIsOfRowCluster`: `Spec => ([]OneEach => []SecretLeadsToRowCluster)`, where
  `OneEach` says that no two invocations *for one run* are at work at once.  Step
  Functions does not promise that (a retry after a timeout), and without it the
  property is false (section 3); so it is a premise about the behaviour, and not an
  assumption on the constants.  `Matched` follows id and secret from the create, the
  one after a failed read of the secret included, to the publication: an
  invocation begins only where the row may not be connected with, and only its own
  end makes the row ready.

`RunLifecycleProofs` proves, for any set of requests and any PATCHes,
`TypeCorrect`, `ApprovalGate` (`ExecutionApproved`), `DecisionsKept`
(`DecisionRespected`), `StatusLegal` (`LegalStatus`) and `NoticesTrue`
(`NoticeMatchesOutcome`), and, for any `PatchTo` without `completed`,
`CompletionEvident` (`CompletedHasEvidence`): an operator may PATCH a run to
completed with no evidence at all.  The inductive invariant is `TypeOK /\ Gate /\ Decided`:
`Gate` says that a linked execution, a started one, a result, or a request past
its guard (`Cleared`) implies a prediction and a *proceed* approval, as long as
the row exists; `Decided` that the status of a run shows its decision.  It is needed because the
requests act on guards they checked earlier: the invariant carries what a guard
established to the step that relies on it.

`MigrationWorkflowProofs` proves, for any number of concurrent invocations and any
bound on the retries, `TypeCorrect`, all three invariants of the `workflow` run
(`Complete`, `OkApplied`, `LeavesNothing`) and the refinement (`Implements`).  None
of the three is inductive: that the result on record is the migration's answer
depends on where every invocation, abandoned ones included, is.  The inductive
invariant has one part for each fact that no late step takes back: `Flow` places
invocations after the state that made them, `Measured` makes the answer that was
taken over final, `Reclaimed` keeps a shadow that has left its work from
returning to it, `Applied` lets a migration start only on a loaded shadow or on
one that is gone, and `Alone` leaves the awaited invocation the only one while
none was abandoned.

`ShadowExecutionProofs` proves all four properties of the `shadow_execution` run
(`TypeCorrect`, `SeedIsAccounted`, `OutcomeIsTrue`, `Frozen`), for any numbers of
tables, workers, rows, statements, deliveries and lost connections.  Seeding and
migrating share only the stage, so there are two inductive invariants.  `Accounted`
follows a table from the shared iterator to its one result: a table handed out is
with one worker (`Owned`) or has its result (`Covered`), nobody ends before the last
one is handed out (`Exhausted`), and a table's rows are bounded by the earlier
deliveries plus what its worker counted (`Counted`).  A lost connection is the
delicate step: the statement under way may be in without having been counted, and
the bound still holds only because the worker inserts nothing on it afterwards.
`Settled` follows a migration to its outcome: what the end of the connection tells
of transaction and job (`Told`), where a connection that failed or succeeded knows, a
lost one does not, and only the former reach the measurements; whence what the
schema has more than the baseline comes (`Explained`), from this transaction, its
job, or a stray one; and that the poll task is over when the outcome is made
(`Polled`).

`PredictionPipelineProofs` proves all four properties of the `run_analysis` run
(`TypeCorrect`, `SnapshotIsReal`, `OneSnapshot`, `NoOrphan`), for any pipelines,
discoveries, tables, migrations and memories.  What the policy engine and the
memory compute stays closed; the invariant says which snapshot it was computed
from.  `ReadOf` follows what a discovery has read of the catalogue its transaction
looks at, part by part, until it is that catalogue.  `KnownOf` says that verdict,
memories and confidence of a pipeline are of the snapshot it loaded, which is one
that was on the run.  `Attended` is what makes `NoOrphanPredicting` inductive: it
is not enough that somebody works, for a pipeline that is about to mark the run
turns away from one that is already marked, and one that fails on a stale status
leaves it as it is; the run has a pipeline past its mark whose session has it as
predicting, or `lost` says why not.

`GithubIntegrationProofs` proves all four properties of the `github` run
(`TypeCorrect`, `Membership`, `LinkFound`, `OneReport`), for any requests, users,
workspaces, accounts, commits and runs.  A request carries what it read into its
next transaction, and the invariant `Shape /\ WsInv /\ OaInv /\ GhInv` says of each
kind of request what of that still holds then: the user who is about to be marked
on an invite is in, or was expelled since (`Kept`); a run is predicted only by the
delivery that made it, so its link is there; and of the syncs that found the run's
end at one count of `revived` only one is about to post or has posted (`OnePost`), for
the transaction that makes the copy terminal is the one that reports it, and the
copy must be revived before there is another.  The named assumptions
`WorkspaceAssumption` and `GithubAssumption` say that the null values are no rows.

`PredictionPipelineProofs` also proves of the operators, for every input: adding
statements never softens the decision or the need of a review, and, if they parse,
nothing else either (`StricterWithMore`; a statement that does not parse takes the
others' compatibility and expansion flags with it), nothing unparsed passes (`UnparsedBlocked`), a bigger table never lowers a severity
(`BiggerNotMilder`), and a retrieval gives at most `FinalLimit` memories, of the
owner or of a shared pool (`RetrievalScoped`).  With `OneSnapshot` the last gives
`PromptScoped`: no private memory of another owner is ever the ground of a stored
prediction, for any finite set of memories.

`RunEvidenceProofs` proves all four properties of the `run_evidence` run
(`TypeCorrect`, `EmbeddingsFresh`, `PromotionsCounted`, `CompletionAgrees`), for any
runs, pipelines, shapes and accounts and any results.  The invariant is
`TypeOK /\ PipesAgree` with the two data invariants.  A result may change under a
pipeline at any time, and `raced` then holds its run until the last pipeline there
ends; of the runs that are not in it `InStep` says of each pipeline, at each place,
that what it read is still what is on record, whoever else graded the run since: a
pipeline that finds a run nobody is at work on reads the result anew.  Of
`Grading` it proves, for every prediction and result, `CloserNotWorse`,
`TimeoutNotFull` and `ExtremeIsOrder`.

`MigrationWizardProofs` proves `PinKept` (`PinNamesThisRun`), for any run ids and
drafts.  `FormInv` holds while the form is open: what is offered to be taken up is
the run that was pinned at first (`Offered`), the pin is the form's run or else
that first one (`Pinned`), and a request about a run is about the form's run when
its answer comes (`Awaited`), because the ways to another run are open only to a
form that has none.  `NoneAssumption` says that the null value is no answer.

Three modules also hold theorems about the operators next to them, for every
argument.  Of `RunAccess` (in `GithubIntegrationProofs`): where sessions are
enforced, a request let through to a route that is not public carries a token that
verifies and lists the runs of its owner only (`ListingsScoped`), and a token in the
query string changes nothing on a route other than the event stream
(`QueryTokenStreamOnly`).  Of `ShadowSchema`'s diff (in `ShadowExecutionProofs`):
read backwards it has added and removed exchanged and the rest as before
(`DiffTurned`), and a table does not differ from itself (`DiffOfSame`).  Of
`RunMapping` (in `MigrationWizardProofs`): of the six stages of a run exactly one is
under way or failed, with those before it complete and those after it pending, or
all are complete (`OneStageShown`).

Every invariant and action property of the passing runs is thus a theorem.  Only
model-checked are the liveness properties (`EveryClusterReaped`,
`EverySlotReleased`, `LinkedRunSettles`, `WorkflowSettles`, `OutcomeShown`,
`HoldEndsShown`), which need fairness and so ENABLED, out of the prover's reach;
and the operators evaluated over bounded inputs in section 3 other than those named
above, most of which sum or recurse over data, which needs an induction theorem the
installed provers cannot instantiate.

## 5. Abstractions

Wording, logging, timestamps, timings and measurements are left out; so are
provider HTTP calls, connection URLs and SQL.  A provider cluster is gone in one
step.  The teardown's deletion of the secret may fail silently, as in the code.
Time is the two facts the code asks for: a deadline has passed, a cluster is
older than the maximum lifetime (which its row's deadline precedes).

In the pure modules names are abstract values, a column's type is the set of family
words its name contains, similarity is a number, and SQL is what the parser
finds in it.  In the frontend an answer carries the server's run as it was when it
was served, "migrating" stands for every status of the cluster before the hold,
"holding" also for the one after it, and a button is one request.

## 6. Where to go on

The least proved part is the composition: `MigrationWorkflow` has provisioning and
execution in outline, and that `ShadowCluster` and `ShadowExecution` implement these
outlines is shown by reading, not by a refinement.  The next theorems are
that refinement; `RunMapping`'s rail; `ShadowSchema`'s comparison of a loaded schema
with its snapshot; and what `RunReports` makes of a run.

## 7. Not modelled, and why

* Diagnostics columns of the shadow row (timings, schema snapshot, error text, the
  event log): shown to the user, no decision reads them.
* HTTP clients, boto3 wrappers, signatures, the CORS and error mapping of the API,
  prompts, prose, skills, the anonymizer, the parsers (sqlglot, the catalogue's
  index definitions): text processing or third-party code; what the modelled code
  takes from them is an input.
* The process-wide switch of `SHADOW_PROVIDER` during a local verification
  (`local_shadow_verify_service.py:129`): configuration of a whole process, which
  no module has.
* The per-process progress dictionary behind the progress bar: nothing is decided
  on it.
* The closed loop as an action of its own: it calls predict, approve and start in
  turn, each of which checks the run again, so `RunLifecycle` has its behaviours.
* Corpora loading, embeddings' distances, health endpoints, the frontend's
  overview, settings and landing pages.
* Of the schema migrations: two containers that upgrade at once, column types, and
  the offline mode, which only prints SQL.
* Templates, deployment and operator scripts; the sweeper's schedule is the
  fairness of `ShadowCluster`.
