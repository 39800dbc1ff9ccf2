--------------------------- MODULE ShadowCluster ---------------------------
(***************************************************************************)
(* The shadow-cluster resource of Migration Oracle: the shadow_clusters    *)
(* table, the cloud provider that holds the real clusters, and everything  *)
(* that changes either of them:                                            *)
(*                                                                         *)
(*   - the ProvisionShadowCluster Lambda, as any number of overlapping     *)
(*     invocations (Step Functions retries one that may still be running); *)
(*   - the LoadSchema, ExecuteMigration and Cleanup (hold) Lambdas;        *)
(*   - the teardown-now route of the API;                                  *)
(*   - the scheduled orphan sweeper, with the rows its database session    *)
(*     has cached.                                                         *)
(*                                                                         *)
(* A database transaction is one step.  CockroachDB runs them serializably *)
(* and with_txn_retry re-reads after a conflict, so a status change that   *)
(* reads and writes the row in one transaction acts on its current value.  *)
(* Whatever happens between two transactions (a provider call, a secret)   *)
(* is a step of its own, and a process may die before any of its steps.    *)
(* The callers are left open: any Lambda may be invoked at any time, which *)
(* covers every order Step Functions, its retries and its timeouts give.   *)
(***************************************************************************)
EXTENDS FiniteSets, Integers

CONSTANTS
    Run,            \* migration runs; each has at most one shadow row
    ClusterId,      \* identities the provider can hand out (bounds creation)
    Invocation,     \* concurrent invocations of ProvisionShadowCluster
    MaxConcurrent,  \* settings.shadow_max_concurrent
    Owner,          \* owner identities
    OwnerOf,        \* owner_identity of each run, or NoOwner
    MaxPerOwner,    \* settings.shadow_max_concurrent_per_owner, or NoLimit
    UniqueNames,    \* the provider refuses a second live cluster of one name
    NoRun, NoCluster, NoOwner, NoLimit

ASSUME RunAssumption     == IsFiniteSet(Run) /\ NoRun \notin Run
ASSUME ClusterAssumption == NoCluster \notin ClusterId
ASSUME CapAssumption     == MaxConcurrent \in Nat
ASSUME NameAssumption    == UniqueNames \in BOOLEAN
ASSUME OwnerAssumption   == /\ NoOwner \notin Owner
                            /\ OwnerOf \in [Run -> Owner \cup {NoOwner}]
                            /\ NoLimit \notin Nat
                            /\ MaxPerOwner \in Nat \cup {NoLimit}

-----------------------------------------------------------------------------
(* The status of a row, and the statuses each one may change to.           *)

Working  == {"provisioning", "ready", "seeding", "migrating", "holding"}
Active   == Working \cup {"destroying"}
Terminal == {"destroyed", "failed"}
Status   == Active \cup Terminal
RowStatus == Status \cup {"absent"}   \* "absent": the run has no row yet

ALLOWED_TRANSITIONS ==
    [s \in Status |->
        CASE s = "provisioning" -> {"ready", "destroying"}
          [] s = "ready"        -> {"seeding", "destroying"}
          [] s = "seeding"      -> {"migrating", "destroying"}
          [] s = "migrating"    -> {"holding", "destroying"}
          [] s = "holding"      -> {"destroying"}
          [] s = "destroying"   -> Terminal
          [] OTHER              -> {}]

CanMove(from, to) == from \in Status /\ to \in ALLOWED_TRANSITIONS[from]

-----------------------------------------------------------------------------
VARIABLES
    status,      \* shadow_clusters.status of each run's row
    clusterId,   \* shadow_clusters.cluster_id of each run's row
    expiry,      \* which deadline expires_at holds: "lifetime" or "hold"
    lapsed,      \* the deadlines of each run that have passed
    cluster,     \* the provider's clusters
    secret,      \* the cluster each run's connection secret leads to, if any
    prov,        \* the ProvisionShadowCluster invocations
    tear,        \* the teardown-now request of each run
    sweep        \* the sweeper

rowVars == <<status, clusterId, expiry>>
vars    == <<status, clusterId, expiry, lapsed, cluster, secret, prov, tear, sweep>>

Deadline   == {"lifetime", "hold"}
ClusterRef == ClusterId \cup {NoCluster}

Cluster == [state : {"unused", "live", "gone"}, run : Run \cup {NoRun}, old : BOOLEAN]

ProvRecord == [pc   : {"idle", "admit", "slot", "identify", "ready", "publish"},
               run  : Run \cup {NoRun},
               cid  : ClusterRef,              \* the cluster this invocation handles
               seen : RowStatus]               \* shadow.status as last refreshed

TearRecord == [pc  : {"idle", "claim", "destroy", "finish", "fail", "conflict"},
               cid : ClusterRef]

SweepRecord == [pc      : {"idle", "rows", "destroy", "finish", "fail", "provider"},
                todo    : SUBSET Run,           \* expired rows still to be handled
                row     : Run \cup {NoRun},     \* the row being handled
                seen    : [Run -> RowStatus],   \* statuses cached by the session
                cid     : [Run -> ClusterRef],  \* cluster ids cached by the session
                covered : BOOLEAN,   \* the transaction that listed the rows is open
                blind   : BOOLEAN,   \* row's cached status predates the open transaction
                rolled  : BOOLEAN,   \* a rollback has expired the cached rows
                reap    : SUBSET ClusterId]     \* old clusters still to be reaped

TypeOK ==
    /\ status \in [Run -> RowStatus]
    /\ clusterId \in [Run -> ClusterRef]
    /\ expiry \in [Run -> Deadline]
    /\ lapsed \in [Run -> SUBSET Deadline]
    /\ cluster \in [ClusterId -> Cluster]
    /\ secret \in [Run -> ClusterRef]
    /\ prov \in [Invocation -> ProvRecord]
    /\ tear \in [Run -> TearRecord]
    /\ sweep \in SweepRecord

IdleProv  == [pc |-> "idle", run |-> NoRun, cid |-> NoCluster, seen |-> "absent"]
IdleTear  == [pc |-> "idle", cid |-> NoCluster]
IdleSweep == [pc |-> "idle", todo |-> {}, row |-> NoRun,
              seen |-> [r \in Run |-> "absent"], cid |-> [r \in Run |-> NoCluster],
              covered |-> FALSE, blind |-> FALSE, rolled |-> FALSE, reap |-> {}]

Init ==
    /\ status = [r \in Run |-> "absent"]
    /\ clusterId = [r \in Run |-> NoCluster]
    /\ expiry = [r \in Run |-> "lifetime"]
    /\ lapsed = [r \in Run |-> {}]
    /\ cluster = [c \in ClusterId |-> [state |-> "unused", run |-> NoRun, old |-> FALSE]]
    /\ secret = [r \in Run |-> NoCluster]
    /\ prov = [p \in Invocation |-> IdleProv]
    /\ tear = [r \in Run |-> IdleTear]
    /\ sweep = IdleSweep

-----------------------------------------------------------------------------
(* Helpers shared by the processes.                                        *)

ActiveRows  == {r \in Run : status[r] \in Active}
WorkingRows == {r \in Run : status[r] \in Working}
OwnedBy(o)  == {r \in Run : OwnerOf[r] = o}

(* Mutant: a row left in DESTROYING is nobody's business any more.         *)
ExpiredWorkingRows == {r \in WorkingRows : expiry[r] \in lapsed[r]}

(* repository.list_expired_active: active rows past expires_at.            *)
ExpiredRows == {r \in ActiveRows : expiry[r] \in lapsed[r]}

Live(c) == c \in ClusterId /\ cluster[c].state = "live"

(* provider.destroy succeeds for an id it does not know, and for no id.    *)
DestroyCluster(c) ==
    cluster' = IF c \in ClusterId
                 THEN [cluster EXCEPT ![c] = [state |-> "gone", run |-> NoRun, old |-> FALSE]]
                 ELSE cluster

(* Mutant: the new status is written without _validate_transition.         *)
AfterUnchecked(r, to) == to

(* The row's status after ShadowClusterService.transition(r, to), when the *)
(* transition validates against the row's current status: unchanged if it  *)
(* is `to` already, and unchanged (with a ConflictError) if not allowed.   *)
After(r, to) == IF CanMove(status[r], to) THEN to ELSE status[r]
Conflicts(r, to) == status[r] # to /\ ~CanMove(status[r], to)

-----------------------------------------------------------------------------
(* ProvisionShadowCluster.                                                 *)

(* The handler reads the row; one that is READY, SEEDING or MIGRATING is   *)
(* an idempotent skip, which changes nothing and is not a step here.       *)
ProvBegin(p, r) ==
    /\ prov[p].pc = "idle"
    /\ status[r] \notin {"ready", "seeding", "migrating"}
    /\ prov' = [prov EXCEPT ![p] = [IdleProv EXCEPT !.pc = "admit", !.run = r]]
    /\ UNCHANGED <<rowVars, lapsed, cluster, secret, tear, sweep>>

(* Mutant: the owner's own count is not checked.                           *)
UnderGlobalCap(r) == Cardinality(ActiveRows) < MaxConcurrent

UnderCaps(r) ==
    /\ Cardinality(ActiveRows) < MaxConcurrent
    /\ OwnerOf[r] # NoOwner /\ MaxPerOwner # NoLimit =>
         Cardinality(ActiveRows \cap OwnedBy(OwnerOf[r])) < MaxPerOwner

(* Mutant: a row whose cluster is gone is admitted afresh.                 *)
ProvReuseRevives(p) ==
    LET r == prov[p].run IN
    /\ prov[p].pc = "admit"
    /\ status[r] # "absent"
    /\ status' = [status EXCEPT ![r] = IF @ \in Terminal THEN "provisioning" ELSE @]
    /\ prov' = [prov EXCEPT ![p] = [pc |-> "slot", run |-> r, cid |-> clusterId[r],
                                    seen |-> status'[r]]]
    /\ UNCHANGED <<clusterId, expiry, lapsed, cluster, secret, tear, sweep>>

(* try_admit: a row that exists already, whatever its status, is returned  *)
(* without a look at the caps; otherwise the count and the insert are one  *)
(* transaction.  acquire_slot polls until one of the two happens, or gives *)
(* up (ProvStop).                                                          *)
ProvReuse(p) ==
    LET r == prov[p].run IN
    /\ prov[p].pc = "admit"
    /\ status[r] # "absent"
    /\ prov' = [prov EXCEPT ![p] = [pc |-> "slot", run |-> r, cid |-> clusterId[r],
                                    seen |-> status[r]]]
    /\ UNCHANGED <<rowVars, lapsed, cluster, secret, tear, sweep>>

ProvAdmit(p) ==
    LET r == prov[p].run IN
    /\ prov[p].pc = "admit"
    /\ status[r] = "absent"
    /\ UnderCaps(r)
    /\ status' = [status EXCEPT ![r] = "provisioning"]
    /\ expiry' = [expiry EXCEPT ![r] = "lifetime"]
    /\ prov' = [prov EXCEPT ![p].pc = "slot", ![p].seen = "provisioning"]
    /\ UNCHANGED <<clusterId, lapsed, cluster, secret, tear, sweep>>

(* provider.create, when the row has no cluster, or has one and its secret *)
(* could not be read, for whatever reason: a secret that is there counts   *)
(* as missing when the store refuses the call, also for a row whose        *)
(* cluster is held by now.  The response may be lost: the client then      *)
(* sends the request again, and the first cluster is one nobody knows (the *)
(* step that leaves prov as it is).  ccloud_api names a cluster after its  *)
(* run, mock_local adds the time, so whether a second live one is refused  *)
(* depends on the provider.                                                *)
ProvCreate(p) ==
    LET r == prov[p].run IN
    /\ prov[p].pc = "slot"
    /\ \E c \in ClusterId :
         /\ cluster[c].state = "unused"
         /\ UniqueNames => \A d \in ClusterId : Live(d) => cluster[d].run # r
         /\ cluster' = [cluster EXCEPT ![c] = [state |-> "live", run |-> r, old |-> FALSE]]
         /\ \/ prov' = [prov EXCEPT ![p].pc = "identify", ![p].cid = c]
            \/ UNCHANGED prov
    /\ UNCHANGED <<rowVars, lapsed, secret, tear, sweep>>

(* The row's cluster and its secret exist: resume with them.               *)
ProvResume(p) ==
    /\ prov[p].pc = "slot"
    /\ prov[p].cid # NoCluster
    /\ secret[prov[p].run] # NoCluster
    /\ prov' = [prov EXCEPT ![p].pc = "ready"]
    /\ UNCHANGED <<rowVars, lapsed, cluster, secret, tear, sweep>>

(* Mutants: the name stored in place of the id; an id kept once it is set. *)
ProvIdentifySwapped(p) ==
    LET r == prov[p].run IN
    /\ prov[p].pc = "identify"
    /\ clusterId' = [clusterId EXCEPT ![r] = r]
    /\ prov' = [prov EXCEPT ![p].pc = "ready", ![p].seen = status[r]]
    /\ UNCHANGED <<status, expiry, lapsed, cluster, secret, tear, sweep>>

ProvIdentifyOnce(p) ==
    LET r == prov[p].run IN
    /\ prov[p].pc = "identify"
    /\ clusterId' = [clusterId EXCEPT ![r] = IF @ = NoCluster THEN prov[p].cid ELSE @]
    /\ prov' = [prov EXCEPT ![p].pc = "ready", ![p].seen = status[r]]
    /\ UNCHANGED <<status, expiry, lapsed, cluster, secret, tear, sweep>>

(* set_identity writes the row whatever its status is by now, and the      *)
(* refresh that follows brings that status into the session.               *)
ProvIdentify(p) ==
    LET r == prov[p].run IN
    /\ prov[p].pc = "identify"
    /\ clusterId' = [clusterId EXCEPT ![r] = prov[p].cid]
    /\ prov' = [prov EXCEPT ![p].pc = "ready", ![p].seen = status[r]]
    /\ UNCHANGED <<status, expiry, lapsed, cluster, secret, tear, sweep>>

(* Mutant: the secret is left for later.                                   *)
ProvReadyNoSecret(p) ==
    /\ prov[p].pc = "ready"
    /\ Live(prov[p].cid)
    /\ prov' = [prov EXCEPT ![p].pc = "publish"]
    /\ UNCHANGED <<rowVars, lapsed, cluster, secret, tear, sweep>>

(* await_ready and provision_sql_access succeed only on a live cluster;    *)
(* the connection url is then stored as the run's secret.                  *)
ProvReady(p) ==
    /\ prov[p].pc = "ready"
    /\ Live(prov[p].cid)
    /\ secret' = [secret EXCEPT ![prov[p].run] = prov[p].cid]
    /\ prov' = [prov EXCEPT ![p].pc = "publish"]
    /\ UNCHANGED <<rowVars, lapsed, cluster, tear, sweep>>

(* The row is moved to READY only if the session last saw PROVISIONING; a  *)
(* conflict there fails the invocation and leaves the row alone.           *)
ProvPublish(p) ==
    LET r == prov[p].run IN
    /\ prov[p].pc = "publish"
    /\ status' = IF prov[p].seen = "provisioning"
                   THEN [status EXCEPT ![r] = After(r, "ready")] ELSE status
    /\ prov' = [prov EXCEPT ![p] = IdleProv]
    /\ UNCHANGED <<clusterId, expiry, lapsed, cluster, secret, tear, sweep>>

(* An error, the slot timeout, a Lambda timeout or a crash: the invocation *)
(* ends where it stands and undoes nothing.                                *)
ProvStop(p) ==
    /\ prov[p].pc # "idle"
    /\ prov' = [prov EXCEPT ![p] = IdleProv]
    /\ UNCHANGED <<rowVars, lapsed, cluster, secret, tear, sweep>>

-----------------------------------------------------------------------------
(* LoadSchema, ExecuteMigration and Cleanup.  Each reads the row and moves *)
(* it in one transaction; the branches that return or raise change nothing *)
(* and are not steps.  ExecuteMigration accepts READY, but transition then *)
(* rejects READY -> MIGRATING, so only SEEDING moves.                      *)

Handler(r, from, to) ==
    /\ status[r] \in from
    /\ CanMove(status[r], to)
    /\ status' = [status EXCEPT ![r] = to]

LoadSchema(r) ==
    /\ Handler(r, {"ready"}, "seeding")
    /\ UNCHANGED <<clusterId, expiry, lapsed, cluster, secret, prov, tear, sweep>>

ExecuteMigration(r) ==
    /\ Handler(r, {"seeding", "ready"}, "migrating")
    /\ UNCHANGED <<clusterId, expiry, lapsed, cluster, secret, prov, tear, sweep>>

(* start_hold: HOLDING, and a fresh deadline in place of the lifetime.     *)
StartHold(r) ==
    /\ Handler(r, Status \ {"destroyed", "destroying", "holding"}, "holding")
    /\ expiry' = [expiry EXCEPT ![r] = "hold"]
    /\ UNCHANGED <<clusterId, lapsed, cluster, secret, prov, tear, sweep>>

-----------------------------------------------------------------------------
(* The teardown-now route.                                                 *)

TearRead(r) ==
    /\ tear[r].pc = "idle"
    /\ status[r] \notin {"absent", "destroyed"}
    /\ tear' = [tear EXCEPT ![r].pc = "claim"]
    /\ UNCHANGED <<rowVars, lapsed, cluster, secret, prov, sweep>>

(* Mutant: the cluster is destroyed before the row is claimed.             *)
TearUnclaimed(r) ==
    /\ tear[r].pc = "claim"
    /\ tear' = [tear EXCEPT ![r] = [pc |-> "destroy", cid |-> clusterId[r]]]
    /\ UNCHANGED <<rowVars, lapsed, cluster, secret, prov, sweep>>

TearClaim(r) ==
    /\ tear[r].pc = "claim"
    /\ status' = [status EXCEPT ![r] = After(r, "destroying")]
    /\ tear' = [tear EXCEPT ![r] =
                  IF Conflicts(r, "destroying")
                    THEN [pc |-> "conflict", cid |-> NoCluster]
                    ELSE [pc |-> "destroy", cid |-> clusterId[r]]]
    /\ UNCHANGED <<clusterId, expiry, lapsed, cluster, secret, prov, sweep>>

TearDestroy(r) ==
    /\ tear[r].pc = "destroy"
    /\ \/ /\ DestroyCluster(tear[r].cid)
          /\ tear' = [tear EXCEPT ![r].pc = "finish"]
       \/ /\ tear' = [tear EXCEPT ![r].pc = "fail"]
          /\ UNCHANGED cluster
    /\ UNCHANGED <<rowVars, lapsed, secret, prov, sweep>>

(* A row that ends DESTROYED has its secret deleted, best effort.          *)
TearFinish(r) ==
    /\ tear[r].pc = "finish"
    /\ status' = [status EXCEPT ![r] = After(r, "destroyed")]
    /\ \/ /\ Conflicts(r, "destroyed")
          /\ tear' = [tear EXCEPT ![r] = [pc |-> "conflict", cid |-> NoCluster]]
          /\ UNCHANGED secret
       \/ /\ ~Conflicts(r, "destroyed")
          /\ tear' = [tear EXCEPT ![r] = IdleTear]
          /\ secret' \in {secret, [secret EXCEPT ![r] = NoCluster]}
    /\ UNCHANGED <<clusterId, expiry, lapsed, cluster, prov, sweep>>

TearFail(r) ==
    /\ tear[r].pc = "fail"
    /\ status' = [status EXCEPT ![r] = After(r, "failed")]
    /\ tear' = [tear EXCEPT ![r] =
                  IF Conflicts(r, "failed")
                    THEN [pc |-> "conflict", cid |-> NoCluster] ELSE IdleTear]
    /\ UNCHANGED <<clusterId, expiry, lapsed, cluster, secret, prov, sweep>>

(* The 409 response of a conflict, or the death of the request.            *)
TearStop(r) ==
    /\ tear[r].pc # "idle"
    /\ tear' = [tear EXCEPT ![r] = IdleTear]
    /\ UNCHANGED <<rowVars, lapsed, cluster, secret, prov, sweep>>

-----------------------------------------------------------------------------
(* The sweeper.  One session serves a whole sweep, and session.get returns *)
(* a row the session has loaded without asking the database again          *)
(* (expire_on_commit=False).  While the transaction that listed the rows   *)
(* is open, a row changed by somebody else makes the write fail and be     *)
(* retried on fresh data; once it has committed, the first write to each   *)
(* further row validates against the listed status and overwrites whatever *)
(* the row has become.  A retry rolls back, which expires every cached     *)
(* row: touching the next one then fails outside the await context and the *)
(* sweep ends.                                                             *)

SweepList ==
    /\ sweep.pc = "idle"
    /\ sweep' = [IdleSweep EXCEPT
                    !.pc = "rows", !.todo = ExpiredRows, !.covered = TRUE,
                    !.seen = [r \in Run |-> IF r \in ExpiredRows THEN status[r] ELSE "absent"],
                    !.cid = [r \in Run |-> IF r \in ExpiredRows THEN clusterId[r] ELSE NoCluster]]
    /\ UNCHANGED <<rowVars, lapsed, cluster, secret, prov, tear>>

(* transition(DESTROYING) on a row cached as DESTROYING: nothing written.  *)
SweepClaimed(r) ==
    /\ sweep.seen[r] = "destroying"
    /\ sweep' = [sweep EXCEPT !.pc = "destroy", !.row = r, !.blind = ~sweep.covered]
    /\ UNCHANGED status

(* The cached status passes the check and the write goes through, over the *)
(* row as it is now if the listing transaction has ended.                  *)
SweepOverwrite(r) ==
    /\ CanMove(sweep.seen[r], "destroying")
    /\ sweep.covered => status[r] = sweep.seen[r] /\ clusterId[r] = sweep.cid[r]
    /\ status' = [status EXCEPT ![r] = "destroying"]
    /\ sweep' = [sweep EXCEPT !.pc = "destroy", !.row = r, !.covered = FALSE,
                              !.blind = FALSE,
                              !.seen[r] = "destroying", !.cid[r] = clusterId[r]]

(* The write conflicts, the session rolls back and reads the row again.    *)
SweepReread(r) ==
    /\ sweep.seen[r] # "destroying"
    /\ status' = [status EXCEPT ![r] = After(r, "destroying")]
    /\ sweep' = [sweep EXCEPT !.pc = IF Conflicts(r, "destroying") THEN "fail" ELSE "destroy",
                              !.row = r, !.covered = FALSE, !.blind = FALSE,
                              !.rolled = TRUE,
                              !.seen[r] = status'[r], !.cid[r] = clusterId[r]]

SweepClaim(r) ==
    /\ sweep.pc = "rows"
    /\ r \in sweep.todo
    /\ ~sweep.rolled
    /\ SweepClaimed(r) \/ SweepOverwrite(r) \/ SweepReread(r)
    /\ UNCHANGED <<clusterId, expiry, lapsed, cluster, secret, prov, tear>>

SweepDestroy ==
    /\ sweep.pc = "destroy"
    /\ \/ /\ DestroyCluster(sweep.cid[sweep.row])
          /\ sweep' = [sweep EXCEPT !.pc = "finish"]
       \/ /\ sweep' = [sweep EXCEPT !.pc = "fail"]
          /\ UNCHANGED cluster
    /\ UNCHANGED <<rowVars, lapsed, secret, prov, tear>>

(* The row is done with; `rolled` if its last write had to be retried.     *)
RowDone(rolled) ==
    sweep' = [sweep EXCEPT !.pc = "rows", !.todo = @ \ {sweep.row}, !.row = NoRun,
                           !.covered = FALSE, !.blind = FALSE,
                           !.rolled = @ \/ rolled,
                           !.seen[sweep.row] = "absent", !.cid[sweep.row] = NoCluster]

(* transition(DESTROYED): validated against the row, except after a claim  *)
(* that wrote nothing once the listing transaction has ended.  A conflict  *)
(* (the row is FAILED) is recorded as an error and changes nothing.        *)
SweepFinish ==
    LET r == sweep.row IN
    /\ sweep.pc = "finish"
    /\ IF sweep.blind
         THEN /\ status' = [status EXCEPT ![r] = "destroyed"]
              /\ RowDone(FALSE)
         ELSE /\ status' = [status EXCEPT ![r] = After(r, "destroyed")]
              /\ \E rolled \in BOOLEAN :
                   /\ status[r] # "destroying" => rolled
                   /\ RowDone(rolled)
    /\ UNCHANGED <<clusterId, expiry, lapsed, cluster, secret, prov, tear>>

(* Any exception: set_error, then FAILED if the row allows it.             *)
SweepFail ==
    LET r == sweep.row IN
    /\ sweep.pc = "fail"
    /\ status' = [status EXCEPT ![r] = After(r, "failed")]
    /\ \E rolled \in BOOLEAN : RowDone(rolled)
    /\ UNCHANGED <<clusterId, expiry, lapsed, cluster, secret, prov, tear>>

(* Mutant: only clusters that a row names are reaped.                      *)
SweepProviderNamed ==
    /\ sweep.pc = "rows"
    /\ sweep.todo = {}
    /\ sweep' = [IdleSweep EXCEPT !.pc = "provider",
                                  !.reap = {c \in ClusterId : /\ Live(c) /\ cluster[c].old
                                                              /\ \E r \in Run : clusterId[r] = c}]
    /\ UNCHANGED <<rowVars, lapsed, cluster, secret, prov, tear>>

(* The rows are done: list the app's clusters, keep the provably old ones. *)
SweepProvider ==
    /\ sweep.pc = "rows"
    /\ sweep.todo = {}
    /\ sweep' = [IdleSweep EXCEPT !.pc = "provider",
                                  !.reap = {c \in ClusterId : Live(c) /\ cluster[c].old}]
    /\ UNCHANGED <<rowVars, lapsed, cluster, secret, prov, tear>>

SweepReap(c) ==
    /\ sweep.pc = "provider"
    /\ c \in sweep.reap
    /\ sweep' = [sweep EXCEPT !.reap = @ \ {c}]
    /\ DestroyCluster(c) \/ UNCHANGED cluster
    /\ UNCHANGED <<rowVars, lapsed, secret, prov, tear>>

SweepEnd ==
    /\ sweep.pc = "provider"
    /\ sweep.reap = {}
    /\ sweep' = IdleSweep
    /\ UNCHANGED <<rowVars, lapsed, cluster, secret, prov, tear>>

(* The Lambda dies, the listing call fails, or an expired row is touched.  *)
SweepStop ==
    /\ sweep.pc # "idle"
    /\ sweep' = IdleSweep
    /\ UNCHANGED <<rowVars, lapsed, cluster, secret, prov, tear>>

-----------------------------------------------------------------------------
(* Time.  A cluster is created after its row, so it is older than the      *)
(* maximum lifetime only once the row's own lifetime is over.              *)

Lapse(r, d) ==
    /\ status[r] # "absent"
    /\ d = "hold" => expiry[r] = "hold" /\ status[r] \in Active
    /\ d \notin lapsed[r]
    /\ lapsed' = [lapsed EXCEPT ![r] = @ \cup {d}]
    /\ UNCHANGED <<rowVars, cluster, secret, prov, tear, sweep>>

Age(c) ==
    /\ Live(c) /\ ~cluster[c].old
    /\ "lifetime" \in lapsed[cluster[c].run]
    /\ cluster' = [cluster EXCEPT ![c].old = TRUE]
    /\ UNCHANGED <<rowVars, lapsed, secret, prov, tear, sweep>>

-----------------------------------------------------------------------------
ProvStep(p) ==
    \/ \E r \in Run : ProvBegin(p, r)
    \/ ProvReuse(p) \/ ProvAdmit(p) \/ ProvCreate(p) \/ ProvResume(p)
    \/ ProvIdentify(p) \/ ProvReady(p) \/ ProvPublish(p) \/ ProvStop(p)

HandlerStep(r) == LoadSchema(r) \/ ExecuteMigration(r) \/ StartHold(r)

TearStep(r) ==
    TearRead(r) \/ TearClaim(r) \/ TearDestroy(r) \/ TearFinish(r) \/ TearFail(r) \/ TearStop(r)

SweepStep ==
    \/ SweepList
    \/ \E r \in Run : SweepClaim(r)
    \/ SweepDestroy \/ SweepFinish \/ SweepFail \/ SweepProvider
    \/ \E c \in ClusterId : SweepReap(c)
    \/ SweepEnd \/ SweepStop

TimeStep == (\E r \in Run, d \in Deadline : Lapse(r, d)) \/ (\E c \in ClusterId : Age(c))

Next ==
    \/ \E p \in Invocation : ProvStep(p)
    \/ \E r \in Run : HandlerStep(r) \/ TearStep(r)
    \/ SweepStep
    \/ TimeStep

Spec == Init /\ [][Next]_vars

-----------------------------------------------------------------------------
(* Safety.                                                                 *)

(* The admission cap: however many invocations admit, retry and crash, and *)
(* whatever the sweeper overwrites, no more rows than shadow_max_concurrent*)
(* are in a stage that works on its cluster (try_admit).                   *)
AdmissionCap == Cardinality(WorkingRows) <= MaxConcurrent

(* The same for the rows of one owner, when a per-owner cap is set.        *)
OwnerCap ==
    MaxPerOwner # NoLimit =>
        \A o \in Owner : Cardinality(WorkingRows \cap OwnedBy(o)) <= MaxPerOwner

(* A row of a stage that uses its cluster has one, and the secret that     *)
(* LoadSchema and ExecuteMigration connect with exists: the teardown route *)
(* never deletes it under a row that is still in use.                      *)
Usable == {"ready", "seeding", "migrating", "holding"}
UsableRowHasSecret ==
    \A r \in Run : status[r] \in Usable => clusterId[r] # NoCluster /\ secret[r] # NoCluster

(* ... and as long as LoadSchema and ExecuteMigration may still connect    *)
(* with that secret, it leads to the cluster the row names, so the cluster *)
(* migrated is the one teardown destroys.  Not so when invocations of the  *)
(* provision Lambda overlap, nor once the row is held, whose cluster an    *)
(* invocation that could not read the secret replaces.                     *)
Connecting == {"ready", "seeding", "migrating"}
SecretLeadsToRowCluster ==
    \A r \in Run : status[r] \in Connecting => secret[r] = clusterId[r]

(* Once a row's teardown has begun it never goes back to a working stage:  *)
(* no late Lambda, retry or stale write revives a cluster being destroyed. *)
NoResurrection ==
    [][\A r \in Run : status[r] \in {"destroying"} \cup Terminal => status'[r] \notin Working]_vars

(* The cluster a working row names is destroyed under it only by the       *)
(* sweeper's age rule: row-driven destruction always follows the row's own *)
(* move to DESTROYING, and never reaches another run's cluster.            *)
WorkingClusterSafe ==
    [][\A c \in ClusterId :
          Live(c) /\ ~cluster[c].old /\ (\E r \in WorkingRows : clusterId[r] = c) => Live(c)']_vars

(* Admission implements a pool of slots: rows at work hold a slot, rows    *)
(* whose teardown has begun are spent.                                     *)
SpentRows == {r \in Run : status[r] \in {"destroying"} \cup Terminal}
Pool == INSTANCE SlotPool
            WITH Slots <- MaxConcurrent, holding <- WorkingRows, spent <- SpentRows
ImplementsSlotPool == Pool!Spec

-----------------------------------------------------------------------------
(* Liveness.  The sweeper is scheduled for ever (an EventBridge rule), no   *)
(* single step of it is interrupted for ever, a cluster whose destruction  *)
(* is tried again and again is destroyed, and time passes.  Nothing is     *)
(* assumed of the Lambdas or of the teardown route.                        *)

SweepReapOk(c) == SweepReap(c) /\ cluster'[c].state = "gone"

Fairness ==
    /\ WF_vars(SweepList) /\ WF_vars(SweepEnd)
    /\ SF_vars(SweepDestroy) /\ SF_vars(SweepProvider)
    /\ \A r \in Run : /\ SF_vars(SweepClaim(r))
                      /\ SF_vars(sweep.row = r /\ (SweepFinish \/ SweepFail))
    /\ \A c \in ClusterId : SF_vars(SweepReapOk(c)) /\ WF_vars(Age(c))
    /\ \A r \in Run, d \in Deadline : WF_vars(Lapse(r, d))

FairSpec == Spec /\ Fairness

(* Whatever dies and wherever, a cluster that was created is destroyed:    *)
(* the ones no row names by the provider sweep.                            *)
EveryClusterReaped ==
    \A c \in ClusterId : cluster[c].state = "live" ~> cluster[c].state = "gone"

(* Every admitted row gives its slot back.                                 *)
EverySlotReleased ==
    \A r \in Run : status[r] \in Active ~> status[r] \in Terminal
=============================================================================
