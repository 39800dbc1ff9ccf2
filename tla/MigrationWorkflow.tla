------------------------- MODULE MigrationWorkflow -------------------------
(***************************************************************************)
(* One execution of the verify workflow: the state machine of              *)
(* migration_workflow.asl.json as a table and its interpreter, the Lambda  *)
(* invocations it makes, and what they do to the run's schema snapshot, its*)
(* shadow row, the shadow database and the execution result.               *)
(*                                                                         *)
(* Step Functions repeats a task on a client error or a timeout, in which  *)
(* case the handler may have done its work, may still be doing it, or may  *)
(* never have begun.  Every handler is therefore written step by step, from*)
(* one transaction or outside call to the next, and an invocation whose    *)
(* answer nobody awaits any longer may go on.                              *)
(***************************************************************************)
EXTENDS Integers

CONSTANTS
    Invocation,   \* identities of concurrent Lambda invocations
    NoInvocation, \* the state machine awaits no answer
    RetryBound    \* bound of this model on the retries of one task

ASSUME ConstantsAssumption ==
    /\ NoInvocation \notin Invocation
    /\ RetryBound \in Nat

-----------------------------------------------------------------------------
(* The state machine.                                                      *)

MinOf(m, n) == IF m < n THEN m ELSE n

(* A task with its Retry (attempts after the first), Catch and Next.       *)
TaskState(retries, catch, next) ==
    [type |-> "task", retries |-> MinOf(retries, RetryBound), catch |-> catch, next |-> next]

Tagged(next) == [type |-> "pass", retries |-> 0, catch |-> "none", next |-> next]

Final == [type |-> "final", retries |-> 0, catch |-> "none", next |-> "none"]

PrepareStates ==
    [DiscoverSchema         |-> TaskState(3, "MarkFailed", "ProvisionShadowCluster"),
     ProvisionShadowCluster |-> TaskState(3, "MarkFailed", "LoadSchema"),
     LoadSchema             |-> TaskState(3, "MarkFailed", "ExecuteMigration")]

(* Mutant: the metrics are not persisted.                                  *)
MeasureStatesUnpersisted ==
    [ExecuteMigration |-> TaskState(2, "MarkFailed", "CollectMetrics"),
     CollectMetrics   |-> TaskState(3, "MarkFailed", "MarkSucceeded"),
     PersistResults   |-> TaskState(3, "MarkFailed", "MarkSucceeded")]

MeasureStates ==
    [ExecuteMigration |-> TaskState(2, "MarkFailed", "CollectMetrics"),
     CollectMetrics   |-> TaskState(3, "MarkFailed", "PersistResults"),
     PersistResults   |-> TaskState(3, "MarkFailed", "MarkSucceeded")]

ClosingStates ==
    [MarkSucceeded |-> Tagged("Cleanup"),
     MarkFailed    |-> Tagged("Cleanup"),
     Cleanup       |-> TaskState(4, "CleanupFailed", "ChooseOutcome"),
     ChooseOutcome |-> [type |-> "choice", retries |-> 0, catch |-> "none",
                        next |-> "WorkflowSucceeded"]]

(* Where an execution can be: in a state, or ended from outside.           *)
Task == {"DiscoverSchema", "ProvisionShadowCluster", "LoadSchema", "ExecuteMigration",
         "CollectMetrics", "PersistResults", "Cleanup"}

Ended == {"WorkflowSucceeded", "WorkflowFailed", "CleanupFailed", "TIMED_OUT", "ABORTED"}

Place == Task \cup Ended \cup {"MarkSucceeded", "MarkFailed", "ChooseOutcome"}

Asl == [n \in Place |->
    IF n \in DOMAIN PrepareStates THEN PrepareStates[n]
    ELSE IF n \in DOMAIN MeasureStates THEN MeasureStates[n]
    ELSE IF n \in DOMAIN ClosingStates THEN ClosingStates[n]
    ELSE Final]

(* validate_definition_structure: what the deployment refuses to go without*)
Deployable(asl) ==
    /\ \A n \in Task \ {"Cleanup"} : asl[n].catch = "MarkFailed"
    /\ asl["MarkFailed"].next = "Cleanup" /\ asl["MarkSucceeded"].next = "Cleanup"
    /\ Task = {n \in Place : asl[n].type = "task"}
    /\ Ended = {n \in Place : asl[n].type = "final"}

ASSUME DeployableAssumption == Deployable(Asl)

-----------------------------------------------------------------------------
VARIABLES
    at,        \* the state the execution is in
    retries,   \* retries made of the current task
    failed,    \* outcome.workflow_failed
    measured,  \* step_results.execute_migration: none, ok or failed
    awaited,   \* the invocation whose answer the state machine awaits
    abandoned, \* whether an invocation has outlived the attempt that made it
    inv,       \* the Lambda invocations
    snapshot,  \* whether the run has a schema snapshot (discovery SUCCEEDED)
    shadow,    \* the status of the run's shadow row
    loads,     \* how often the schema and rows were loaded into the shadow
    applied,   \* how often the migration was committed there
    result     \* the execution result: none, ok or failed

execVars == <<at, retries, failed, measured, awaited, abandoned>>
dataVars == <<snapshot, shadow, loads, applied, result>>
vars == <<execVars, inv, dataVars>>

ShadowStatus == {"absent", "provisioning", "ready", "seeding", "migrating", "holding",
                 "destroying", "destroyed", "failed"}

AtWork == {"provisioning", "ready", "seeding", "migrating"}

Measure == {"none", "ok", "failed"}

(* An invocation: its task, where it is and the answer it has to give.     *)
Idle == [task |-> "none", pc |-> "idle", answer |-> "none"]

InvocationRecord ==
    [task: Task \cup {"none"}, pc: {"idle", "begin", "work", "raise", "answer"},
     answer: Measure]

Init ==
    /\ at = "DiscoverSchema" /\ retries = 0 /\ failed = FALSE /\ measured = "none"
    /\ awaited = NoInvocation /\ abandoned = FALSE
    /\ inv = [i \in Invocation |-> Idle]
    /\ snapshot \in BOOLEAN
    /\ shadow = "absent" /\ loads = 0 /\ applied = 0
    /\ result = "none"

-----------------------------------------------------------------------------
(* The interpreter.                                                        *)

Goto(n) == at' = n /\ retries' = 0 /\ awaited' = NoInvocation

(* A task's handler is invoked, for the first time or again.               *)
Invoke(i) ==
    /\ at \in Task /\ awaited = NoInvocation
    /\ inv[i].pc = "idle"
    /\ inv' = [inv EXCEPT ![i] = [Idle EXCEPT !.task = at, !.pc = "begin"]]
    /\ awaited' = i
    /\ UNCHANGED <<at, retries, failed, measured, abandoned, dataVars>>

(* The answer is stored under step_results and the next state entered; one *)
(* nobody awaits is dropped.                                               *)
Answer(i) ==
    /\ inv[i].pc = "answer"
    /\ inv' = [inv EXCEPT ![i] = Idle]
    /\ IF awaited = i
         THEN /\ Goto(Asl[at].next)
              /\ measured' = IF at = "ExecuteMigration" THEN inv[i].answer ELSE measured
              /\ UNCHANGED <<failed, abandoned>>
         ELSE UNCHANGED execVars
    /\ UNCHANGED dataVars

(* The handler raises, or its Lambda dies or runs out of time: none of the *)
(* errors under Retry, so the task is caught.                              *)
Raise(i) ==
    /\ inv[i].pc # "idle"
    /\ inv' = [inv EXCEPT ![i] = Idle]
    /\ IF awaited = i THEN Goto(Asl[at].catch) ELSE UNCHANGED <<at, retries, awaited>>
    /\ UNCHANGED <<failed, measured, abandoned, dataVars>>

(* Step Functions gives an attempt up: a timeout of the task, throttling,  *)
(* an error of the service or of its client.  The task is tried again, or  *)
(* caught when its retries are used up.                                    *)
GiveUp(i) ==
    /\ awaited = i
    /\ IF retries < Asl[at].retries
         THEN /\ retries' = retries + 1 /\ awaited' = NoInvocation
              /\ UNCHANGED at
         ELSE Goto(Asl[at].catch)
    /\ \/ abandoned' = TRUE /\ UNCHANGED inv
       \/ inv' = [inv EXCEPT ![i] = Idle] /\ UNCHANGED abandoned
    /\ UNCHANGED <<failed, measured, dataVars>>

Tag ==
    /\ Asl[at].type = "pass"
    /\ failed' = (at = "MarkFailed")
    /\ Goto(Asl[at].next)
    /\ UNCHANGED <<measured, abandoned, inv, dataVars>>

(* Mutant: the outcome is not looked at.                                   *)
ChooseSuccess ==
    /\ at = "ChooseOutcome"
    /\ Goto(Asl[at].next)
    /\ UNCHANGED <<failed, measured, abandoned, inv, dataVars>>

ChooseOutcome ==
    /\ at = "ChooseOutcome"
    /\ Goto(IF failed THEN "WorkflowFailed" ELSE Asl[at].next)
    /\ UNCHANGED <<failed, measured, abandoned, inv, dataVars>>

(* TimeoutSeconds of the state machine, and StopExecution (abort).         *)
EndFromOutside(n) ==
    /\ at \notin Ended
    /\ Goto(n)
    /\ UNCHANGED <<failed, measured, abandoned, inv, dataVars>>

-----------------------------------------------------------------------------
(* The handlers.  A step that would raise is not enabled; Raise is.        *)

At(i, task, pc) == inv[i].task = task /\ inv[i].pc = pc

To(i, pc) == inv' = [inv EXCEPT ![i].pc = pc]

(* DiscoverSchema: nothing to do when a snapshot exists.  Otherwise the    *)
(* customer's schema is read, and success or failure is written whatever   *)
(* another invocation has written since.                                   *)
DiscoverBegin(i) ==
    /\ At(i, "DiscoverSchema", "begin")
    /\ To(i, IF snapshot THEN "answer" ELSE "work")
    /\ UNCHANGED <<execVars, dataVars>>

DiscoverPersist(i) ==
    /\ At(i, "DiscoverSchema", "work")
    /\ snapshot' = TRUE
    /\ To(i, "answer")
    /\ UNCHANGED <<execVars, shadow, loads, applied, result>>

DiscoverFail(i) ==
    /\ At(i, "DiscoverSchema", "work")
    /\ snapshot' = FALSE
    /\ To(i, "raise")
    /\ UNCHANGED <<execVars, shadow, loads, applied, result>>

(* ProvisionShadowCluster, in outline (ShadowCluster has the detail): the  *)
(* row is admitted, reused, or past provisioning already; then the cluster *)
(* is made ready and a PROVISIONING row published.                         *)
ProvisionBegin(i) ==
    /\ At(i, "ProvisionShadowCluster", "begin")
    /\ snapshot
    /\ shadow' = IF shadow = "absent" THEN "provisioning" ELSE shadow
    /\ To(i, IF shadow \in {"ready", "seeding", "migrating"} THEN "answer" ELSE "work")
    /\ UNCHANGED <<execVars, snapshot, loads, applied, result>>

ProvisionReady(i) ==
    /\ At(i, "ProvisionShadowCluster", "work")
    /\ shadow' = IF shadow = "provisioning" THEN "ready" ELSE shadow
    /\ To(i, "answer")
    /\ UNCHANGED <<execVars, snapshot, loads, applied, result>>

(* LoadSchema: a row past seeding is a retry's success.                    *)
LoadBegin(i) ==
    /\ At(i, "LoadSchema", "begin")
    /\ snapshot
    /\ \/ /\ shadow \in {"ready", "seeding"}
          /\ shadow' = "seeding"
          /\ To(i, "work")
       \/ /\ shadow \in {"migrating", "destroying", "destroyed"}
          /\ To(i, "answer")
          /\ UNCHANGED shadow
    /\ UNCHANGED <<execVars, snapshot, loads, applied, result>>

(* Tables and indexes are created if they do not exist, constraints that   *)
(* exist already only warn, and the synthetic rows are inserted anew.      *)
LoadRows(i) ==
    /\ At(i, "LoadSchema", "work")
    /\ shadow # "destroyed"
    /\ loads' = loads + 1
    /\ To(i, "answer")
    /\ UNCHANGED <<execVars, snapshot, shadow, applied, result>>

(* ExecuteMigration: a MIGRATING row is taken for a retry and goes on.     *)
(* READY is accepted here, but refused by transition.                      *)
ExecuteBegin(i) ==
    /\ At(i, "ExecuteMigration", "begin")
    /\ shadow \in {"seeding", "migrating"}
    /\ shadow' = "migrating"
    /\ To(i, "work")
    /\ UNCHANGED <<execVars, snapshot, loads, applied, result>>

(* Mutant: success is reported before the commit.                          *)
ExecuteUncommitted(i) ==
    /\ At(i, "ExecuteMigration", "work")
    /\ shadow # "destroyed"
    /\ \E ok, committed \in BOOLEAN :
         /\ applied' = IF committed THEN applied + 1 ELSE applied
         /\ inv' = [inv EXCEPT ![i].pc = "answer",
                               ![i].answer = IF ok THEN "ok" ELSE "failed"]
    /\ UNCHANGED <<execVars, snapshot, shadow, loads, result>>

(* The statements run in one transaction.  What fails or is cancelled is   *)
(* rolled back and is an answer, not an error; whether SQL that was applied*)
(* before can be applied again depends on the SQL, and a commit whose reply*)
(* is lost counts as failed.                                               *)
ExecuteSql(i) ==
    /\ At(i, "ExecuteMigration", "work")
    /\ shadow # "destroyed"
    /\ \E ok, committed \in BOOLEAN :
         /\ ok => committed
         /\ applied' = IF committed THEN applied + 1 ELSE applied
         /\ inv' = [inv EXCEPT ![i].pc = "answer",
                               ![i].answer = IF ok THEN "ok" ELSE "failed"]
    /\ UNCHANGED <<execVars, snapshot, shadow, loads, result>>

(* CollectMetrics keeps no state: it copies the answer of ExecuteMigration.*)
CollectMetrics(i) ==
    /\ At(i, "CollectMetrics", "begin")
    /\ measured # "none"
    /\ To(i, "answer")
    /\ UNCHANGED <<execVars, dataVars>>

(* PersistResults: the result is upserted from the collected metrics.      *)
PersistResults(i) ==
    /\ At(i, "PersistResults", "begin")
    /\ result' = measured
    /\ To(i, "answer")
    /\ UNCHANGED <<execVars, snapshot, shadow, loads, applied>>

(* Mutant: a row that cannot be held is left as it is.                     *)
CleanupLenient(i) ==
    /\ At(i, "Cleanup", "begin")
    /\ shadow' = IF shadow = "migrating" THEN "holding" ELSE shadow
    /\ To(i, "answer")
    /\ UNCHANGED <<execVars, snapshot, loads, applied, result>>

(* Cleanup: hold a row whose migration ran; nothing to do for a row that is*)
(* absent, held or on its way out.  start_hold refuses every other status. *)
Cleanup(i) ==
    /\ At(i, "Cleanup", "begin")
    /\ \/ shadow = "migrating" /\ shadow' = "holding"
       \/ shadow \in {"absent", "holding", "destroying", "destroyed"} /\ UNCHANGED shadow
    /\ To(i, "answer")
    /\ UNCHANGED <<execVars, snapshot, loads, applied, result>>

(* Teardown-now or the sweeper, at any time.                               *)
Reclaim ==
    /\ \/ shadow \in AtWork \cup {"holding"} /\ shadow' = "destroying"
       \/ shadow = "destroying" /\ shadow' \in {"destroyed", "failed"}
    /\ UNCHANGED <<execVars, inv, snapshot, loads, applied, result>>

-----------------------------------------------------------------------------
HandlerStep(i) ==
    \/ DiscoverBegin(i) \/ DiscoverPersist(i) \/ DiscoverFail(i)
    \/ ProvisionBegin(i) \/ ProvisionReady(i)
    \/ LoadBegin(i) \/ LoadRows(i)
    \/ ExecuteBegin(i) \/ ExecuteSql(i)
    \/ CollectMetrics(i) \/ PersistResults(i) \/ Cleanup(i)

InvocationStep(i) == HandlerStep(i) \/ Answer(i) \/ Raise(i)

StateMachineStep == Tag \/ ChooseOutcome \/ \E i \in Invocation : Invoke(i)

Next ==
    \/ StateMachineStep
    \/ \E i \in Invocation : InvocationStep(i) \/ GiveUp(i)
    \/ \E n \in {"TIMED_OUT", "ABORTED"} : EndFromOutside(n)
    \/ Reclaim

Spec == Init /\ [][Next]_vars

-----------------------------------------------------------------------------
TypeOK ==
    /\ at \in Place /\ retries \in 0 .. RetryBound /\ failed \in BOOLEAN
    /\ measured \in Measure /\ awaited \in Invocation \cup {NoInvocation}
    /\ abandoned \in BOOLEAN
    /\ inv \in [Invocation -> InvocationRecord]
    /\ snapshot \in BOOLEAN /\ shadow \in ShadowStatus
    /\ loads \in Nat /\ applied \in Nat /\ result \in Measure

(* An execution that ends as succeeded has its result on record, it is what*)
(* ExecuteMigration answered, and no cluster is left at work, however many *)
(* attempts were given up and are still running.                           *)
SucceededIsComplete ==
    at = "WorkflowSucceeded" =>
        /\ result # "none" /\ result = measured
        /\ shadow \notin AtWork

(* A migration reported as successful was committed on a shadow that had   *)
(* its schema and rows loaded, although a repeated LoadSchema or           *)
(* ExecuteMigration takes the row's status for the word of an earlier one. *)
OkWasApplied == result = "ok" => applied > 0 /\ loads > 0

(* An execution whose cleanup went through leaves no cluster at work: the  *)
(* sweeper is needed only where the execution ends as CleanupFailed or is  *)
(* ended from outside, or an invocation outlived its attempt and went on   *)
(* after the cleanup.                                                      *)
NothingLeftAtWork ==
    ~abandoned /\ at \in {"WorkflowSucceeded", "WorkflowFailed"} => shadow \notin AtWork

(* The execution as the API sees it.                                       *)
Outcome(n) ==
    IF n \notin Ended THEN "running"
    ELSE IF n = "WorkflowSucceeded" THEN "succeeded"
    ELSE IF n = "TIMED_OUT" THEN "timed_out"
    ELSE IF n = "ABORTED" THEN "aborted"
    ELSE "failed"

Execution == INSTANCE VerifyExecution
    WITH execution <- Outcome(at), recorded <- (result # "none")

ImplementsExecution == Execution!Spec
=============================================================================
