---------------------------- MODULE RunLifecycle ----------------------------
(***************************************************************************)
(* One migration run of Migration Oracle: the migration_runs row with its  *)
(* prediction, approval and execution result, the Step Functions execution *)
(* that verifies it, and the API requests that work on it at the same      *)
(* time: predict, approve, start-workflow, sync-workflow, abort-workflow,  *)
(* verify-local, the status PATCH and the discard.                         *)
(*                                                                         *)
(* A request opens its transaction with its first read of the row.  What   *)
(* it does until it commits runs against that transaction's snapshot; if   *)
(* the row changed meanwhile, CockroachDB refuses the commit and           *)
(* with_txn_retry runs the operation - and only the operation it wraps -   *)
(* again on the new row.  So a guard inside the retried function holds of  *)
(* the row the commit changes, and a guard before it holds of the row as   *)
(* the request first read it.  A request is one step where all its guards  *)
(* are inside, and several where it has a guard outside, calls Bedrock or  *)
(* AWS in between, or commits more than once.                              *)
(***************************************************************************)
CONSTANTS
    Request,     \* API requests in progress at the same time
    PatchTo      \* the statuses an operator may PATCH to

-----------------------------------------------------------------------------
(* Statuses.                                                               *)

RunStatus == {"pending", "predicting", "awaiting_approval", "running", "completed", "failed"}
Settled   == {"completed", "failed"}

ALLOWED_STATUS_TRANSITIONS ==
    [s \in RunStatus |->
        CASE s = "pending"           -> {"predicting", "failed"}
          [] s = "predicting"        -> {"awaiting_approval", "failed"}
          [] s = "awaiting_approval" -> {"running", "completed", "failed"}
          [] s = "running"           -> {"completed", "failed"}
          [] OTHER                   -> {}]

CanMove(from, to) == from \in RunStatus /\ to \in ALLOWED_STATUS_TRANSITIONS[from]

Ended          == {"succeeded", "failed", "timed_out", "aborted"}
WorkflowStatus == {"not_started", "running"} \cup Ended

(* What each decision of the approver makes of the run.                    *)
Decision == {"proceed", "accept_recommended", "cancel"}
DecisionToStatus == [d \in Decision |->
    CASE d = "proceed" -> "running" [] d = "accept_recommended" -> "completed"
      [] OTHER -> "failed"]

-----------------------------------------------------------------------------
VARIABLES
    status,       \* migration_runs.status, "deleted" once the row is gone
    prediction,   \* the run has a prediction row
    approval,     \* the decision of its approval row, or "none"
    result,       \* the run has an execution_results row
    arn,          \* sfn_execution_arn: "none", "sfn" or "local" (local verify)
    workflow,     \* workflow_status, the row's copy of the execution's status
    execution,    \* the Step Functions execution named after the run
    notified,     \* the outcomes terminal notifications have been sent of
    req           \* the requests

row  == <<status, prediction, approval, result, arn, workflow>>
vars == <<status, prediction, approval, result, arn, workflow, execution, notified, req>>

(* A request: where it is, and the workflow status AWS last told it.       *)
RequestRecord ==
    [pc   : {"idle", "predict", "start", "launch", "record", "describe", "sync", "stop", "abort",
             "mark", "handlers", "finalize", "discard"},
     told : WorkflowStatus]

IdleRequest == [pc |-> "idle", told |-> "not_started"]

TypeOK ==
    /\ status \in RunStatus \cup {"deleted"}
    /\ prediction \in BOOLEAN
    /\ approval \in Decision \cup {"none"}
    /\ result \in BOOLEAN
    /\ arn \in {"none", "sfn", "local"}
    /\ workflow \in WorkflowStatus
    /\ execution \in WorkflowStatus
    /\ notified \subseteq Settled
    /\ req \in [Request -> RequestRecord]

Init ==
    /\ status = "pending" /\ prediction = FALSE /\ approval = "none" /\ result = FALSE
    /\ arn = "none" /\ workflow = "not_started" /\ execution = "not_started"
    /\ notified = {}
    /\ req = [q \in Request |-> IdleRequest]

Exists == status # "deleted"

Goto(q, pc)       == req' = [req EXCEPT ![q].pc = pc]
GotoTold(q, pc, w) == req' = [req EXCEPT ![q] = [pc |-> pc, told |-> w]]
Done(q)           == req' = [req EXCEPT ![q] = IdleRequest]

-----------------------------------------------------------------------------
(* POST /predict (and the first leg of /closed-loop).                      *)

(* PENDING moves to PREDICTING; a run that is PREDICTING already is taken  *)
(* on again, whether or not another pipeline is still at it.               *)
PredictBegin(q) ==
    /\ req[q].pc = "idle"
    /\ ~prediction
    /\ status \in {"pending", "predicting"}
    /\ status' = "predicting"
    /\ Goto(q, "predict")
    /\ UNCHANGED <<prediction, approval, result, arn, workflow, execution, notified>>

(* Mutant: the prediction is saved without _validate_status_transition.    *)
PredictPersistUnchecked(q) ==
    /\ req[q].pc = "predict"
    /\ Exists
    /\ status' = "awaiting_approval"
    /\ prediction' = TRUE
    /\ Done(q)
    /\ UNCHANGED <<approval, result, arn, workflow, execution, notified>>

(* _persist_success: the prediction and AWAITING_APPROVAL in one commit.   *)
(* When the status does not allow it the pipeline fails, and _fail_run     *)
(* finds the run out of PREDICTING and leaves it alone.                    *)
PredictPersist(q) ==
    /\ req[q].pc = "predict"
    /\ IF CanMove(status, "awaiting_approval")
         THEN status' = "awaiting_approval" /\ prediction' = TRUE
         ELSE UNCHANGED <<status, prediction>>
    /\ Done(q)
    /\ UNCHANGED <<approval, result, arn, workflow, execution, notified>>

(* A Bedrock call or its validation fails.  _fail_run looks for PREDICTING *)
(* in the snapshot of the transaction the pipeline opened at its start, so *)
(* it always finds it; update_status, retried on the row as it is by now,  *)
(* moves it to FAILED from any status that allows it.                      *)
PredictFail(q) ==
    /\ req[q].pc = "predict"
    /\ status' = IF CanMove(status, "failed") THEN "failed" ELSE status
    /\ Done(q)
    /\ UNCHANGED <<prediction, approval, result, arn, workflow, execution, notified>>

-----------------------------------------------------------------------------
(* POST /approve.  All its checks are inside the retried commit.  Proceed  *)
(* goes on to start the workflow, unless the request says not to.          *)

(* Mutant: the status is not looked at.                                    *)
ApproveAnytime(q, d) ==
    /\ req[q].pc = "idle"
    /\ Exists /\ approval = "none"
    /\ approval' = d
    /\ status' = DecisionToStatus[d]
    /\ Goto(q, IF d = "proceed" THEN "start" ELSE "idle")
    /\ UNCHANGED <<prediction, result, arn, workflow, execution, notified>>

Approve(q, d) ==
    /\ req[q].pc = "idle"
    /\ status = "awaiting_approval"
    /\ approval = "none"
    /\ approval' = d
    /\ status' = DecisionToStatus[d]
    /\ \/ d = "proceed" /\ Goto(q, "start")
       \/ UNCHANGED req
    /\ UNCHANGED <<prediction, result, arn, workflow, execution, notified>>

-----------------------------------------------------------------------------
(* start_for_run, from /approve, /start-workflow or /closed-loop.  The     *)
(* guards are read once, before StartExecution; an execution of the same   *)
(* name that exists already is described instead of started.               *)

StartRequest(q) ==
    /\ req[q].pc = "idle"
    /\ Exists
    /\ Goto(q, "start")
    /\ UNCHANGED <<row, execution, notified>>

(* The run has an execution ARN already: sync with it.                     *)
StartAttached(q) ==
    /\ req[q].pc = "start"
    /\ Exists /\ arn # "none"
    /\ Goto(q, "describe")
    /\ UNCHANGED <<row, execution, notified>>

(* Mutant: whatever was decided, the workflow is started.                  *)
StartGuardUndecided == Exists /\ arn = "none" /\ status \notin Settled /\ prediction

(* require_prediction_and_approval.                                        *)
StartGuard ==
    /\ Exists /\ arn = "none"
    /\ status \notin Settled
    /\ prediction
    /\ approval = "proceed"

StartChecked(q) ==
    /\ req[q].pc = "start"
    /\ StartGuard
    /\ Goto(q, "launch")
    /\ UNCHANGED <<row, execution, notified>>

(* StartExecution, or the execution that exists already, taken for running *)
(* if it cannot be described.  It may have gone on by the time the answer  *)
(* is recorded.                                                            *)
StartExecution(q) ==
    /\ req[q].pc = "launch"
    /\ execution' = IF execution = "not_started" THEN "running" ELSE execution
    /\ \E told \in {execution', "running"} : GotoTold(q, "record", told)
    /\ UNCHANGED <<row, notified>>

(* The commit, on the row as it is by then: the guards are not repeated.   *)
(* A local ARN is a conflict (RequestStop), or goes unseen if the request  *)
(* has read the row before an earlier commit of its own (_save_secret).    *)
StartRecord(q) ==
    /\ req[q].pc = "record"
    /\ Exists
    /\ arn' = "sfn"
    /\ workflow' = req[q].told
    /\ status' = IF status \in {"pending", "predicting", "awaiting_approval"}
                   THEN "running" ELSE status
    /\ Done(q)
    /\ UNCHANGED <<prediction, approval, result, execution, notified>>

-----------------------------------------------------------------------------
(* sync_status, from /sync-workflow or from a start or an abort that finds *)
(* nothing left to do.  DescribeExecution comes before the commit.         *)

SyncRequest(q) ==
    /\ req[q].pc = "idle"
    /\ Exists /\ arn # "none"
    /\ Goto(q, "describe")
    /\ UNCHANGED <<row, execution, notified>>

(* AWS knows nothing of a local:// ARN: such a sync ends in an error       *)
(* (RequestStop).                                                          *)
SyncDescribe(q) ==
    /\ req[q].pc = "describe"
    /\ Exists /\ arn = "sfn"
    /\ GotoTold(q, "sync", execution)
    /\ UNCHANGED <<row, execution, notified>>

(* _notify_terminal: shadow_completed or shadow_failed, by the run's       *)
(* status.                                                                 *)
Notify(s) == notified' = notified \cup (Settled \cap {s})

(* Mutants: the run takes the workflow's status; any end of the execution  *)
(* completes the run; a timeout is no end.                                 *)
SyncedStatusCopied(w) == IF w \in Ended /\ status \notin Settled THEN w ELSE status

SyncedStatusAny(w) == IF w \in Ended /\ status = "running" THEN "completed" ELSE status

SyncedStatusNoTimeout(w) ==
    CASE w = "succeeded" -> IF status = "running" THEN "completed" ELSE status
      [] w \in {"failed", "aborted"} -> IF status \in Settled THEN status ELSE "failed"
      [] OTHER -> status

(* What the execution's status w makes of the run's.                       *)
SyncedStatus(w) ==
    CASE w = "succeeded" -> IF status = "running" THEN "completed" ELSE status
      [] w \in Ended \ {"succeeded"} -> IF status \in Settled THEN status ELSE "failed"
      [] OTHER -> status

(* Mutant: a run that has settled is not written to.                       *)
SyncCommitUnsettled(q) ==
    LET w == req[q].told IN
    /\ req[q].pc = "sync"
    /\ Exists
    /\ workflow' = IF status \in Settled THEN workflow ELSE w
    /\ status' = SyncedStatus(w)
    /\ IF w \in Ended /\ workflow \notin Ended THEN Notify(status') ELSE UNCHANGED notified
    /\ Done(q)
    /\ UNCHANGED <<prediction, approval, result, arn, execution>>

(* The row's copy becomes what AWS said, however long ago; the run is      *)
(* settled with it, and a notification sent if the copy was not terminal.  *)
SyncCommit(q) ==
    LET w == req[q].told IN
    /\ req[q].pc = "sync"
    /\ Exists
    /\ workflow' = w
    /\ status' = SyncedStatus(w)
    /\ IF w \in Ended /\ workflow \notin Ended THEN Notify(status') ELSE UNCHANGED notified
    /\ Done(q)
    /\ UNCHANGED <<prediction, approval, result, arn, execution>>

-----------------------------------------------------------------------------
(* POST /abort-workflow.                                                   *)

AbortRequest(q) ==
    /\ req[q].pc = "idle"
    /\ Exists /\ arn # "none"
    /\ Goto(q, IF workflow \in Ended THEN "describe" ELSE "stop")
    /\ UNCHANGED <<row, execution, notified>>

(* StopExecution; it leaves an execution that has ended as it is.  The     *)
(* cleanup handler that runs next touches the shadow row only.             *)
AbortStop(q) ==
    /\ req[q].pc = "stop"
    /\ execution' = IF execution = "running" THEN "aborted" ELSE execution
    /\ Goto(q, "abort")
    /\ UNCHANGED <<row, notified>>

(* Mutant: an abort fails the run even if it has been completed meanwhile. *)
AbortCommitForced(q) ==
    /\ req[q].pc = "abort"
    /\ Exists
    /\ workflow' = "aborted"
    /\ status' = "failed"
    /\ Notify("failed")
    /\ Done(q)
    /\ UNCHANGED <<prediction, approval, result, arn, execution>>

(* ABORTED is recorded whatever StopExecution found, and a notification is *)
(* sent for any run that is FAILED now.                                    *)
AbortCommit(q) ==
    /\ req[q].pc = "abort"
    /\ Exists
    /\ workflow' = "aborted"
    /\ status' = IF status = "running" THEN "failed" ELSE status
    /\ IF status' = "failed" THEN Notify("failed") ELSE UNCHANGED notified
    /\ Done(q)
    /\ UNCHANGED <<prediction, approval, result, arn, execution>>

-----------------------------------------------------------------------------
(* POST /verify-local: the Lambda handlers, run in the API process.        *)

VerifyRequest(q) ==
    /\ req[q].pc = "idle"
    /\ Exists
    /\ status \notin Settled
    /\ prediction
    /\ approval = "proceed"
    /\ Goto(q, IF result THEN "finalize" ELSE "mark")
    /\ UNCHANGED <<row, execution, notified>>

(* _mark_running.                                                          *)
VerifyMark(q) ==
    /\ req[q].pc = "mark"
    /\ Exists
    /\ status' = IF status = "awaiting_approval" THEN "running" ELSE status
    /\ workflow' = IF workflow = "not_started" THEN "running" ELSE workflow
    /\ Goto(q, "handlers")
    /\ UNCHANGED <<prediction, approval, result, arn, execution, notified>>

(* The chain of handlers; PersistResults, one of the last, writes the      *)
(* execution result.                                                       *)
VerifyHandlers(q) ==
    /\ req[q].pc = "handlers"
    /\ Exists
    /\ result' = TRUE
    /\ Goto(q, "finalize")
    /\ UNCHANGED <<status, prediction, approval, arn, workflow, execution, notified>>

(* SUCCEEDED is recorded whatever the run and the execution have become.   *)
VerifyFinalize(q) ==
    /\ req[q].pc = "finalize"
    /\ Exists
    /\ status' = IF status \in {"running", "awaiting_approval"} THEN "completed" ELSE status
    /\ workflow' = "succeeded"
    /\ arn' = IF arn = "none" THEN "local" ELSE arn
    /\ Done(q)
    /\ UNCHANGED <<prediction, approval, result, execution, notified>>

-----------------------------------------------------------------------------
(* PATCH /runs/{id} and DELETE /runs/{id}.                                 *)

Patch(to) ==
    /\ CanMove(status, to)
    /\ status' = to
    /\ UNCHANGED <<prediction, approval, result, arn, workflow, execution, notified, req>>

(* Discard reads a pending run without children ...                        *)
DiscardRequest(q) ==
    /\ req[q].pc = "idle"
    /\ status = "pending"
    /\ approval = "none" /\ ~result
    /\ Goto(q, "discard")
    /\ UNCHANGED <<row, execution, notified>>

(* ... and deletes the row, with its children: only the deletion is        *)
(* retried when the row has changed since.                                 *)
DiscardCommit(q) ==
    /\ req[q].pc = "discard"
    /\ Exists
    /\ status' = "deleted"
    /\ prediction' = FALSE /\ approval' = "none" /\ result' = FALSE
    /\ arn' = "none" /\ workflow' = "not_started"
    /\ Done(q)
    /\ UNCHANGED <<execution, notified>>

(* An error response (a guard that fails, an AWS error, a conflict that    *)
(* persists), or the death of the request: it ends where it stands.        *)
RequestStop(q) ==
    /\ req[q].pc # "idle"
    /\ Done(q)
    /\ UNCHANGED <<row, execution, notified>>

-----------------------------------------------------------------------------
(* The Step Functions execution, as this component sees it: PersistResults *)
(* writes the execution result, and an execution that succeeds has done so.*)
(* An invocation that Step Functions gave up on may still write after the  *)
(* execution has ended (VerifyExecution, MigrationWorkflow).               *)

ExecutionPersist ==
    /\ execution # "not_started"
    /\ Exists
    /\ result' = TRUE
    /\ UNCHANGED <<status, prediction, approval, arn, workflow, execution, notified, req>>

ExecutionEnd(w) ==
    /\ execution = "running"
    /\ w = "succeeded" => result \/ ~Exists
    /\ execution' = w
    /\ UNCHANGED <<row, notified, req>>

-----------------------------------------------------------------------------
PredictStep(q) == PredictBegin(q) \/ PredictPersist(q) \/ PredictFail(q)

ApproveStep(q) == \E d \in Decision : Approve(q, d)

StartStep(q) ==
    \/ StartRequest(q) \/ StartAttached(q) \/ StartChecked(q) \/ StartExecution(q)
    \/ StartRecord(q)

SyncStep(q) == SyncRequest(q) \/ SyncDescribe(q) \/ SyncCommit(q)

AbortStep(q) == AbortRequest(q) \/ AbortStop(q) \/ AbortCommit(q)

VerifyStep(q) == VerifyRequest(q) \/ VerifyMark(q) \/ VerifyHandlers(q) \/ VerifyFinalize(q)

DiscardStep(q) == DiscardRequest(q) \/ DiscardCommit(q)

RequestStep(q) ==
    \/ PredictStep(q) \/ ApproveStep(q) \/ StartStep(q) \/ SyncStep(q) \/ AbortStep(q)
    \/ VerifyStep(q) \/ DiscardStep(q) \/ RequestStop(q)

ExecutionStep == ExecutionPersist \/ (\E w \in Ended \ {"aborted"} : ExecutionEnd(w))

Next ==
    \/ \E q \in Request : RequestStep(q)
    \/ \E to \in PatchTo : Patch(to)
    \/ ExecutionStep

Spec == Init /\ [][Next]_vars

-----------------------------------------------------------------------------
(* Safety.                                                                 *)

(* Whatever requests overlap, every change of a run's status is one of     *)
(* ALLOWED_STATUS_TRANSITIONS, though only update_status, approve and the  *)
(* prediction pipeline validate against it: a settled run stays settled.   *)
LegalStatus ==
    [][status' # status /\ status' # "deleted" => CanMove(status, status')]_vars

(* Nothing is executed that was not predicted and approved: not for a run  *)
(* an operator has PATCHed past the prediction or the approval either.     *)
ExecutionApproved ==
    Exists /\ (execution # "not_started" \/ result) => prediction /\ approval = "proceed"

(* A run that was cancelled, or ended by accepting the recommended plan,   *)
(* stays that way and is never executed (approve).                         *)
DecisionRespected ==
    Exists /\ approval \in {"cancel", "accept_recommended"} =>
        /\ status = DecisionToStatus[approval]
        /\ arn = "none" /\ execution = "not_started" /\ ~result

(* A terminal notification tells what became of the run, and no later step *)
(* of another request makes it wrong (_notify_terminal).                   *)
NoticeMatchesOutcome ==
    Exists => notified \subseteq {status}

(* With nobody PATCHing a run to completed, it is so because its approver  *)
(* took the recommended plan, or because its migration has been executed   *)
(* and the result persisted, however late the syncs that found it ended.   *)
CompletedHasEvidence ==
    status = "completed" => approval = "accept_recommended" \/ result

(* "Only a pending run ... can be removed" (discard_abandoned_run), which a *)
(* race breaks.                                                            *)
DiscardOnlyPending == [][status # status' /\ status' = "deleted" => status = "pending"]_vars

-----------------------------------------------------------------------------
(* Liveness.  The execution ends (the state machine has a timeout), every  *)
(* request ends somehow, and the dashboard polls sync-workflow for a run   *)
(* with a Step Functions ARN as long as the run or its workflow shows as   *)
(* running, and not every poll dies.                                       *)

Polled == status = "running" \/ workflow = "running"

Fairness ==
    /\ WF_vars(ExecutionStep)
    /\ \A q \in Request :
         /\ WF_vars(req[q].pc # "idle" /\ RequestStep(q))
         /\ SF_vars(Polled /\ SyncRequest(q))
         /\ SF_vars(SyncDescribe(q)) /\ SF_vars(SyncCommit(q))

FairSpec == Spec /\ Fairness

(* A run whose execution is linked settles once the execution has ended.   *)
LinkedRunSettles ==
    arn = "sfn" /\ execution \in Ended ~> status \in Settled \cup {"deleted"}

(* However stale the answers that syncs and starts still record, the row   *)
(* stops showing an execution that has ended as running.                   *)
WorkflowSettles ==
    <>[](arn = "sfn" /\ execution \in Ended => workflow \in Ended)
=============================================================================
