------------------------- MODULE RunLifecycleProofs -------------------------
(***************************************************************************)
(* Proofs about RunLifecycle, for any number of requests and any PATCHes.  *)
(*                                                                         *)
(* The key is what a request that has passed its guards still knows when   *)
(* it commits, though the row may have changed since: a prediction and an  *)
(* approval, once there, go only with the row itself.                      *)
(***************************************************************************)
EXTENDS RunLifecycle, TLAPS

(* Requests that have passed a guard on the approval, or found an ARN.     *)
Cleared == {"launch", "record", "describe", "sync", "stop", "abort", "mark", "handlers",
            "finalize"}

(* Whatever has been begun for the run was approved.                       *)
Begun == \/ execution # "not_started" \/ result \/ arn # "none"
         \/ \E q \in Request : req[q].pc \in Cleared

Gate == Exists /\ Begun => prediction /\ approval = "proceed"

(* A decision is visible in the status.                                    *)
Decided ==
    Exists => /\ approval = "proceed" => status \in {"running"} \cup Settled
              /\ approval = "accept_recommended" => status = "completed"
              /\ approval = "cancel" => status = "failed"

Inv == TypeOK /\ Gate /\ Decided

LEMMA Tables ==
    /\ \A s, t : CanMove(s, t) => s \in RunStatus /\ t \in RunStatus
    /\ \A s \in RunStatus \ Settled : CanMove(s, "failed")
    /\ \A s, t : s \in Settled => ~CanMove(s, t)
    /\ CanMove("pending", "predicting")
    /\ CanMove("predicting", "awaiting_approval")
    /\ \A t \in {"running"} \cup Settled : CanMove("awaiting_approval", t)
    /\ \A t \in Settled : CanMove("running", t)
    /\ \A s : CanMove(s, "awaiting_approval") => s = "predicting"
    /\ \A s, t : s = "running" /\ CanMove(s, t) => t \in Settled
  BY DEF CanMove, ALLOWED_STATUS_TRANSITIONS, RunStatus, Settled

-----------------------------------------------------------------------------
(* Type correctness.                                                       *)

LEMMA InitType == Init => TypeOK
<1> SUFFICES ASSUME Init PROVE TypeOK
  OBVIOUS
<1>1. IdleRequest \in RequestRecord
  BY DEF IdleRequest, RequestRecord, WorkflowStatus
<1>2. req \in [Request -> RequestRecord]
  BY <1>1 DEF Init
<1>3. QED
  BY <1>2 DEF Init, TypeOK, RunStatus, WorkflowStatus

LEMMA RequestTyped ==
    ASSUME TypeOK, NEW q \in Request,
           NEW pc \in {"idle", "predict", "start", "launch", "record", "describe", "sync",
                       "stop", "abort", "mark", "handlers", "finalize", "discard"},
           NEW w \in WorkflowStatus,
           \/ Goto(q, pc) \/ GotoTold(q, pc, w) \/ Done(q)
    PROVE  req' \in [Request -> RequestRecord]
<1>1. req[q] \in RequestRecord /\ IdleRequest \in RequestRecord
  BY DEF TypeOK, IdleRequest, RequestRecord, WorkflowStatus
<1>2. CASE Goto(q, pc)
  BY <1>1, <1>2 DEF Goto, TypeOK, RequestRecord
<1>3. CASE GotoTold(q, pc, w)
  BY <1>1, <1>3 DEF GotoTold, TypeOK, RequestRecord
<1>4. CASE Done(q)
  BY <1>1, <1>4 DEF Done, TypeOK
<1>5. QED
  BY <1>2, <1>3, <1>4

LEMMA NotifyTyped ==
    ASSUME TypeOK, NEW s, Notify(s)
    PROVE  notified' \subseteq Settled
  BY DEF TypeOK, Notify

LEMMA NextType == TypeOK /\ [Next]_vars => TypeOK'
<1> SUFFICES ASSUME TypeOK, [Next]_vars PROVE TypeOK'
  OBVIOUS
<1> USE DEF TypeOK, Exists
<1>1. CASE UNCHANGED vars
  BY <1>1 DEF vars
<1>2. ASSUME NEW q \in Request, RequestStep(q)
      PROVE  TypeOK'
  <2>0. req[q].told \in WorkflowStatus /\ "not_started" \in WorkflowStatus
    BY DEF RequestRecord, WorkflowStatus
  <2>1. CASE PredictStep(q)
    <3>1. req' \in [Request -> RequestRecord]
      <4> HIDE DEF TypeOK
      <4> QED
        BY <2>0, <2>1, RequestTyped DEF PredictStep, PredictBegin, PredictPersist, PredictFail
    <3>2. QED
      BY <2>1, <3>1 DEF PredictStep, PredictBegin, PredictPersist, PredictFail, RunStatus
  <2>2. ASSUME NEW d \in Decision, Approve(q, d)
        PROVE  TypeOK'
    <3>1. req' \in [Request -> RequestRecord]
      <4> HIDE DEF TypeOK
      <4>1. CASE Goto(q, "start")
        BY <4>1, <2>0, RequestTyped
      <4>2. QED
        BY <4>1, <2>2 DEF Approve, TypeOK
    <3>2. DecisionToStatus[d] \in RunStatus
      BY DEF DecisionToStatus, Decision, RunStatus
    <3>3. QED
      BY <2>2, <3>1, <3>2 DEF Approve
  <2>3. CASE StartStep(q)
    <3>0. execution \in WorkflowStatus /\ "running" \in WorkflowStatus
      BY DEF WorkflowStatus
    <3>1. req' \in [Request -> RequestRecord]
      <4> HIDE DEF TypeOK
      <4>1. CASE StartExecution(q)
        <5>1. execution' \in WorkflowStatus
          BY <3>0, <4>1 DEF StartExecution
        <5>2. PICK told \in {execution', "running"} : GotoTold(q, "record", told)
          BY <4>1 DEF StartExecution
        <5>3. QED
          BY <3>0, <5>1, <5>2, RequestTyped
      <4>2. QED
        BY <4>1, <2>0, <2>3, RequestTyped
           DEF StartStep, StartRequest, StartAttached, StartChecked, StartRecord
    <3>2. QED
      BY <2>0, <2>3, <3>0, <3>1
         DEF StartStep, StartRequest, StartAttached, StartChecked, StartExecution, StartRecord,
             row, RunStatus
  <2>4. CASE SyncStep(q)
    <3>1. req' \in [Request -> RequestRecord]
      <4> HIDE DEF TypeOK
      <4>1. execution \in WorkflowStatus
        BY DEF TypeOK
      <4>2. QED
        BY <2>0, <2>4, <4>1, RequestTyped DEF SyncStep, SyncRequest, SyncDescribe, SyncCommit
    <3>2. CASE SyncRequest(q) \/ SyncDescribe(q)
      BY <3>1, <3>2 DEF SyncRequest, SyncDescribe, row
    <3>3. CASE SyncCommit(q)
      <4>1. status' \in RunStatus \cup {"deleted"}
        BY <3>3 DEF SyncCommit, SyncedStatus, RunStatus
      <4>2. notified' \subseteq Settled
        BY <3>3, NotifyTyped DEF SyncCommit
      <4>3. QED
        BY <2>0, <3>1, <3>3, <4>1, <4>2 DEF SyncCommit
    <3>4. QED
      BY <2>4, <3>2, <3>3 DEF SyncStep
  <2>5. CASE AbortStep(q)
    <3>1. req' \in [Request -> RequestRecord]
      <4> HIDE DEF TypeOK
      <4> QED
        BY <2>0, <2>5, RequestTyped DEF AbortStep, AbortRequest, AbortStop, AbortCommit
    <3>2. notified' \subseteq Settled
      BY <2>5, NotifyTyped DEF AbortStep, AbortRequest, AbortStop, AbortCommit
    <3>3. QED
      BY <2>5, <3>1, <3>2 DEF AbortStep, AbortRequest, AbortStop, AbortCommit, row, RunStatus,
                             WorkflowStatus, Ended
  <2>6. CASE VerifyStep(q)
    <3>1. req' \in [Request -> RequestRecord]
      <4> HIDE DEF TypeOK
      <4> QED
        BY <2>0, <2>6, RequestTyped
           DEF VerifyStep, VerifyRequest, VerifyMark, VerifyHandlers, VerifyFinalize
    <3>2. CASE VerifyRequest(q) \/ VerifyHandlers(q)
      BY <3>1, <3>2 DEF VerifyRequest, VerifyHandlers, row
    <3>3. CASE VerifyMark(q)
      BY <3>1, <3>3 DEF VerifyMark, RunStatus, WorkflowStatus
    <3>4. CASE VerifyFinalize(q)
      BY <3>1, <3>4 DEF VerifyFinalize, RunStatus, WorkflowStatus, Ended
    <3>5. QED
      BY <2>6, <3>2, <3>3, <3>4 DEF VerifyStep
  <2>7. CASE DiscardStep(q) \/ RequestStop(q)
    <3>1. req' \in [Request -> RequestRecord]
      <4> HIDE DEF TypeOK
      <4> QED
        BY <2>0, <2>7, RequestTyped DEF DiscardStep, DiscardRequest, DiscardCommit, RequestStop
    <3>2. QED
      BY <2>0, <2>7, <3>1 DEF DiscardStep, DiscardRequest, DiscardCommit, RequestStop, row
  <2>8. QED
    BY <1>2, <2>1, <2>2, <2>3, <2>4, <2>5, <2>6, <2>7 DEF RequestStep, ApproveStep
<1>3. ASSUME NEW to \in PatchTo, Patch(to)
      PROVE  TypeOK'
  BY <1>3, Tables DEF Patch
<1>4. CASE ExecutionStep
  BY <1>4 DEF ExecutionStep, ExecutionPersist, ExecutionEnd, row, WorkflowStatus
<1>5. QED
  BY <1>1, <1>2, <1>3, <1>4 DEF Next

(* Every reachable state is type correct.                                  *)
THEOREM TypeCorrect == Spec => []TypeOK
<1>1. TypeOK /\ [Next]_vars => TypeOK'
  BY NextType
<1>2. QED
  BY InitType, <1>1, PTL DEF Spec

-----------------------------------------------------------------------------
(* What a step does to the requests and to the approval.                   *)

LEMMA Moves ==
    ASSUME TypeOK, NEW q \in Request
    PROVE  /\ \A pc : Goto(q, pc) => req'[q].pc = pc
           /\ \A pc, w : GotoTold(q, pc, w) => req'[q].pc = pc
           /\ Done(q) => req'[q].pc = "idle"
           /\ \A pc, w : Goto(q, pc) \/ GotoTold(q, pc, w) \/ Done(q) =>
                \A p \in Request \ {q} : req'[p] = req[p]
<1>1. req \in [Request -> RequestRecord]
  BY DEF TypeOK
<1>2. req[q] \in RequestRecord
  BY <1>1
<1>3. \A pc : Goto(q, pc) => /\ req'[q].pc = pc
                            /\ \A p \in Request \ {q} : req'[p] = req[p]
  BY <1>1, <1>2 DEF Goto, RequestRecord
<1>4. \A pc, w : GotoTold(q, pc, w) => /\ req'[q].pc = pc
                                      /\ \A p \in Request \ {q} : req'[p] = req[p]
  BY <1>1 DEF GotoTold
<1>5. Done(q) => /\ req'[q].pc = "idle"
                 /\ \A p \in Request \ {q} : req'[p] = req[p]
  BY <1>1 DEF Done, IdleRequest
<1>6. QED
  BY <1>3, <1>4, <1>5

(* A row that is gone does not come back.                                  *)
LEMMA NotBack ==
    ASSUME TypeOK, [Next]_vars, ~Exists
    PROVE  ~Exists'
<1> USE DEF Exists
<1>1. ASSUME NEW q \in Request, RequestStep(q) PROVE ~Exists'
  <2>1. CASE PredictStep(q)
    BY <2>1, Tables DEF PredictStep, PredictBegin, PredictPersist, PredictFail, RunStatus
  <2>2. CASE ApproveStep(q)
    BY <2>2 DEF ApproveStep, Approve
  <2>3. CASE StartStep(q)
    BY <2>3 DEF StartStep, StartRequest, StartAttached, StartChecked, StartExecution,
                StartRecord, row
  <2>4. CASE SyncStep(q)
    BY <2>4 DEF SyncStep, SyncRequest, SyncDescribe, SyncCommit
  <2>5. CASE AbortStep(q)
    BY <2>5 DEF AbortStep, AbortRequest, AbortStop, AbortCommit, row
  <2>6. CASE VerifyStep(q)
    BY <2>6 DEF VerifyStep, VerifyRequest, VerifyMark, VerifyHandlers, VerifyFinalize
  <2>7. CASE DiscardStep(q) \/ RequestStop(q)
    BY <2>7 DEF DiscardStep, DiscardRequest, DiscardCommit, RequestStop, row
  <2>8. QED
    BY <1>1, <2>1, <2>2, <2>3, <2>4, <2>5, <2>6, <2>7 DEF RequestStep
<1>2. ASSUME NEW to \in PatchTo, Patch(to) PROVE ~Exists'
  BY <1>2, Tables DEF Patch, RunStatus
<1>3. CASE ExecutionStep
  BY <1>3 DEF ExecutionStep, ExecutionPersist, ExecutionEnd, row
<1>4. CASE UNCHANGED vars
  BY <1>4 DEF vars
<1>5. QED
  BY <1>1, <1>2, <1>3, <1>4 DEF Next

(* A prediction and an approval stay as long as the row does.              *)
LEMMA ApprovalKept ==
    ASSUME TypeOK, [Next]_vars, Exists'
    PROVE  /\ prediction => prediction'
           /\ approval # "none" => approval' = approval
           /\ approval' # approval => \E q \in Request : ApproveStep(q)
<1>1. ASSUME NEW q \in Request, RequestStep(q), ~ApproveStep(q)
      PROVE  (prediction => prediction') /\ approval' = approval
  <2>1. CASE PredictStep(q)
    BY <2>1 DEF PredictStep, PredictBegin, PredictPersist, PredictFail
  <2>2. CASE StartStep(q)
    BY <2>2 DEF StartStep, StartRequest, StartAttached, StartChecked, StartExecution,
                StartRecord, row
  <2>3. CASE SyncStep(q) \/ AbortStep(q)
    BY <2>3 DEF SyncStep, SyncRequest, SyncDescribe, SyncCommit,
                AbortStep, AbortRequest, AbortStop, AbortCommit, row
  <2>4. CASE VerifyStep(q)
    BY <2>4 DEF VerifyStep, VerifyRequest, VerifyMark, VerifyHandlers, VerifyFinalize, row
  <2>5. CASE DiscardStep(q) \/ RequestStop(q)
    BY <2>5 DEF DiscardStep, DiscardRequest, DiscardCommit, RequestStop, row, Exists
  <2>6. QED
    BY <1>1, <2>1, <2>2, <2>3, <2>4, <2>5 DEF RequestStep
<1>2. ASSUME NEW q \in Request, ApproveStep(q)
      PROVE  prediction' = prediction /\ approval = "none"
  BY <1>2 DEF ApproveStep, Approve
<1>3. ASSUME NEW to \in PatchTo, Patch(to)
      PROVE  prediction' = prediction /\ approval' = approval
  BY <1>3 DEF Patch
<1>4. CASE ExecutionStep \/ UNCHANGED vars
  BY <1>4 DEF ExecutionStep, ExecutionPersist, ExecutionEnd, row, vars
<1>5. QED
  BY <1>1, <1>2, <1>3, <1>4 DEF Next

-----------------------------------------------------------------------------
(* The inductive invariant.                                                *)

LEMMA InitInv == Init => Inv
<1> SUFFICES ASSUME Init PROVE Inv
  OBVIOUS
<1>1. \A q \in Request : req[q].pc = "idle"
  BY DEF Init, IdleRequest
<1>2. QED
  BY <1>1, InitType DEF Init, Inv, Gate, Begun, Cleared, Decided

(* A request past its guards, or anything begun for the run, knows that    *)
(* the run was approved and so is running or settled.                      *)
LEMMA BegunIsApproved ==
    ASSUME Inv, Exists, Begun
    PROVE  prediction /\ approval = "proceed" /\ status \in {"running"} \cup Settled
  BY DEF Inv, Gate, Decided

(* Every change of the status is legal.                                    *)
LEMMA StepLegal ==
    ASSUME Inv, [Next]_vars, status' # status, Exists'
    PROVE  CanMove(status, status')
<1>0. TypeOK /\ Exists
  BY NotBack DEF Inv
<1>1. ASSUME NEW q \in Request, RequestStep(q) PROVE CanMove(status, status')
  <2>0. req[q].pc \in Cleared => status \in {"running"} \cup Settled
    BY <1>0, BegunIsApproved DEF Begun
  <2>1. CASE PredictStep(q)
    BY <2>1, Tables DEF PredictStep, PredictBegin, PredictPersist, PredictFail
  <2>2. CASE ApproveStep(q)
    <3>1. \A d \in Decision : DecisionToStatus[d] \in {"running"} \cup Settled
      BY DEF Decision, DecisionToStatus, Settled
    <3>2. QED
      BY <2>2, <3>1, Tables DEF ApproveStep, Approve
  <2>3. CASE StartStep(q)
    BY <2>0, <2>3 DEF StartStep, StartRequest, StartAttached, StartChecked, StartExecution,
                      StartRecord, row, Cleared, Settled
  <2>4. CASE SyncStep(q)
    <3>1. SyncCommit(q)
      BY <2>4 DEF SyncStep, SyncRequest, SyncDescribe, row
    <3>2. \/ status = "running" /\ status' = "completed"
          \/ status \notin Settled /\ status' = "failed"
      BY <3>1 DEF SyncCommit, SyncedStatus
    <3>3. QED
      BY <1>0, <3>2, Tables DEF TypeOK, Exists, Settled
  <2>5. CASE AbortStep(q)
    BY <2>5, Tables DEF AbortStep, AbortRequest, AbortStop, AbortCommit, row, Settled
  <2>6. CASE VerifyStep(q)
    BY <2>0, <2>6, Tables DEF VerifyStep, VerifyRequest, VerifyMark, VerifyHandlers,
                              VerifyFinalize, row, Cleared, Settled
  <2>7. CASE DiscardStep(q) \/ RequestStop(q)
    BY <2>7 DEF DiscardStep, DiscardRequest, DiscardCommit, RequestStop, row, Exists
  <2>8. QED
    BY <1>1, <2>1, <2>2, <2>3, <2>4, <2>5, <2>6, <2>7 DEF RequestStep
<1>2. ASSUME NEW to \in PatchTo, Patch(to) PROVE CanMove(status, status')
  BY <1>2 DEF Patch
<1>3. CASE ExecutionStep \/ UNCHANGED vars
  BY <1>3 DEF ExecutionStep, ExecutionPersist, ExecutionEnd, row, vars
<1>4. QED
  BY <1>1, <1>2, <1>3 DEF Next

(* Nothing begins without the approval: the step of a request that begins  *)
(* something has just read it.                                             *)
LEMMA StepGate ==
    ASSUME Inv, [Next]_vars
    PROVE  Gate'
<1> SUFFICES ASSUME Exists', Begun' PROVE prediction' /\ approval' = "proceed"
  BY DEF Gate
<1>0. TypeOK /\ Exists
  BY NotBack DEF Inv
<1>1. CASE prediction /\ approval = "proceed"
  BY <1>0, <1>1, ApprovalKept
<1>2. CASE ~(prediction /\ approval = "proceed")
  <2>0. /\ execution = "not_started" /\ ~result /\ arn = "none"
        /\ \A p \in Request : req[p].pc \notin Cleared
    BY <1>0, <1>2 DEF Inv, Gate, Begun
  <2>1. ASSUME NEW q \in Request, RequestStep(q) PROVE FALSE
    <3>0. req[q].pc \notin Cleared
      BY <2>0
    <3>1. /\ execution' = "not_started" /\ ~result' /\ arn' = "none"
          /\ \/ \E pc \in {"idle", "predict", "start", "discard"} : Goto(q, pc)
             \/ Done(q)
             \/ UNCHANGED req
      <4>1. CASE PredictStep(q)
        BY <2>0, <4>1 DEF PredictStep, PredictBegin, PredictPersist, PredictFail
      <4>2. CASE ApproveStep(q)
        BY <2>0, <4>2 DEF ApproveStep, Approve
      <4>3. CASE StartStep(q)
        BY <1>2, <2>0, <3>0, <4>3 DEF StartStep, StartRequest, StartAttached, StartChecked,
           StartGuard, StartExecution, StartRecord, row, Cleared
      <4>4. CASE SyncStep(q) \/ AbortStep(q)
        BY <2>0, <3>0, <4>4 DEF SyncStep, SyncRequest, SyncDescribe, SyncCommit,
                AbortStep, AbortRequest, AbortStop, AbortCommit, Cleared
      <4>5. CASE VerifyStep(q)
        BY <1>2, <3>0, <4>5 DEF VerifyStep, VerifyRequest, VerifyMark, VerifyHandlers,
                                VerifyFinalize, Cleared
      <4>6. CASE DiscardStep(q) \/ RequestStop(q)
        BY <2>0, <4>6 DEF DiscardStep, DiscardRequest, DiscardCommit, RequestStop, row
      <4>7. QED
        BY <2>1, <4>1, <4>2, <4>3, <4>4, <4>5, <4>6 DEF RequestStep
    <3>2. \A p \in Request : req'[p].pc \notin Cleared
      <4>1. CASE UNCHANGED req
        BY <2>0, <4>1
      <4>2. ASSUME NEW pc \in {"idle", "predict", "start", "discard"}, Goto(q, pc) \/ Done(q)
            PROVE  \A p \in Request : req'[p].pc \notin Cleared
        <5>1. req'[q].pc \notin Cleared
          BY <1>0, <4>2, Moves DEF Cleared
        <5>2. \A p \in Request \ {q} : req'[p] = req[p]
          BY <1>0, <4>2, Moves
        <5>3. QED
          BY <2>0, <5>1, <5>2
      <4>3. QED
        BY <3>1, <4>1, <4>2
    <3>3. QED
      BY <3>1, <3>2 DEF Begun
  <2>2. ASSUME NEW to \in PatchTo, Patch(to) PROVE FALSE
    BY <2>0, <2>2 DEF Patch, Begun
  <2>3. CASE ExecutionStep
    BY <2>0, <2>3 DEF ExecutionStep, ExecutionPersist, ExecutionEnd
  <2>4. CASE UNCHANGED vars
    BY <2>0, <2>4 DEF vars, Begun
  <2>5. QED
    BY <2>1, <2>2, <2>3, <2>4 DEF Next
<1>3. QED
  BY <1>1, <1>2

(* The status keeps to the decision: approve writes both in one commit,    *)
(* and only the execution's end moves an approved run further.             *)
LEMMA StepDecided ==
    ASSUME Inv, [Next]_vars
    PROVE  Decided'
<1> SUFFICES ASSUME Exists'
             PROVE  /\ approval' = "proceed" => status' \in {"running"} \cup Settled
                    /\ approval' = "accept_recommended" => status' = "completed"
                    /\ approval' = "cancel" => status' = "failed"
  BY DEF Decided
<1>0. TypeOK /\ Exists
  BY NotBack DEF Inv
<1>1. CASE approval' = approval
  <2>1. CASE status' = status
    BY <1>0, <1>1, <2>1 DEF Inv, Decided
  <2>2. CASE status' # status
    <3>1. CanMove(status, status')
      BY <2>2, StepLegal
    <3>2. status \notin Settled
      BY <3>1, Tables
    <3>3. approval = "proceed" \/ approval \notin Decision
      BY <1>0, <3>2 DEF Inv, Decided, Decision, Settled
    <3>4. approval = "proceed" => status = "running"
      BY <1>0, <3>2 DEF Inv, Decided
    <3>5. QED
      BY <1>1, <3>1, <3>3, <3>4, Tables DEF Decision
  <2>3. QED
    BY <2>1, <2>2
<1>2. CASE approval' # approval
  <2>1. PICK q \in Request : ApproveStep(q)
    BY <1>0, <1>2, ApprovalKept
  <2>2. PICK d \in Decision : Approve(q, d)
    BY <2>1 DEF ApproveStep
  <2>3. QED
    BY <2>2 DEF Approve, DecisionToStatus, Decision, Settled
<1>3. QED
  BY <1>1, <1>2

LEMMA NextInv == Inv /\ [Next]_vars => Inv'
  BY NextType, StepGate, StepDecided DEF Inv

(* Inv holds in every reachable state.                                     *)
THEOREM Invariant == Spec => []Inv
<1>1. Inv /\ [Next]_vars => Inv'
  BY NextInv
<1>2. QED
  BY InitInv, <1>1, PTL DEF Spec

-----------------------------------------------------------------------------
(* What follows.                                                           *)

(* Whatever requests overlap, nothing is executed that was not predicted   *)
(* and approved (require_prediction_and_approval).                         *)
THEOREM ApprovalGate == Spec => []ExecutionApproved
<1>1. Inv => ExecutionApproved
  BY DEF Inv, Gate, Begun, ExecutionApproved
<1>2. QED
  BY Invariant, <1>1, PTL

(* A cancelled run, and one that ended with the recommended plan, keeps    *)
(* its status and is never executed (approve).                             *)
THEOREM DecisionsKept == Spec => []DecisionRespected
<1>1. Inv => DecisionRespected
  <2> SUFFICES ASSUME Inv, Exists, approval \in {"cancel", "accept_recommended"}
               PROVE  /\ status = DecisionToStatus[approval]
                      /\ arn = "none" /\ execution = "not_started" /\ ~result
    BY DEF DecisionRespected
  <2>1. ~Begun
    BY DEF Inv, Gate
  <2>2. status = DecisionToStatus[approval]
    BY DEF Inv, Decided, DecisionToStatus, Decision
  <2>3. QED
    BY <2>1, <2>2 DEF Begun
<1>2. QED
  BY Invariant, <1>1, PTL

(* No request takes a run along a transition that the table of the status  *)
(* machine does not have, validated or not (ALLOWED_STATUS_TRANSITIONS).   *)
THEOREM StatusLegal == Spec => LegalStatus
<1>1. Inv /\ [Next]_vars =>
        [status' # status /\ status' # "deleted" => CanMove(status, status')]_vars
  BY StepLegal DEF Exists
<1>2. QED
  BY Invariant, <1>1, PTL DEF Spec, LegalStatus

(* A notification sent is about the status the same commit leaves.         *)
LEMMA StepNotice ==
    ASSUME TypeOK, [Next]_vars
    PROVE  notified' \subseteq notified \cup {status'}
<1>1. ASSUME Notify(status') PROVE notified' \subseteq notified \cup {status'}
  BY <1>1 DEF Notify
<1>2. ASSUME NEW q \in Request, RequestStep(q) PROVE notified' = notified \/ Notify(status')
  <2>1. CASE PredictStep(q) \/ ApproveStep(q)
    BY <2>1 DEF PredictStep, PredictBegin, PredictPersist, PredictFail, ApproveStep, Approve
  <2>2. CASE StartStep(q)
    BY <2>2 DEF StartStep, StartRequest, StartAttached, StartChecked, StartExecution, StartRecord
  <2>3. CASE SyncStep(q)
    BY <2>3 DEF SyncStep, SyncRequest, SyncDescribe, SyncCommit
  <2>4. CASE AbortStep(q)
    <3>1. CASE AbortCommit(q) /\ status' = "failed"
      BY <3>1 DEF AbortCommit
    <3>2. QED
      BY <2>4, <3>1 DEF AbortStep, AbortRequest, AbortStop, AbortCommit
  <2>5. CASE VerifyStep(q)
    BY <2>5 DEF VerifyStep, VerifyRequest, VerifyMark, VerifyHandlers, VerifyFinalize
  <2>6. CASE DiscardStep(q) \/ RequestStop(q)
    BY <2>6 DEF DiscardStep, DiscardRequest, DiscardCommit, RequestStop
  <2>7. QED
    BY <1>2, <2>1, <2>2, <2>3, <2>4, <2>5, <2>6 DEF RequestStep
<1>3. ASSUME NEW to \in PatchTo, Patch(to) PROVE notified' = notified
  BY <1>3 DEF Patch
<1>4. CASE ExecutionStep \/ UNCHANGED vars
  BY <1>4 DEF ExecutionStep, ExecutionPersist, ExecutionEnd, vars
<1>5. QED
  BY <1>1, <1>2, <1>3, <1>4 DEF Next

(* A terminal notification says what became of the run, for good           *)
(* (_notify_terminal).                                                     *)
THEOREM NoticesTrue == Spec => []NoticeMatchesOutcome
<1>1. Init => NoticeMatchesOutcome
  BY DEF Init, NoticeMatchesOutcome
<1>2. Inv /\ NoticeMatchesOutcome /\ [Next]_vars => NoticeMatchesOutcome'
  <2> SUFFICES ASSUME Inv, NoticeMatchesOutcome, [Next]_vars, Exists',
                      NEW k \in notified', status' # k
               PROVE  FALSE
    BY DEF NoticeMatchesOutcome
  <2>0. TypeOK /\ Exists
    BY NotBack DEF Inv
  <2>1. status = k /\ k \in Settled
    BY <2>0, StepNotice DEF NoticeMatchesOutcome, TypeOK
  <2>2. QED
    BY <2>1, StepLegal, Tables
<1>3. QED
  BY Invariant, <1>1, <1>2, PTL DEF Spec

-----------------------------------------------------------------------------
(* What completes a run.  An execution that has succeeded, a sync that was *)
(* told so and a local verification past its handlers all vouch for a      *)
(* result; a result goes only with the row.                                *)

Vouches(r) == r.pc = "finalize" \/ (r.pc = "sync" /\ r.told = "succeeded")

Vouched == execution = "succeeded" \/ \E q \in Request : Vouches(req[q])

Evidence == Exists => (Vouched => result) /\ CompletedHasEvidence

LEMMA InitEvidence == Init => Evidence
<1> SUFFICES ASSUME Init PROVE Evidence
  OBVIOUS
<1>1. \A q \in Request : ~Vouches(req[q])
  BY DEF Init, IdleRequest, Vouches
<1>2. QED
  BY <1>1 DEF Init, Evidence, Vouched, CompletedHasEvidence

LEMMA ResultKept ==
    ASSUME TypeOK, [Next]_vars, Exists', result
    PROVE  result'
<1>1. ASSUME NEW q \in Request, RequestStep(q) PROVE result'
  <2>1. CASE PredictStep(q) \/ ApproveStep(q)
    BY <2>1 DEF PredictStep, PredictBegin, PredictPersist, PredictFail, ApproveStep, Approve
  <2>2. CASE StartStep(q)
    BY <2>2 DEF StartStep, StartRequest, StartAttached, StartChecked, StartExecution,
                StartRecord, row
  <2>3. CASE SyncStep(q) \/ AbortStep(q)
    BY <2>3 DEF SyncStep, SyncRequest, SyncDescribe, SyncCommit,
                AbortStep, AbortRequest, AbortStop, AbortCommit, row
  <2>4. CASE VerifyStep(q)
    BY <2>4 DEF VerifyStep, VerifyRequest, VerifyMark, VerifyHandlers, VerifyFinalize, row
  <2>5. CASE DiscardStep(q) \/ RequestStop(q)
    BY <2>5 DEF DiscardStep, DiscardRequest, DiscardCommit, RequestStop, row, Exists
  <2>6. QED
    BY <1>1, <2>1, <2>2, <2>3, <2>4, <2>5 DEF RequestStep
<1>2. ASSUME NEW to \in PatchTo, Patch(to) PROVE result'
  BY <1>2 DEF Patch
<1>3. CASE ExecutionStep \/ UNCHANGED vars
  BY <1>3 DEF ExecutionStep, ExecutionPersist, ExecutionEnd, row, vars
<1>4. QED
  BY <1>1, <1>2, <1>3 DEF Next

(* A request that moves on vouches only if its new place does.             *)
LEMMA NobodyVouches ==
    ASSUME TypeOK, NEW q \in Request, \A p \in Request : ~Vouches(req[p]),
           \/ \E pc \in {"idle", "predict", "start", "launch", "describe", "stop", "abort", "mark",
                        "handlers", "discard"} : Goto(q, pc)
           \/ \E w : GotoTold(q, "record", w)
           \/ \E w : w # "succeeded" /\ GotoTold(q, "sync", w)
           \/ Done(q)
           \/ UNCHANGED req
    PROVE  \A p \in Request : ~Vouches(req'[p])
<1>0. req[q] \in RequestRecord
  BY DEF TypeOK
<1>1. CASE UNCHANGED req
  BY <1>1
<1>2. CASE ~UNCHANGED req
  <2>1. \A p \in Request \ {q} : req'[p] = req[p]
    BY <1>2, Moves
  <2>2. ~Vouches(req'[q])
    <3>1. CASE \E w : w # "succeeded" /\ GotoTold(q, "sync", w)
      BY <3>1 DEF GotoTold, Vouches, TypeOK
    <3>2. CASE ~\E w : w # "succeeded" /\ GotoTold(q, "sync", w)
      <4>1. req'[q].pc \notin {"finalize", "sync"}
        BY <1>2, <3>2, Moves
      <4>2. QED
        BY <4>1 DEF Vouches
    <3>3. QED
      BY <3>1, <3>2
  <2>3. QED
    BY <2>1, <2>2
<1>3. QED
  BY <1>1, <1>2

(* Without a result nothing comes to vouch for one.                        *)
LEMMA StepVouched ==
    ASSUME Inv, Evidence, [Next]_vars, Exists', ~result'
    PROVE  ~Vouched'
<1>0. TypeOK /\ Exists
  BY NotBack DEF Inv
<1>1. ~result /\ execution # "succeeded" /\ \A p \in Request : ~Vouches(req[p])
  BY <1>0, ResultKept DEF Evidence, Vouched
<1>2. SUFFICES execution' # "succeeded" /\ \A p \in Request : ~Vouches(req'[p])
  BY DEF Vouched, Vouches
<1>3. ASSUME NEW q \in Request, RequestStep(q)
      PROVE  execution' # "succeeded" /\ \A p \in Request : ~Vouches(req'[p])
  <2>1. CASE PredictStep(q)
    BY <1>0, <1>1, <2>1, NobodyVouches
       DEF PredictStep, PredictBegin, PredictPersist, PredictFail
  <2>2. CASE ApproveStep(q)
    BY <1>0, <1>1, <2>2, NobodyVouches DEF ApproveStep, Approve
  <2>3. CASE StartStep(q)
    BY <1>0, <1>1, <2>3, NobodyVouches
       DEF StartStep, StartRequest, StartAttached, StartChecked, StartExecution, StartRecord
  <2>4. CASE SyncStep(q)
    BY <1>0, <1>1, <2>4, NobodyVouches DEF SyncStep, SyncRequest, SyncDescribe, SyncCommit
  <2>5. CASE AbortStep(q)
    BY <1>0, <1>1, <2>5, NobodyVouches DEF AbortStep, AbortRequest, AbortStop, AbortCommit
  <2>6. CASE VerifyStep(q)
    BY <1>0, <1>1, <2>6, NobodyVouches
       DEF VerifyStep, VerifyRequest, VerifyMark, VerifyHandlers, VerifyFinalize
  <2>7. CASE DiscardStep(q) \/ RequestStop(q)
    BY <1>0, <1>1, <2>7, NobodyVouches DEF DiscardStep, DiscardRequest, DiscardCommit, RequestStop
  <2>8. QED
    BY <1>3, <2>1, <2>2, <2>3, <2>4, <2>5, <2>6, <2>7 DEF RequestStep
<1>4. ASSUME NEW to \in PatchTo, Patch(to)
      PROVE  execution' # "succeeded" /\ \A p \in Request : ~Vouches(req'[p])
  BY <1>1, <1>4 DEF Patch
<1>5. CASE ExecutionStep \/ UNCHANGED vars
  BY <1>0, <1>1, <1>5 DEF ExecutionStep, ExecutionPersist, ExecutionEnd, vars
<1>6. QED
  BY <1>3, <1>4, <1>5 DEF Next

(* A step that completes a run takes the recommended plan, or somebody     *)
(* vouched for its result.                                                 *)
LEMMA StepCompletes ==
    ASSUME Inv, Evidence, [Next]_vars, "completed" \notin PatchTo, status' = "completed"
    PROVE  approval' = "accept_recommended" \/ result'
<1>0. TypeOK /\ Exists /\ Exists'
  BY NotBack DEF Inv, Exists
<1>1. CASE status = "completed"
  <2>1. approval = "accept_recommended" => approval' = approval
    BY <1>0, ApprovalKept
  <2>2. QED
    BY <1>0, <1>1, <2>1, ResultKept DEF Evidence, CompletedHasEvidence
<1>2. CASE status # "completed"
  <2>1. ASSUME NEW q \in Request, RequestStep(q)
        PROVE  approval' = "accept_recommended" \/ Vouches(req[q])
    <3>1. CASE PredictStep(q)
      BY <1>2, <3>1 DEF PredictStep, PredictBegin, PredictPersist, PredictFail
    <3>2. CASE ApproveStep(q)
      BY <1>2, <3>2 DEF ApproveStep, Approve, DecisionToStatus, Decision
    <3>3. CASE StartStep(q)
      BY <1>2, <3>3 DEF StartStep, StartRequest, StartAttached, StartChecked, StartExecution,
                        StartRecord, row
    <3>4. CASE SyncStep(q)
      BY <1>2, <3>4 DEF SyncStep, SyncRequest, SyncDescribe, SyncCommit, SyncedStatus, row,
                        Vouches
    <3>5. CASE AbortStep(q)
      BY <1>2, <3>5 DEF AbortStep, AbortRequest, AbortStop, AbortCommit, row
    <3>6. CASE VerifyStep(q)
      BY <1>2, <3>6 DEF VerifyStep, VerifyRequest, VerifyMark, VerifyHandlers, VerifyFinalize,
                        row, Vouches
    <3>7. CASE DiscardStep(q) \/ RequestStop(q)
      BY <1>2, <3>7 DEF DiscardStep, DiscardRequest, DiscardCommit, RequestStop, row
    <3>8. QED
      BY <2>1, <3>1, <3>2, <3>3, <3>4, <3>5, <3>6, <3>7 DEF RequestStep
  <2>2. ASSUME NEW to \in PatchTo, Patch(to) PROVE FALSE
    BY <2>2 DEF Patch
  <2>3. CASE ExecutionStep \/ UNCHANGED vars
    BY <1>2, <2>3 DEF ExecutionStep, ExecutionPersist, ExecutionEnd, row, vars
  <2>4. QED
    BY <1>0, <2>1, <2>2, <2>3, ResultKept DEF Next, Evidence, Vouched
<1>3. QED
  BY <1>1, <1>2

(* With nobody PATCHing a run to completed, a completed run took the       *)
(* recommended plan or has its execution result, however stale the answers *)
(* its syncs recorded (sync_status, verify-local).                         *)
THEOREM CompletionEvident ==
    ASSUME "completed" \notin PatchTo
    PROVE  Spec => []CompletedHasEvidence
<1>1. Inv /\ Evidence /\ [Next]_vars => Evidence'
  <2> SUFFICES ASSUME Inv, Evidence, [Next]_vars, Exists'
               PROVE  (Vouched' => result') /\ CompletedHasEvidence'
    BY DEF Evidence
  <2>1. Vouched' => result'
    BY StepVouched
  <2>2. CompletedHasEvidence'
    BY StepCompletes DEF CompletedHasEvidence
  <2>3. QED
    BY <2>1, <2>2
<1>2. Evidence => CompletedHasEvidence
  BY DEF Evidence, CompletedHasEvidence, Exists
<1>3. QED
  BY Invariant, InitEvidence, <1>1, <1>2, PTL DEF Spec
=============================================================================
