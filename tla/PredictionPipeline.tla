------------------------- MODULE PredictionPipeline -------------------------
(***************************************************************************)
(* The prediction pipeline of one run (services/prediction_pipeline_       *)
(* service.py, prediction/): the snapshot on record is loaded once, the    *)
(* policy engine and the memory say what they know, Bedrock is asked for a *)
(* prediction and a recommendation, each repaired at most once, and all of *)
(* it is stored in one transaction.  Several pipelines may be at work on   *)
(* the run, each may die with its process, discoveries replace the         *)
(* snapshot and PATCH moves the run's status meanwhile.                    *)
(***************************************************************************)
EXTENDS SchemaDiscovery

CONSTANTS
    Pipe,        \* the pipelines that may be at work
    Statements,  \* the parsed statements of the migration
    SqlText,     \* the words its text holds
    Memories,    \* the memories there are
    RunOwner,    \* the run's owner
    RawScores,   \* the confidences considered
    MaxStarts    \* bound of this model on how many pipelines are started

\* create_migration_run refuses a migration of more than one statement.
ASSUME OneStatement ==
    \A s, t \in Statements : s # t => "empty" \in {s.kind, t.kind}

VARIABLES
    status,      \* the run's status
    prediction,  \* the run's prediction with what was stored beside it
    recorded,    \* every snapshot that was on the run
    pipe,        \* the pipelines
    starts,      \* how many were started
    lost         \* history: since a pipeline last took up the run, one ended
                 \* without a word on it or it was moved to predicting by hand

runVars == <<status, prediction, recorded, lost>>
vars == <<discoveryVars, runVars, pipe, starts>>

Verdict == Analyze(Statements, <<>>, RuleId)

IdlePipe ==
    [pc |-> "idle", read |-> None, snapshot |-> None, policy |-> Verdict,
     retrieved |-> NoRetrieval, predicted |-> None, repaired |-> FALSE]

Working(p) == pipe[p].pc # "idle"

RunStatus == {"pending", "predicting", "awaiting_approval", "running", "completed", "failed"}

ALLOWED_STATUS_TRANSITIONS == [s \in RunStatus |->
    CASE s = "pending"           -> {"predicting", "failed"}
      [] s = "predicting"        -> {"awaiting_approval", "failed"}
      [] s = "awaiting_approval" -> {"running", "completed", "failed"}
      [] s = "running"           -> {"completed", "failed"}
      [] OTHER                   -> {}]

CanMove(new) == new \in ALLOWED_STATUS_TRANSITIONS[status]

Init ==
    /\ DiscoveryInit
    /\ status = "pending" /\ prediction = None
    /\ recorded = {None}
    /\ pipe = [p \in Pipe |-> IdlePipe] /\ starts = 0
    /\ lost = FALSE

-----------------------------------------------------------------------------
(* What a pipeline makes of the snapshot it loaded.                        *)
Index(s) == IF s = None THEN <<>> ELSE RowIndex(s)

TotalRows(s) == IF s = None THEN Unknown ELSE TotalEstimatedRows(s)

ScaleTierOf(s) == SelectScaleTier(TotalRows(s))

MigrationType == ClassifyMigrationType(SqlText)

Query(s, policy) ==
    [owner |-> RunOwner, type |-> MigrationType, tier |-> ScaleTierOf(s),
     shape |-> IF s = None THEN {} ELSE {SummarizeSchema(s)},
     flags |-> {f.rule : f \in policy.flags}]

Predicted(s, policy, retrieved, raw) ==
    AdjustConfidence(raw, Reasons(policy, retrieved, ScaleTierOf(s), TotalRows(s), MigrationType))

-----------------------------------------------------------------------------
AtStep(p, pc) == pipe[p].pc = pc

Move(p, pc) == pipe' = [pipe EXCEPT ![p].pc = pc]

End(p) == pipe' = [pipe EXCEPT ![p] = IdlePipe]

(* The try block is left; what the session knows of the status is read.    *)
Fails(p, read) == pipe' = [pipe EXCEPT ![p] = [IdlePipe EXCEPT !.pc = "failing", !.read = read]]

(* A pipeline refuses a run that has a prediction, and any that is neither *)
(* pending nor predicting.                                                 *)
Start(p) ==
    /\ ~Working(p) /\ starts < MaxStarts
    /\ starts' = starts + 1
    /\ IF prediction = None /\ status \in {"pending", "predicting"}
         THEN /\ Move(p, IF status = "pending" THEN "mark" ELSE "load")
              /\ lost' = (lost /\ status = "pending")
         ELSE End(p) /\ UNCHANGED lost
    /\ UNCHANGED <<discoveryVars, status, prediction, recorded>>

MarkPredicting(p) ==
    /\ AtStep(p, "mark")
    /\ \/ /\ CanMove("predicting")
          /\ status' = "predicting" /\ lost' = FALSE /\ Move(p, "load")
       \/ ~CanMove("predicting") /\ End(p) /\ UNCHANGED <<status, lost>>
    /\ UNCHANGED <<discoveryVars, prediction, recorded, starts>>

(* From the read of the run to the verdict nothing is awaited.  A policy   *)
(* file that cannot be read fails the pipeline.                            *)
LoadAndAnalyze(p) ==
    /\ AtStep(p, "load")
    /\ \/ pipe' = [pipe EXCEPT ![p].read = status,
                               ![p].snapshot = snapshot,
                               ![p].policy = Analyze(Statements, Index(snapshot), RuleId),
                               ![p].pc = "memory"]
       \/ Fails(p, status)
    /\ UNCHANGED <<discoveryVars, runVars, starts>>

(* No embedding, no retrieval: the pipeline fails.                         *)
RetrieveMemories(p) ==
    /\ AtStep(p, "memory")
    /\ \/ \E sharedRead \in BOOLEAN :
             \E found \in Retrievals(Memories, Query(pipe[p].snapshot, pipe[p].policy), sharedRead) :
                pipe' = [pipe EXCEPT ![p].retrieved = found, ![p].pc = "predict"]
       \/ Fails(p, pipe[p].read)
    /\ UNCHANGED <<discoveryVars, runVars, starts>>

(* Bedrock refuses every model id it may be asked by, the transport fails  *)
(* or the answer is empty.                                                 *)
BedrockFails(p) == Fails(p, pipe[p].read)

(* An answer that does not validate is asked for once more; one that does  *)
(* not come, or does not validate twice, fails the pipeline.               *)
Repair(p) ==
    \/ ~pipe[p].repaired /\ pipe' = [pipe EXCEPT ![p].repaired = TRUE]
    \/ pipe[p].repaired /\ Fails(p, pipe[p].read)

Predict(p) ==
    /\ AtStep(p, "predict")
    /\ \/ \E raw \in RawScores :
             pipe' = [pipe EXCEPT ![p].predicted =
                                    Predicted(pipe[p].snapshot, pipe[p].policy, pipe[p].retrieved, raw),
                                  ![p].repaired = FALSE, ![p].pc = "recommend"]
       \/ Repair(p)
       \/ BedrockFails(p)
    /\ UNCHANGED <<discoveryVars, runVars, starts>>

(* Mutant: a failure of the recommendation is not caught.                  *)
RecommendUncaught(p) ==
    /\ AtStep(p, "recommend")
    /\ Move(p, "persist") \/ Repair(p) \/ End(p)
    /\ UNCHANGED <<discoveryVars, runVars, starts>>

(* The agent skills are asked first, as far as they can be read.  A        *)
(* blocked run that had failed when it was loaded gets no recommendation.  *)
Recommend(p) ==
    /\ AtStep(p, "recommend")
    /\ \/ Move(p, "persist")
       \/ /\ ~(pipe[p].policy.decision = "block" /\ pipe[p].read = "failed")
          /\ Repair(p) \/ BedrockFails(p)
    /\ UNCHANGED <<discoveryVars, runVars, starts>>

(* Mutant: the tier is of the snapshot that is on the run by now.          *)
ExplainedOfRow(p) ==
    [policy |-> pipe[p].policy, tier |-> ScaleTierOf(snapshot),
     memory |-> pipe[p].retrieved, confidence |-> pipe[p].predicted]

(* What is stored with a prediction (_build_explainability).               *)
Explained(p) ==
    [policy |-> pipe[p].policy, tier |-> ScaleTierOf(pipe[p].snapshot),
     memory |-> pipe[p].retrieved, confidence |-> pipe[p].predicted]

PersistPrediction(p) ==
    /\ AtStep(p, "persist")
    /\ \/ /\ CanMove("awaiting_approval")
          /\ status' = "awaiting_approval"
          /\ prediction' = Explained(p)
          /\ End(p)
       \/ ~CanMove("awaiting_approval") /\ Fails(p, status) /\ UNCHANGED <<status, prediction>>
    /\ UNCHANGED <<discoveryVars, recorded, starts, lost>>

(* _fail_run, best effort itself.  It asks for the status the session has  *)
(* read last; the retried update_status moves whatever the run is by then, *)
(* one that awaits its approval or is running included.                    *)
FailRun(p) ==
    /\ AtStep(p, "failing")
    /\ End(p)
    /\ \/ /\ status' = (IF pipe[p].read = "predicting" /\ CanMove("failed")
                       THEN "failed" ELSE status)
          /\ UNCHANGED lost
       \/ lost' = TRUE /\ UNCHANGED status
    /\ UNCHANGED <<discoveryVars, prediction, recorded, starts>>

(* The process dies, or reading the run fails before the try block.        *)
Crash(p) ==
    /\ Working(p)
    /\ End(p) /\ lost' = TRUE
    /\ UNCHANGED <<discoveryVars, status, prediction, recorded, starts>>

(* update_status, for PATCH /runs/{id}; the decision on the run and its    *)
(* workflow make no other moves.                                           *)
UpdateStatus(new) ==
    /\ CanMove(new)
    /\ status' = new
    /\ lost' = (lost \/ new = "predicting")
    /\ UNCHANGED <<discoveryVars, prediction, recorded, pipe, starts>>

PipeNext ==
    \/ \E new \in RunStatus : UpdateStatus(new)
    \/ \E p \in Pipe :
          \/ Start(p) \/ MarkPredicting(p) \/ LoadAndAnalyze(p)
          \/ RetrieveMemories(p) \/ Predict(p) \/ Recommend(p) \/ PersistPrediction(p)
          \/ FailRun(p) \/ Crash(p)

Next ==
    \/ /\ DiscoveryNext
       /\ recorded' = recorded \cup {snapshot'}
       /\ UNCHANGED <<status, prediction, lost, pipe, starts>>
    \/ PipeNext

Spec == Init /\ [][Next]_vars

-----------------------------------------------------------------------------
TypeOK ==
    /\ catalog \in Catalogue /\ past \subseteq Catalogue
    /\ discovery \in {"none", "succeeded", "rejected", "failed"}
    /\ (discovery = "succeeded") <=> (snapshot # None)
    /\ snapshot # None => DatabaseMetadata(snapshot)
    /\ status \in RunStatus /\ lost \in BOOLEAN
    /\ prediction # None => prediction.policy.decision \in PolicyDecision
    /\ \A p \in Pipe : pipe[p].policy.decision \in PolicyDecision

(* The verdict, the scale tier and the confidence stored together are of   *)
(* one snapshot that was on the run, whatever discoveries stored or wiped  *)
(* while Bedrock was asked (run_prediction_pipeline).                      *)
PredictionOfOneSnapshot ==
    prediction # None =>
        \E s \in recorded, sharedRead \in BOOLEAN :
            LET policy == Analyze(Statements, Index(s), RuleId) IN
            /\ prediction.policy = policy
            /\ prediction.tier = ScaleTierOf(s)
            /\ prediction.memory \in Retrievals(Memories, Query(s, policy), sharedRead)
            /\ prediction.confidence
                 = Predicted(s, policy, prediction.memory, prediction.confidence.raw)

(* A run is left predicting with nobody at work on it only if, since a     *)
(* pipeline last took it up, one died or could not say that it failed      *)
(* (_fail_run and what is outside the try block), or PATCH moved it there; *)
(* a pipeline that takes it up again owes it a word again.                 *)
NoOrphanPredicting ==
    status = "predicting" /\ ~lost => \E p \in Pipe : Working(p)
=============================================================================
