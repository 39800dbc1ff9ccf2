----------------------------- MODULE RunEvidence -----------------------------
(***************************************************************************)
(* What is kept of a verified run: its execution result, its grade, its    *)
(* memory with an embedding, the verdict on the recommendation it follows, *)
(* and, if its owner agrees, a contribution to the memory shared between   *)
(* customers.  One pipeline (PersistResults, a local verification, or the  *)
(* grade request) writes them one transaction after the other; any number  *)
(* of pipelines may be at work, and each may stop between two steps, since *)
(* what follows the execution result is best effort.                       *)
(***************************************************************************)
EXTENDS Grading

CONSTANTS
    Run, NoRun,   \* migration runs
    Shape,        \* hashes of anonymized migrations
    Pipeline,     \* the pipelines that may be at work at a time
    Results,      \* the execution results considered
    MayMeasure,   \* which of them a run may have
    Owner,        \* accounts
    OwnerOf, ShapeOf, RevisedBy, PredictionOf, TierOf, HighRisk,
    PoolBound     \* bound of this model on the contributions to one shape

ASSUME ConstantsAssumption ==
    /\ NoRun \notin Run
    /\ Results \subseteq ExecutionResult
    /\ MayMeasure \in [Run -> SUBSET Results]
    /\ OwnerOf \in [Run -> Owner] /\ ShapeOf \in [Run -> Shape]
    /\ RevisedBy \in [Run -> Run \cup {NoRun}]   \* inverse of revises_run_id
    /\ PredictionOf \in [Run -> Prediction] /\ TierOf \in [Run -> Tier]
    /\ HighRisk \in [Run -> BOOLEAN]
    /\ PoolBound \in Nat

VARIABLES
    result,   \* execution_results, by run
    grade,    \* grades, by run
    memory,   \* migration_memories, by run
    outcome,  \* recommendation_outcome of a run that another one revises
    pool,     \* cross_customer_memories, by shape hash
    promoted, \* how many promotions to a shape were committed
    consent,  \* memory_sharing_preferences, by owner
    pipe,     \* the pipelines
    raced     \* history: runs with a new result recorded under a pipeline at work

tables == <<result, grade, memory, outcome, pool, promoted, consent>>
vars == <<result, grade, memory, outcome, pool, promoted, consent, pipe, raced>>

None == [absent |-> TRUE]

GradeOf(r, x) == NumericGrade(PredictionOf[r], x, TierOf[r], HighRisk[r])

(* An embedding, and the text it was computed of.  The texts, most of them *)
(* prose about a grade, are told apart by that grade.                      *)
Embedding == [status: {"pending", "failed"}] \cup [status: {"ready"}, of: GradeValue]

\* grades: one row per run, of which the prose is left out.
GradeRows == [Run -> GradeValue \cup {None}]

MemoryRow == [result: Results, grade: GradeValue, embedding: Embedding]

PoolRow == [count: 1 .. PoolBound, text: GradeValue, embedding: Embedding]

Idle == [pc |-> "idle", run |-> NoRun, grade |-> None, result |-> None, seen |-> None]

Step == {"idle", "load", "grade", "memory", "share", "promote", "link"}

AtWork(g) == pipe[g].pc # "idle"

Init ==
    /\ result = [r \in Run |-> None] /\ grade = [r \in Run |-> None]
    /\ memory = [r \in Run |-> None] /\ outcome = [r \in Run |-> "none"]
    /\ pool = [s \in Shape |-> None] /\ promoted = [s \in Shape |-> 0]
    /\ consent = [o \in Owner |-> FALSE]
    /\ pipe = [g \in Pipeline |-> Idle]
    /\ raced = {}

-----------------------------------------------------------------------------
At(g, pc) == pipe[g].pc = pc

(* The owner of the run agrees to share.                                   *)
Shares(r) == consent[OwnerOf[r]]

Begin(g, r) ==
    /\ ~AtWork(g)
    /\ pipe' = [pipe EXCEPT ![g] = [Idle EXCEPT !.pc = "load", !.run = r]]

(* record_execution: the result is upserted and committed, whoever is at   *)
(* work on the run: a repeated invocation, or another verification of the  *)
(* run with other metrics.                                                 *)
RecordExecution(g, r, x) ==
    /\ Begin(g, r)
    /\ result' = [result EXCEPT ![r] = x]
    /\ UNCHANGED <<grade, memory, outcome, pool, promoted, consent>>

(* POST /grade.                                                            *)
GradeRequest(g, r) == Begin(g, r) /\ UNCHANGED tables

(* grade_run computes the grade, and waits for Bedrock's prose about it,   *)
(* before the transaction that stores it.                                  *)
ComputeGrade(g) ==
    LET r == pipe[g].run IN
    /\ At(g, "load")
    /\ result[r] # None
    /\ pipe' = [pipe EXCEPT ![g].pc = "grade", ![g].grade = GradeOf(r, result[r])]
    /\ UNCHANGED tables

(* Mutant: a run that is graded already keeps its grade.                   *)
CommitGradeOnce(g) ==
    /\ At(g, "grade")
    /\ grade' = IF grade[pipe[g].run] = None
                  THEN [grade EXCEPT ![pipe[g].run] = pipe[g].grade] ELSE grade
    /\ pipe' = [pipe EXCEPT ![g].pc = "memory", ![g].grade = None]
    /\ UNCHANGED <<result, memory, outcome, pool, promoted, consent>>

(* _commit_grade, retried on conflicts with the grade computed before.     *)
CommitGrade(g) ==
    /\ At(g, "grade")
    /\ grade' = [grade EXCEPT ![pipe[g].run] = pipe[g].grade]
    /\ pipe' = [pipe EXCEPT ![g].pc = "memory", ![g].grade = None]
    /\ UNCHANGED <<result, memory, outcome, pool, promoted, consent>>

(* The row a memory is upserted as: summaries of what is stored by now.    *)
Summarized(r, e) == [result |-> result[r], grade |-> grade[r], embedding |-> e]

NewEmbedding(text) == {[status |-> "pending"], [status |-> "ready", of |-> text]}

(* Mutant: the memory keeps the embedding it has.                          *)
WriteMemoryUnembedded(g) ==
    LET r == pipe[g].run IN
    /\ At(g, "memory")
    /\ \E e \in IF memory[r] = None THEN NewEmbedding(grade[r]) ELSE {memory[r].embedding} :
         memory' = [memory EXCEPT ![r] = Summarized(r, e)]
    /\ pipe' = [pipe EXCEPT ![g].pc = "share", ![g].grade = grade[r], ![g].result = result[r]]
    /\ UNCHANGED <<result, grade, outcome, pool, promoted, consent>>

(* write_memory: grade and result are read again, embedded, and the memory *)
(* upserted in one transaction.  (A conflict is not survived: the rollback *)
(* expires the rows its retry would read, so the pipeline stops.)          *)
WriteMemory(g) ==
    LET r == pipe[g].run IN
    /\ At(g, "memory")
    /\ \E e \in NewEmbedding(grade[r]) :
         memory' = [memory EXCEPT ![r] = Summarized(r, e)]
    /\ pipe' = [pipe EXCEPT ![g].pc = "share", ![g].grade = grade[r], ![g].result = result[r]]
    /\ UNCHANGED <<result, grade, outcome, pool, promoted, consent>>

(* try_promote, up to the row it finds: without consent, or when the       *)
(* anonymized text is rejected, nothing is shared.                         *)
TryPromote(g) ==
    LET s == ShapeOf[pipe[g].run] IN
    /\ At(g, "share")
    /\ \/ pipe' = [pipe EXCEPT ![g].pc = "link"]
       \/ /\ Shares(pipe[g].run)
          /\ pipe' = [pipe EXCEPT ![g].pc = "promote", ![g].seen = pool[s]]
    /\ UNCHANGED tables

(* The row of a shape after a contribution; a text that is replaced has to *)
(* be embedded anew.                                                       *)
Contributed(row, text, extreme) ==
    IF extreme
      THEN [count |-> row.count + 1, text |-> text, embedding |-> [status |-> "pending"]]
      ELSE [row EXCEPT !.count = @ + 1]

(* needs_embedding: a row that waits for its embedding gets one, if the    *)
(* client can.                                                             *)
Reembedded(row) ==
    IF row.embedding.status = "pending"
      THEN {[row EXCEPT !.embedding = e] : e \in NewEmbedding(row.text)} ELSE {row}

Promoted(g, row, pcs) ==
    LET s == ShapeOf[pipe[g].run] IN
    /\ promoted[s] < PoolBound
    /\ \E new \in Reembedded(row) : pool' = [pool EXCEPT ![s] = new]
    /\ promoted' = [promoted EXCEPT ![s] = @ + 1]
    /\ \E pc \in pcs : pipe' = [pipe EXCEPT ![g] =
         IF pc = "idle" THEN Idle ELSE [@ EXCEPT !.pc = pc, !.seen = None]]
    /\ UNCHANGED <<result, grade, memory, outcome, consent>>

(* Mutant: a new shape starts from zero.                                   *)
CommitPromotionZero(g) ==
    LET p == pipe[g] IN
    /\ At(g, "promote")
    /\ pool[ShapeOf[p.run]] = p.seen
    /\ Promoted(g, IF p.seen = None
                     THEN [count |-> 0, text |-> p.grade, embedding |-> [status |-> "pending"]]
                     ELSE Contributed(p.seen, p.grade, MoreExtreme(p.grade, p.seen.text)),
                {"link"})

(* upsert_by_shape_hash on the row as it was read, in one transaction.     *)
CommitPromotion(g) ==
    LET p == pipe[g] IN
    /\ At(g, "promote")
    /\ pool[ShapeOf[p.run]] = p.seen
    /\ Promoted(g, IF p.seen = None
                     THEN [count |-> 1, text |-> p.grade, embedding |-> [status |-> "pending"]]
                     ELSE Contributed(p.seen, p.grade, MoreExtreme(p.grade, p.seen.text)),
                {"link"})

(* Mutant: the row that won is overwritten by the insert that lost.        *)
CommitPromotionLateReset(g) ==
    LET p == pipe[g] IN
    /\ At(g, "promote")
    /\ p.seen = None /\ pool[ShapeOf[p.run]] # None
    /\ Promoted(g, [count |-> 1, text |-> p.grade, embedding |-> [status |-> "pending"]],
                {"link", "idle"})

(* The insert meets a row inserted since: it is rolled back and the        *)
(* contribution added to that row, still taken for more extreme.  The      *)
(* rollback expires the caller's rows, on which the rest may fail.         *)
CommitPromotionLate(g) ==
    LET p == pipe[g] IN
    /\ At(g, "promote")
    /\ p.seen = None /\ pool[ShapeOf[p.run]] # None
    /\ Promoted(g, Contributed(pool[ShapeOf[p.run]], p.grade, TRUE), {"link", "idle"})

(* A conflict, or any other error of the promotion: it is given up.        *)
AbandonPromotion(g) ==
    /\ At(g, "promote")
    /\ pipe' = [pipe EXCEPT ![g].pc = "link"]
    /\ UNCHANGED tables

(* _update_linked_recommendation, from the grade and result the memory was *)
(* written of.                                                             *)
LinkOutcome(g) ==
    LET p == pipe[g] IN
    /\ At(g, "link")
    /\ outcome' = [o \in Run |->
         IF RevisedBy[o] # p.run THEN outcome[o]
         ELSE IF RecommendationSuccess(p.result, p.grade) THEN "success"
         ELSE "no_improvement"]
    /\ pipe' = [pipe EXCEPT ![g] = Idle]
    /\ UNCHANGED <<result, grade, memory, pool, promoted, consent>>

(* A crash, a timeout, or an error that record_execution swallows.         *)
Stop(g) ==
    /\ AtWork(g)
    /\ pipe' = [pipe EXCEPT ![g] = Idle]
    /\ UNCHANGED tables

(* repair_pending_embedding, by run, or of a batch that waits: read, embed *)
(* and write in one transaction.                                           *)
RepairEmbedding(rs) ==
    /\ \A r \in rs : memory[r] # None
    /\ Cardinality(rs) > 1 => \A r \in rs : memory[r].embedding.status = "pending"
    /\ \E ok \in SUBSET rs :
         memory' = [r \in Run |->
           IF r \in ok THEN [memory[r] EXCEPT !.embedding =
                               [status |-> "ready", of |-> memory[r].grade]]
           ELSE IF r \in rs THEN [memory[r] EXCEPT !.embedding = [status |-> "failed"]]
           ELSE memory[r]]
    /\ UNCHANGED <<result, grade, outcome, pool, promoted, consent, pipe>>

(* POST /api/memory-sharing/set.                                           *)
SetConsent(o, enabled) ==
    /\ consent[o] # enabled
    /\ consent' = [consent EXCEPT ![o] = enabled]
    /\ UNCHANGED <<result, grade, memory, outcome, pool, promoted, pipe>>

-----------------------------------------------------------------------------
PipelineStep(g) ==
    \/ \E r \in Run : \E x \in MayMeasure[r] : RecordExecution(g, r, x)
    \/ \E r \in Run : GradeRequest(g, r)
    \/ ComputeGrade(g) \/ CommitGrade(g) \/ WriteMemory(g)
    \/ TryPromote(g) \/ CommitPromotion(g) \/ CommitPromotionLate(g) \/ AbandonPromotion(g)
    \/ LinkOutcome(g) \/ Stop(g)

(* The history variable, which no action reads: a run is raced from the    *)
(* change of its result until no pipeline is at work on it.                *)
Attended(r) == \E g \in Pipeline : AtWork(g) /\ pipe[g].run = r

Observed ==
    raced' = {r \in Run : Attended(r) /\ (r \in raced \/ result'[r] # result[r])}

Next ==
    /\ \/ \E g \in Pipeline : PipelineStep(g)
       \/ \E rs \in (SUBSET Run) \ {{}} : RepairEmbedding(rs)
       \/ \E o \in Owner, enabled \in BOOLEAN : SetConsent(o, enabled)
    /\ Observed

Spec == Init /\ [][Next]_vars

-----------------------------------------------------------------------------
TypeOK ==
    /\ result \in [Run -> Results \cup {None}]
    /\ grade \in GradeRows
    /\ memory \in [Run -> MemoryRow \cup {None}]
    /\ outcome \in [Run -> {"none", "success", "no_improvement"}]
    /\ pool \in [Shape -> PoolRow \cup {None}]
    /\ promoted \in [Shape -> Nat]
    /\ consent \in [Owner -> BOOLEAN]
    /\ pipe \in [Pipeline -> [pc: Step, run: Run \cup {NoRun}, grade: GradeValue \cup {None},
                              result: Results \cup {None}, seen: PoolRow \cup {None}]]
    /\ raced \subseteq Run

(* Semantic search relies on it: an embedding that is used is one of the   *)
(* text beside it, whatever regrades, repairs and contributions of others  *)
(* have rewritten.                                                         *)
EmbeddingOfText ==
    /\ \A r \in Run : memory[r] # None /\ memory[r].embedding.status = "ready"
                        => memory[r].embedding.of = memory[r].grade
    /\ \A s \in Shape : pool[s] # None /\ pool[s].embedding.status = "ready"
                        => pool[s].embedding.of = pool[s].text

(* A shape counts every promotion that was committed, once: none is lost   *)
(* or reset when two of them race.                                         *)
PoolCountsPromotions ==
    \A s \in Shape : promoted[s] = IF pool[s] = None THEN 0 ELSE pool[s].count

(* A pipeline that goes through leaves what is kept of its run in agreement*)
(* with the result on record, even beside a repeated pipeline and after    *)
(* others that stopped half way.  Only where a new result was recorded     *)
(* under a pipeline at work may an old grade be left, which the retried    *)
(* _commit_grade writes over a newer one; it does not outlive the next     *)
(* pipeline that begins when nobody is at work on the run.                 *)
Agree(r) ==
    /\ result[r] # None /\ grade[r] # None /\ memory[r] # None
    /\ grade[r] = GradeOf(r, result[r])
    /\ memory[r].result = result[r]
    /\ memory[r].grade = grade[r]
    /\ \A o \in Run : RevisedBy[o] = r =>
         outcome[o] = IF RecommendationSuccess(result[r], grade[r])
                        THEN "success" ELSE "no_improvement"

CompletedAgrees ==
    [][\A g \in Pipeline, r \in Run :
         LinkOutcome(g) /\ pipe[g].run = r /\ r \notin raced => Agree(r)']_vars
=============================================================================
