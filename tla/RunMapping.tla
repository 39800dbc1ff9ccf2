----------------------------- MODULE RunMapping -----------------------------
(* The pure layer between the API's answers and the pages (map-run.ts and the *)
(* predicates of endpoints.ts): which stage a run is said to be at, what the  *)
(* shadow cluster is said to have done, and what the two snapshots are said   *)
(* to show.  Wording and formats are left out.                                *)
EXTENDS ShadowSchema, Integers, Sequences

CONSTANT None    \* a missing value

WorkflowBroken == {"failed", "timed_out", "aborted"}
WorkflowEnded == WorkflowBroken \cup {"succeeded"}

\* An execution that Step Functions knows; a local one is named local://.
HasRealSfnArn(run) == run.arn = "sfn"

\* /health may give the verdict, or only the two settings it is made of.
IsSfnReady(health) ==
    /\ health # None
    /\ IF health.ready # None THEN health.ready = "yes" ELSE health.arn /\ health.bucket

-----------------------------------------------------------------------------
(* Stages of a run. *)

ProcessOrder == <<"create", "predict", "approve", "shadow", "grade", "remember">>

\* A failed run is put where its workflow, its policy or neither says it was.
ActiveStage(run) ==
    CASE run.status = "pending"           -> 1
      [] run.status = "predicting"        -> 2
      [] run.status = "awaiting_approval" -> 3
      [] run.status = "running"           -> 4
      [] run.status = "completed"         -> 6
      [] OTHER ->
            IF run.workflow \in WorkflowBroken THEN 4
            ELSE IF run.policy # None THEN 3 ELSE 2

ProcessStages(run) ==
    [i \in DOMAIN ProcessOrder |->
        IF run.status = "completed" \/ i < ActiveStage(run) THEN "complete"
        ELSE IF i > ActiveStage(run) THEN "pending"
        ELSE IF run.status = "failed" THEN "failed" ELSE "current"]

RailOrder == <<"provision", "seed", "execute", "measure", "teardown">>

\* The measure stage has no status: migrate_ms recorded and still MIGRATING.
RailCursor(shadow) ==
    CASE shadow.status \in {"destroyed", "destroying", "holding"} -> 5
      [] shadow.status = "seeding"   -> 2
      [] shadow.status = "migrating" -> IF "migrate" \in shadow.timings THEN 4 ELSE 3
      [] shadow.status = "failed"    ->
            IF "teardown" \in shadow.timings THEN 5
            ELSE IF "migrate" \in shadow.timings THEN 4
            ELSE IF "seed" \in shadow.timings THEN 3
            ELSE IF "provision" \in shadow.timings THEN 2 ELSE 1
      [] OTHER -> 1

\* waiting: the workflow runs, or is about to be started, and no row exists.
ShadowLifecycleRail(shadow, waiting) ==
    [i \in DOMAIN RailOrder |->
        IF shadow = None THEN IF i = 1 /\ waiting THEN "current" ELSE "pending"
        ELSE IF shadow.status = "destroyed" \/ i < RailCursor(shadow) THEN "complete"
        ELSE IF i > RailCursor(shadow) THEN "pending"
        ELSE IF shadow.status = "failed" THEN "failed" ELSE "current"]

Approved(run) == \/ run.status \in {"running", "completed"}
                 \/ run.status = "failed" /\ run.workflow # "not_started"

\* The timeline: what is complete, under way, failed, or not reached.
Lifecycle(run, extras) ==
    LET shadow == extras.shadow
        cluster == shadow # None /\ shadow.cluster
        error == shadow # None /\ shadow.error
        State(done, failed, now) ==
            IF done THEN "complete" ELSE IF failed THEN "failed"
            ELSE IF now THEN "current" ELSE "pending"
    IN [created     |-> "complete",
        discovered  |-> State(run.discovery = "succeeded",
                              run.discovery \in {"failed", "rejected"},
                              run.discovery = "pending"),
        predicted   |-> State(run.explained, FALSE, run.status = "predicting"),
        approved    |-> State(Approved(run), run.status = "failed" /\ run.explained,
                              run.status = "awaiting_approval"),
        provisioned |-> State(cluster, run.status # "running" /\ error,
                              run.status = "running"),
        seeded      |-> State(shadow # None /\ "seed" \in shadow.timings, FALSE,
                              cluster /\ run.status = "running"),
        executed    |-> State(extras.execution # None /\ extras.execution.success,
                              extras.execution # None, run.status = "running"),
        verified    |-> State(run.workflow = "succeeded" \/ extras.grade # None,
                              run.workflow \in WorkflowBroken, run.workflow = "running"),
        torn_down   |-> State(shadow # None /\ shadow.destroyed, error /\ cluster, FALSE),
        graded      |-> State(extras.grade # None, FALSE, run.status = "completed"),
        remembered  |-> State(extras.memory # None, FALSE, FALSE)]

\* The headline over a run: what is asked of the reader.
DecisionHeadline(run) ==
    CASE run.status = "awaiting_approval" ->
            (CASE run.policy = "block"              -> "override"
               [] run.policy = "allow_with_warning" -> "caution"
               [] OTHER                             -> "ready")
      [] run.status = "completed" -> "verified"
      [] OTHER -> run.status

\* The list's row calls a failed run cancelled when its workflow was aborted.
IsCancelledLook(item) == item.status = "failed" /\ item.workflow = "aborted"

ShadowHold(shadow, now) ==
    IF shadow = None \/ shadow.status # "holding" THEN [holding |-> FALSE, left |-> None]
    ELSE [holding |-> TRUE,
          left |-> IF shadow.expires = None THEN None
                   ELSE IF shadow.expires > now THEN shadow.expires - now ELSE 0]

-----------------------------------------------------------------------------
(* The prediction and what it rests on. *)

\* The server's word for an empty retrieval wins over what the page can tell.
EmptyVsNeverAttempted(memory) ==
    IF memory = None THEN "never_attempted"
    ELSE IF memory.verdict # None THEN memory.verdict
    ELSE IF ~memory.attempted THEN "never_attempted"
    ELSE IF memory.retrieved = 0 THEN "empty" ELSE "hits"

\* The list of memories is counted only where no count was sent.
RetrievedCount(memory) ==
    IF memory = None THEN 0
    ELSE IF memory.retrieved # 0 THEN memory.retrieved ELSE Len(memory.memories)

Confidence(confidence) ==
    IF confidence = None THEN None
    ELSE [shown |-> confidence.adjusted, raw |-> confidence.raw,
          wasReduced |-> confidence.adjustments # <<>>]

\* A run with a scale tier shows a prediction even where none was recorded.
PredictionShown(run) ==
    IF run.prediction = None
    THEN IF run.tier = None THEN None ELSE [duration |-> None, storage |-> None, rollback |-> None, tier |-> run.tier]
    ELSE [run.prediction EXCEPT !.tier = IF @ # None THEN @ ELSE run.tier]

\* The stored recommendation, or else the copy inside explainability.
RecommendationShown(run) ==
    IF run.recommendation # None THEN run.recommendation ELSE run.explained_recommendation

Measuring(run) == run.status = "running" \/ run.workflow = "running"

\* One row of "prediction against actual": both sides and the grader's band.
Row(label, predicted, actual, band, unverifiable, run) ==
    [label |-> label, predicted |-> predicted,
     actual |-> IF actual # None THEN actual ELSE IF Measuring(run) THEN "measuring" ELSE None,
     band |-> band,
     note |-> IF unverifiable THEN "unverifiable"
              ELSE IF band = "within" THEN "ok"
              ELSE IF band = "outside" THEN "review"
              ELSE IF Measuring(run) THEN "waiting" ELSE None]

Comparisons(run, extras) ==
    LET pred == PredictionShown(run)
        exec == extras.execution
        grade == extras.grade
        Predicted(f) == IF pred = None THEN None ELSE pred[f]
        Actual(f) == IF exec = None THEN None ELSE exec[f]
        Band(f) == IF grade = None THEN None ELSE grade[f]
        evidence == exec # None \/ grade # None
    IN (IF Predicted("duration") # None \/ evidence
        THEN {Row("duration", Predicted("duration"), Actual("duration"),
                  Band("duration"), FALSE, run)} ELSE {})
       \cup
       (IF Predicted("storage") # None \/ evidence
        THEN {Row("storage", Predicted("storage"), Actual("storage"), Band("storage"),
                  grade # None /\ grade.storage_unverifiable, run)} ELSE {})
       \cup
       (IF Predicted("rollback") # None \/ grade # None
        THEN {Row("rollback",
                  IF Predicted("rollback") # None THEN Predicted("rollback")
                  ELSE Band("rollback_predicted"),
                  Band("rollback_actual"), Band("rollback"), FALSE, run)} ELSE {})

\* The live view opens this block by itself once a row has a measured value.
ComparisonsHaveActuals(rows) == \E r \in rows : r.actual \notin {"measuring", None}

-----------------------------------------------------------------------------
(* Evidence of the shadow execution. *)

Check(id, state) == [id |-> id, state |-> state]

PassIf(holds, otherwise) == IF holds THEN "pass" ELSE otherwise

\* The band of one measured dimension, unless the grader could not verify it.
BandCheck(id, unverifiable, band) ==
    IF unverifiable THEN {Check(id, "warn")}
    ELSE IF band = None THEN {} ELSE {Check(id, PassIf(band = "within", "warn"))}

\* The schema check counts every entry of the diff's table list, and that
\* list names the unchanged tables as well.
ShadowChecks(extras) ==
    (IF extras.execution = None THEN {}
     ELSE {Check("execution", PassIf(extras.execution.success, "fail")),
           Check("rollback", PassIf(~extras.execution.rollback, "fail")),
           Check("timeout", PassIf(~extras.execution.timed_out, "fail"))})
    \cup
    (IF extras.grade = None THEN {}
     ELSE BandCheck("duration_band", extras.grade.duration_unverifiable, extras.grade.duration)
          \cup BandCheck("storage_band", extras.grade.storage_unverifiable, extras.grade.storage))
    \cup
    (IF extras.shadow = None THEN {}
     ELSE {Check("schema_diff", PassIf(DOMAIN extras.shadow.diff # {}, "warn"))}
          \cup (IF extras.shadow.error THEN {Check("cluster", "fail")} ELSE {}))

\* The panel's own summary: the worst state of its checks.
ChecksSummary(checks) ==
    IF \E c \in checks : c.state = "fail" THEN "fail"
    ELSE IF \E c \in checks : c.state = "warn" THEN "warn" ELSE "pass"

\* The last observation of the job, and the watch list as the replay.
ExecutePanel(shadow) ==
    IF shadow = None \/ shadow.progress = <<>>
    THEN [live |-> FALSE, job |-> None]
    ELSE [live |-> TRUE, job |-> shadow.progress[Len(shadow.progress)]]

CostStrip(extras) ==
    IF extras.execution = None THEN None
    ELSE [jobs |-> IF extras.shadow = None THEN 0 ELSE Len(extras.shadow.watch),
          outcome |-> IF extras.execution.timed_out THEN "timed out"
                      ELSE IF extras.execution.success THEN "succeeded" ELSE "failed"]
=============================================================================
