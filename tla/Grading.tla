------------------------------- MODULE Grading -------------------------------
(***************************************************************************)
(* The grade of a prediction against what the shadow run measured, as      *)
(* grading/engine.py computes it from grading.yaml.  Durations are whole   *)
(* seconds and storage whole megabytes; a score is the number of           *)
(* dimensions, out of three, that were predicted well enough (the engine   *)
(* stores that number divided by three).                                   *)
(***************************************************************************)
EXTENDS Integers, FiniteSets

Tier == {"small", "medium", "large"}

Band(abs, pct) == [abs |-> abs, pct |-> pct]

ErrorBands ==
    [small  |-> [duration |-> Band(15, 50),  storage |-> Band(32, 50)],
     medium |-> [duration |-> Band(45, 40),  storage |-> Band(128, 40)],
     large  |-> [duration |-> Band(120, 35), storage |-> Band(512, 35)]]

(* Below these the percentage means nothing, and storage cannot be told    *)
(* from noise.                                                             *)
MinActual == 1
StorageFloor == 1

ConsistentPairs ==
    {<<"low", "low">>, <<"medium", "medium">>, <<"medium", "low">>, <<"high", "high">>}

(* What is compared.                                                       *)
Prediction == [duration: Nat, storage: Nat, risk: {"low", "medium", "high"}]

ExecutionResult ==
    [success: BOOLEAN, rollback: BOOLEAN, timedOut: BOOLEAN, duration: Nat, storage: Nat]

Distance(m, n) == IF m < n THEN n - m ELSE m - n

WithinBand(predicted, actual, band) ==
    \/ Distance(predicted, actual) <= band.abs
    \/ actual >= MinActual /\ 100 * Distance(predicted, actual) <= band.pct * actual

ClassifyRollbackActual(x) ==
    IF x.timedOut \/ ~x.success THEN "high" ELSE IF x.rollback THEN "medium" ELSE "low"

ClassifyOutcome(x, highRisk) ==
    IF x.timedOut THEN "timeout"
    ELSE IF ~x.success \/ x.rollback THEN "bad"
    ELSE IF highRisk THEN "warned_ok" ELSE "clean_ok"

DurationOk(p, x, tier) ==
    ~x.timedOut /\ WithinBand(p.duration, x.duration, ErrorBands[tier].duration)

StorageUnverifiable(p, x) == p.storage < StorageFloor /\ x.storage < StorageFloor

StorageOk(p, x, tier) ==
    ~StorageUnverifiable(p, x) /\ WithinBand(p.storage, x.storage, ErrorBands[tier].storage)

RollbackOk(p, x) == <<p.risk, ClassifyRollbackActual(x)>> \in ConsistentPairs

(* compute_numeric_grade, as far as anybody reads it again.                *)
NumericGrade(p, x, tier, highRisk) ==
    [score |-> Cardinality({d \in {"duration", "storage", "rollback"} :
                  CASE d = "duration" -> DurationOk(p, x, tier)
                    [] d = "storage"  -> StorageOk(p, x, tier)
                    [] d = "rollback" -> RollbackOk(p, x)}),
     class |-> ClassifyOutcome(x, highRisk)]

GradeValue ==
    [score: 0 .. 3, class: {"timeout", "bad", "warned_ok", "clean_ok"}]

(* _compute_recommendation_success: a scalar of at least 0.66, i.e. two of *)
(* the three dimensions, on a run that went well.                          *)
RecommendationSuccess(x, grade) ==
    /\ x.success /\ ~x.timedOut
    /\ grade.score >= 2
    /\ grade.class \notin {"bad", "timeout"}

(* _is_more_extreme: the worse outcome, then the less accurate prediction. *)
Severity(class) ==
    CASE class \in {"timeout", "bad"} -> 3 [] class = "warned_ok" -> 2 [] OTHER -> 1

MoreExtreme(new, old) ==
    \/ Severity(new.class) > Severity(old.class)
    \/ Severity(new.class) = Severity(old.class) /\ new.score < old.score
=============================================================================
