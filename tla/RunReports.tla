----------------------------- MODULE RunReports -----------------------------
(* The reports the API computes over the stored runs and keeps nowhere: the *)
(* list of runs, the accuracy metrics, the activity feed and the daily      *)
(* volume.  A run is its row with its child rows in it, None where there is *)
(* none; a time of 0 is one that was never set.  Wording, rounding and the  *)
(* correlation coefficient are left out.                                    *)
EXTENDS Integers, FiniteSetsExt, SequencesExt

CONSTANT None    \* a child row that does not exist

Corpus == "corpus"      \* the owner of the curated memories' runs
Unlisted == {"chaos", "debug"}

Count(S, P(_)) == Cardinality({x \in S : P(x)})

\* A mean is its sum over its count; of nothing there is none.
Mean(S, F(_)) == IF S = {} THEN None ELSE [sum |-> MapThenSumSet(F, S), n |-> Cardinality(S)]

GroupBy(S, K(_)) == [k \in {K(x) : x \in S} |-> {x \in S : K(x) = k}]

\* ORDER BY; how rows that come neither before nor after are ordered is open.
InOrder(S, Before(_, _)) ==
    LET sorted[T \in SUBSET S] ==
            IF T = {} THEN <<>>
            ELSE LET first == CHOOSE x \in T : \A y \in T : ~Before(y, x)
                 IN <<first>> \o sorted[T \ {first}]
    IN sorted[S]

-----------------------------------------------------------------------------
(* The populations.  "" stands for a filter that is not given. *)

Scoped(runs, owner, workspace) ==
    {r \in runs : owner \in {"", r.owner} /\ workspace \in {"", r.workspace}}

\* What the feed, the volume and the breakdowns are about.
Real(runs, owner, workspace) ==
    {r \in Scoped(runs, owner, workspace) : r.owner # Corpus /\ r.kind \notin Unlisted}

\* What accuracy is about: grades that were measured, not seeded.
Graded(runs, owner, workspace) ==
    {r \in Scoped(runs, owner, workspace) :
        /\ r.grade # None /\ r.grade.genuine
        /\ r.memory # None => r.memory.genuine}

-----------------------------------------------------------------------------
(* Accuracy metrics. *)

Passed(r) == r.grade.outcome \in {"clean_ok", "warned_ok"}
WentBadly(r) == r.grade.outcome \in {"bad", "timeout"}
Score(r) == r.grade.score

\* Confidence is in percent here.
Bucket(r) ==
    IF r.grade.confidence < 40 THEN "low"
    ELSE IF r.grade.confidence < 70 THEN "mid" ELSE "high"

\* An error of duration that could not be measured counts as none.
AbsError(r) == (IF r.grade.durationError = None THEN 0 ELSE r.grade.durationError)
               + r.grade.storageError

Calibration(graded) ==
    LET buckets == GroupBy(graded, Bucket)
    IN [b \in DOMAIN buckets |-> [error |-> Mean(buckets[b], AbsError),
                                  scalar |-> Mean(buckets[b], Score),
                                  n |-> Cardinality(buckets[b])]]

LearningByTier(graded) ==
    LET tiers == GroupBy(graded, LAMBDA r : r.grade.tier)
    IN [t \in DOMAIN tiers |-> [scalar |-> Mean(tiers[t], Score), n |-> Cardinality(tiers[t])]]

\* Flagged as high risk against gone badly.
RiskCalls(graded) ==
    LET Of(flagged, badly) ==
            Count(graded, LAMBDA r : r.grade.highRisk = flagged /\ WentBadly(r) = badly)
        tp == Of(TRUE, TRUE)  fp == Of(TRUE, FALSE)  fn == Of(FALSE, TRUE)
    IN [tp |-> tp, fp |-> fp, fn |-> fn, tn |-> Of(FALSE, FALSE),
        precision |-> IF tp + fp = 0 THEN None ELSE [sum |-> tp, n |-> tp + fp],
        recall    |-> IF tp + fn = 0 THEN None ELSE [sum |-> tp, n |-> tp + fn]]

RetrievalUse(graded) ==
    [scalar |-> Mean(graded, Score),
     used   |-> Mean(graded, LAMBDA r : IF r.retrieved > 0 THEN 1 ELSE 0)]

\* One point for each graded run whose prediction and measurement exist.
RuntimeScatter(graded) == {r \in graded : r.prediction # None /\ r.execution # None}

SuccessRate(graded) ==
    [passed |-> Count(graded, Passed), graded |-> Cardinality(graded),
     rate |-> Mean(graded, LAMBDA r : IF Passed(r) THEN 1 ELSE 0)]

\* Every memory counts, the ones of other owners and of the corpus too.
MemoryCorpus(runs) ==
    LET memories == {r \in runs : r.memory # None}
    IN [ready   |-> Cardinality(memories),
        pending |-> Count(memories, LAMBDA r : r.memory.pending),
        scalar  |-> Mean({r \in memories : r.memory.genuine}, LAMBDA r : r.memory.score)]

DecisionOf(r) == IF r.approval = None THEN "awaiting_decision" ELSE r.approval.decision

ApprovalBreakdown(real) ==
    [d \in {"proceed", "accept_recommended", "cancel", "awaiting_decision"} |->
        Count(real, LAMBDA r : DecisionOf(r) = d)]

TypeDistribution(real) ==
    [t \in UNION {Range(r.types) : r \in real} |->
        MapThenSumSet(LAMBDA r : Cardinality({i \in DOMAIN r.types : r.types[i] = t}), real)]

RiskLevel(r) == IF r.risk = "high" /\ r.policy = "block" THEN "critical" ELSE r.risk

RiskDistribution(real) ==
    LET levels == GroupBy(real, RiskLevel)
    IN [l \in DOMAIN levels |-> Cardinality(levels[l])]

\* What goes to CloudWatch: a metric without data is not sent.
Published(runs, owner, workspace) ==
    LET graded == Graded(runs, owner, workspace)
        real == Real(runs, owner, workspace)
        latest == CHOOSE r \in graded : \A x \in graded : x.grade.at <= r.grade.at
    IN (IF graded = {} THEN {}
        ELSE {<<"scalar_accuracy", latest.grade.tier, Score(latest)>>,
              <<"success_rate", SuccessRate(graded).rate>>})
       \cup (IF real = {} THEN {}
             ELSE {<<"acceptance_rate", ApprovalBreakdown(real)["proceed"], Cardinality(real)>>})
       \cup {<<"retrieval_strength", MemoryCorpus(runs).ready>>}

-----------------------------------------------------------------------------
(* The activity feed: one entry for each thing that was recorded of a run. *)

Entry(r, at, kind) == [run |-> r.id, at |-> at, kind |-> kind]

First(a, b) == IF a # 0 THEN a ELSE b

Entries(r) ==
    {Entry(r, r.created, "Queued")}
    \cup (IF r.explained
          THEN {Entry(r, IF r.prediction # None THEN r.prediction.at ELSE r.updated, "Predicted")}
          ELSE {})
    \cup (IF r.retrieved > 0
          THEN {Entry(r, IF r.prediction # None THEN r.prediction.at ELSE r.updated, "Learned")}
          ELSE {})
    \cup (IF r.approval = None THEN {}
          ELSE {Entry(r, r.approval.at,
                      CASE r.approval.decision = "proceed"            -> "Approved"
                        [] r.approval.decision = "accept_recommended" -> "Accepted Plan"
                        [] OTHER                                      -> "Cancelled")})
    \cup (IF r.shadow = None THEN {} ELSE {Entry(r, First(r.started, r.shadow.at), "Shadow")})
    \cup (IF r.execution = None THEN {}
          ELSE {Entry(r, First(r.finished, r.execution.at),
                      IF r.execution.success THEN "Completed" ELSE "Failed")})
    \cup (IF r.grade = None THEN {} ELSE {Entry(r, r.grade.at, "Graded")})
    \cup (IF r.memory = None THEN {} ELSE {Entry(r, r.memory.at, "Remembered")})

\* The latest first.
ActivityFeed(runs, owner, workspace, limit) ==
    LET all == {e \in UNION {Entries(r) : r \in Real(runs, owner, workspace)} : e.at # 0}
        sorted == InOrder(all, LAMBDA a, b : a.at > b.at)
        n == IF limit < 1 THEN 1 ELSE IF limit > 200 THEN 200 ELSE limit
    IN SubSeq(sorted, 1, IF n < Len(sorted) THEN n ELSE Len(sorted))

\* The daily volume of a window that ends today; a day without runs is there.
\* dayOf is the calendar: the day of each time.
RunVolume(runs, owner, workspace, today, days, dayOf) ==
    LET window == IF days < 1 THEN 1 ELSE IF days > 90 THEN 90 ELSE days
        real == Real(runs, owner, workspace)
        Ok(r) == r.status = "completed" /\ (r.execution # None => r.execution.success)
        Bad(r) == \/ r.status = "failed"
                  \/ r.execution # None /\ (~r.execution.success \/ r.execution.timedOut)
    IN [d \in today - window + 1 .. today |->
           LET ofDay == {r \in real : dayOf[r.created] = d}
           IN [ok |-> Count(ofDay, Ok), bad |-> Count(ofDay, Bad), total |-> Cardinality(ofDay)]]

-----------------------------------------------------------------------------
(* The list of runs. *)

\* The outcome badge of a listed run, of what was measured alone.
ShadowOutcome(r) ==
    LET success == r.execution # None /\ r.execution.success
        outcome == IF r.grade = None THEN "" ELSE r.grade.outcome
    IN IF \/ r.execution # None /\ (~success \/ r.execution.timedOut)
          \/ r.shadow # None /\ r.shadow.status = "failed"
          \/ outcome \in {"bad", "timeout"}
       THEN "fail"
       ELSE IF outcome = "warned_ok" THEN "warn"
       ELSE IF success \/ outcome = "clean_ok" THEN "pass"
       ELSE None

\* A filter is "" or {} where it is not given; "none" asks for no decision.
Matching(runs, f) ==
    {r \in Scoped(runs, f.owner, f.workspace) :
        /\ f.statuses # {} => r.status \in f.statuses
        /\ r.kind \notin f.excluded
        /\ f.risk \in {"", r.risk}
        /\ CASE f.decision = ""     -> TRUE
             [] f.decision = "none" -> r.approval = None
             [] OTHER               -> r.approval # None /\ r.approval.decision = f.decision
        /\ f.approver # "" => r.approval # None /\ r.approval.by = f.approver}

\* A page of the list, the newest first; the total is of every page.
ListRuns(runs, f, offset, limit) ==
    LET all == InOrder(Matching(runs, f), LAMBDA a, b : a.created > b.created)
        last == IF offset + limit < Len(all) THEN offset + limit ELSE Len(all)
    IN [items |-> SubSeq(all, offset + 1, last), total |-> Len(all)]

Approvers(runs, owner, workspace, excluded) ==
    {r.approval.by : r \in {r \in Scoped(runs, owner, workspace) :
                               r.kind \notin excluded /\ r.approval # None}}
=============================================================================
