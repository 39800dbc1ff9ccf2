--------------------------- MODULE MCRunEvidence ---------------------------
(* Values for model-checking RunEvidence: r2 revises r1 and both have the   *)
(* same shape; r1 is predicted well and r2's risk underrated.               *)
EXTENDS RunEvidence, TLC, FiniteSetsExt, SequencesExt

CONSTANTS r1, r2, o1, g1, g2

MCSymmetry == Permutations({g1, g2})

\* Bound: r1 is verified and graded before r2, which revises it, is measured;
\* so the pipelines at work at a time are at work on one run.  They race for
\* its rows and for the shape both share; two verifications may measure r2
\* differently.
RevisedFirst ==
    \A g, h \in Pipeline :
        AtWork(g) /\ pipe[g].run = r1 =>
            /\ result[r2] = None
            /\ AtWork(h) => pipe[h].run = r1

\* Bound: consent is not withdrawn once a shape is in the pool.
ConsentKept == \A s \in Shape : pool[s] # None => consent[o1]

MCResults ==
    {[success |-> TRUE,  rollback |-> FALSE, timedOut |-> FALSE, duration |-> 40,  storage |-> 10],
     [success |-> FALSE, rollback |-> TRUE,  timedOut |-> TRUE,  duration |-> 900, storage |-> 0]}

MCMayMeasure == r1 :> {x \in MCResults : x.success} @@ r2 :> MCResults
MCOwnerOf == r1 :> o1 @@ r2 :> o1
MCRevisedBy == r1 :> r2 @@ r2 :> NoRun
MCPredictionOf == [r \in {r1, r2} |-> [duration |-> 30, storage |-> 12, risk |-> "low"]]
MCTierOf == r1 :> "small" @@ r2 :> "medium"
MCHighRisk == r1 :> FALSE @@ r2 :> TRUE
MCShapeOf == [r \in {r1, r2} |-> "shape"]

(* Over a grid of predictions and results: a duration predicted closer is  *)
(* never graded worse, and no run that timed out is graded full.           *)
MCGrid == {0, 1, 14, 30, 45, 61, 90}
MCExec(d, s, t) ==
    [success |-> ~t, rollback |-> FALSE, timedOut |-> t, duration |-> d, storage |-> s]
ASSUME DurationMonotone ==
    \A a, p, q \in MCGrid, tier \in Tier, t \in BOOLEAN :
        Distance(p, a) <= Distance(q, a) =>
            LET Score(d) == NumericGrade([duration |-> d, storage |-> 5, risk |-> "low"],
                                         MCExec(a, 5, t), tier, FALSE).score
            IN Score(p) >= Score(q)
ASSUME TimeoutNeverFull ==
    \A p, a \in MCGrid, risk \in {"low", "medium", "high"}, tier \in Tier :
        NumericGrade([duration |-> p, storage |-> 5, risk |-> risk],
                     MCExec(a, 5, TRUE), tier, FALSE).score < 3

(* Reports, over runs at every stage, told apart by id.                    *)
Reports == INSTANCE RunReports
MCNew == [id |-> 1, owner |-> "o", workspace |-> "w", kind |-> "standard", status |-> "pending",
          created |-> 10, updated |-> 15, started |-> 0, finished |-> 0, risk |-> "unknown",
          policy |-> "allow", explained |-> FALSE, retrieved |-> 0, types |-> <<>>,
          prediction |-> None, shadow |-> None, approval |-> None, execution |-> None,
          grade |-> None, memory |-> None]
MCPredicted(risk) ==
    [MCNew EXCEPT !.status = "awaiting_approval", !.explained = TRUE, !.retrieved = 2,
                  !.risk = risk, !.policy = "block", !.types = <<"alter", "alter">>,
                  !.prediction = [at |-> 20]]
MCDecided(d) == [MCPredicted("high") EXCEPT !.status = "running",
                                            !.approval = [at |-> 30, decision |-> d, by |-> "u"]]
MCMeasured(ok) ==
    [MCDecided("proceed") EXCEPT
        !.status = IF ok THEN "completed" ELSE "failed",
        !.shadow = [at |-> 40, status |-> "holding"], !.started = 35, !.finished = 50,
        !.execution = [at |-> 45, success |-> ok, timedOut |-> FALSE]]
MCGraded(ok, confidence) ==
    [MCMeasured(ok) EXCEPT
        !.grade = [at |-> 60, genuine |-> TRUE, outcome |-> IF ok THEN "clean_ok" ELSE "bad",
                   tier |-> "small", confidence |-> confidence, score |-> 50,
                   durationError |-> None, storageError |-> 3, highRisk |-> ~ok],
        !.memory = [at |-> 70, genuine |-> TRUE, pending |-> FALSE, score |-> 50]]
MCReportRuns ==
    {MCNew, MCPredicted("low"), MCDecided("cancel"), MCMeasured(TRUE), MCMeasured(FALSE),
     MCGraded(TRUE, 39), MCGraded(TRUE, 70), MCGraded(FALSE, 40),
     [MCGraded(TRUE, 90) EXCEPT !.owner = "corpus", !.memory.genuine = FALSE],
     [MCGraded(FALSE, 10) EXCEPT !.kind = "chaos"], [MCNew EXCEPT !.created = 31]}
MCStored == {{[a EXCEPT !.id = 1], [b EXCEPT !.id = 2], [c EXCEPT !.id = 3]} :
             a \in MCReportRuns, b \in MCReportRuns, c \in MCReportRuns}

(* Every figure of the accuracy card counts the same graded runs, and the  *)
(* scatter drops none of them.                                             *)
ASSUME OnePopulation ==
    \A runs \in MCStored, owner \in {"", "o"} :
        LET graded == Reports!Graded(runs, owner, "")
            n == Cardinality(graded)
            hr == Reports!RiskCalls(graded)
            cal == Reports!Calibration(graded)
            tiers == Reports!LearningByTier(graded)
        IN /\ MapThenSumSet(LAMBDA b : cal[b].n, DOMAIN cal) = n
           /\ MapThenSumSet(LAMBDA t : tiers[t].n, DOMAIN tiers) = n
           /\ hr.tp + hr.fp + hr.fn + hr.tn = n
           /\ Reports!SuccessRate(graded).graded = n
           /\ Reports!RuntimeScatter(graded) = graded

(* The feed is in order, within its limit, and tells of each run what was  *)
(* recorded of it, its submission at least.                                *)
ASSUME FeedOfRecords ==
    \A runs \in MCStored :
        LET feed == Reports!ActivityFeed(runs, "", "", 200)
            real == Reports!Real(runs, "", "")
        IN /\ \A i \in 1 .. Len(feed) - 1 : feed[i].at >= feed[i + 1].at
           /\ {e.run : e \in Range(feed)} = {r.id : r \in real}
           /\ Len(Reports!ActivityFeed(runs, "", "", 2)) <= 2
           /\ \A e \in Range(feed) : e.kind \in {"Completed", "Failed"} =>
                  \E f \in Range(feed) : f.run = e.run /\ f.kind = "Shadow" /\ f.at <= e.at

(* A day's runs are ok, bad or neither yet, and each run counts on one day. *)
ASSUME VolumeByDay ==
    \A runs \in MCStored :
        LET v == Reports!RunVolume(runs, "o", "", 3, 7, [at \in 0..100 |-> at \div 10])
        IN /\ \A d \in DOMAIN v : v[d].ok + v[d].bad <= v[d].total
           /\ MapThenSumSet(LAMBDA d : v[d].total, DOMAIN v)
                  = Cardinality(Reports!Real(runs, "o", ""))

(* The pages of the list are the list; a badge is of the run's measurement. *)
ASSUME PagesOfList ==
    \A runs \in MCStored, d \in {"", "none", "cancel"} :
        LET f == [owner |-> "o", workspace |-> "", statuses |-> {}, excluded |-> {"chaos"},
                  risk |-> "", decision |-> d, approver |-> ""]
            Page(o) == Reports!ListRuns(runs, f, o, 2)
        IN /\ Page(0).total = Page(2).total
           /\ Range(Page(0).items \o Page(2).items) = Reports!Matching(runs, f)
ASSUME BadgeOfMeasurement ==
    \A r \in MCReportRuns :
        r.execution # None => Reports!ShadowOutcome(r) = IF r.execution.success THEN "pass" ELSE "fail"
=============================================================================
