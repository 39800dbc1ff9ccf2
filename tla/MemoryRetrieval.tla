--------------------------- MODULE MemoryRetrieval ---------------------------
(***************************************************************************)
(* What a prediction is given of the past (memory/retrieval.py), and what  *)
(* its confidence loses for it (prediction/confidence.py).  Similarities,  *)
(* factors and confidences are percentages; a final score is the weighted  *)
(* sum of percentages times the weight of the source, in whole numbers.    *)
(*                                                                         *)
(* A memory is a record [source, owner, ready, similarity, type, tier,     *)
(* indexes, complexity, flags]; what carries no structural detail, a       *)
(* contribution of other customers, has source "cross_customer".           *)
(***************************************************************************)
EXTENDS Policy, Sequences, FiniteSets, FiniteSetsExt

CandidatePoolSize == 20
FinalLimit == 5
WeakSimilarity == 45
CorpusOwner == "corpus"

Weight == [similarity |-> 45, type |-> 20, tier |-> 15, shape |-> 10, flags |-> 10]
SourceWeight == [owner |-> 10, cross_customer |-> 9, corpus |-> 8]

AdjacentTiers == {{"small", "medium"}, {"medium", "large"}}

TierRowCaps == [small |-> 1000, medium |-> 10000, large |-> 50000]

(* select_scale_tier: an unknown total is a small one.                     *)
SelectScaleTier(rows) ==
    IF rows <= 1000 THEN "small" ELSE IF rows <= 100000 THEN "medium" ELSE "large"

(* The known row counts together; Unknown if there is none.                *)
TotalEstimatedRows(snapshot) ==
    LET known == {t \in snapshot.tables : snapshot.rows[t] # Unknown}
    IN  IF known = {} THEN Unknown ELSE MapThenSumSet(LAMBDA t : snapshot.rows[t], known)

(* summarize_schema.                                                       *)
SummarizeSchema(snapshot) ==
    [indexes |-> Cardinality(snapshot.indexes),
     complexity |-> Cardinality(snapshot.tables) + Min({Cardinality(snapshot.indexes), 50})]

(* classify_migration_type: the first row whose words the text holds; a    *)
(* text with none of them goes by the name of its first statement.         *)
MigrationTypes ==
    <<<<{"drop", "column"}, "drop_column">>, <<{"drop", "index"}, "drop_index">>,
      <<{"drop", "table"}, "drop_table">>,   <<{"drop"}, "drop">>,
      <<{"create index"}, "create_index">>,  <<{"add column"}, "add_column">>,
      <<{"alter column"}, "alter_column">>,  <<{"create table"}, "create_table">>,
      <<{}, "other">>>>

ClassifyMigrationType(text) ==
    MigrationTypes[Min({i \in DOMAIN MigrationTypes : MigrationTypes[i][1] \subseteq text})][2]

-----------------------------------------------------------------------------
TierProximity(query, memory) ==
    IF query = memory THEN 100 ELSE IF {query, memory} \in AdjacentTiers THEN 50 ELSE 0

FlagOverlap(query, memory) ==
    IF query = {} /\ memory = {} THEN 100
    ELSE (100 * Cardinality(query \cap memory)) \div Cardinality(query \cup memory)

RelativeDifference(m, n) ==
    (100 * (IF m < n THEN n - m ELSE m - n)) \div Max({m, n, 1})

ShapeScore(query, m) ==
    IF m.source = "cross_customer" \/ query.shape = {} THEN 50
    ELSE LET q == CHOOSE q \in query.shape : TRUE
         IN  100 - (RelativeDifference(q.indexes, m.indexes)
                    + RelativeDifference(q.complexity, m.complexity)) \div 2

FinalScore(query, m) ==
    SourceWeight[m.source]
      * (Weight.similarity * m.similarity
         + Weight.type * (IF m.type = query.type THEN 100 ELSE 0)
         + Weight.tier * TierProximity(query.tier, m.tier)
         + Weight.shape * ShapeScore(query, m)
         + Weight.flags * FlagOverlap(query.flags, m.flags))

(* The sets of n members of S of the largest keys; ties leave a choice.    *)
Largest(S, n, Key(_)) ==
    {T \in kSubset(Min({n, Cardinality(S)}), S) :
        \A t \in T, s \in S \ T : Key(t) >= Key(s)}

(* vector_candidates: the nearest of what may be seen and is embedded.     *)
VectorCandidates(memories, sources, owner) ==
    Largest({m \in memories : /\ m.ready /\ m.source \in sources
                              /\ m.source = "owner" => m.owner = owner},
            CandidatePoolSize, LAMBDA m : m.similarity)

(* What is kept of a retrieval: the memories the prompt is given, and the  *)
(* candidates that were ranked too low.                                    *)
Attribution(candidates, kept) == [kept |-> kept, truncated |-> candidates \ kept]

NoRetrieval == Attribution({}, {})

(* What the ranking may keep of the candidates.                            *)
Ranked(candidates, query) ==
    {Attribution(candidates, kept) :
        kept \in Largest(candidates, FinalLimit, LAMBDA m : FinalScore(query, m))}

(* retrieve: the candidates of both pools ranked together.  The shared     *)
(* pool is an enrichment, left out when it cannot be read.                 *)
Retrievals(memories, query, sharedRead) ==
    UNION {Ranked(own \cup shared, query) :
        own \in VectorCandidates(memories, {"owner", "corpus"}, query.owner),
        shared \in IF sharedRead
                   THEN VectorCandidates(memories, {"cross_customer"}, query.owner) ELSE {{}}}

WeakRetrieval(retrieved) == \A m \in retrieved.kept : m.similarity < WeakSimilarity

-----------------------------------------------------------------------------
CommonMigrationTypes ==
    {"add_column", "create_index", "alter_column", "create_table"}

ReasonCodes ==
    <<"weak_retrieval", "schema_size_mismatch", "uncommon_migration_type", "unusual_risk">>

Reduction ==
    [weak_retrieval |-> 20, schema_size_mismatch |-> 10,
     uncommon_migration_type |-> 8, unusual_risk |-> 15]

(* Which of the reasons hold.                                              *)
Reasons(policy, retrieved, tier, rows, type) ==
    {r \in DOMAIN Reduction :
        \/ r = "weak_retrieval" /\ WeakRetrieval(retrieved)
        \/ r = "schema_size_mismatch" /\ rows # Unknown /\ rows > 10 * TierRowCaps[tier]
        \/ r = "uncommon_migration_type"
             /\ (policy.parseFailed \/ type \notin CommonMigrationTypes)
        \/ r = "unusual_risk"
             /\ (policy.parseFailed \/ \E f \in policy.flags : f.severity = "high")}

(* adjust_confidence takes the reductions in the order of the reason       *)
(* codes, each of what is left, and records those that took something.     *)
AdjustConfidence(raw, reasons) ==
    LET left[i \in 0 .. Len(ReasonCodes)] ==
            IF i = 0 THEN Min({100, Max({0, raw})})
            ELSE IF ReasonCodes[i] \in reasons
                 THEN Max({0, left[i - 1] - Reduction[ReasonCodes[i]]}) ELSE left[i - 1]
        took(i) == left[i - 1] - left[i]
    IN  [raw |-> raw, score |-> left[Len(ReasonCodes)],
         adjustments |-> {[reason |-> ReasonCodes[i], amount |-> took(i)] :
                              i \in {j \in 1 .. Len(ReasonCodes) : took(j) > 0}}]
=============================================================================
