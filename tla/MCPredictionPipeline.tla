----------------------- MODULE MCPredictionPipeline -----------------------
(* Values for model-checking PredictionPipeline: a migration that makes a  *)
(* foreign key from the big table to the small one.                        *)
EXTENDS PredictionPipeline, TLC

CONSTANTS big, small, q1, p1, p2

MCSymmetry == Permutations({p1, p2})

\* Bound: what still happens of pipelines and discoveries once the run was
\* decided or has failed is not followed.
Undecided == status \in {"pending", "predicting", "awaiting_approval"}

MCRowsOf == big :> 2000000 @@ small :> 20000

MCCatalog == [tables |-> {big, small}, fks |-> {<<big, small>>}, indexes |-> {big}]

Statement(kind, table, actions, names) ==
    [kind |-> kind, table |-> table, actions |-> actions, names |-> names, crdbKey |-> FALSE]

Action(kind, has) == [kind |-> kind, has |-> has]

MCStatements ==
    {Statement("alter_table", big, {Action("add_constraint", {"foreign_key"})}, {big, small})}

MCSqlText == {"alter table", "add constraint", "table"}

Memory(source, owner, ready, similarity, type, tier) ==
    [source |-> source, owner |-> owner, ready |-> ready, similarity |-> similarity,
     type |-> type, tier |-> tier, indexes |-> 1, complexity |-> 3, flags |-> {"foreign_key_add"}]

MCMemories ==
    {Memory("owner", "me", TRUE, 30, "other", "large"),
     Memory("owner", "other", TRUE, 99, "other", "large"),
     Memory("corpus", "corpus", FALSE, 90, "create_index", "small"),
     Memory("cross_customer", "shared", TRUE, 60, "drop_column", "small")}

-----------------------------------------------------------------------------
(* The operators on their own, over small inputs.                          *)
MCActions == {Action(k, h) : k \in {"drop_column", "drop_constraint", "add_constraint",
                                    "alter_column", "add_column", "rename"},
                             h \in SUBSET {"pkey", "foreign_key", "type", "not_null", "default"}}
MCKinds == {"unparsed", "empty", "drop_table", "create_index", "alter_table", "select"}
MCSome ==
    {Statement(k, big, a, {big}) : k \in MCKinds \ {"alter_table"}, a \in {{}}}
        \cup {Statement("alter_table", small, {a}, {small}) : a \in MCActions}
        \cup {[Statement("alter_table", big, {}, {big}) EXCEPT !.crdbKey = TRUE]}
MCIndexes == {<<>>, big :> 5000, big :> 2000000, big :> Unknown @@ small :> 20000}

(* Another statement never softens the decision nor the need of a review,  *)
(* and one that parses softens nothing; one that does not takes what the   *)
(* others say of compatibility and expansion with it.                      *)
ASSUME MoreIsStricter ==
    \A s, t \in MCSome, index \in MCIndexes :
        LET one == Analyze({s}, index, RuleId)
            two == Analyze({s, t}, index, RuleId)
        IN  /\ Rank[two.decision] >= Rank[one.decision]
            /\ one.review => two.review
            /\ Parses({s, t}) =>
                 /\ Rank[two.compat] >= Rank[one.compat]
                 /\ one.expand => two.expand
            /\ ~Parses({s, t}) => two.compat = "medium" /\ ~two.expand
ASSUME NothingUnparsedPasses ==
    \A s \in MCSome, kind \in {"unparsed", "empty"}, enabled \in {{}, RuleId} :
        Analyze({s, Statement(kind, big, {}, {})}, <<>>, enabled).decision = "block"
ASSUME BiggerIsWorse ==
    \A base \in Severity, m, n \in {Unknown, 0, 9999, 10000, 999999, 1000000} :
        m <= n => Rank[EscalateSeverity(base, m)] <= Rank[EscalateSeverity(base, n)]

(* A confidence is only lowered, by what its adjustments say; and the size *)
(* mismatch is out of reach of the tiers chosen by select_scale_tier but   *)
(* for the largest.                                                        *)
ASSUME ConfidenceAccounted ==
    \A raw \in {-10, 0, 7, 20, 43, 55, 100, 120}, why \in SUBSET DOMAIN Reduction :
        LET c == AdjustConfidence(raw, why)
        IN  /\ c.score \in 0 .. 100 /\ (raw \in 0 .. 100 => c.score <= raw)
            /\ MapThenSumSet(LAMBDA a : a.amount, c.adjustments)
                 = Min({100, Max({0, raw})}) - c.score
            /\ \A a \in c.adjustments : a.reason \in why /\ a.amount <= Reduction[a.reason]
ASSUME OnlyLargeMismatches ==
    \A rows \in {0, 1000, 1001, 10000, 10001, 100000, 100001, 500000, 500001} :
        rows > 10 * TierRowCaps[SelectScaleTier(rows)] => SelectScaleTier(rows) = "large"
=============================================================================
