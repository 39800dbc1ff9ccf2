------------------------------- MODULE Policy -------------------------------
(***************************************************************************)
(* The policy engine (policy/engine.py with policy.yaml): what it finds in *)
(* the statements of a migration, how a finding's severity grows with the  *)
(* table it is about, and the verdict of all findings together.            *)
(*                                                                         *)
(* A statement is what the parser makes of it, as far as the engine looks: *)
(* a kind, the table it alters, the actions of an ALTER TABLE, every table *)
(* it names, and whether its text holds ALTER PRIMARY KEY.  Kind "empty"   *)
(* is nothing between two semicolons, "unparsed" one for which the parser  *)
(* gives up the whole text (ParseError).  An action is a *)
(* set of the features the engine asks for.  A snapshot's row counts are a *)
(* function of its tables; Unknown is a table whose count is not known.    *)
(***************************************************************************)
EXTENDS Integers

Unknown == -1

Severity == {"low", "medium", "high"}
PolicyDecision == {"allow", "warn", "block"}

Rank == [low |-> 1, medium |-> 2, high |-> 3, allow |-> 1, warn |-> 2, block |-> 3]

Rule(severity, decision, review, expand, compat, byRows) ==
    [severity |-> severity, decision |-> decision, review |-> review,
     expand |-> expand, compat |-> compat, byRows |-> byRows]

Rules ==
    [drop_table               |-> Rule("high",   "block", TRUE,  FALSE, "high",   FALSE),
     drop_column              |-> Rule("high",   "block", TRUE,  TRUE,  "high",   FALSE),
     primary_key_change       |-> Rule("high",   "block", TRUE,  FALSE, "high",   TRUE),
     foreign_key_add          |-> Rule("medium", "warn",  FALSE, FALSE, "medium", TRUE),
     index_creation           |-> Rule("low",    "allow", FALSE, FALSE, "low",    TRUE),
     table_rewrite            |-> Rule("high",   "warn",  TRUE,  FALSE, "medium", TRUE),
     long_running_backfill    |-> Rule("medium", "warn",  FALSE, FALSE, "low",    TRUE),
     backward_incompatible    |-> Rule("medium", "warn",  TRUE,  TRUE,  "high",   FALSE),
     parse_failure            |-> Rule("high",   "block", TRUE,  FALSE, "medium", FALSE),
     missing_referenced_table |-> Rule("high",   "block", TRUE,  FALSE, "medium", FALSE)]

RuleId == DOMAIN Rules

HighRows == 1000000
MediumRows == 10000

(* Table sizes only ever raise a severity.                                 *)
EscalateSeverity(base, rows) ==
    IF rows >= HighRows THEN "high"
    ELSE IF rows >= MediumRows /\ base = "low" THEN "medium"
    ELSE base

-----------------------------------------------------------------------------
RowIndex(snapshot) == [t \in snapshot.tables |-> snapshot.rows[t]]

LookupRows(index, table) == IF table \in DOMAIN index THEN index[table] ELSE Unknown

FindingFromRule(rule, table, index) ==
    [rule |-> rule, table |-> table, decision |-> Rules[rule].decision,
     severity |-> IF Rules[rule].byRows
                  THEN EscalateSeverity(Rules[rule].severity, LookupRows(index, table))
                  ELSE Rules[rule].severity]

AddColumnRules(action) ==
    {r \in {"long_running_backfill", "backward_incompatible"} :
        \/ r = "long_running_backfill" /\ "default" \in action.has
        \/ r = "backward_incompatible" /\ "not_null" \in action.has}

(* The rules an action of an ALTER TABLE falls under.                      *)
AlterRules(action) ==
    CASE action.kind = "drop_column"     -> {"drop_column"}
      [] action.kind \in {"drop_constraint", "alter_column"} /\ "pkey" \in action.has ->
            {"primary_key_change"}
      [] action.kind = "add_constraint"  ->
            {r \in {"foreign_key_add", "primary_key_change", "backward_incompatible"} :
                \/ r = "foreign_key_add" /\ "foreign_key" \in action.has
                \/ r = "primary_key_change" /\ "pkey" \in action.has
                \/ r = "backward_incompatible" /\ action.has \cap {"check", "unique"} # {}}
      [] action.kind = "alter_column" /\ "pkey" \notin action.has ->
            {r \in {"table_rewrite", "backward_incompatible"} :
                \/ r = "table_rewrite" /\ "type" \in action.has
                \/ r = "backward_incompatible" /\ "not_null" \in action.has}
      [] action.kind = "add_column" -> AddColumnRules(action)
      [] action.kind = "rename" -> {"backward_incompatible"}
      [] OTHER -> {}

StatementRules(s) ==
    CASE s.kind = "empty"        -> {"parse_failure"}
      [] s.kind = "drop_table"   -> {"drop_table"}
      [] s.kind = "create_index" -> {"index_creation"}
      [] s.kind = "alter_table"  -> UNION {AlterRules(a) : a \in s.actions}
      [] OTHER -> {}

AnalyzeStatement(s, index) ==
    {FindingFromRule(r, s.table, index) : r \in StatementRules(s)}

(* Only a snapshot with tables can miss one; a table that the migration    *)
(* itself creates is missed as well.                                       *)
MissingReferencedTables(statements, index) ==
    IF DOMAIN index = {} THEN {}
    ELSE UNION {s.names : s \in statements} \ DOMAIN index

(* CockroachDB's ALTER PRIMARY KEY, when the parser made nothing of it.    *)
CrdbPrimaryKey(statements, findings, index) ==
    IF /\ \E s \in statements : s.crdbKey
       /\ ~\E f \in findings : f.rule = "primary_key_change"
    THEN {FindingFromRule("primary_key_change", s.table, index) :
              s \in {t \in statements : t.kind = "alter_table"}}
         \cup (IF \E s \in statements : s.kind = "alter_table" THEN {}
               ELSE {FindingFromRule("primary_key_change", "(unknown)", index)})
    ELSE {}

(* What all findings are taken to mean.                                    *)
Decision(findings) ==
    IF \E f \in findings : f.decision = "block" THEN "block"
    ELSE IF \E f \in findings : f.decision = "warn" THEN "warn" ELSE "allow"

Compatibility(findings) ==
    IF \E f \in findings : Rules[f.rule].compat = "high" THEN "high"
    ELSE IF \E f \in findings : Rules[f.rule].compat = "medium" THEN "medium" ELSE "low"

Aggregate(findings, enabled) ==
    LET active == {f \in findings : f.rule \in enabled \cup {"parse_failure"}}
    IN  [flags    |-> active,
         decision |-> Decision(active),
         compat   |-> Compatibility(active),
         expand   |-> \E f \in active : Rules[f.rule].expand,
         review   |-> \E f \in active : Rules[f.rule].review \/ f.severity = "high",
         parseFailed |-> \E f \in active : f.rule = "parse_failure"]

(* What all of the findings of statements that parse are.                  *)
Findings(statements, index) ==
    LET found   == UNION {AnalyzeStatement(s, index) : s \in statements}
        missing == {FindingFromRule("missing_referenced_table", t, index) :
                        t \in MissingReferencedTables(statements, index)}
    IN  found \cup missing \cup CrdbPrimaryKey(statements, found \cup missing, index)

ParseFailure(index) == {FindingFromRule("parse_failure", "(none)", index)}

Parses(statements) == \A s \in statements : s.kind # "unparsed"

(* analyze: a text that does not parse, or holds no statement, is one      *)
(* finding and nothing else.                                               *)
Analyze(statements, index, enabled) ==
    IF Parses(statements) /\ \E s \in statements : s.kind # "empty"
    THEN Aggregate(Findings(statements, index), enabled)
    ELSE Aggregate(ParseFailure(index), enabled)
=============================================================================
