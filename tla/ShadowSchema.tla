---------------------------- MODULE ShadowSchema ----------------------------
(***************************************************************************)
(* Structure on the shadow cluster: what ShadowSchemaLoader recreates of a *)
(* customer's snapshot, how compare_snapshots judges the copy, and how     *)
(* build_schema_diff describes what a migration changed.                   *)
(*                                                                         *)
(* A schema is a set of tables.  A column's type is the set of family      *)
(* words its udt name contains; its name and every other name are          *)
(* abstract.  DDL the cluster refuses is a parameter.                      *)
(***************************************************************************)
EXTENDS Integers, Sequences, FiniteSets

SystemSchemas == {"information_schema", "pg_catalog", "crdb_internal", "pg_extension"}

UserTables(metadata) == {t \in metadata : t.schema \notin SystemSchemas}

-----------------------------------------------------------------------------
(* Types.  The tests run in this order, so an INTERVAL, whose name holds   *)
(* "int", is an int.                                                       *)

Families == <<"uuid", "bool", "timestamp", "date", "json", "bytes", "int", "float">>

TypeFamily(column) ==
    LET hits == SelectSeq(Families, LAMBDA f : f \in column.raw)
    IN IF hits = <<>> THEN "string" ELSE Head(hits)

\* A string keeps its declared width (0: none), every other family loses it.
MapColumnType(column) ==
    [family |-> TypeFamily(column),
     width  |-> IF TypeFamily(column) = "string" THEN column.width ELSE 0]

\* The column as the cluster reports it once created; a key column cannot
\* be null there.
Recreated(column, pk) ==
    [name |-> column.name,
     raw |-> {MapColumnType(column).family} \ {"string"},
     width |-> MapColumnType(column).width,
     nullable |-> column.nullable /\ column.name \notin pk]

-----------------------------------------------------------------------------
(* DDL the loader issues, and the copy it leaves.                          *)

IndexDdl(t) == {i \in t.indexes : ~i.primary /\ i.columns # {}}

ConstraintDdl(t) ==
    {c \in t.constraints : \/ c.kind = "unique" /\ c.columns # {}
                           \/ c.kind = "check" /\ c.definition}

\* What ALTER TABLE .. ADD CONSTRAINT leaves is read back without the columns
\* of a CHECK.
AsRead(c) == IF c.kind = "check" THEN [c EXCEPT !.columns = {}] ELSE c

LoadTable(t, refused) ==
    [t EXCEPT !.columns = {Recreated(c, t.pk) : c \in t.columns},
              !.indexes = IndexDdl(t) \ refused,
              !.fks = t.fks \ refused,
              !.constraints = {AsRead(c) : c \in ConstraintDdl(t) \ refused}]

\* CREATE TABLE is the only statement whose failure stops the load: a
\* refused index is only logged, a refused key or constraint is a warning.
LoadRaises(metadata, refused) == \E t \in UserTables(metadata) : t \in refused

Load(metadata, refused) == {LoadTable(t, refused) : t \in UserTables(metadata)}

LoadReport(metadata, refused) ==
    LET tables == UserTables(metadata)
    IN [tables   |-> Cardinality(tables),
        pks      |-> Cardinality({t \in tables : t.pk # {}}),
        schemas  |-> Cardinality({t.schema : t \in tables} \ {"public"}),
        warnings |-> Cardinality(UNION {{t} \X (refused \cap (t.fks \cup ConstraintDdl(t))) :
                                            t \in tables})]

-----------------------------------------------------------------------------
(* compare_snapshots: the categories in which the copy falls short.  It    *)
(* looks for what is missing only, never for what is extra.                *)

Signatures(t) ==
    {IF c.kind = "unique" THEN <<"unique", c.columns>> ELSE <<"check", {}>> :
        c \in {d \in t.constraints : d.kind \in {"unique", "check"}}}

Secondary(t) == {<<i.columns, i.unique>> : i \in {j \in t.indexes : ~j.primary}}
References(t) == {<<f.table, f.columns>> : f \in t.fks}

CompareTable(e, a) ==
    UNION {IF \A c \in e.columns : \E d \in a.columns :
                  /\ d.name = c.name
                  /\ TypeFamily(d) = TypeFamily(c)
                  /\ d.nullable = c.nullable
           THEN {} ELSE {"columns"},
           IF e.pk = a.pk THEN {} ELSE {"primary_keys"},
           IF References(e) \subseteq References(a) THEN {} ELSE {"foreign_keys"},
           IF Secondary(e) \subseteq Secondary(a) THEN {} ELSE {"indexes"},
           IF Signatures(e) \subseteq Signatures(a) THEN {} ELSE {"constraints"}}

Same(e, a) == e.schema = a.schema /\ e.name = a.name

CompareSnapshots(expected, actual) ==
    LET exp == UserTables(expected)
        act == UserTables(actual)
    IN (IF {t.schema : t \in exp} \subseteq {t.schema : t \in act}
        THEN {} ELSE {"schemas"})
       \cup UNION {IF \E a \in act : Same(e, a)
                   THEN CompareTable(e, CHOOSE a \in act : Same(e, a))
                   ELSE {"tables"} : e \in exp}

-----------------------------------------------------------------------------
(* build_schema_diff: tables and columns by name, with a kind; indexes and *)
(* constraints by name only.                                               *)

Names(s) == {x.name : x \in s}

ColumnKind(n, before, after) ==
    IF n \notin Names(before) THEN "added"
    ELSE IF n \notin Names(after) THEN "removed"
    ELSE LET b == CHOOSE c \in before : c.name = n
             a == CHOOSE c \in after : c.name = n
         IN IF b.raw = a.raw /\ b.nullable = a.nullable THEN "unchanged" ELSE "changed"

DiffColumns(before, after) ==
    [n \in Names(before) \cup Names(after) |-> ColumnKind(n, before, after)]

DiffNamedSet(before, after) ==
    [added |-> Names(after) \ Names(before), removed |-> Names(before) \ Names(after)]

NoChange == [added |-> {}, removed |-> {}]
NoTable == [columns |-> {}, indexes |-> {}, constraints |-> {}]

\* NoTable stands for the side on which the table does not exist.
DiffTable(before, after) ==
    LET columns     == DiffColumns(before.columns, after.columns)
        indexes     == DiffNamedSet(before.indexes, after.indexes)
        constraints == DiffNamedSet(before.constraints, after.constraints)
    IN [kind |-> IF before = NoTable THEN "added"
                 ELSE IF after = NoTable THEN "removed"
                 ELSE IF \/ \E n \in DOMAIN columns : columns[n] # "unchanged"
                         \/ indexes # NoChange
                         \/ constraints # NoChange
                 THEN "changed" ELSE "unchanged",
        columns |-> columns, indexes |-> indexes, constraints |-> constraints]

Keys(metadata) == {<<t.schema, t.name>> : t \in UserTables(metadata)}

TableOf(metadata, key) ==
    IF key \in Keys(metadata)
    THEN CHOOSE t \in UserTables(metadata) : <<t.schema, t.name>> = key
    ELSE NoTable

\* With one snapshot missing every table of the other is added or removed;
\* with both missing there is no diff at all.
BuildSchemaDiff(before, after) ==
    [key \in Keys(before) \cup Keys(after) |->
        DiffTable(TableOf(before, key), TableOf(after, key))]
=============================================================================
