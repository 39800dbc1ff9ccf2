-------------------------- MODULE ClusterComparison --------------------------
(* The before-and-after cards of the shadow page (mapClusterComparison): the  *)
(* shadow's two snapshots of its own database, and beside the first the row   *)
(* estimates of the customer's.  A snapshot is a set of tables, {} where none *)
(* was captured; a row sample maps <<schema, name>> keys to counts.           *)
EXTENDS RunMapping, FiniteSetsExt

\* The page hides the schemas the loader leaves out, and nameless entries.
ReadSnapshotTables(snapshot) == {t \in UserTables(snapshot) : t.name # ""}

\* Narrowed to the one table the SQL names, where this side has it.
FilterToTargetTable(tables, target) ==
    LET named == {t \in tables : t.name = target}
    IN IF target = None \/ named = {} THEN tables ELSE named

Key(t) == <<t.schema, t.name>>

\* A sampled table answers to its key and to its bare name.
SampledRows(counts, t) ==
    LET keyed == {k \in DOMAIN counts : k = Key(t)}
        named == {k \in DOMAIN counts : k[2] = t.name}
    IN IF keyed # {} THEN counts[CHOOSE k \in keyed : TRUE]
       ELSE IF named # {} THEN counts[CHOOSE k \in named : TRUE]
       ELSE None

\* The true count of a sample comes before the snapshot's estimate.
ResolveRowCount(t, counts) ==
    IF SampledRows(counts, t) # None THEN SampledRows(counts, t) ELSE t.rows

ProductionRows(production, t) ==
    LET same == {p \in ReadSnapshotTables(production) : p.name = t.name /\ p.rows # None}
    IN IF same = {} THEN None ELSE (CHOOSE p \in same : TRUE).rows

DiffKind(diff, t) == IF Key(t) \in DOMAIN diff THEN diff[Key(t)].kind ELSE "unchanged"

\* A card: its tables with the rows shown for each, and the totals.
BuildCard(tables, rows, diff, synthetic) ==
    LET counted == {t \in tables : rows[t] # None}
    IN IF tables = {} THEN None
       ELSE [kinds      |-> [k \in {Key(t) : t \in tables} |->
                                DiffKind(diff, CHOOSE t \in tables : Key(t) = k)],
             tableCount |-> Cardinality(tables),
             indexCount |-> MapThenSumSet(LAMBDA t : Cardinality(t.indexes), tables),
             rowCount   |-> IF counted = {} THEN None ELSE MapThenSumSet(LAMBDA t : rows[t], counted),
             synthetic  |-> synthetic]

\* Every column of one table as its own side has it; none if it has no such table.
RawColumns(snapshot, key) == UNION {t.columns : t \in {t \in snapshot : Key(t) = key}}

WithKind(columns, kinds) ==
    [n \in Names(columns) |-> IF n \in DOMAIN kinds THEN kinds[n] ELSE "unchanged"]

ColumnDetails(diff, before, after) ==
    [key \in {k \in DOMAIN diff : diff[k].kind # "unchanged"} |->
        [before |-> WithKind(RawColumns(before, key), diff[key].columns),
         after  |-> WithKind(RawColumns(after, key), diff[key].columns)]]

ProductionColumnDetails(production) ==
    [key \in {Key(t) : t \in ReadSnapshotTables(production)} |->
        [before |-> WithKind(RawColumns(production, key), <<>>), after |-> <<>>]]

OfKind(diff, kind) == {k \in DOMAIN diff : diff[k].kind = kind}

Changes(diff) ==
    [added     |-> OfKind(diff, "added"),
     removed   |-> OfKind(diff, "removed"),
     changed   |-> OfKind(diff, "changed"),
     modified  |-> UNION {{<<k, n>> : n \in {n \in DOMAIN diff[k].columns :
                                             diff[k].columns[n] # "unchanged"}} :
                          k \in OfKind(diff, "changed")},
     unchanged |-> Cardinality(OfKind(diff, "unchanged"))]

\* shadow.after is the snapshot after the migration, shadow.counts the samples.
ClusterComparison(run, shadow, target) ==
    LET Side(s) == IF shadow = None THEN {}
                   ELSE FilterToTargetTable(ReadSnapshotTables(s), target)
        before     == Side(IF shadow = None THEN {} ELSE shadow.before)
        after      == Side(IF shadow = None THEN {} ELSE shadow.after)
        production == FilterToTargetTable(ReadSnapshotTables(run.snapshot), target)
        failed     == shadow # None /\ shadow.status \notin {"provisioning", "ready", "seeding"}
        estimate == [t \in production |-> t.rows]
        sourceRows == [t \in before |->
            LET p == ProductionRows(run.snapshot, t)
            IN IF p # None THEN p ELSE ResolveRowCount(t, shadow.counts_before)]
        shadowRows == [t \in after |-> ResolveRowCount(t, shadow.counts_after)]
        Nothing(status) == [status |-> status, source |-> None, shadow |-> None,
                            changes |-> None, columns |-> <<>>]
    IN IF before = {} /\ after = {}
       THEN IF production # {}
            THEN [Nothing("source_only") EXCEPT
                     !.source = BuildCard(production, estimate, <<>>, FALSE),
                     !.columns = ProductionColumnDetails(run.snapshot)]
            ELSE Nothing(IF failed THEN "unavailable" ELSE "waiting")
       ELSE [status  |-> "ready",
             source  |-> BuildCard(before, sourceRows, shadow.diff, FALSE),
             shadow  |-> BuildCard(after, shadowRows, shadow.diff, TRUE),
             changes |-> Changes(shadow.diff),
             columns |-> ColumnDetails(shadow.diff, shadow.before, shadow.after)]

-----------------------------------------------------------------------------
(* The schema browser of the wizard (mapSchema). *)

\* Discovery nests tables in schemas; a fake snapshot may list them flat.
SchemaTables(snap) == IF snap.nested # {} THEN snap.nested ELSE snap.flat

\* The marker of the Key column: the strongest that holds.
KeyLabel(t, column) ==
    IF column.primary \/ column.name \in t.pk THEN "PK"
    ELSE IF \E f \in t.fks : column.name \in f.columns THEN "FK"
    ELSE IF column.unique THEN "UNIQUE"
    ELSE None

\* A status alone, without a snapshot, is a schema with no tables.
MapSchema(run) ==
    IF run.snap = None THEN IF run.discovery = None THEN None ELSE {}
    ELSE SchemaTables(run.snap)
=============================================================================
