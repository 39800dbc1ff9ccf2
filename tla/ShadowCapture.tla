---------------------------- MODULE ShadowCapture ----------------------------
(***************************************************************************)
(* What is read off the shadow cluster around the migration: the tables    *)
(* the SQL names, a row sample of each before, the same rows again after,  *)
(* and the events its changefeed wrote.  All best-effort, all pure.        *)
(*                                                                         *)
(* A name is a record [schema, name], schema = "" for a bare one, compared *)
(* without case.  A database maps [schema, name] to [pk, rows, broken]; a  *)
(* row is a function from columns to values.                               *)
(***************************************************************************)
EXTENDS Integers, Sequences, SequencesExt, FiniteSetsExt

\* extract_referenced_tables: every name once, in order of appearance; SQL
\* that does not parse names none.
ReferencedTables(sql) ==
    IF ~sql.parses THEN <<>>
    ELSE FoldLeft(LAMBDA acc, n : IF n \in ToSet(acc) THEN acc ELSE Append(acc, n),
                  <<>>, sql.names)

\* _index_tables_for_sampling: a bare name belongs to the last schema, in the
\* order of the snapshot, that has such a table.
BareTable(order, db, name) ==
    LET holds == {k \in 1..Len(order) : [schema |-> order[k], name |-> name] \in DOMAIN db}
    IN IF holds = {} THEN <<>> ELSE <<[schema |-> order[Max(holds)], name |-> name]>>

\* _lookup_table: the qualified name, else its bare part, anywhere.
LookupTable(order, db, requested) ==
    IF requested \in DOMAIN db THEN <<requested>> ELSE BareTable(order, db, requested.name)

-----------------------------------------------------------------------------
(* Row samples.                                                            *)

FirstRows(rows, limit) ==
    LET n == IF Len(rows) < limit THEN Len(rows) ELSE limit IN SubSeq(rows, 1, n)

KeyOf(row, pk) == [c \in pk |-> row[c]]

MissingSample == [table |-> <<>>, rows |-> <<>>, total |-> -1, matched |-> FALSE, error |-> TRUE]

\* _fetch_rows_by_pk, or the ordered fetch when the table has no key or the
\* earlier sample no usable one.  A column of the key that the migration
\* dropped makes the query fail, which is this table's error only.
SampleTable(db, table, ids, limit) ==
    LET t == db[table]
        matching == SelectSeq(t.rows, LAMBDA r : KeyOf(r, t.pk) \in ids)
        match == ids # {} /\ t.pk # {}
    IN IF t.broken THEN [MissingSample EXCEPT !.table = <<table>>]
       ELSE [table |-> <<table>>,
             rows |-> IF match THEN matching ELSE FirstRows(t.rows, limit),
             total |-> Len(t.rows),
             matched |-> match,
             error |-> FALSE]

\* _capture_row_samples: one entry per name asked for, but a table that is
\* asked for under two names is captured once.
CaptureRowSamples(order, db, names, ids, limit) ==
    LET Physical(k) == LookupTable(order, db, names[k])
        first == {k \in 1..Len(names) :
                     \/ Physical(k) = <<>>
                     \/ \A j \in 1..(k - 1) : Physical(j) # Physical(k)}
    IN [n \in {names[k] : k \in first} |->
           LET p == LookupTable(order, db, n)
           IN IF p = <<>> THEN MissingSample
              ELSE SampleTable(db, p[1], IF n \in DOMAIN ids THEN ids[n] ELSE {}, limit)]

\* build_row_ids_for_matching: the keys of the rows sampled before.
RowIdsForMatching(db, sample) ==
    [n \in {x \in DOMAIN sample :
              /\ ~sample[x].error /\ sample[x].rows # <<>>
              /\ db[sample[x].table[1]].pk # {}} |->
        {KeyOf(r, db[sample[n].table[1]].pk) : r \in ToSet(sample[n].rows)}]

\* _fill_exact_row_counts: a table that cannot be counted keeps its estimate.
ExactRowCounts(db, estimate) ==
    [t \in DOMAIN db |-> IF db[t].broken THEN estimate[t] ELSE Len(db[t].rows)]

-----------------------------------------------------------------------------
(* Changefeed events: files of lines; a line is [ok, at].                  *)

ParseEvents(blobs) ==
    SortSeq(SelectSeq(FlattenSeq(blobs), LAMBDA line : line.ok),
            LAMBDA a, b : a.at < b.at)

\* A bucket that cannot be read gives none; more than the cap are cut to the
\* earliest.
ReadChangefeedEvents(readable, blobs, maxEvents) ==
    IF readable THEN FirstRows(ParseEvents(blobs), maxEvents) ELSE <<>>
=============================================================================
