------------------------- MODULE MCShadowExecution -------------------------
(* Values for model-checking ShadowExecution, and the loader, the snapshot *)
(* comparison, the diff and the tool loop evaluated over bounded inputs.   *)
EXTENDS ShadowExecution, ShadowInvestigation, ShadowCapture, ShadowOrchestrator, TLC

CONSTANTS w1, w2

MCSymmetry == Permutations(Worker)

\* Bound: the migration, which shares no variable with the seeding but the
\* stage and the bound on lost connections, is followed behind a seeding
\* that needed one delivery and filled every table.
SeededPlainly ==
    \/ stage \in {"load", "seed", "loaded"} /\ attempts = 1
    \/ /\ deliveries = 1
       /\ \A t \in Table : rows[t] = Target
       /\ \A x \in results : x.failed = "no"

-----------------------------------------------------------------------------
Id == [name |-> "id", raw |-> {"int"}, width |-> 0, nullable |-> FALSE]
Note == [name |-> "note", raw |-> {}, width |-> 20, nullable |-> TRUE]
Due == [name |-> "due", raw |-> {"timestamp", "int"}, width |-> 0, nullable |-> TRUE]

MCIndexes == {[name |-> "pkey", columns |-> {"id"}, unique |-> TRUE, primary |-> TRUE],
              [name |-> "by_note", columns |-> {"note"}, unique |-> FALSE, primary |-> FALSE],
              [name |-> "expr", columns |-> {}, unique |-> FALSE, primary |-> FALSE]}
MCConstraints == {[name |-> "c", kind |-> "check", columns |-> {"id"}, definition |-> TRUE],
                  [name |-> "d", kind |-> "check", columns |-> {}, definition |-> FALSE],
                  [name |-> "u", kind |-> "unique", columns |-> {"note"}, definition |-> FALSE]}
MCFks == {[name |-> "f", columns |-> {"id"}, table |-> "other"]}

MCTables ==
    {[schema |-> "public", name |-> "t", columns |-> c, pk |-> k, indexes |-> i,
      fks |-> f, constraints |-> x] :
        c \in {{Id}, {Id, Note}, {Id, Note, Due}}, k \in {{}, {"id"}},
        i \in SUBSET MCIndexes, f \in SUBSET MCFks, x \in SUBSET MCConstraints}

\* What the loader leaves out without a refusal, and what a later element of
\* the same signature hides from the comparison.
Skipped(t) ==
    \/ \E i \in t.indexes : ~i.primary /\ i.columns = {}
    \/ \E c \in t.constraints \ ConstraintDdl(t) :
          ~\E d \in ConstraintDdl(t) : d.kind = "check" /\ c.kind = "check"

\* A schema loaded without a refusal compares equal to its snapshot unless it
\* has an expression index or a constraint the loader cannot spell.
ASSUME LoadFaithful ==
    \A t \in MCTables : CompareSnapshots({t}, Load({t}, {})) = {} <=> ~Skipped(t)

\* A refused foreign key or index is always reported missing.
ASSUME RefusalSeen ==
    \A t \in MCTables :
        /\ \A f \in t.fks : "foreign_keys" \in CompareSnapshots({t}, Load({t}, {f}))
        /\ \A i \in IndexDdl(t) : "indexes" \in CompareSnapshots({t}, Load({t}, {i}))

MCPairs == {t \in MCTables : t.fks = {} /\ t.pk = {} /\ Cardinality(t.indexes) < 2}

Swapped(kind) == CASE kind = "added" -> "removed" [] kind = "removed" -> "added" [] OTHER -> kind

\* The diff of a schema with itself says unchanged, and the diff read
\* backwards has added and removed exchanged.
ASSUME DiffSymmetric ==
    /\ \A t \in MCTables : BuildSchemaDiff({t}, {t})[<<"public", "t">>].kind = "unchanged"
    /\ \A s \in {{}} \cup {{x} : x \in MCPairs}, t \in MCPairs :
          LET there == BuildSchemaDiff(s, {t})[<<"public", "t">>]
              back == BuildSchemaDiff({t}, s)[<<"public", "t">>]
          IN /\ back.kind = Swapped(there.kind)
             /\ \A n \in DOMAIN there.columns :
                    back.columns[n] = Swapped(there.columns[n])
             /\ back.indexes.added = there.indexes.removed

-----------------------------------------------------------------------------
\* A seeded table never passes its tier's cap, and a key made of row numbers
\* repeats when its column is too short for the target.
ASSUME RowTargets ==
    \A tier \in DOMAIN TierRowCap, e \in {-1, 0, 1, 999, 1000, 70000} :
        RowTarget(e, TierRowCap[tier]) \in 0..TierRowCap[tier]

ASSUME BatchUnderBindLimit == \A n \in 1..200 : n * RowsPerBatch(n) <= 60000

ASSUME ShortKeyRepeats ==
    LET key == [raw |-> {}, width |-> 4] IN
    ServerValueDistinct(key, TRUE, 99) /\ ~ServerValueDistinct(key, TRUE, 1000)

-----------------------------------------------------------------------------
MCReplies ==
    {[answer |-> "ok", tools |-> s] :
        s \in {<<>>, <<"run_sql">>, <<"insert_rows">>, <<MemoryTool, "run_sql">>}}
    \cup {[answer |-> "failed", tools |-> <<>>]}

MCEnvs == {[server |-> [up |-> TRUE, tools |-> {"run_sql", "insert_rows"}],
            model |-> TRUE, snapshot |-> TRUE, local |-> l, maxCalls |-> n, maxTurns |-> 3] :
              l \in BOOLEAN, n \in 1..3}

\* Whatever the model asks for, no write tool runs, the budget holds for all
\* tools together, and three turns end the loop.
ASSUME InvestigationBounded ==
    \A env \in MCEnvs : \A replies \in [1..3 -> MCReplies] :
        LET s == ConverseWithTools(env, replies)
            Ran == SelectSeq(s.log, LAMBDA c : c[2] \in {"ran", "served"})
        IN /\ Len(Ran) <= s.calls /\ s.calls <= env.maxCalls
           /\ \A k \in 1..Len(Ran) : Ran[k][1] \notin WriteTools
           /\ s.state \in {"final", "failed"}
           /\ (Investigate(env, replies) = NoTrace) = (s.state = "failed")

-----------------------------------------------------------------------------
MCRows == {<<>>, <<[id |-> 1, v |-> 1]>>, <<[id |-> 1, v |-> 2], [id |-> 2, v |-> 1]>>,
           <<[id |-> 2, v |-> 1], [id |-> 3, v |-> 1]>>}
Qualified == [schema |-> "s1", name |-> "t"]
Bare == [schema |-> "", name |-> "t"]
MCDatabases == {[x \in {Qualified} |-> [pk |-> k, rows |-> r, broken |-> b]] :
                   k \in {{}, {"id"}}, r \in MCRows, b \in BOOLEAN}

\* The rows shown after the migration, where they are matched, are rows whose
\* key was in the sample taken before; a table named twice is sampled once.
ASSUME SamplesMatch ==
    \A b \in MCDatabases, a \in MCDatabases : b[Qualified].pk = a[Qualified].pk =>
        LET names == <<Bare, Qualified>>
            was == CaptureRowSamples(<<"s1">>, b, names, <<>>, 2)
            ids == RowIdsForMatching(b, was)
            now == CaptureRowSamples(<<"s1">>, a, names, ids, 2)
        IN /\ DOMAIN was = {Bare}
           /\ \A n \in DOMAIN now : now[n].matched =>
                 \A r \in ToSet(now[n].rows) :
                     \E q \in ToSet(was[n].rows) : q["id"] = r["id"]

\* Two schemas with a table of one name: a bare reference is taken for the
\* table of the last schema, whatever the search path says.
ASSUME BareNameAmbiguous ==
    LET db == [x \in {[schema |-> "public", name |-> "t"], Qualified} |->
                  [pk |-> {}, rows |-> <<>>, broken |-> FALSE]]
    IN LookupTable(<<"public", "s1">>, db, Bare) = <<Qualified>>

\* However many events a changefeed wrote, no more than the cap are kept, and
\* those are the earliest.
ASSUME EventsCapped ==
    \A blobs \in [1..2 -> {<<>>, <<[ok |-> TRUE, at |-> 2]>>,
                           <<[ok |-> FALSE, at |-> 1], [ok |-> TRUE, at |-> 1]>>}] :
        LET kept == ReadChangefeedEvents(TRUE, blobs, 1)
        IN Len(kept) <= 1 /\ \A e \in ToSet(ParseEvents(blobs)) : kept[1].at <= e.at

\* The cluster is destroyed on every path but those on which the row cannot
\* be marked DESTROYING first, and a report never claims a teardown that
\* did not destroy.
ASSUME LifecycleTearsDown ==
    \A fails \in SUBSET (ToSet(Calls) \cup {"destroying", "destroy", "destroyed", "set_error"}) :
        LET r == RunLifecycle(fails)
        IN /\ r.tornDown => r.destroyed
           /\ ~r.destroyed => fails \cap {"destroying", "destroy"} # {}
           /\ "migrate" \in Made(fails) => "store_snapshot" \in Made(fails)
=============================================================================
