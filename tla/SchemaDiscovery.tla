--------------------------- MODULE SchemaDiscovery ---------------------------
(***************************************************************************)
(* Discovery of the customer's schema (schema_analysis/ and                *)
(* services/schema_discovery_service.py).  A discovery connects, checks    *)
(* the database and that the credentials cannot write, reads the catalogue *)
(* query by query and stores what it read on the run, or that it failed.   *)
(* Discoveries are asked for by the API at any time and by the workflow;   *)
(* meanwhile the customer's schema and grants change.                      *)
(*                                                                         *)
(* A catalogue is its tables, the foreign keys and the indexed tables;     *)
(* columns, keys and constraints are read as indexes are.                  *)
(***************************************************************************)
EXTENDS MemoryRetrieval

CONSTANTS
    Table,       \* the customer's tables
    RowsOf,      \* how many rows each has
    Counted,     \* the sets of tables that the row estimates may be of
    InitialCatalog,
    Request,     \* the discoveries that may be at work at a time
    Cockroach,   \* whether the customer's database is CockroachDB
    MaxChanges   \* bound of this model on the customer's changes

Catalogue ==
    {c \in [tables: SUBSET Table, fks: SUBSET (Table \X Table), indexes: SUBSET Table] :
        c.fks \subseteq c.tables \X c.tables /\ c.indexes \subseteq c.tables}

ASSUME DiscoveryAssumption ==
    /\ InitialCatalog \in Catalogue
    /\ RowsOf \in [Table -> Nat] /\ Counted \subseteq SUBSET Table
    /\ Cockroach \in BOOLEAN /\ MaxChanges \in Nat

VARIABLES
    catalog,    \* the customer's catalogue
    past,       \* every catalogue there has been
    changes,    \* how often it, or the grants, changed
    canWrite,   \* whether the credentials may write
    snapshot,   \* the run's schema_snapshot
    discovery,  \* its schema_discovery_status
    request     \* the discoveries

discoveryVars == <<catalog, past, changes, canWrite, snapshot, discovery, request>>

None == [absent |-> TRUE]

Nothing == [tables |-> {}, fks |-> {}, indexes |-> {}]

\* What is stored of a schema; a foreign key may name a table that is not in it.
DatabaseMetadata(s) ==
    /\ s.tables \subseteq Table /\ s.indexes \subseteq s.tables
    /\ s.fks \subseteq s.tables \X Table
    /\ s.rows \in [s.tables -> Nat \cup {Unknown}]

IdleRequest == [pc |-> "idle", retried |-> FALSE, view |-> Nothing, read |-> Nothing]

DiscoveryInit ==
    /\ catalog = InitialCatalog
    /\ past = {catalog} /\ changes = 0
    /\ canWrite = FALSE
    /\ snapshot = None /\ discovery = "none"
    /\ request = [q \in Request |-> IdleRequest]

-----------------------------------------------------------------------------
(* The customer's own changes: a table made or dropped with all it has, a  *)
(* foreign key or an index added, a grant given or taken.                  *)
ChangeCatalogue ==
    /\ changes < MaxChanges
    /\ \E t \in Table :
          \/ catalog' = [catalog EXCEPT !.tables = @ \cup {t}]
          \/ catalog' = [tables  |-> catalog.tables \ {t},
                         fks     |-> {k \in catalog.fks : t \notin {k[1], k[2]}},
                         indexes |-> catalog.indexes \ {t}]
          \/ \E u \in catalog.tables \ {t} :
                t \in catalog.tables /\ catalog' = [catalog EXCEPT !.fks = @ \cup {<<t, u>>}]
          \/ t \in catalog.tables /\ catalog' = [catalog EXCEPT !.indexes = @ \cup {t}]
    /\ catalog' # catalog
    /\ past' = past \cup {catalog'} /\ changes' = changes + 1
    /\ UNCHANGED <<canWrite, snapshot, discovery, request>>

ChangeGrants ==
    /\ changes < MaxChanges
    /\ canWrite' = ~canWrite /\ changes' = changes + 1
    /\ UNCHANGED <<catalog, past, snapshot, discovery, request>>

At(q, pc) == request[q].pc = pc

Goto(q, pc) ==
    /\ request' = [request EXCEPT ![q].pc = pc]
    /\ UNCHANGED <<catalog, past, changes, canWrite, snapshot, discovery>>

(* The API discovers whenever it is asked to; the workflow does not when   *)
(* the run already has what was discovered.                                *)
BeginDiscovery(q) ==
    /\ At(q, "idle")
    /\ \E byWorkflow \in BOOLEAN : byWorkflow => discovery # "succeeded"
    /\ request' = [request EXCEPT ![q].pc = "connect"]
    /\ UNCHANGED <<catalog, past, changes, canWrite, snapshot, discovery>>

(* The first connection to a CockroachDB fails on its version, and the     *)
(* whole attempt is made again with the other dialect.                     *)
Connect(q) ==
    /\ At(q, "connect")
    /\ IF Cockroach /\ ~request[q].retried
       THEN request' = [request EXCEPT ![q].retried = TRUE]
       ELSE request' = [request EXCEPT ![q] = [IdleRequest EXCEPT !.pc = "probe"]]
    /\ UNCHANGED <<catalog, past, changes, canWrite, snapshot, discovery>>

(* assert_read_only_connection: a table is created in a transaction that   *)
(* is always rolled back, then the privileges are asked for.               *)
Probe(q) ==
    /\ At(q, "probe")
    /\ Goto(q, IF canWrite THEN "rejected" ELSE "begin")

(* collect runs in one transaction.  CockroachDB answers all its queries   *)
(* as of one moment; PostgreSQL each as of its own.                        *)
BeginCollect(q) ==
    /\ At(q, "begin")
    /\ request' = [request EXCEPT ![q].pc = "tables", ![q].view = catalog]
    /\ UNCHANGED <<catalog, past, changes, canWrite, snapshot, discovery>>

SeenTorn(q) == catalog

Seen(q) == IF Cockroach THEN request[q].view ELSE catalog

FetchTables(q) ==
    /\ At(q, "tables")
    /\ request' = [request EXCEPT ![q].read.tables = Seen(q).tables,
                                  ![q].pc = IF Seen(q).tables = {} THEN "store" ELSE "keys"]
    /\ UNCHANGED <<catalog, past, changes, canWrite, snapshot, discovery>>

FetchForeignKeys(q) ==
    /\ At(q, "keys")
    /\ request' = [request EXCEPT ![q].read.fks = Seen(q).fks, ![q].pc = "indexes"]
    /\ UNCHANGED <<catalog, past, changes, canWrite, snapshot, discovery>>

FetchIndexes(q) ==
    /\ At(q, "indexes")
    /\ request' = [request EXCEPT ![q].read.indexes = Seen(q).indexes, ![q].pc = "store"]
    /\ UNCHANGED <<catalog, past, changes, canWrite, snapshot, discovery>>

(* _build_metadata hangs everything on the tables that were read; row      *)
(* counts are estimates, taken when the database gives them.               *)
BuildMetadata(read, counted) ==
    [tables  |-> read.tables,
     fks     |-> {k \in read.fks : k[1] \in read.tables},
     indexes |-> read.indexes \cap read.tables,
     rows    |-> [t \in read.tables |-> IF t \in counted THEN RowsOf[t] ELSE Unknown]]

PersistSuccess(q) ==
    /\ At(q, "store")
    /\ \E counted \in Counted :
          snapshot' = BuildMetadata(request[q].read, counted)
    /\ discovery' = "succeeded"
    /\ request' = [request EXCEPT ![q] = IdleRequest]
    /\ UNCHANGED <<catalog, past, changes, canWrite>>

(* A timeout, a refused connection, another database or a failed query.    *)
Fail(q) ==
    /\ request[q].pc \in {"connect", "probe", "begin", "tables", "keys", "indexes"}
    /\ request' = [request EXCEPT ![q] = [IdleRequest EXCEPT !.pc = "failed"]]
    /\ UNCHANGED <<catalog, past, changes, canWrite, snapshot, discovery>>

PersistFailureKeep(q) ==
    /\ request[q].pc \in {"rejected", "failed"}
    /\ discovery' = request[q].pc
    /\ request' = [request EXCEPT ![q] = IdleRequest]
    /\ UNCHANGED <<catalog, past, changes, canWrite, snapshot>>

(* A failure takes away what an earlier discovery stored.                  *)
PersistFailure(q) ==
    /\ request[q].pc \in {"rejected", "failed"}
    /\ snapshot' = None
    /\ discovery' = request[q].pc
    /\ request' = [request EXCEPT ![q] = IdleRequest]
    /\ UNCHANGED <<catalog, past, changes, canWrite>>

DiscoveryNext ==
    \/ ChangeCatalogue \/ ChangeGrants
    \/ \E q \in Request :
          \/ BeginDiscovery(q) \/ Connect(q) \/ Probe(q) \/ BeginCollect(q)
          \/ FetchTables(q) \/ FetchForeignKeys(q) \/ FetchIndexes(q)
          \/ PersistSuccess(q) \/ Fail(q) \/ PersistFailure(q)

-----------------------------------------------------------------------------
CatalogueOf(s) == [tables |-> s.tables, fks |-> s.fks, indexes |-> s.indexes]

(* What discovery stores of a CockroachDB schema is a catalogue it really  *)
(* had, though the schema changes between the queries and the first try    *)
(* ends at the version (inspector.collect, discovery._discover_with_url).  *)
SnapshotWasCatalogue ==
    Cockroach /\ discovery = "succeeded" => CatalogueOf(snapshot) \in past
=============================================================================
