--------------------------- MODULE SchemaUpgrade ---------------------------
(* The start of an API container: "alembic upgrade head", then the server. *)
(* The container may be killed after any statement of a revision, and is   *)
(* started again.                                                          *)
EXTENDS SchemaMigrations

CONSTANT MaxKills       \* bound: kills in a behaviour

VARIABLES
    schema,     \* the objects that exist
    version,    \* alembic_version: how many revisions are recorded
    serving,    \* uvicorn has been started
    kills       \* kills so far

vars == <<schema, version, serving, kills>>

HeadSchema == SchemaAt(Latest)

(* A database that any earlier release left whole, or an empty one. *)
Init ==
    /\ version \in 0..Latest
    /\ schema = SchemaAt(version)
    /\ serving = FALSE
    /\ kills = 0

NextRevision == Revisions[version + 1].up

(* transaction_per_migration: a revision is recorded when its last         *)
(* statement has been committed.                                           *)
Migrate ==
    /\ ~serving /\ version < Latest
    /\ LET run == RunAll(NextRevision, schema)
       IN /\ schema' = run.schema
          /\ version' = IF run.status = "refused" THEN version ELSE version + 1
    /\ UNCHANGED <<serving, kills>>

(* Killed before the revision is recorded. *)
Kill ==
    /\ ~serving /\ version < Latest /\ kills < MaxKills
    /\ \E left \in 0..Whole :
          LET run == RunUpTo(left, NextRevision, schema)
          IN run.left = 0 /\ run.status # "refused" /\ schema' = run.schema
    /\ kills' = kills + 1
    /\ UNCHANGED <<version, serving>>

Serve ==
    /\ ~serving /\ version = Latest
    /\ serving' = TRUE
    /\ UNCHANGED <<schema, version, kills>>

Next == Migrate \/ Kill \/ Serve

Spec == Init /\ [][Next]_vars

-----------------------------------------------------------------------------
(* A killed or partial run can be re-run safely: an API that serves has    *)
(* every object of the schema it was written for.  Killed between the two  *)
(* statements of s2n0k7f1j9e0, the upgrade finds no plain index on the     *)
(* next try, skips the block and records the revision, so shape_hash is    *)
(* never made unique.                                                      *)
ServesHeadSchema == serving => schema = HeadSchema
=============================================================================
