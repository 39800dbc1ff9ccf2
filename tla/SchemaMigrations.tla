------------------------- MODULE SchemaMigrations --------------------------
(* The application's own schema: the Alembic revisions, applied in order   *)
(* before every start of the API.  A schema is the set of the objects that *)
(* exist.  CockroachDB commits DDL per statement, so an upgrade may be cut *)
(* after any statement of a revision; the revision is recorded only after  *)
(* its last one, and a cut revision is run again from its beginning.       *)
(*                                                                         *)
(* The columns, nullabilities and defaults kept are those that a statement *)
(* after the CREATE TABLE adds, drops, changes or asks about.              *)
EXTENDS Integers, Sequences, FiniteSets, SequencesExt

Object(kind, t, name) == [kind |-> kind, table |-> t, name |-> name]
Table(t)         == Object("table", t, t)
Column(t, c)     == Object("column", t, c)
Index(t, i)      == Object("index", t, i)
Constraint(t, n) == Object("constraint", t, n)
NotNull(t, c)    == Object("not null", t, c)
DefaultOf(t, c)  == Object("default", t, c)

Columns(t, names) == [i \in DOMAIN names |-> Column(t, names[i])]
Indexes(t, names) == [i \in DOMAIN names |-> Index(t, names[i])]

-----------------------------------------------------------------------------
(* Statements.  A quiet one (IF [NOT] EXISTS) does nothing where there is   *)
(* nothing to do; any other is refused.                                    *)
Statement(drops, adds, quiet) == [drops |-> drops, adds |-> adds, quiet |-> quiet]
Add(o)             == Statement({}, {o}, FALSE)
Drop(o)            == Statement({o}, {}, FALSE)
AddQuietly(o)      == Statement({}, {o}, TRUE)
DropQuietly(o)     == Statement({o}, {}, TRUE)
Create(t, with)    == Statement({}, {Table(t)} \cup with, FALSE)
Rename(t, from, to) == Statement({Column(t, from)}, {Column(t, to)}, FALSE)
Backfill           == Statement({}, {}, TRUE)     \* touches rows, no object

AddEach(objects)  == [i \in DOMAIN objects |-> Add(objects[i])]
DropEach(objects) == [i \in DOMAIN objects |-> Drop(objects[i])]

(* A dropped table takes what belongs to it. *)
DroppedWith(s, schema) ==
    s.drops \cup {o \in schema : Table(o.table) \in s.drops}

Refused(s, schema) ==
    \/ ~s.quiet /\ (s.adds \cap schema # {} \/ ~(s.drops \subseteq schema))
    \/ \E o \in s.adds : Table(o.table) \notin schema \cup s.adds

After(s, schema) == (schema \ DroppedWith(s, schema)) \cup s.adds

-----------------------------------------------------------------------------
(* A block asks once what exists and then runs its statements, or skips    *)
(* them: the _table_exists, _column_exists, _index_exists and              *)
(* _constraint_exists helpers that each guarded revision carries.          *)
Block(needs, without, statements) ==
    [needs |-> needs, without |-> without, statements |-> statements]

Always(statements) == <<Block({}, {}, statements)>>
Ensure(o)          == Block({}, {o}, <<Add(o)>>)
EnsureQuietly(o)   == Block({}, {o}, <<AddQuietly(o)>>)
EnsureTable(t, with) == Block({}, {Table(t)}, <<Create(t, with)>>)
Discard(o)          == Block({o}, {}, <<Drop(o)>>)
DiscardQuietly(o)   == Block({o}, {}, <<DropQuietly(o)>>)
EnsureEach(objects) == [i \in DOMAIN objects |-> Ensure(objects[i])]

Applies(b, schema) == b.needs \subseteq schema /\ b.without \cap schema = {}

(* A run of blocks, killed once "left" statements have been committed.     *)
Execute(run, s) ==
    IF run.status # "running" THEN run
    ELSE IF run.left = 0 THEN [run EXCEPT !.status = "killed"]
    ELSE IF Refused(s, run.schema) THEN [run EXCEPT !.status = "refused"]
    ELSE [run EXCEPT !.schema = After(s, @), !.left = @ - 1]

Enter(run, b) ==
    IF run.status = "running" /\ Applies(b, run.schema)
    THEN FoldLeft(Execute, run, b.statements) ELSE run

RunUpTo(left, blocks, schema) ==
    FoldLeft(Enter, [schema |-> schema, status |-> "running", left |-> left], blocks)

(* At least as many statements as any revision has. *)
Whole == 100
RunAll(blocks, schema) == RunUpTo(Whole, blocks, schema)

-----------------------------------------------------------------------------
(* The revisions, oldest first. *)

CreateMigrationRuns == [   \* d10e5265ac17
    up   |-> Always(<<Create("migration_runs", {}),
                      Add(Index("migration_runs", "ix_migration_runs_status"))>>),
    down |-> Always(<<Drop(Index("migration_runs", "ix_migration_runs_status")),
                      Drop(Table("migration_runs"))>>)]

PredictionColumns == {Column("predictions", "estimated_duration_sec"),
                      Column("predictions", "estimated_storage_bytes"),
                      Column("predictions", "confidence"),
                      Column("predictions", "explanation")}

AddPredictionVerificationMemory == [   \* e2582b1052d5
    up   |-> Always(<<Create("predictions", PredictionColumns),
                      Create("verifications", {}),
                      Create("memories", {}),
                      Add(Index("memories", "ix_memories_grading_score"))>>),
    down |-> Always(<<Drop(Index("memories", "ix_memories_grading_score")),
                      Drop(Table("memories")),
                      Drop(Table("verifications")),
                      Drop(Table("predictions"))>>)]

HardenModelSchema == [   \* 2c86655424d9
    up   |-> Always(AddEach(<<Index("migration_runs", "ix_migration_runs_created_at"),
                              Index("predictions", "ix_predictions_created_at"),
                              Index("predictions", "ix_predictions_rollback_risk"),
                              Index("verifications", "ix_verifications_created_at"),
                              Index("verifications", "ix_verifications_timed_out"),
                              Index("memories", "ix_memories_created_at")>>)),
    down |-> Always(DropEach(<<Index("memories", "ix_memories_created_at"),
                               Index("verifications", "ix_verifications_timed_out"),
                               Index("verifications", "ix_verifications_created_at"),
                               Index("predictions", "ix_predictions_rollback_risk"),
                               Index("predictions", "ix_predictions_created_at"),
                               Index("migration_runs", "ix_migration_runs_created_at")>>))]

(* a4f91c2e8b70, part by part: the obsolete tables, the columns of          *)
(* predictions, the new tables; the downgrade takes them in reverse.       *)
DropObsoleteTables ==
    DropEach(<<Index("verifications", "ix_verifications_timed_out"),
               Index("verifications", "ix_verifications_created_at"),
               Table("verifications"),
               Index("memories", "ix_memories_created_at"),
               Index("memories", "ix_memories_grading_score"),
               Table("memories")>>)

\* A NOT NULL column is added with a default, which is dropped at once.
AddRequired(t, c) == <<Statement({}, {Column(t, c), DefaultOf(t, c)}, FALSE),
                       DropQuietly(DefaultOf(t, c))>>

RenamePredictionColumns ==
    <<Rename("predictions", "estimated_duration_sec", "estimated_duration_seconds"),
      Rename("predictions", "confidence", "confidence_score"),
      Rename("predictions", "explanation", "reasoning"),
      Drop(Column("predictions", "estimated_storage_bytes"))>>
    \o AddRequired("predictions", "estimated_storage_mb")

AddResultTables ==
    <<Create("execution_results", {})>>
    \o AddEach(Indexes("execution_results",
                   <<"ix_execution_results_success", "ix_execution_results_created_at">>))
    \o <<Create("learned_outcomes", {})>>
    \o AddEach(Indexes("learned_outcomes",
                   <<"ix_learned_outcomes_created_at", "ix_learned_outcomes_embedding_id">>))

AddShadowClusters ==
    <<Create("shadow_clusters", {Column("shadow_clusters", "cluster_id"),
                                 NotNull("shadow_clusters", "cluster_id")})>>
    \o AddEach(Indexes("shadow_clusters",
                   <<"ix_shadow_clusters_status", "ix_shadow_clusters_created_at">>))

DropResultTables ==
    DropEach(<<Index("shadow_clusters", "ix_shadow_clusters_created_at"),
               Index("shadow_clusters", "ix_shadow_clusters_status"),
               Table("shadow_clusters"),
               Index("learned_outcomes", "ix_learned_outcomes_embedding_id"),
               Index("learned_outcomes", "ix_learned_outcomes_created_at"),
               Table("learned_outcomes"),
               Index("execution_results", "ix_execution_results_created_at"),
               Index("execution_results", "ix_execution_results_success"),
               Table("execution_results"),
               Column("predictions", "estimated_storage_mb")>>)

RestorePredictionColumns ==
    AddRequired("predictions", "estimated_storage_bytes")
    \o <<Rename("predictions", "reasoning", "explanation"),
         Rename("predictions", "confidence_score", "confidence"),
         Rename("predictions", "estimated_duration_seconds", "estimated_duration_sec")>>

RestoreObsoleteTables ==
    <<Create("verifications", {})>>
    \o AddEach(Indexes("verifications",
                   <<"ix_verifications_timed_out", "ix_verifications_created_at">>))
    \o <<Create("memories", {})>>
    \o AddEach(Indexes("memories", <<"ix_memories_grading_score", "ix_memories_created_at">>))

RefactorDomainModels == [
    up   |-> Always(DropObsoleteTables \o RenamePredictionColumns
                    \o AddResultTables \o AddShadowClusters),
    down |-> Always(DropResultTables \o RestorePredictionColumns \o RestoreObsoleteTables)]

AddSchemaDiscovery == [   \* b7e3c91a4f20
    up   |-> Always(
        AddEach(Columns("migration_runs",
            <<"schema_snapshot", "schema_discovered_at", "schema_discovery_duration_ms",
              "schema_database_engine", "schema_database_version", "schema_discovery_status">>))
        \o <<Add(Index("migration_runs", "ix_migration_runs_schema_discovery_status"))>>),
    down |-> Always(
        <<Drop(Index("migration_runs", "ix_migration_runs_schema_discovery_status"))>>
        \o DropEach(Columns("migration_runs",
            <<"schema_discovery_status", "schema_database_version", "schema_database_engine",
              "schema_discovery_duration_ms", "schema_discovered_at", "schema_snapshot">>)))]

ShadowLifecycleFields == [   \* c3f8a72b1e40
    up   |-> Always(
        <<DropQuietly(NotNull("shadow_clusters", "cluster_id"))>>
        \o AddEach(Columns("shadow_clusters",
            <<"cluster_name", "scale_tier", "expires_at", "stage_timings", "error_message">>))
        \o <<Add(Index("shadow_clusters", "ix_shadow_clusters_expires_at"))>>),
    down |-> Always(
        <<Drop(Index("shadow_clusters", "ix_shadow_clusters_expires_at"))>>
        \o DropEach(Columns("shadow_clusters",
            <<"error_message", "stage_timings", "expires_at", "scale_tier", "cluster_name">>))
        \o <<AddQuietly(NotNull("shadow_clusters", "cluster_id"))>>)]

AddWorkflowFields == [   \* f1a9d4e6c820
    up   |-> Always(
        AddEach(Columns("migration_runs",
            <<"sfn_execution_arn", "workflow_status", "workflow_started_at",
              "workflow_finished_at">>)
        \o Indexes("migration_runs",
            <<"ix_migration_runs_workflow_status", "ix_migration_runs_sfn_execution_arn">>))),
    down |-> Always(
        DropEach(Indexes("migration_runs",
            <<"ix_migration_runs_sfn_execution_arn", "ix_migration_runs_workflow_status">>)
        \o Columns("migration_runs",
            <<"workflow_finished_at", "workflow_started_at", "workflow_status",
              "sfn_execution_arn">>)))]

PolicyAndApproval == [   \* g2b8e5f1a930
    up   |-> Always(
        AddEach(Columns("predictions",
            <<"raw_confidence_score", "confidence_adjustments", "key_assumptions",
              "uncertainty_notes", "model_version", "prompt_template_version">>))
        \o <<Backfill>>
        \o AddEach(Columns("migration_runs",
            <<"risk_flags", "compatibility_risk", "requires_expand_contract",
              "requires_manual_review", "policy_decision", "parsed_statement_types",
              "recommendation", "explainability", "prediction_scale_tier">>))
        \o <<Add(Index("migration_runs", "ix_migration_runs_policy_decision")),
             Create("approvals", {})>>
        \o AddEach(Indexes("approvals", <<"ix_approvals_decision", "ix_approvals_created_at">>))),
    down |-> Always(
        DropEach(Indexes("approvals", <<"ix_approvals_created_at", "ix_approvals_decision">>)
        \o <<Table("approvals"), Index("migration_runs", "ix_migration_runs_policy_decision")>>
        \o Columns("migration_runs",
            <<"prediction_scale_tier", "explainability", "recommendation",
              "parsed_statement_types", "policy_decision", "requires_manual_review",
              "requires_expand_contract", "compatibility_risk", "risk_flags">>)
        \o Columns("predictions",
            <<"prompt_template_version", "model_version", "uncertainty_notes",
              "key_assumptions", "confidence_adjustments", "raw_confidence_score">>)))]

(* h3c9f6a2b041, part by part. *)
OwnersAndRevisions ==
    EnsureEach(<<Column("migration_runs", "owner_identity"),
                 Column("migration_runs", "revises_run_id"),
                 Constraint("migration_runs", "fk_migration_runs_revises_run_id"),
                 Index("migration_runs", "ix_migration_runs_owner_identity"),
                 Index("migration_runs", "ix_migration_runs_revises_run_id"),
                 Column("migration_runs", "recommendation_outcome"),
                 Column("execution_results", "timed_out")>>)

GradesTable ==
    <<EnsureTable("grades", {Column("grades", "storage_within_band"),
                             NotNull("grades", "storage_within_band")})>>
    \o EnsureEach(Indexes("grades",
           <<"ix_grades_scale_tier", "ix_grades_scalar_accuracy_score", "ix_grades_created_at">>))

MemoriesTable ==
    <<EnsureTable("migration_memories", {})>>
    \o EnsureEach(Indexes("migration_memories",
           <<"ix_migration_memories_owner_identity", "ix_migration_memories_scale_tier",
             "ix_migration_memories_migration_type", "ix_migration_memories_embedding_status",
             "ix_migration_memories_created_at">>))
    \o <<EnsureQuietly(Index("migration_memories", "ix_migration_memories_embedding"))>>

GradingAndMemory == [
    up   |-> OwnersAndRevisions \o GradesTable \o MemoriesTable,
    down |-> <<DiscardQuietly(Index("migration_memories", "ix_migration_memories_embedding")),
               Discard(Table("migration_memories")),
               Discard(Table("grades")),
               Discard(Column("execution_results", "timed_out")),
               Discard(Column("migration_runs", "recommendation_outcome")),
               Discard(Index("migration_runs", "ix_migration_runs_revises_run_id")),
               Discard(Index("migration_runs", "ix_migration_runs_owner_identity")),
               Discard(Constraint("migration_runs", "fk_migration_runs_revises_run_id")),
               Discard(Column("migration_runs", "revises_run_id")),
               Discard(Column("migration_runs", "owner_identity"))>>]

ClosedLoop == [   \* i4d0a7b3c152
    up   |-> Always(<<Add(Column("migration_runs", "connection_secret_arn"))>>),
    down |-> Always(<<Drop(Column("migration_runs", "connection_secret_arn"))>>)]

AppUsers == [   \* j5e1b8c4d263
    up   |-> Always(<<Create("app_users", {}),
                      Add(Index("app_users", "ix_app_users_owner_identity"))>>),
    down |-> Always(<<Drop(Index("app_users", "ix_app_users_owner_identity")),
                      Drop(Table("app_users"))>>)]

RunKindAndShadowHistory == [   \* k6f2c9d5e374
    up   |-> Always(
        AddEach(<<Column("migration_runs", "run_kind"),
                  Index("migration_runs", "ix_migration_runs_run_kind")>>
        \o Columns("shadow_clusters",
            <<"event_log", "schema_snapshot_before", "schema_snapshot_after">>))
        \o <<DropQuietly(NotNull("grades", "storage_within_band")),
             Add(Column("grades", "storage_unverifiable"))>>),
    down |-> Always(
        <<Drop(Column("grades", "storage_unverifiable")),
          AddQuietly(NotNull("grades", "storage_within_band"))>>
        \o DropEach(Columns("shadow_clusters",
            <<"schema_snapshot_after", "schema_snapshot_before", "event_log">>)
        \o <<Index("migration_runs", "ix_migration_runs_run_kind"),
             Column("migration_runs", "run_kind")>>))]

ShadowRowSamples == [   \* l7g3d0e6f485
    up   |-> Always(AddEach(Columns("shadow_clusters",
                        <<"row_sample_before", "row_sample_after">>))),
    down |-> Always(DropEach(Columns("shadow_clusters",
                        <<"row_sample_after", "row_sample_before">>)))]

VectorIndexPrefixColumns == [   \* m8h4e1f7a596
    up   |-> <<EnsureQuietly(Index("migration_memories", "ix_migration_memories_embedding_scoped")),
               EnsureQuietly(Index("migration_memories", "ix_migration_memories_embedding_ready"))>>,
    down |-> <<DiscardQuietly(Index("migration_memories", "ix_migration_memories_embedding_ready")),
               DiscardQuietly(Index("migration_memories", "ix_migration_memories_embedding_scoped"))>>]

SkillDocs == [   \* n9i5f2a8g6b7
    up   |-> <<EnsureTable("cockroachdb_skill_docs", {}),
               EnsureQuietly(Index("cockroachdb_skill_docs", "ix_cockroachdb_skill_docs_category")),
               EnsureQuietly(Index("cockroachdb_skill_docs",
                                   "ix_cockroachdb_skill_docs_embedding_status")),
               EnsureQuietly(Index("cockroachdb_skill_docs", "ix_skill_docs_embedding_ready"))>>,
    down |-> <<DiscardQuietly(Table("cockroachdb_skill_docs"))>>]

AuditEvents == [   \* o0j6g3b9h7c8
    up   |-> <<EnsureTable("ccloud_audit_events", {Column("ccloud_audit_events", "updated_at")}),
               Block({Table("ccloud_audit_events")},
                     {Column("ccloud_audit_events", "updated_at")},
                     <<Add(Column("ccloud_audit_events", "updated_at"))>>),
               EnsureQuietly(Index("ccloud_audit_events",
                                   "ix_ccloud_audit_events_migration_run_id")),
               EnsureQuietly(Index("ccloud_audit_events", "ix_ccloud_audit_events_occurred_at"))>>,
    down |-> <<DiscardQuietly(Table("ccloud_audit_events"))>>]

SlackInstallations == [   \* p1k7h4c8d598
    up   |-> <<EnsureTable("slack_installations", {}),
               EnsureQuietly(Index("slack_installations",
                                   "ix_slack_installations_owner_identity"))>>,
    down |-> <<DiscardQuietly(Table("slack_installations"))>>]

SlackAuthedUser == [   \* q2l8i5d9e6a7
    up   |-> <<Block({Table("slack_installations")},
                     {Column("slack_installations", "authed_user_id")},
                     <<Add(Column("slack_installations", "authed_user_id"))>>)>>,
    down |-> <<Block({Table("slack_installations"),
                      Column("slack_installations", "authed_user_id")}, {},
                     <<Drop(Column("slack_installations", "authed_user_id"))>>)>>]

CrossCustomerMemories == [   \* r1m9j6e0i8d9
    up   |-> <<EnsureTable("cross_customer_memories", {}),
               EnsureQuietly(Index("cross_customer_memories",
                                   "ix_cross_customer_memories_shape_hash")),
               EnsureQuietly(Index("cross_customer_memories",
                                   "ix_cross_customer_memories_embedding_status")),
               EnsureQuietly(Index("cross_customer_memories",
                                   "ix_cross_customer_memories_embedding_ready")),
               EnsureTable("memory_sharing_preferences", {})>>,
    down |-> <<DiscardQuietly(Table("memory_sharing_preferences")),
               DiscardQuietly(Index("cross_customer_memories",
                                   "ix_cross_customer_memories_embedding_ready")),
               DiscardQuietly(Table("cross_customer_memories"))>>]

ShapeHashUnique == [   \* s2n0k7f1j9e0
    up   |-> <<Block({Index("cross_customer_memories", "ix_cross_customer_memories_shape_hash")},
                     {Index("cross_customer_memories", "uq_cross_customer_memories_shape_hash")},
                     <<DropQuietly(Index("cross_customer_memories",
                                         "ix_cross_customer_memories_shape_hash")),
                       AddQuietly(Index("cross_customer_memories",
                                        "uq_cross_customer_memories_shape_hash"))>>)>>,
    down |-> <<Block({Index("cross_customer_memories", "uq_cross_customer_memories_shape_hash")}, {},
                     <<DropQuietly(Index("cross_customer_memories",
                                         "uq_cross_customer_memories_shape_hash")),
                       AddQuietly(Index("cross_customer_memories",
                                        "ix_cross_customer_memories_shape_hash"))>>)>>]

WorkspacesTable == [   \* t3o1l8g2i608
    up   |-> <<EnsureTable("workspaces", {})>>
             \o EnsureEach(<<Index("workspaces", "ix_workspaces_owner_identity"),
                             Index("workspaces", "uq_workspaces_owner_identity_name"),
                             Column("migration_runs", "workspace_id"),
                             Constraint("migration_runs", "fk_migration_runs_workspace_id"),
                             Index("migration_runs", "ix_migration_runs_workspace_id")>>)
             \o Always(<<Backfill, Backfill>>),
    down |-> <<Discard(Index("migration_runs", "ix_migration_runs_workspace_id")),
               Discard(Constraint("migration_runs", "fk_migration_runs_workspace_id")),
               Discard(Column("migration_runs", "workspace_id")),
               DiscardQuietly(Table("workspaces"))>>]

GithubLinks == [   \* v5q3n0i4k820
    up   |-> EnsureEach(<<Column("workspaces", "github_repo_full_name"),
                          Column("workspaces", "github_migration_glob"),
                          Index("workspaces", "uq_workspaces_github_repo_full_name")>>)
             \o <<EnsureTable("github_pull_request_links", {})>>
             \o EnsureEach(<<Constraint("github_pull_request_links",
                                        "fk_github_pr_links_migration_run_id"),
                             Index("github_pull_request_links",
                                   "uq_github_pr_links_migration_run_id")>>),
    down |-> <<DiscardQuietly(Table("github_pull_request_links")),
               DiscardQuietly(Index("workspaces", "uq_workspaces_github_repo_full_name")),
               Discard(Column("workspaces", "github_migration_glob")),
               Discard(Column("workspaces", "github_repo_full_name"))>>]

MembersAndInvites == [   \* w6r4o1j5l931
    up   |-> <<EnsureTable("workspace_members", {})>>
             \o EnsureEach(<<Constraint("workspace_members", "fk_workspace_members_workspace_id"),
                             Index("workspace_members", "uq_workspace_members_workspace_user")>>)
             \o <<EnsureTable("workspace_invites", {})>>
             \o EnsureEach(<<Constraint("workspace_invites", "fk_workspace_invites_workspace_id"),
                             Index("workspace_invites", "uq_workspace_invites_token"),
                             Index("workspace_invites", "ix_workspace_invites_workspace_id")>>)
             \o Always(<<Backfill>>),
    down |-> <<DiscardQuietly(Table("workspace_invites")),
               DiscardQuietly(Table("workspace_members"))>>]

GithubIdentities == [   \* x7s5p2k6m042
    up   |-> <<EnsureTable("github_identities", {}),
               Ensure(Index("github_identities", "uq_github_identities_owner_identity"))>>,
    down |-> <<DiscardQuietly(Table("github_identities"))>>]

Revisions ==
    <<CreateMigrationRuns, AddPredictionVerificationMemory, HardenModelSchema,
      RefactorDomainModels, AddSchemaDiscovery, ShadowLifecycleFields, AddWorkflowFields,
      PolicyAndApproval, GradingAndMemory, ClosedLoop, AppUsers, RunKindAndShadowHistory,
      ShadowRowSamples, VectorIndexPrefixColumns, SkillDocs, AuditEvents, SlackInstallations,
      SlackAuthedUser, CrossCustomerMemories, ShapeHashUnique, WorkspacesTable, GithubLinks,
      MembersAndInvites, GithubIdentities>>

(* The schema after the first n revisions, each run whole.  The singletons  *)
(* make TLC evaluate one revision at a time.                               *)
SchemaAt(n) ==
    LET Upgraded(schemas, r) == {RunAll(r.up, schema).schema : schema \in schemas}
    IN UNION FoldLeft(Upgraded, {{}}, SubSeq(Revisions, 1, n))

Latest == Len(Revisions)

-----------------------------------------------------------------------------
(* The rows the revisions fill in, over                                    *)
(*   [runs : run -> [owner, workspace], workspaces : a set of              *)
(*    [id, owner, name], members : a set of [workspace, user, role]].      *)

NoWorkspace == <<>>

\* Every owner of a run has a workspace named Default.
DefaultWorkspaces(db) ==
    LET owners == {db.runs[r].owner : r \in DOMAIN db.runs}
        lacking == {o \in owners : ~\E w \in db.workspaces : w.owner = o /\ w.name = "Default"}
    IN [db EXCEPT !.workspaces = @ \cup {[id |-> <<"new", o>>, owner |-> o, name |-> "Default"] :
                                            o \in lacking}]

\* A run without a workspace is put in its owner's.
AssignRuns(db) ==
    LET home(r) == {w \in db.workspaces : w.owner = r.owner /\ w.name = "Default"}
        assigned(r) == IF r.workspace = NoWorkspace /\ home(r) # {}
                       THEN [r EXCEPT !.workspace = (CHOOSE w \in home(r) : TRUE).id] ELSE r
    IN [db EXCEPT !.runs = [r \in DOMAIN @ |-> assigned(@[r])]]

\* The owner of a workspace is one of its members.
OwnersAsMembers(db) ==
    LET enrolled(w) == \E m \in db.members : m.workspace = w.id /\ m.user = w.owner
    IN [db EXCEPT !.members = @ \cup {[workspace |-> w.id, user |-> w.owner, role |-> "owner"] :
                                         w \in {w \in db.workspaces : ~enrolled(w)}}]

\* A prediction made before the raw score was kept takes its adjusted score.
RawConfidence(prediction) ==
    IF prediction.raw = 0 THEN [prediction EXCEPT !.raw = prediction.adjusted] ELSE prediction

-----------------------------------------------------------------------------
(* Autogeneration: what env.py calls no difference.                        *)

\* STRING and TEXT are one type to CockroachDB; Text is a String to SQLAlchemy.
IsString(type) == type \in {"string", "text"}
TypeDiffers(inspected, model) ==
    /\ inspected # "null"
    /\ ~(IsString(inspected) /\ model = "text")
    /\ ~(inspected = "text" /\ IsString(model))
    /\ inspected # model

\* A revision that only drops and creates the same index names is cancelled.
IsIndexNoise(operations) ==
    LET named(kind) == {o.index : o \in {o \in operations : o.kind = kind}}
    IN /\ \A o \in operations : o.kind \in {"drop index", "create index"}
       /\ named("drop index") = named("create index")
       /\ operations # {}
=============================================================================
