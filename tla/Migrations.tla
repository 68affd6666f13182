------------------------------ MODULE Migrations ------------------------------
(* The Alembic revisions 0001 to 0007 and how alembic/env.py runs them.  A     *)
(* revision is the sequence of statements its upgrade and its downgrade send;  *)
(* columns, checks and indexes are left out, what PostgreSQL refuses over is   *)
(* kept: tables, foreign keys, enum types, their users, extensions, rows.      *)
(* One command (upgrade head, downgrade -1) is one transaction, so a refused   *)
(* statement or a lost connection undoes all of it.                            *)
EXTENDS Integers, Sequences, FiniteSets, SequencesExt

CONSTANTS
    Migrators,      \* alembic processes: each runs one command
    StartRevisions, \* the revisions a database may first be met at
    DataTables,     \* tables the running product puts rows in
    None

-----------------------------------------------------------------------------
(* Statements. *)

CreateExtension(e) == [kind |-> "extension", name |-> e]

CreateType(t) == [kind |-> "type", name |-> t]

CreateTable(t, refs, types) ==
    [kind |-> "table", name |-> t, refs |-> refs, types |-> types]

AddForeignKey(t, u) == [kind |-> "fk", name |-> t, to |-> u]

DropTable(t) == [kind |-> "drop", name |-> t]

(* DROP TYPE IF EXISTS, or without the condition. *)
DropType(t) == [kind |-> "droptype", name |-> t, if_exists |-> TRUE]

DropExistingType(t) == [DropType(t) EXCEPT !.if_exists = FALSE]

CreateTypes(names) == [i \in DOMAIN names |-> CreateType(names[i])]

DropTables(names) == [i \in DOMAIN names |-> DropTable(names[i])]

DropTypes(names) == [i \in DOMAIN names |-> DropType(names[i])]

(* What PostgreSQL accepts: objects are new when created and there when       *)
(* named, and nothing is dropped that another table still needs.              *)
Accepts(s, o) ==
    CASE o.kind = "extension" -> TRUE
      [] o.kind = "type" -> o.name \notin s.types
      [] o.kind = "table" -> /\ o.name \notin s.tables
                             /\ o.refs \subseteq s.tables \cup {o.name}
                             /\ o.types \subseteq s.types
      [] o.kind = "fk" -> {o.name, o.to} \subseteq s.tables
      [] o.kind = "drop" -> /\ o.name \in s.tables
                            /\ \A fk \in s.fks : fk[2] = o.name => fk[1] = o.name
      [] o.kind = "droptype" -> /\ o.if_exists \/ o.name \in s.types
                                /\ \A use \in s.uses : use[2] # o.name

Effect(s, o) ==
    CASE o.kind = "extension" ->
             [s EXCEPT !.extensions = @ \cup {o.name}]
      [] o.kind = "type" ->
             [s EXCEPT !.types = @ \cup {o.name}]
      [] o.kind = "table" ->
             [s EXCEPT !.tables = @ \cup {o.name},
                       !.fks = @ \cup ({o.name} \X o.refs),
                       !.uses = @ \cup ({o.name} \X o.types)]
      [] o.kind = "fk" ->
             [s EXCEPT !.fks = @ \cup {<<o.name, o.to>>}]
      [] o.kind = "drop" ->
             [s EXCEPT !.tables = @ \ {o.name},
                       !.fks = {fk \in @ : fk[1] # o.name},
                       !.uses = {use \in @ : use[1] # o.name}]
      [] o.kind = "droptype" ->
             [s EXCEPT !.types = @ \ {o.name}]

(* A script up to its first refused statement. *)
Execute(run, o) ==
    IF run.ok /\ Accepts(run.schema, o)
    THEN [run EXCEPT !.schema = Effect(@, o)]
    ELSE [run EXCEPT !.ok = FALSE]

RunScript(s, script) ==
    LET after[i \in 0..Len(script)] ==
            IF i = 0 THEN [ok |-> TRUE, schema |-> s]
            ELSE Execute(after[i - 1], script[i])
    IN  after[Len(script)]

-----------------------------------------------------------------------------
(* 0001: jobs, stored objects, surface status. *)

RequiredExtensions == <<"postgis", "vector">>

FoundationTypes ==
    <<"actor_kind", "job_execution_state", "job_attempt_state",
      "job_outbox_state", "schedule_kind", "object_version_state",
      "runtime_environment", "runtime_surface", "runtime_surface_state">>

FoundationTables ==
    <<"job_executions", "job_attempts", "job_outbox_messages", "job_schedules",
      "stored_objects", "stored_object_versions", "runtime_surface_status">>

JobTables ==
    << CreateTable("job_executions", {}, {"job_execution_state", "actor_kind"}),
       CreateTable("job_attempts", {"job_executions"}, {"job_attempt_state"}),
       CreateTable("job_outbox_messages", {"job_executions"},
                   {"job_outbox_state"}),
       CreateTable("job_schedules", {}, {"schedule_kind", "actor_kind"}) >>

ObjectTables ==
    << CreateTable("stored_objects", {}, {"actor_kind"}),
       CreateTable("stored_object_versions", {"stored_objects"},
                   {"object_version_state", "actor_kind"}) >>

SurfaceTable ==
    << CreateTable("runtime_surface_status", {},
                   {"runtime_environment", "runtime_surface",
                    "runtime_surface_state"}) >>

FoundationUp ==
    [i \in DOMAIN RequiredExtensions |-> CreateExtension(RequiredExtensions[i])]
        \o CreateTypes(FoundationTypes) \o JobTables \o ObjectTables
        \o SurfaceTable

FoundationDown ==
    DropTables(Reverse(FoundationTables)) \o DropTypes(Reverse(FoundationTypes))

(* verify_bootstrap: upgrade calls it last and ignores what it answers. *)
VerifyBootstrap(s) ==
    /\ Range(FoundationTables) \subseteq s.tables
    /\ Range(FoundationTypes) \subseteq s.types
    /\ Range(RequiredExtensions) \subseteq s.extensions

(* 0002: identity. *)
IdentityTables ==
    << CreateTable("identity_invitations", {}, {}),
       CreateTable("product_users", {}, {}),
       AddForeignKey("identity_invitations", "product_users"),
       AddForeignKey("product_users", "product_users"),
       CreateTable("external_identity_links", {"product_users"}, {}),
       CreateTable("role_assignments", {"product_users"}, {}) >>

AccessTables ==
    << CreateTable("magic_link_requests", {}, {}),
       CreateTable("magic_link_attempts",
                   {"magic_link_requests", "identity_invitations",
                    "product_users", "job_executions", "magic_link_attempts"}, {}),
       CreateTable("product_sessions",
                   {"product_users", "magic_link_attempts"}, {}),
       CreateTable("access_audit_events",
                   {"product_users", "identity_invitations",
                    "magic_link_requests", "magic_link_attempts",
                    "product_sessions", "role_assignments"}, {}) >>

IdentityDropOrder ==
    <<"access_audit_events", "product_sessions", "magic_link_attempts",
      "magic_link_requests", "role_assignments", "external_identity_links",
      "identity_invitations", "product_users">>

(* 0003: Bronze. *)
BronzeTypes == <<"import_format", "import_run_state">>

BronzeTables ==
    << CreateTable("import_runs", {},
                   {"actor_kind", "import_format", "import_run_state"}),
       AddForeignKey("import_runs", "job_executions"),
       CreateTable("raw_listing_snapshots", {"import_runs"}, {"actor_kind"}),
       CreateTable("quarantine_records", {"import_runs"}, {"actor_kind"}) >>

BronzeDown ==
    DropTables(<<"quarantine_records", "raw_listing_snapshots", "import_runs">>)
        \o DropTypes(Reverse(BronzeTypes))

(* 0004: Silver. *)
SilverTypes ==
    <<"canonical_state", "operation_type", "property_type", "currency_type",
      "geo_precision", "dedupe_method", "dedupe_link_state", "change_type">>

ListingTables ==
    << CreateTable("canonical_properties", {}, {"actor_kind", "canonical_state"}),
       CreateTable("silver_listings",
                   {"canonical_properties", "import_runs",
                    "raw_listing_snapshots"},
                   {"actor_kind", "operation_type", "property_type",
                    "currency_type", "geo_precision"}) >>

DedupeTables ==
    << CreateTable("dedupe_links", {"silver_listings"},
                   {"actor_kind", "dedupe_method", "dedupe_link_state"}),
       CreateTable("listing_changes", {"silver_listings"},
                   {"actor_kind", "change_type"}) >>

SilverDown ==
    DropTables(<<"listing_changes", "dedupe_links", "silver_listings",
                 "canonical_properties">>)
        \o DropTypes(Reverse(SilverTypes))

(* 0005: the radar; profiles point at their version and at their latest run. *)
RadarTypes ==
    <<"search_profile_state", "recommendation_run_state",
      "recommendation_run_trigger">>

ProfileTables ==
    << CreateTable("search_profiles", {"product_users"},
                   {"actor_kind", "search_profile_state"}),
       CreateTable("search_profile_versions", {"search_profiles"},
                   {"actor_kind"}) >>

RunTables ==
    << CreateTable("recommendation_runs",
                   {"search_profiles", "search_profile_versions"},
                   {"actor_kind", "recommendation_run_state",
                    "recommendation_run_trigger"}),
       CreateTable("recommendation_items",
                   {"recommendation_runs", "silver_listings"}, {"actor_kind"}),
       CreateTable("product_events", {}, {"actor_kind"}),
       AddForeignKey("search_profiles", "search_profile_versions"),
       AddForeignKey("search_profiles", "recommendation_runs") >>

RadarDown ==
    DropTables(<<"product_events", "recommendation_items",
                 "recommendation_runs", "search_profiles",
                 "search_profile_versions">>)
        \o [i \in DOMAIN RadarTypes |-> DropExistingType(Reverse(RadarTypes)[i])]

(* 0006: criteria and observations. *)
CriteriaTypes ==
    <<"fact_state", "observation_state", "observation_source",
      "extraction_kind", "recompute_scope", "recompute_run_state">>

ConceptTables ==
    << CreateTable("concepts", {}, {"actor_kind"}),
       CreateTable("concept_versions", {"concepts"}, {"actor_kind"}),
       CreateTable("preference_facts", {"search_profiles"},
                   {"actor_kind", "fact_state"}),
       CreateTable("profile_criteria_compilations",
                   {"search_profiles", "search_profile_versions"},
                   {"actor_kind"}) >>

ObservationTables ==
    << CreateTable("extraction_versions", {}, {"actor_kind", "extraction_kind"}),
       CreateTable("recomputation_runs", {},
                   {"actor_kind", "recompute_scope", "recompute_run_state"}),
       CreateTable("listing_observations",
                   {"silver_listings", "extraction_versions",
                    "recomputation_runs"},
                   {"actor_kind", "observation_source", "observation_state"}),
       CreateTable("listing_embeddings",
                   {"silver_listings", "extraction_versions",
                    "recomputation_runs"},
                   {"actor_kind", "observation_state"}),
       CreateTable("urban_signals", {"silver_listings"}, {"actor_kind"}) >>

CriteriaDown ==
    DropTables(<<"urban_signals", "listing_embeddings", "listing_observations",
                 "recomputation_runs", "extraction_versions",
                 "profile_criteria_compilations", "preference_facts",
                 "concept_versions", "concepts">>)
        \o DropTypes(Reverse(CriteriaTypes))

(* 0007: scoring. *)
ScoringTypes == <<"evaluation_state">>

ScoringTables ==
    << CreateTable("scoring_policies", {}, {"actor_kind"}),
       CreateTable("scoring_policy_versions", {"scoring_policies"},
                   {"actor_kind"}),
       CreateTable("criterion_evaluations",
                   {"recommendation_runs", "silver_listings"},
                   {"actor_kind", "evaluation_state"}),
       CreateTable("comparison_shortlists",
                   {"search_profiles", "silver_listings"}, {"actor_kind"}) >>

ScoringDown ==
    DropTables(<<"comparison_shortlists", "criterion_evaluations",
                 "scoring_policy_versions", "scoring_policies">>)
        \o DropTypes(ScoringTypes)

Upgrades ==
    << FoundationUp,
       IdentityTables \o AccessTables,
       CreateTypes(BronzeTypes) \o BronzeTables,
       CreateTypes(SilverTypes) \o ListingTables \o DedupeTables,
       << CreateExtension("postgis") >> \o CreateTypes(RadarTypes)
           \o ProfileTables \o RunTables,
       << CreateExtension("postgis"), CreateExtension("vector") >>
           \o CreateTypes(CriteriaTypes) \o ConceptTables \o ObservationTables,
       CreateTypes(ScoringTypes) \o ScoringTables >>

Downgrades ==
    << FoundationDown, DropTables(IdentityDropOrder), BronzeDown, SilverDown,
       RadarDown, CriteriaDown, ScoringDown >>

(* The tables a downgrade first requires to be empty. *)
MustBeEmpty(r) ==
    CASE r = 1 -> Range(FoundationTables)
      [] r = 2 -> Range(IdentityDropOrder)
      [] OTHER -> {}

HeadRevision == Len(Upgrades)

EmptySchema ==
    [tables |-> {}, fks |-> {}, types |-> {}, uses |-> {}, extensions |-> {}]

(* The schema each revision stands for. *)
SchemaAt ==
    LET at[r \in 0..HeadRevision] ==
            IF r = 0 THEN EmptySchema ELSE RunScript(at[r - 1], Upgrades[r]).schema
    IN  [r \in 0..HeadRevision |-> at[r]]

(* The statements of a whole command. *)
Script ==
    [from \in 0..HeadRevision |-> [to \in 0..HeadRevision |->
        IF from <= to THEN FlattenSeq(SubSeq(Upgrades, from + 1, to))
                      ELSE Downgrades[from]]]

(* A database at a revision: from 0001 on it has everything verify_bootstrap  *)
(* asks for, and extensions that a downgrade leaves behind.                   *)
DatabasesAt(r) ==
    {s \in {[SchemaAt[r] EXCEPT !.extensions = e] : e \in SUBSET Range(RequiredExtensions)} :
        r > 0 => VerifyBootstrap(s)}

(* Upgrades go up and downgrade -1 takes one revision back. *)
Planned(from, to) == from < to \/ to = from - 1

(* What the statements of the seven revisions do on a database of their own:  *)
(* they are refused, or leave one of the revision they lead to; and the       *)
(* downgrade of 0005 is always refused.                                       *)
ASSUME ScriptAssumption ==
    /\ \A r \in 0..HeadRevision : SchemaAt[r] \in DatabasesAt(r)
    /\ \A from, to \in 0..HeadRevision : Planned(from, to) =>
          \A s \in DatabasesAt(from) :
              LET run == RunScript(s, Script[from][to])
              IN run.ok => run.schema \in DatabasesAt(to) /\ (to < from => from # 5)

-----------------------------------------------------------------------------
VARIABLES
    schema,        \* the committed catalogue
    revision,      \* alembic_version
    rows,          \* the tables that hold committed rows
    mig            \* per process: its open transaction

migvars == <<schema, revision, rows, mig>>

Idle == [pc |-> "idle", from |-> 0, to |-> 0]

Open(m) == mig[m].pc \in {"check", "run"}

MigInit ==
    /\ revision \in StartRevisions
    /\ schema = SchemaAt[revision]
    /\ rows = {}
    /\ mig = [m \in Migrators |-> Idle]

(* alembic upgrade head: run_migrations_online reads the revision and plans  *)
(* the steps to the head of the checkout it runs from, which may not know    *)
(* the revision.                                                             *)
BeginUpgrade(m, head) ==
    /\ mig[m].pc = "idle"
    /\ mig' = [mig EXCEPT ![m] =
                  IF revision < head
                  THEN [pc |-> "run", from |-> revision, to |-> head]
                  ELSE [Idle EXCEPT !.pc = IF revision = head THEN "done" ELSE "failed"]]
    /\ UNCHANGED <<schema, revision, rows>>

(* alembic downgrade -1. *)
BeginDowngrade(m) ==
    /\ mig[m].pc = "idle"
    /\ revision > 0
    /\ mig' = [mig EXCEPT ![m] =
                  [pc |-> "check", from |-> revision, to |-> revision - 1]]
    /\ UNCHANGED <<schema, revision, rows>>

(* A statement is refused, or the connection is lost: all is rolled back. *)
Abort(m) ==
    /\ mig' = [mig EXCEPT ![m] = [Idle EXCEPT !.pc = "failed"]]
    /\ UNCHANGED <<schema, revision, rows>>

(* The downgrades of 0001 and 0002 look for rows before they drop. *)
CheckEmpty(m) ==
    /\ mig[m].pc = "check"
    /\ IF MustBeEmpty(mig[m].from) \cap rows = {}
       THEN /\ mig' = [mig EXCEPT ![m].pc = "run"]
            /\ UNCHANGED <<schema, revision, rows>>
       ELSE Abort(m)

CommitPartly(m) ==
    /\ mig[m].pc = "run"
    /\ LET run == RunScript(schema, Script[mig[m].from][mig[m].to])
       IN  /\ schema' = run.schema
           /\ revision' = mig[m].to
           /\ rows' = rows \cap run.schema.tables
           /\ mig' = [mig EXCEPT ![m] = [Idle EXCEPT !.pc = "done"]]

(* The statements run, and the version row is updated where it still has the *)
(* old revision: a command that lost that race, or whose statement is        *)
(* refused, is undone.                                                       *)
Commit(m) ==
    /\ mig[m].pc = "run"
    /\ LET run == RunScript(schema, Script[mig[m].from][mig[m].to])
       IN  IF revision = mig[m].from /\ run.ok
           THEN /\ schema' = run.schema
                /\ revision' = mig[m].to
                /\ rows' = rows \cap run.schema.tables
                /\ mig' = [mig EXCEPT ![m] = [Idle EXCEPT !.pc = "done"]]
           ELSE Abort(m)

ConnectionLost(m) == Open(m) /\ Abort(m)

(* The tables that each downgrade drops; an open one keeps them locked. *)
DroppedBy ==
    [r \in 1..HeadRevision |->
        {t \in SchemaAt[r].tables : DropTable(t) \in Range(Downgrades[r])}]

CanWrite(t) ==
    /\ t \in schema.tables
    /\ \A m \in Migrators :
           mig[m].pc = "run" /\ mig[m].to < mig[m].from => t \notin DroppedBy[mig[m].from]

(* The product commits the first row of a table. *)
InsertRow(t) ==
    /\ t \notin rows
    /\ CanWrite(t)
    /\ rows' = rows \cup {t}
    /\ UNCHANGED <<schema, revision, mig>>

Migrate(m) ==
    \/ CheckEmpty(m)
    \/ Commit(m)
    \/ ConnectionLost(m)

-----------------------------------------------------------------------------
(* Properties. *)

(* Whatever is upgraded, downgraded, refused or cut off, and by how many      *)
(* processes, the catalogue is the one of its revision, and from 0001 on it   *)
(* has everything verify_bootstrap asks for.                                  *)
SchemaIsARevision ==
    /\ [schema EXCEPT !.extensions = {}]
           = [SchemaAt[revision] EXCEPT !.extensions = {}]
    /\ revision > 0 => VerifyBootstrap(schema)

(* The catalogue implements the plain revision history, in which every        *)
(* revision but 0005 can be taken back.                                       *)
History ==
    INSTANCE SchemaVersion WITH Newest <- HeadRevision, Reversible <- 1..HeadRevision \ {5}

ImplementsHistory == History!Spec

(* Every revision's declared downgrade can be run on a database without rows. *)
DeclaredDowngradeRuns ==
    \A r \in 1..HeadRevision : revision = r => RunScript(schema, Downgrades[r]).ok

=============================================================================
