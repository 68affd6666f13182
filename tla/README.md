# Verification of umbral

TLA+ models of the stateful parts of umbral, the TLC configurations that check
them on small instances, and TLAPS proofs of what matters most for every
instance. Paths below are relative to `src/umbral/` unless they name a
document. `PROJECT.json` maps every definition to the lines it models.

## The system

umbral ingests property listings, normalises and deduplicates them, keeps search
profiles matched against them, and lets invited users sign in by magic link.
API processes, RQ work horses and a scheduler loop share one PostgreSQL
database, the only durable truth. Redis/RQ is a transport that may lose its
contents. Object bytes are in a filesystem or S3 store. Mail and identity are
external providers.

```
 client -> API -> services --- rows ---> PostgreSQL <--- rows --- workers
                     |                    ^     |                    ^
                     +-- submit job ------+     |                    | message
                                                v                    |
                             scheduler pass: reclaim, reap,       Redis/RQ
                             schedule, relay, purge -- publish ------^
```

| Component | State | Operations | Correct when |
|---|---|---|---|
| Durable job runtime (`infrastructure/jobs`, `repositories/jobs.py`) | execution, attempt and outbox rows | submit, claim, record_outcome, reclaim, reap, relay, rebuild | accepted work is never forgotten, one attempt has one runner, a finished job never changes |
| Job schedules (same files) | schedule rows | add_schedule, schedule_tick | each due slot makes one execution |
| Worker and scheduler processes (`workers`) | message in hand, place in the pass | run_message, scheduler_once | order reclaim, reap, schedule, relay; any may die anywhere |
| Bronze ingestion (`application/ingestion`) | import run, snapshots, quarantine | submit, process | a succeeded run lost no record, counts agree with the file |
| Silver (`application/silver`) | listings, canonical properties, changes, dedupe links | process, confirm, reject | listings are merged only on proof, a run leaves no snapshot behind |
| Criteria (`application/criteria`) | concepts, versions, observations, recompute runs | register, compile, extract, recompute | every active observation can be traced to the text, field or model answer it rests on; recomputing loses none |
| Radar (`application/radar`) | profiles, versions, recommendation runs, items | create, edit, pause, archive, process_run | a published run is frozen, an archived profile stays so |
| Scoring (`application/scoring`) | policies, scores, explanations, shortlist | register, score, explain, compare, shortlist | order, budget and claims survive gates and rounding |
| Identity (`application/identity`) | invitations, users, links, sessions, roles | request, issue, confirm, logout, grant, purge | one live link per subject, a link signs in its own subject once |
| Versioned objects (`application/objects`) | version rows and bytes | put, open, reconcile | an available version has its bytes |
| Schema and migrations (`alembic`) | catalogue, `alembic_version` | upgrade, downgrade | the catalogue is that of its revision |
| Release (`ops`, `scripts/deploy`, `.github/workflows`) | images per surface, heartbeat rows | promote, roll back, smoke | a smoke that passes is about the release it names |
| Events, configuration, telemetry, HTTP routers, backup, web client | none beyond append-only rows | | |

Components call each other in two ways. Inside a process a service calls
repositories, and almost every repository method opens its own session and
commits on its own: two calls are two commits, and a crash or another process
fits in between. Across processes everything goes through a job: ingestion
submits an import job, its handler submits the normalisation job, profiles
submit recommendation runs, link requests submit issue jobs.

What is hard in this code, and hard to test:

- the transport delivers a message twice, late or never;
- leases have no heartbeat, so a slow attempt goes on next to its successor;
- the relay publishes between two transactions, and its second transaction holds
  a row lock that makes a worker's `SKIP LOCKED` claim see nothing;
- services read, call out, and then write what they read;
- several commits make one operation, and a retry meets what a dead attempt left;
- row locks are taken one by one, and foreign keys take more than the code shows;
- releases of two versions run side by side during a deployment, on one schema.

`PROJECT.json` lists the hazards, each at its line, with the properties that
would catch it going wrong or a note that says why there is none.

## Modules

| Module | Content |
|---|---|
| `JobLifecycle` | What a caller may rely on: a job is accepted once, tried at most `MaxAttempts` times, one attempt at a time, and ends once |
| `JobRuntime` | The durable runtime with workers, scheduler passes and transport |
| `JobRuntimeRefinement` | The mapping under which `JobRuntime` implements `JobLifecycle` |
| `JobAttempts` | What a handler sees of the lifecycle: claims, outcomes, lapsed leases |
| `Schedules`, `InMemoryRuntime` | Schedules of both runtimes, and the in-memory runtime, which implements `JobLifecycle` too |
| `BronzeIngestion` | Import runs, over `JobLifecycle` |
| `SilverRules`, `Silver` | Normalisation and pair evaluation as functions; the normalisation job and the decisions on links, over `JobAttempts` |
| `CriteriaRules`, `Criteria` | Rule extraction, validation and grounding of model answers, compilation as functions; registry, facts, extraction and recompute jobs, over `JobAttempts` |
| `Matching` | Narrowing, hard filters, scores, order and explanations as functions |
| `Radar` | Profile requests and recommendation runs, over `Matching` and `JobAttempts` |
| `Scoring` | Policy registry, scoring, explanations, comparison, shortlist, over `Matching` |
| `MagicLinks` | Link requests, issuing, confirmation, invitations |
| `Sessions` | Authorisation, logout, user status, roles, bootstrap, lock by lock |
| `VersionedObjects` | put, both object adapters, the reconciler |
| `SchemaVersion`, `Migrations` | The plain revision history; the seven migrations, which implement it |
| `Release` | Promotion, rollback, rollouts, heartbeats and smoke, over `Migrations` |
| `MC*` | Instances for TLC |
| `JobRuntimeProofs`, `InMemoryRuntimeProofs`, `BronzeIngestionProofs`, `SilverProofs`, `CriteriaProofs` | Theorems about the module each is named after, with their TLAPS proofs (`JobRuntimeProofs` about the refinement too) |
| `RadarProofs` | Theorems about `Radar` and `Scoring` |
| `IdentityProofs` | Theorems about `MagicLinks` and `Sessions` |
| `PlatformProofs` | Theorems about `VersionedObjects`, and about `Release` with its `Migrations` |

How they compose: `JobRuntime` and `InMemoryRuntime` implement `JobLifecycle`,
both proved; the handlers of `BronzeIngestion`, `Silver`, `Criteria` and `Radar`
run on an instance of it, so what they may rely on is what the runtimes provide.
What two components that share a proof module both declare has a name of its own
in each (`Sessions` has `SessionSpec` and `clock`, `Scoring` has `ScoringSpec`,
`Release` has `ReleaseSpec`). The lifecycle says nothing of a handler whose lease
ended: a lease may lapse at any time while the worker goes on, so two attempts of
one job overlap as they do in the code, and the late outcome is dropped. `Release`
runs the statements of `Migrations`, which implement `SchemaVersion`.

Common to the models of services: every repository method is a transaction of
its own, so every step is one commit or one read; a unique index or a version
column that refuses a write is an action or a guard; a process may die between
any two steps. Payloads are the fields that rules tell apart. Where an instance
in time matters only as before or after, it is a countdown or a small counter.

### JobRuntime

`exec`, `attempts` and `outbox` are the three tables; `queue` counts the copies
of each message in Redis; `worker` and `pass` say where each process is;
`effects` says whose handler has committed something of its own.

A transaction is one step unless another process can see it half done. The one
that can is `_finish_outbox` after a publish: it reads the execution without a
lock (`FinishReadPending`), updates it under SQLAlchemy's version check
(`FinishFlush`, or `FinishStale` when a worker claimed meanwhile, which aborts
the pass and leaves the other rows leased), and holds the row lock until
`FinishCommit`. A worker's claim during that time finds no row and drops its
message (`ClaimRefused`).

| Code | Actions |
|---|---|
| `submit` | `Submit` |
| `run_message`, `claim` | `Dequeue`, `Claim`, `ClaimRefused` |
| handler, `record_outcome` | `HandlerEffect`, `RecordSuccess`, `RecordRetry`, `RecordFailure`, `OutcomeDiscarded` |
| `reclaim_expired_outbox`, `reap_expired` | `PassReclaim`, `PassReap` |
| `relay_due` | `RelayClaim`, `RelayPublish`, `FinishLost`, `FinishFailed`, `FinishPublished`, `FinishReadPending`, `FinishFlush`, `FinishStale`, `FinishCommit` |
| `rebuild_outbox` | `Rebuild` |
| environment | `WorkerCrash`, `PassCrash`, `RedisLoss`, `Tick` |

All processes read one clock. Payloads, result summaries, telemetry and
the durable `complete()` (a claim and an outcome in sequence, used by tests) are
left out.

### Schedules and InMemoryRuntime

`schedule_tick` of the durable runtime is `ClaimDue`, `CommitSlot`, `TickLost`:
the rows are locked without a limit, each slot creates its execution under the
identity of its planned instant and moves on in the same transaction. The
in-memory one is `ScheduleTick`, one step. The state of the in-memory runtime is
`exec`, `attempts`, `outbox` and the messages, with an action per method; relays
may fail for any subset of rows. A fixed interval catches up on every missed
instant. `claim`'s branch that takes back an ended lease can never be taken.

`Complete` is the in-memory `complete()`: it ends a job as succeeded in any state,
without a claim or an attempt, and leaves a pending row of the job behind, which
the next relay queues and a worker runs. Only tests call it. It breaks the
lifecycle for its own job, so `completed` keeps what a caller had seen of a job
before: `KeepsLifecycle` and `AttemptsTellTheState` are about jobs up to that
moment, and about every other job beside it.

### BronzeIngestion

One action per commit of `ImportRunService.submit` (`LookUp`, `PutRaw`,
`SubmitJob`, `CreateRun`, `CreateConflict`) and of `process` and `_capture`
(`Load`, `MarkRunning`, `ReadRaw`, then per record `SkipDuplicate`,
`Quarantine`, `CheckedValid` with `InsertSnapshot` or `InsertConflict`, then
`Captured`, `SaveSucceeded`, or `CaptureError`, `MarkFailed`), the handler's
hand-over to Silver (`PublishNormalize`, `HandlerError`), and the report to the
job runtime (`Report`, `ReportLate`). A record is its snapshot key,
`(external_id, content_sha256)`; the import contract is the set of keys that
satisfy it; `CheckFile` refuses what cannot be an import file.

### Silver

`process` is `LoadRun`, then per snapshot `Skip`, or `ReadChain`,
`ReadCandidates`, `CreateProperty`, `InsertListing` or `InsertConflict`,
`EmitChange`, and per candidate `PassOver`, or `FoundNoPair` and `InsertLink`;
`_decide_link` is `DecideLoad`, `DecideSave`, `DecideConflict`. The order of rows
with one `captured_at` is open. `SilverRules` keeps the rules that decide: ranges,
currencies, total cost, precision, fingerprint, and the weighted score of a
proposal in units of 0.0001. A neighbourhood is a name and its inner spacing: the
fingerprint forgets the spacing, the query for candidates does not.

### Criteria

Requests of clients: `RegisterConcept`, `SaveConcept`, `InsertVersion`,
`InvalidateForConcept`; `RecordPreferenceFact`, `CommitFact`; `CompileProfile`,
`NumberCompilation`, `InsertCompilation`. Jobs: `ClaimWork`, `InsertRun`,
`FindArtifact`, `InsertArtifact`, `InvalidatePrevious`, `ReadIds`,
`ReadListings`, `ExtractConcept`, `Publish`, `EndAttempt`. Workers of two
releases run at once, each with the version of the rules it was built with. What
the model provider answers is free; when its bounded retries are used up the
extraction has failed; each listing and concept is asked about on its own
(`Asked`). `Publish` is one transaction: the unique index on active
observations loses the whole batch or none of it.

`ObservationsAreGrounded` says where an active value may come from, in terms of the
listing and not of the rules: the description says it and does not deny it
(`TextSays`), with the full score and a quotation; or an amenity mentions a balcony
and the description says nothing of one; or the normalised field has it and the
description is silent (`FieldSays`), with the lower score and no quotation; or the
model gave it in an answer that is valid for the concept (`Answered`). It does not
say that the listing is right, that an amenity affirms what it mentions, or that the
words a model quotes are in the text: the code checks none of these.

### Radar, Scoring and Matching

`Radar` follows one profile: `CreateProfile`, `UpdateProfile` and `SetStatus`
read, `Snapshot` inserts the version, `SaveProfile` or `SaveStatus` compare the
version column, `SubmitRun` and `InsertRun` make the job and then its row. A
worker does `ClaimRun`, `LoadRun`, `ScoreRun`, `PublishRun`, `EndAttempt`. A
publication that loses the race on the run's version column raises an error that
the handler does not classify, so the attempt may end as transient or permanent.
Listings, observations and compilations arrive meanwhile. `Scoring` is the service
around the runs: `BeginRegister` or `SeedRegistry` and `InsertPolicyVersion`,
`PublishPolicyRun` and `PublishBaselineRun`, `BuildComparison`, `BeginShortlist`
and `ReplaceShortlist`, which leaves the old list when an overlapping replacement
holds the same positions. Runs of a profile are taken to be published in the order in
which they were created, which is what the code orders them by. `Matching` computes
in exact integers: scores in units of 1/10000, weights and deltas in hundredths. A sort
is stated by its result:
`BaselineItems` and `PolicyItems` are the lists of the scored listings in which
every earlier item may stand before every later one, which with the id as the last
key is one list.

### MagicLinks

`request_magic_link` is `RequestLink` with `CommitRequest` or `RollbackRequest`:
the issue job commits before the request does, and a worker can start in
between. `issue_attempt` is `BeginIssue`, `IssueLoad`, `ProviderAnswers` or
`IssueFails`, `IssueLink`; `confirm_magic_link` is `ConfirmStart`, `VerifyLink`,
`ConfirmLink` or `ConfirmRefused`. Each provider call separates two
transactions. `PreloadInvitation` and `ChangeUserStatus` are the administrator's. A
raise inside a store transaction rolls back what it wrote, so the state `expired`
that `confirm` writes before it raises is never stored, and the model has none.

### Sessions

Each protected call takes row locks as it goes: `BeginAuthorize`, `ReadSession`,
`Decide`, `CommitAllowed`; `BeginLogout`, `LogoutRead`, `CommitLogout`;
`BeginChange`, `RequireAdministrator`, `ReadTarget`, `SetUserStatus` or
`ReadRole`, `AuditRole`, `ChangeRole`; `BeginBootstrap`, `BootstrapRead`,
`CommitBootstrap`. Inserted audit rows lock the users they name FOR KEY SHARE,
which is what makes two administrators who withdraw each other's role wait for
each other; PostgreSQL then aborts one (`Abort`). An instant is read before the
transaction waits, so it may be old when it is compared.

### VersionedObjects

A put is `ReadExisting`, `CreatePending`, the adapter's steps (`PublishFile` and
`PublishMetadata`, or `PutObject`, or `OverwriteObject` where the store has no
conditional creation), `StatWritten`, `PutSucceeds` or `PutFails`; the reconciler
is `BeginPass`, `StatPending`, `SettlePending`, `SweepSucceeds` or `SweepFails`,
`EndPass`. `ProviderFails`, `Crash`
and `Age` (a pending row gets old enough for the reconciler) are the environment.
The filesystem adapter's references live in its process and die with it.

`mark_available` and `mark_failed` read the row without a lock and update it by its
id, with no version column (`repositories/objects.py:86-119`), so the read
(`ReadToSettle`, `ReadToFail`, `SettlePending`) and the update are two steps with anything in
between. The update to available is unconditional; the one to failed is refused by a
CHECK once `available_at` is set. A failed version can therefore become available;
an available one never changes, which is `AvailableIsFinal`. That each call is a
transaction of its own is the contract (`object-storage.md:70`): the repository only
flushes, and nothing in the repository composes it with the object service.
The copy that `filesystem.py:207-219` makes on volumes without hard links is left
out.

### Migrations and Release

A migration is what its `upgrade()` and `downgrade()` do to tables, foreign keys,
enum types and extensions, in their order; PostgreSQL refuses a drop of what is
referenced, and one `alembic` command is one transaction. Two commands may run at
once; nothing keeps them apart but the locks of their statements. What the
statements do when nobody interferes is stated once (`ScriptAssumption`): from a
database of the revision it was written for, each script is refused or leaves a
database of the revision it leads to. `Release` adds the order of `promote.yml`
and `rollback.ps1`: gates, migration, image switch, waits, smoke, with rollouts
that come late and heartbeat rows of either release. The smoke's identity journey
is one gate that may fail.

`set-railway-images.ps1` is `ReadStatus`, then `ReuseDeployments` when the
environment is set to the release already, or `ListDeployments`, `SwitchImages` and
`PickDeployments`; then `WaitForService` for each surface. `deployments` is the
history of the environment, numbered; `known` is the last one in the snapshot,
`expected` the ids that the run waits for. The script takes the first deployment
that is not in its snapshot for its own, whoever made it, and so does
`PickDeployments`, for each surface on its own. Railway is external: its `service
status` is taken to name the latest deployment, a surface goes on to newer
deployments only, and an edit that changes nothing makes none. The ids of all
surfaces are picked at one moment, and a configuration that differs on some services
only (a rotated variable) is left out.

## Runs

| Run | Instance | States | Shows |
|---|---|---|---|
| `jobs` | 1 job, 2 workers, 1 pass, 2 attempts | 116,295 | rows, attempts, leases and locks stay consistent, an outcome is fenced by its attempt, the caller's view is kept, and the job ends unless its message is lost or its publish attempts run out |
| `in_memory` | 2 schedules, 2 loops; 1 job followed to its end or 2 to the first attempt, 2 workers | 100,441 | every due instant has exactly its execution; attempts tell the state; the in-memory runtime implements `JobLifecycle`, for each job until a test completes it |
| `imports` | 2 imports, 3 files, 2 clients, 2 workers, 2 attempts in all | 1,935,247 | a succeeded run is complete, normalisation follows capture, no row is counted twice |
| `silver` | 4 snapshots of 3 publications, 2 runs, 2 workers, 2 operators, 3 attempts in all | 733,847 | merges are justified, no snapshot is left behind, no link collides |
| `criteria` | 4 concepts (3 by rule, 1 by model), 2 listings, 2 jobs, workers of 2 releases, 2 clients | 951,096 | active observations have a source, succeeded work is complete, a preference has one fact, a recompute loses no coverage |
| `radar` | 1 profile, 2 drafts, 2 versions, 2 requests, 2 workers, 2 attempts in all | 816,455 | a job that succeeded left results, published runs are frozen, archived is final |
| `scoring` | 3 policies (one invalid), 2 searches, 4 listings, 2 runs, 2 clients | 429,212 | order of cost, budget, evidence of reasons and origin of the shortlist hold under every gate, delta and strategy |
| `magic_links` | 2 each of emails, origins, accounts, requests, workers, browsers | 251,841 | the newest link wins, signs in its own subject once, the limiter holds |
| `sessions` | 2 users, 2 sessions, 2 calls at a time | 430,818 | an allowed call rests on what is still true when it commits, logout is final, only administrators change anything; no deadlock that PostgreSQL does not resolve |
| `objects` | 3 puts of 2 contents in 2 processes, 2 reconciler passes, each adapter | 1,592,103 | an available version has its verified bytes, a put that returned is kept, available is final |
| `release` | 1 promotion, 1 rollback, 1 alembic command by hand | 531,681 | the catalogue is that of its revision, implements the revision history, and a smoke that passes while the deployments it waited for are the latest means that every surface runs the release |
| `release_doc` | alembic only, from nothing | 21 | violation: the declared downgrade of 0005 cannot run |

Bounds, and why they are enough for the cases that matter:

- `MaxAttempts = 2` has a first attempt, a retry and an exhausted job. The
  constraints on attempts in all (`MCTwoAttempts`, `ThreeAttempts`,
  `TwoAttempts`) leave either a retry that meets what a dead attempt left, or
  two jobs side by side; a lapsed lease makes two attempts overlap.
- `MaxPublish = 2` has one republication and the row given up (100 in the code).
  Leases and delays of one tick can be running or over, which is all the code
  compares. More jobs and overlapping passes are covered by the proofs, which hold
  for any number of both.
- The import files hold a duplicate within a file, a record shared by two files,
  an invalid record, one that does not parse, and a file that is refused.
- The publications of `silver` are, in pairs, the same one again, of the same
  fingerprint, similar and different: every answer of the pair evaluation.
  `DecisionsApart` lets operators decide only while workers are idle; workers ask
  only whether a link exists, so the interleavings left out lead nowhere new.
- `in_memory`: `MCFewJobs` follows one job to its end or two to the first attempt,
  and completes the submitted one only where there is no schedule.
- `criteria`: `OneSide` keeps preferences and observations apart, which share no
  row; `JobsFirst` puts changes of the registry after the jobs, one at a time once
  there have been jobs. The first listing denies and mentions a balcony, and its
  text and its fields disagree; the second says next to nothing.
- `radar`: `NewSearch` gives edits the smaller budget; `OneChange` lets listings
  come in or a compilation appear, not both.
- `magic_links`: a window of one tick separates "in the window" from "out of it".
  Instances with `Window = MaxTime = 2` (1,501,984 states) and with three requests
  (700,194 states) also pass; they are too slow to keep.
- `release`: `MCUndecided` stops when both deployments have ended. `MCOneSide` has
  alembic commands by hand before anything runs, or deployments side by side;
  `MCFailsOutside` drops failures in the middle of a wait, which leave as much behind
  as a failure before or after it; `MCRowsAreRead` has heartbeat rows from when a
  deployment has waited, since nobody reads them earlier.

Type invariants hold in all these instances as well. Symmetry is used where
nothing orders the members of a set, and never with liveness.

Deadlock is checked for `jobs` and `sessions`, where someone can always go on.
The others may stop: every request made, every attempt used.

Fairness is assumed in `jobs` only. Workers, passes and time are weakly fair: RQ
restarts its work horses and the scheduler is a loop. `PassReap` and `RelayClaim`
are strongly fair: a pass may be killed any number of times, but not for ever
before it gets to its reaping or its relay; weak fairness would let a crash at
every start starve them. Crashes, Redis losses and submissions are not fair, and
neither is `Rebuild`: no process of the repository calls `rebuild_outbox`. So
`EventuallySettled` has two ends: the job is settled (finished, or its dispatch given
up after the last publish attempt), or it is stranded (`Stranded`): it waits, its
dispatch counts as published, and no copy of the message is left.

## Where the code and its documents disagree

`release_doc` shows that the downgrade of migration 0005, declared in
`specs/004-structured-search-radar/data-model.md:199-202`, is always refused:
it drops tables that others still reference.

Others met while modelling. The models follow the code.

Jobs and schedules:

- A valid message is dropped while a relay holds the execution row
  (`repositories/jobs.py:110`, against `contracts/job-runtime.md:113`).
- A job whose message was dropped or lost stays queued until someone rebuilds the
  outbox, and nobody does (`workers/scheduler.py:46`). The documents have it
  recovered by itself:
  `docs/superpowers/specs/2026-08-01-umbral-beta-deployment-design.md:202-203`,
  specification 001 `research.md:149`, `contracts/job-runtime.md:166`. It is the
  second end of `EventuallySettled`, `Stranded`.
- `data-model.md:179` of specification 001 has retry_wait go back to queued; the
  code claims straight from retry_wait. `contracts/job-runtime.md:130` has the
  effect and the terminal state in one transaction; handlers commit on their own.
- In memory, a result that cannot be encoded leaves its job running without a
  lease, which nothing reaps. `complete()` (`application/jobs/service.py:301-309`,
  used by `tests/integration/jobs/test_submission_idempotency.py:45`) gives a
  succeeded job without an attempt, a state the durable runtime never has, and its
  pending row can queue and run the job again.

Ingestion and Silver:

- A late import attempt turns a terminal run back to running
  (`ingestion/service.py:184`, specification 002 `data-model.md:74`); counts are of
  one attempt (`service.py:299`, `data-model.md:76`); run and job are two
  transactions (`data-model.md:137`); the hand-over follows the commit of the run,
  and a crash in between loses it (`workers/imports.py:46`, specification 003
  `plan.md:84`).
- A deterministic link between publications that already have properties leaves
  the properties apart (`silver/service.py:148`, against
  `contracts/dedupe/v1/dedupe-policy.md:16-17`). Concurrent runs can give one
  publication two properties. A crash after the listing loses its changes and
  links. Two contents of one publication in one file, or a price of 0, fail the
  job for good. `item_max_length` is never enforced.

Criteria, radar and scoring:

- `register_extraction_version` inserts and invalidates in two commits; a crash in
  between is never repaired (`criteria/service.py:273` says otherwise, and so does
  specification 005, `spec.md:377-378`). Ids to supersede are read after the
  listings. Saving a concept does not compare versions. A failed model extraction
  supersedes the active observation.
- A run queued before an edit scores the edited profile (`radar/service.py:438`,
  specification 006 `spec.md:534`). The job's key has no trigger, so the run of a
  resumed profile stays pending (specification 004 `quickstart.md:91`). An edit
  inserts its version before it compares the profile's. What is shown can go back
  to an older run. `runs.fail` has no caller.
- The limit of a comparison is checked on the request only
  (`scoring/service.py:289`, `spec.md:563`). Runs scored by the baseline keep the
  seed's policy version. Explanations use the latest policy and the current
  profile. The docstring of `hard_filters.py:7-8` is not true of "include".
  Observations of the model always score 0.
- Specification 005 (`spec.md:422-425`, `568-571`) wants every published value to
  quote its evidence. Rooms and floor taken from the fields quote nothing
  (`criteria/rules.py:78-80`, `95-97`). The text of an amenity is tried only against
  the positive form of a rule (`rules.py:60-64`), so an amenity that denies a balcony
  is read as one that has it. The word "integrada" alone is taken to be about the
  kitchen. The evidence a model gives is never compared with the text.

Identity:

- The issue job commits before its attempt (`access.py:161`), a worker that dies
  after `issuing` leaves it so (`access.py:210`), `expired` is rolled back
  (`access.py:288`), and the purge that `docs/runbooks/identity-access.md` promises
  is refused by ON DELETE RESTRICT (`repositories/identity.py:707`).
- Denied audits and idle revocations are rolled back with their transaction. Two
  bootstraps can both succeed; two grants can leave two active assignments, of
  which a revocation ends one.

Objects and releases:

- The filesystem reconciler fails a pending version whose sidecar is missing
  (`filesystem.py:141`, against `object-storage.md:77`); an S3 read error does the
  same; nothing in production calls `reconcile_pending`.
- A version that was marked failed can become available when a put and the
  reconciler overlap (`repositories/objects.py:86-119`), although the repository says
  that only pending versions can (`objects.py:97-99`) and the service that failed
  ones are not retried.
- `release.yml` names revision 0002 while the head is 0007, so the preview
  migration upgrades and then fails. `promote.yml` takes no lock, though
  specification 001 (`spec.md:104-107`) has one promotion at a time: next to another
  promotion or a rollback the deployment that is waited for may be the other's
  (`set-railway-images.ps1:308`), and a smoke may pass although a later deployment
  has put a surface on another release. After a
  migrating release `rollback.ps1` cannot restore the previous one
  (`research.md:506-508`). The emptiness check of 0001 and 0002 does not stop rows
  committed before the drop (`data-model.md:383`); later downgrades do not check.
  Worker and scheduler always report ready. Two smokes share one database and
  one invitee.

## Proofs

Every safety invariant, action property and refinement that the passing runs check
is also a theorem; only `EventuallySettled` is not. Each theorem holds for any
number of the processes, rows and messages of its model, and its counters may be
bounded by any number. A component's theorems rest on one inductive invariant: the
properties themselves and what each process may rely on between two of its steps,
which is what they lack to be inductive. TLC checked these invariants on the
instance of their run before they were proved. The proofs have one layout: every
action is shown to be a step of one of a few kinds, every kind of step keeps the
invariant, and the theorems follow.

The assumptions on constants are the named `ASSUME`s of the modules: limits are
natural numbers, positive where the code's settings are, the names that stand for
NULL are no row, process or number, and functions on constants have their domains.
TLC evaluates each of them on the instance. Some say more:

- `RuntimeAssumption` has no submitted job with the name of a slot: a slot's
  identity is made from its schedule and instant, which no caller uses.
- `SilverAssumption` has finitely many snapshots.
- `RadarAssumption` has every list that a sort may return be a list of items; the
  fields of an item are computed from the drafts and the feed, which are constants
  of that model.
- `ScoringAssumption` types the fields of listings, budgets, observations and policy
  documents as their columns do; ids of listings are unique, and a document has
  finitely many criteria and deltas.
- `CriteriaAssumption` types listings, jobs, drafts and model answers, and
  `NoneAssumption` keeps NULL out of the values a model concept may take.
- `ScriptAssumption` has no parameter: it is what TLC computes of the statements of
  the seven revisions, one at a time, on databases of their own revision. What the
  proof adds is concurrency, interruption and the rest of the system. A script that
  drops one table too few makes it false.

### JobRuntimeProofs

| Theorem | States |
|---|---|
| `TypeCorrect` | `TypeOK` |
| `DispatchRowsInvariant`, `AttemptHistoryInvariant`, `NoDeadPendingRowInvariant`, `PendingIsUnpublishedInvariant`, `OneRunnerPerAttemptInvariant` | the safety invariants |
| `TerminalIsFinalHolds`, `AttemptsAppendOnlyHolds`, `FencedOutcomeHolds` | the action properties |
| `RuntimeImplementsLifecycle` | `Spec => Lifecycle!Spec` |

The safety invariants are not inductive alone; `IInv` adds:

- `ProcessMessages`: a process in the middle of something holds a message, so
  that the row it writes exists;
- `RunsAreCounted`: a handler runs an attempt that has a row, so a claim of a new
  attempt is never of one that is running, which gives `OneRunnerPerAttempt`;
- `RelayLocks`: between flush and commit the relay still owns its row and the
  execution is still pending, and no two relays have locked one execution.
  Without it `FinishCommit` could move a running execution back to queued.

`TerminalIsFinal` needs `ClosedAtRest`, a second invariant: a finished execution
has no countdown left for `Tick` to change. `OneRunnerPerAttempt` has an
induction of its own over `IInv`. `OneJobSteps` sums up the actions: whatever the
step, the rows of one given job are kept, accepted, claimed, queued, closed by
their worker, reaped or aged. The refinement follows from it: the reaper may take
back several jobs in one transaction, which is why `JobLifecycle` has an action
that interrupts a set of them.

### InMemoryRuntimeProofs

`SlotsAreExactInvariant`, `AttemptsTellTheStateInvariant` and
`InMemoryKeepsLifecycle` (the refinement). `IInv` follows the attempts of a job
through its states (`JobsAreTold`), fully until `complete()` is called on it and in
outline after, says which outbox rows can exist
(`RowsFollow`), that a fixed interval keeps its phase (`SchedulesInPhase`, with
the arithmetic of catching up on missed instants), that what a loop has locked is
due and locked by it alone (`HeldAreDue`), and that a schedule that is not there has no
execution (`NoOtherSlots`). Without the phase an execution could belong to an
instant between two planned ones; without the locks two loops could move one
schedule twice. The refinement maps a completed job to what was shown of it before
(`Shown`), which no later step changes (`CompletedStay`).

### BronzeIngestionProofs

`IngestionTypes`, `SucceededRunIsCompleteInvariant`,
`NormalizeAfterCaptureInvariant`, `NeverOvercountsInvariant`. The core is
`Progress`, about an attempt at record *n*: all valid records before *n* are
snapshots, those it counts as accepted are rows of its batch, and it counted as
many rejects as there are invalid records before *n*. With `Fresh` (an attempt
starts from nothing), `CopyAgrees` and `SavedIsComplete` (the copy of the run it
carries and will save is about the same file, and says succeeded only when the
file is complete) this is `AttemptsAreRight`; overlapping attempts only add rows,
so it survives them. `RunsHaveFiles` gives `NeverOvercounts`; `RequestsAreNamed`,
`CapturedAreValid` and `HandedOnExists` give types, finite cardinalities and the
rows that later steps write.

### SilverProofs

`SilverTypes`, `NormalizedIsCompleteInvariant`, `MergesAreJustifiedInvariant`,
`LinksNeverCollideInvariant`.

- Completeness: past `LoadRun`, a snapshot of the run is listed or still to do
  (`ProcessOK`). A list read in any order has every row of its set once:
  `OrderedHasAll`, by counting.
- Links: what a worker was offered is listed, all different and of another chain,
  and no pair of it with the worker's listing has a link (`ProcessOK`); no two
  workers link the same listing, and of two listings being linked only the later
  one was offered the other (`WorkersAreApart`), because a link joins listed
  snapshots (`LinksAreListed`) and an offer is made before the insert.
- Merges: a property that a worker holds is that of a related listing or one that
  nobody else has seen (`CanonicalsAreJustified`, `PropertiesExist`), although the
  listing is inserted several transactions after it was chosen.
  `JustifiedGrows` is the step: a set closed under the relation stays apart from
  the rest when a listing joins either side.

### CriteriaProofs

`CriteriaTypes`, `OnePreferenceInvariant`, `SucceededWorkIsCompleteInvariant`,
`ObservationsAreGroundedInvariant`, `RecomputeKeepsCoverageHolds`. `IInv` has two
sides that share no row.

- `PreferenceInv`: the concept that a request has read is still there, in that
  version or a later one, the facts it saw are of its own concept (`RequestOK`), and
  a preference that was stated has one active fact. Two changes that saw the same
  facts are kept apart by the index on active facts (`FactAccepted`): the one that
  commits second is refused unless it retires what is active.
- `WorkInv`: each row is of a listing, concept and batch that exist and, while it is
  active, has a source (`RowOK`, `Grounded`); each attempt of a
  recompute supersedes only what is within the scope of its job (`AttemptOK`,
  `InScope`), and says that it succeeded only when its concepts have observations
  and its run is closed (`OutcomeOK`, `RunsOK`). `OutcomeOK` is stable: rows are
  added and superseded, never deleted.

Every action is a `RowsStep`, a `RunsStep`, an `AttemptStep` or a `JobStep`, or
several of them. Groundedness is about the rules: one lemma per concept shows that
what a rule finds in text, amenities or fields, with its quotation and score, or what
the first valid model answer says is grounded
(`BalconGrounded`, `AmbientesGrounded`, `PisoGrounded`, `CocinaGrounded`,
`ModelGrounded`). Coverage holds because a publication supersedes only ids whose
listing and concept it has extracted again (`SupersededIsExtracted`) and its new
rows are of a batch of their own, so the update that follows the insert cannot hit
them.

### RadarProofs

About `Radar`: `RadarTypes`, `JobSuccessMeansResultsInvariant`,
`PublishedIsFrozenHolds`, `ArchivedIsFinalHolds`. `RunsAreVersioned` (a run's
version column tells whether it was published), `ReadOK` (equal versions mean that
the profile is the one that was read) and what requests and attempts carry
(`RequestOK`, `AttemptOK`, `ProfileFirst`) make each compare-and-save a proof that
nothing happened since the read.

About `Scoring`: `BudgetIsRespectedInvariant`, `ReasonsHaveEvidenceInvariant`,
`ShortlistWasOfferedInvariant`, `CheaperRanksFirstInvariant`. `ScoredInv` says of
every published run that its items are within the budget and its evaluations
justified (`PublishedRunOK`), of every shortlist, stored or held by a request
between its check and its replacement, that some published run offered it
(`ScoringInv`), of the registry that it holds only documents that were validated
(`RegistryInv`), and of every run that it is in order of cost (`OrderInv`).

The order of cost is a fact about arithmetic. Of two listings that differ in price
alone, each evaluation of the cheaper one is in the same state and scores no less
(`CriterionCompare`, `EvaluationsCompare`); so do the weighted sum and the deltas
(`TotalCompare`), the same gates fire for both (`FiresForBoth`), and rounding,
clamping and capping keep the order (`RoundedCompare`, `ClampCompare`,
`MinOfTwo`). What is left is a tie, which the tie-break decides. The sums need
induction over finite sets. It is done by hand: a least counterexample exists in a
well-founded order (`Induction`, an implication about subsets of the naturals), and
`IterationExists` and `SumsCompare` use it for the function that a fold iterates.

### IdentityProofs

About `MagicLinks`: `LinkTypes`, `SessionMatchesLinkInvariant`,
`NewerLinkWinsInvariant`, `RequestsLimitedInvariant`, `NeverRevivedHolds`.
`IssuersOwn`: between its two transactions a worker is the only one that issues its
link, and the link is still `issuing`. `LimiterHolds`: open requests share neither
address nor origin, so what one of them counted is still so when it commits;
without it two requests could each see room for one more. `RequestsAreNamed` and
`BrowsersAreNamed` type what is carried, and finitely many used requests let the
counts be compared.

About `Sessions`: `SessionTypes`, `LocksExcludeInvariant`,
`AllowedIsCurrentInvariant`, `ActorIsAdministratorInvariant`, `LogoutIsFinalHolds`.
`SessionInv` has three layers: no two calls hold conflicting locks
(`LocksExclude`), a call at a given step holds given locks (`Locked`), and so what
it read is still so (`CurrentReads`): a step of another call that could make it
false would need a lock in conflict with one that is held.

### PlatformProofs

About `VersionedObjects`: `ObjectTypes`, `AvailableHasBytesInvariant`,
`PutIsKeptInvariant`, `AvailableIsFinalHolds`. `PutsOwnTheirRow` ties a put to its row
and `RowsHaveContent` a row to a content; `VerifiedStays` and `SweepIsRight` say
that what a put or the reconciler found valid under a key is valid when it settles
the row, whichever of the adapters is used and whoever else writes.

About `Release`: `ReleaseTypes`, `SchemaIsARevisionInvariant`,
`ReleaseImplementsHistory` (the refinement of `SchemaVersion`),
`PassIsCompleteHolds`, for any number of promotions, rollbacks and commands by
hand. `CatalogueInv`: the catalogue is a database of the recorded revision, and an
open command has planned a way that the scripts know; a command commits only if the
revision is still the one it read, so what commits is one script on a database of
its own revision, which is where `ScriptAssumption` comes in. `RowsInv`: rows are
in tables that exist. `DeploymentOK`: a run goes on to its smoke only when it has
seen what it waits for on every surface, and a surface never goes back to an older
deployment. So if the ids waited for are the latest, every surface is on that
deployment (`WaitedForTheLast`); whose it is the wait does not tell, but web answers
with the version it runs, which must be the release (`ProbedOK`). The heartbeat rows
play no part in the argument, which is why `PassIsComplete` holds although they may
be of another release.

### Only model-checked

- `EventuallySettled`: liveness under fairness is out of the prover's reach, and so
  is `ENABLED`, with the absence of deadlock in `jobs` and `sessions`.
- `ScriptAssumption` and the other assumptions on constants: TLC evaluates them.

## Not modelled

`PROJECT.json` lists every component. Left out for good:

- product events, telemetry, configuration, HTTP routers and the web client: they
  keep no state that another component relies on;
- backup and restore: command-line tools around `pg_dump`, run by one operator (a
  second backup that dies in the same destination leaves a dump that the restore
  refuses);
- embeddings and urban signals of criteria, which nothing calls; audit rows of the
  mail webhook; the retention purge, which the database refuses;
- `complete()` of the durable runtime, a helper of the tests;
- columns, checks and indexes of the schema, except where a model relies on one;
- texts: cleaning of descriptions, HTML, templates of explanations, formatting.

Clock skew between hosts and durations beyond "running or over" are abstracted in
what is modelled.

## Plan

The modelling is complete in the sense above and every safety property is proved.
What could follow, in this order:

1. A liveness argument for `EventuallySettled` on paper: its steps are action
   properties over `IInv` of `JobRuntimeProofs`, but the fairness argument that
   joins them stays with TLC.
2. Types of the items of a recommendation run from the types of its inputs, which
   would make the last two conjuncts of `RadarAssumption` lemmas.
