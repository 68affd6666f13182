------------------------------- MODULE Release -------------------------------
(* Promotion and rollback of a release (promote.yml, rollback.ps1), the        *)
(* surfaces they deploy, the heartbeats those write, and the smoke that        *)
(* decides.  Several promotions may be in flight: the workflow takes no lock.  *)
(* A release stands for its validated manifest; images follow the manifest.    *)
EXTENDS Migrations

CONSTANTS
    Promotions,       \* runs of promote.yml
    Rollbacks,        \* runs of rollback.ps1
    Operators,        \* alembic commands run by hand
    Checkouts,        \* the heads of the checkouts they run it from
    ReleaseOf,        \* the release each promotion or rollback is given
    ManifestRevision, \* the database_revision of each release
    StartReleases,    \* what the environment may run at first: a release, or None
    Surfaces          \* subset of web, api, worker, scheduler

ASSUME ReleaseAssumption ==
    /\ Migrators = Promotions \cup Operators
    /\ Promotions \cap Operators = {}
    /\ Promotions \cap Rollbacks = {}
    /\ Checkouts \subseteq 1..HeadRevision
    /\ StartRevisions \subseteq 0..HeadRevision
    /\ DOMAIN ReleaseOf = Promotions \cup Rollbacks
    /\ \A p \in DOMAIN ReleaseOf : ReleaseOf[p] \in DOMAIN ManifestRevision
    /\ StartReleases \subseteq DOMAIN ManifestRevision \cup {None}
    /\ None \notin DOMAIN ManifestRevision
    /\ {"web", "api", "scheduler"} \subseteq Surfaces
    /\ Surfaces \subseteq {"web", "api", "worker", "scheduler"}

Deployments == Promotions \cup Rollbacks

Releases == DOMAIN ManifestRevision

VARIABLES
    deployments, \* the releases that the environment was set to: the n-th is
                 \* that of the n-th deployment of each surface
    active,      \* per surface: the deployment that is up, 0 for none
    status,      \* runtime_surface_status
    pc,          \* per promotion or rollback: where it is
    known,       \* and the last deployment that it knew of
    expected,    \* and the deployment of each surface that it waits for
    seen         \* and the surfaces it saw it up on

progress == <<pc, known, expected, seen>>

depvars == <<deployments, active, status, progress>>

releaseVars == <<migvars, depvars>>

NoStatus == [release |-> None, state |-> "absent"]

Latest == Len(deployments)

RunningOn(s) == IF active[s] = 0 THEN None ELSE deployments[active[s]]

(* Nothing runs yet, or a release does at its revision. *)
ReleaseInit ==
    /\ MigInit
    /\ \E r \in StartReleases :
          \/ r = None /\ deployments = <<>>
          \/ r # None /\ revision = ManifestRevision[r] /\ deployments = <<r>>
    /\ active = [s \in Surfaces |-> Latest]
    /\ status = [s \in Surfaces |-> NoStatus]
    /\ pc = [p \in Deployments |-> "start"]
    /\ known = [p \in Deployments |-> 0]
    /\ expected = [p \in Deployments |-> [s \in Surfaces |-> 0]]
    /\ seen = [p \in Deployments |-> {}]

-----------------------------------------------------------------------------
(* Readiness and heartbeats. *)

(* PersistenceProbe: the schema check wants exactly the manifest's revision. *)
SchemaReady(r) == revision = ManifestRevision[r]

ExtensionsReady == Range(RequiredExtensions) \subseteq schema.extensions

(* A failed critical probe takes the surface out of service and a failed      *)
(* login dependency degrades it; either way it is not ready.                  *)
AggregateState(critical, login) == IF critical /\ login THEN "ready" ELSE "unready"

StatusTable == "runtime_surface_status"

Heartbeat(s, r, state) ==
    /\ CanWrite(StatusTable)
    /\ rows' = rows \cup {StatusTable}
    /\ status' = [status EXCEPT ![s] =
                     [release |-> r, state |-> state]]

(* The API evaluates its probes; redis and object storage, and the login     *)
(* providers, answer as they like.                                           *)
ApiHeartbeat(services, login) ==
    /\ RunningOn("api") # None
    /\ Heartbeat("api", RunningOn("api"),
                 AggregateState(/\ SchemaReady(RunningOn("api"))
                                /\ ExtensionsReady
                                /\ services, login))
    /\ UNCHANGED <<schema, revision, mig, deployments, active, progress>>

(* Worker and scheduler report ready as long as they run. *)
ProcessHeartbeat(s) ==
    /\ RunningOn(s) # None
    /\ Heartbeat(s, RunningOn(s), "ready")
    /\ UNCHANGED <<schema, revision, mig, deployments, active, progress>>

-----------------------------------------------------------------------------
(* Promotion. *)

(* What the environment is set to. *)
Config == IF Latest = 0 THEN None ELSE deployments[Latest]

MoveTo(p, label) == pc' = [pc EXCEPT ![p] = label]

(* Access and configuration are verified, then the database is dumped. *)
BackupTaken(p) ==
    /\ pc[p] = "start"
    /\ MoveTo(p, "backed_up")
    /\ UNCHANGED <<migvars, deployments, active, status, known, expected, seen>>

StartMigration(p) ==
    /\ pc[p] = "backed_up"
    /\ BeginUpgrade(p, HeadRevision)
    /\ MoveTo(p, "migrating")
    /\ UNCHANGED <<deployments, active, status, known, expected, seen>>

(* db_state: the revision and the extensions the database now has. *)
MigrationChecked(p) ==
    /\ pc[p] = "migrating"
    /\ ~Open(p)
    /\ MoveTo(p, IF /\ mig[p].pc = "done"
                  /\ SchemaReady(ReleaseOf[p])
                  /\ ExtensionsReady
               THEN "checked" ELSE "failed")
    /\ UNCHANGED <<migvars, deployments, active, status, known, expected, seen>>

(* rollback.ps1 never migrates: it wants the schema as its manifest has it. *)
RollbackChecked(p) ==
    /\ pc[p] = "start"
    /\ MoveTo(p, IF SchemaReady(ReleaseOf[p]) THEN "checked" ELSE "failed")
    /\ UNCHANGED <<migvars, deployments, active, status, known, expected, seen>>

(* set-railway-images: the status of the services, with their latest          *)
(* deployments; then the configuration of the environment.                    *)
ReadStatus(p) ==
    /\ pc[p] = "checked"
    /\ known' = [known EXCEPT ![p] = Latest]
    /\ MoveTo(p, "read")
    /\ UNCHANGED <<migvars, deployments, active, status, expected, seen>>

WaitFor(p, ids) ==
    /\ expected' = [expected EXCEPT ![p] = ids]
    /\ MoveTo(p, "switched")
    /\ UNCHANGED <<migvars, deployments, active, status, known, seen>>

(* A release that is set already keeps the deployments of that status.  All  *)
(* services diverge from another release, and all count as diverging when    *)
(* the configuration could not be read.                                      *)
ReuseDeployments(p) ==
    /\ pc[p] = "read"
    /\ Config = ReleaseOf[p]
    /\ WaitFor(p, [s \in Surfaces |-> known[p]])

ListDeployments(p) ==
    /\ pc[p] = "read"
    /\ known' = [known EXCEPT ![p] = Latest]
    /\ MoveTo(p, "listed")
    /\ UNCHANGED <<migvars, deployments, active, status, expected, seen>>

(* One edit of the environment sets the images of every surface, which gives *)
(* each a new deployment unless nothing has changed.                         *)
SwitchImages(p) ==
    /\ pc[p] = "listed"
    /\ \/ deployments' = Append(deployments, ReleaseOf[p])
       \/ Config = ReleaseOf[p] /\ UNCHANGED deployments
    /\ MoveTo(p, "edited")
    /\ UNCHANGED <<migvars, active, status, known, expected, seen>>

(* The first deployment of each service that was not listed before is taken  *)
(* for the new one, whoever made it.                                         *)
PickDeployments(p) ==
    /\ pc[p] = "edited"
    /\ \E ids \in [Surfaces -> (known[p] + 1)..Latest] : WaitFor(p, ids)

(* A deployment comes up and replaces an older one. *)
Rollout(s) ==
    /\ \E n \in (active[s] + 1)..Latest : active' = [active EXCEPT ![s] = n]
    /\ UNCHANGED <<migvars, deployments, status, progress>>

(* Mutant of WaitForService: one surface that is up is enough. *)
WaitForOne(p, s) ==
    /\ pc[p] = "switched"
    /\ active[s] = expected[p][s]
    /\ seen' = [seen EXCEPT ![p] = @ \cup {s}]
    /\ MoveTo(p, "deployed")
    /\ UNCHANGED <<migvars, deployments, active, status, known, expected>>

(* Each deployment is polled until it is up; one that was replaced fails. *)
WaitForService(p, s) ==
    /\ pc[p] = "switched"
    /\ s \notin seen[p]
    /\ active[s] = expected[p][s]
    /\ seen' = [seen EXCEPT ![p] = @ \cup {s}]
    /\ IF seen'[p] = Surfaces THEN MoveTo(p, "deployed") ELSE UNCHANGED pc
    /\ UNCHANGED <<migvars, deployments, active, status, known, expected>>

(* The pipeline runs one scheduler pass in the scheduler's environment, which *)
(* has the variables of the images set last.                                  *)
SchedulerPass(p) ==
    /\ pc[p] = "deployed"
    /\ p \in Promotions
    /\ Heartbeat("scheduler", Config, "ready")
    /\ MoveTo(p, "smoke")
    /\ UNCHANGED <<schema, revision, mig, deployments, active, known, expected, seen>>

(* The smoke asks web for /ready and /version.  /ready has the API write the  *)
(* web's heartbeat, which it does under the API's own manifest.               *)
SmokeProbes(p) ==
    /\ pc[p] = IF p \in Promotions THEN "smoke" ELSE "deployed"
    /\ RunningOn("api") # None
    /\ Heartbeat("web", RunningOn("api"), "ready")
    /\ MoveTo(p, IF RunningOn("web") = ReleaseOf[p] THEN "probed" ELSE "failed")
    /\ UNCHANGED <<schema, revision, mig, deployments, active, known, expected, seen>>

SurfacesMatch(r) ==
    \A s \in Surfaces :
        status[s].release = r /\ status[s].state = "ready"

(* Then the surfaces' rows are compared with the manifest. *)
SmokeSurfaces(p) ==
    /\ pc[p] = "probed"
    /\ MoveTo(p, IF SurfacesMatch(ReleaseOf[p]) THEN "passed" ELSE "failed")
    /\ UNCHANGED <<migvars, deployments, active, status, known, expected, seen>>

(* Any other gate, probe, conformance check or smoke scenario fails, a        *)
(* heartbeat cannot be written, a surface's row is over ten minutes old, a    *)
(* wait times out, or the run is cancelled.                                   *)
GateFails(p) ==
    /\ pc[p] \notin {"passed", "failed", "migrating"}
    /\ MoveTo(p, "failed")
    /\ UNCHANGED <<migvars, deployments, active, status, known, expected, seen>>

-----------------------------------------------------------------------------
(* Dropping the status table takes its rows along. *)
KeepStatus ==
    status' = [s \in Surfaces |->
                   IF StatusTable \in schema'.tables THEN status[s] ELSE NoStatus]

RunAlembic(m) == Migrate(m) /\ KeepStatus /\ UNCHANGED <<deployments, active, progress>>

OperatorCommand(m) ==
    /\ \/ \E head \in Checkouts : BeginUpgrade(m, head)
       \/ BeginDowngrade(m)
    /\ UNCHANGED depvars

ProductWrites(t) == InsertRow(t) /\ UNCHANGED depvars

Promote(p) ==
    \/ BackupTaken(p)
    \/ StartMigration(p)
    \/ MigrationChecked(p)
    \/ SchedulerPass(p)

Deploy(p) ==
    \/ ReadStatus(p)
    \/ ReuseDeployments(p)
    \/ ListDeployments(p)
    \/ SwitchImages(p)
    \/ PickDeployments(p)
    \/ \E s \in Surfaces : WaitForService(p, s)
    \/ SmokeProbes(p)
    \/ SmokeSurfaces(p)
    \/ GateFails(p)

ReleaseNext ==
    \/ \E m \in Migrators : RunAlembic(m)
    \/ \E m \in Operators : OperatorCommand(m)
    \/ \E t \in DataTables : ProductWrites(t)
    \/ \E p \in Promotions : Promote(p)
    \/ \E p \in Rollbacks : RollbackChecked(p)
    \/ \E p \in Deployments : Deploy(p)
    \/ \E s \in Surfaces : Rollout(s)
    \/ \E services, login \in BOOLEAN : ApiHeartbeat(services, login)
    \/ \E s \in Surfaces \cap {"worker", "scheduler"} : ProcessHeartbeat(s)

ReleaseSpec == ReleaseInit /\ [][ReleaseNext]_releaseVars

-----------------------------------------------------------------------------
ReleaseTypeOK ==
    /\ revision \in 0..HeadRevision
    /\ rows \subseteq schema.tables
    /\ deployments \in Seq(Releases)
    /\ active \in [Surfaces -> 0..Latest]
    /\ \A s \in Surfaces : status[s].release \in Releases \cup {None}
    /\ \A p \in Deployments : known[p] \in 0..Latest /\ seen[p] \subseteq Surfaces
    /\ expected \in [Deployments -> [Surfaces -> 0..Latest]]

(* A deployment whose smoke passes when the deployments it waited for are     *)
(* still the latest has every surface on its release.  It may have taken the  *)
(* deployments of a concurrent run for its own, and the rows the smoke        *)
(* compares may come from the API, from the pipeline or from before: the      *)
(* verdict rests on the wait and on the version that web answers.             *)
PassIsComplete ==
    [][\A p \in Deployments :
           /\ pc[p] # "passed" /\ pc'[p] = "passed"
           /\ \A s \in Surfaces : expected[p][s] = Latest
           => \A s \in Surfaces : RunningOn(s) = ReleaseOf[p]]_releaseVars
=============================================================================
