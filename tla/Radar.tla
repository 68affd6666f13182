-------------------------------- MODULE Radar --------------------------------
(***************************************************************************)
(* One search profile of one owner: the requests that create, edit, pause, *)
(* resume and archive it, the immutable versions they leave, the           *)
(* recommendation runs they submit, and the workers that compute and       *)
(* publish them.  Every repository method is a transaction of its own, so  *)
(* a request is several steps and may die between two of them; the profile *)
(* row and the run row are guarded by their version column.                *)
(*                                                                         *)
(* A request that loses a unique constraint (two requests that read the    *)
(* same latest version, or that both found no run) raises and persists     *)
(* nothing more: the step Abort.                                           *)
(***************************************************************************)
EXTENDS Matching

CONSTANTS
    Clients,        \* concurrent API requests
    Workers,
    MaxAttempts,
    Drafts,         \* the searches a user submits
    Feeds,          \* sequence of [listings, observed]: what Silver and Criteria publish
    Policy,         \* the latest policy document (module Scoring)
    MaxVersions,    \* bound: versions of the profile
    MaxSubmits,     \* bound: runs submitted
    MaxSaves        \* bound: version column of the profile when a request reads it

VARIABLES
    profile,        \* the row of search_profiles, or None
    versions,       \* search_profile_versions, by number
    runs,           \* recommendation_runs with their items, by version and trigger
    clock,          \* created_at of the latest run
    feed,           \* Silver and the observations as of now
    compiled,       \* the versions with a compilation of their criteria
    client,         \* the request each client executes
    attempt,        \* the attempt each worker executes
    phase, tries, holder

VersionIds == 1..MaxVersions
Triggers == {"created", "edited", "resumed"}
RunKeys == VersionIds \X Triggers

Jobs == INSTANCE JobAttempts WITH Jobs <- VersionIds, Nobody <- None

jobVars == <<phase, tries, holder>>
world == <<feed, compiled>>
vars == <<profile, versions, runs, clock, world, client, attempt, jobVars>>

---------------------------------------------------------------------------
(* The rows.                                                               *)

ProfileRow ==
    [search : Drafts, status : States, version : 1..MaxSaves + 1, current : VersionIds \cup {None}]

Items == [id : Nat, score : 0..Unit, total_cost : Nat]

RunRow ==
    [state : {"pending", "succeeded"}, created : 0..MaxSubmits, version : 1..2,
     items : Seq(Items), search : Drafts \cup {None},
     scored_by : {"baseline", "policy"}]

Requests ==
    [at : {"idle", "snapshot", "save", "status", "submit", "insert"},
     read : ProfileRow \cup {None}, search : Drafts \cup {None},
     target : States \cup {None}, trigger : Triggers \cup {None},
     number : VersionIds \cup {None}, created : 0..MaxSubmits]

Attempts ==
    [at : {"idle", "load", "score", "publish", "report"},
     job : VersionIds \cup {None}, search : Drafts \cup {None},
     key : RunKeys \cup {None}, version : 0..2, result : RunRow \cup {None},
     outcome : Jobs!Outcomes \cup {None}]

NoRequest ==
    [at |-> "idle", read |-> None, search |-> None, target |-> None,
     trigger |-> None, number |-> None, created |-> 0]

NoAttempt ==
    [at |-> "idle", job |-> None, search |-> None, key |-> None, version |-> 0,
     result |-> None, outcome |-> None]

NewProfile(d) == [search |-> d, status |-> "active", version |-> 1, current |-> None]

NewRun(created) ==
    [state |-> "pending", created |-> created, version |-> 1, items |-> <<>>,
     search |-> None, scored_by |-> "baseline"]

(* None is no row and no key, and what the engines score is a list of      *)
(* items for every search and every state of the listings.                 *)
ASSUME RadarAssumption ==
    /\ {MaxAttempts, MaxVersions, MaxSubmits, MaxSaves} \subseteq Nat
    /\ DOMAIN Feeds = 1..Len(Feeds) /\ Len(Feeds) \in Nat \ {0}
    /\ None \notin Workers /\ None \notin VersionIds /\ None \notin RunKeys
    /\ None \notin ProfileRow /\ None \notin RunRow
    /\ \A d \in Drafts, i \in DOMAIN Feeds :
          /\ BaselineItems(d, Feeds[i].listings) \subseteq Seq(Items)
          /\ PolicyItems(Policy, d, Feeds[i].listings, Feeds[i].observed) \subseteq Seq(Items)

Init ==
    /\ profile = None
    /\ versions = <<>>
    /\ runs = [k \in RunKeys |-> None]
    /\ clock = 0
    /\ feed = 1
    /\ compiled = {}
    /\ client = [c \in Clients |-> NoRequest]
    /\ attempt = [w \in Workers |-> NoAttempt]
    /\ Jobs!NoJobs

---------------------------------------------------------------------------
(* Reads of the run repository.                                            *)

Latest(keys) == CHOOSE k \in keys : \A o \in keys : runs[o].created <= runs[k].created

RunsOf(n) == {k \in RunKeys : k[1] = n /\ Given(runs[k])}
Succeeded == {k \in RunKeys : Given(runs[k]) /\ runs[k].state = "succeeded"}

(* get_for_version: whichever trigger was created last.                    *)
RunForVersion(n) == IF RunsOf(n) = {} THEN None ELSE Latest(RunsOf(n))

---------------------------------------------------------------------------
(* Requests.                                                               *)

Proceed(c, request) == client' = [client EXCEPT ![c] = request]
Done(c) == Proceed(c, NoRequest)

CreateProfile(c, d) ==
    /\ client[c].at = "idle"
    /\ profile = None
    /\ ValidProfile(d) /\ RowAccepted(d)
    /\ profile' = NewProfile(d)
    /\ Proceed(c, [NoRequest EXCEPT !.at = "snapshot", !.search = d, !.trigger = "created"])
    /\ UNCHANGED <<versions, runs, clock, world, attempt, jobVars>>

(* update_profile reads the row and checks it; a stale expected_version is *)
(* answered with a conflict.  The unknown strategies are not editable.     *)
UpdateProfile(c, d) ==
    /\ client[c].at = "idle"
    /\ Given(profile) /\ profile.version <= MaxSaves
    /\ profile.status # "archived"
    /\ d.unknown_strategy = profile.search.unknown_strategy
    /\ ValidProfile(d)
    /\ Proceed(c, [NoRequest EXCEPT !.at = "snapshot", !.search = d, !.read = profile,
                                    !.trigger = "edited"])
    /\ UNCHANGED <<profile, versions, runs, clock, world, attempt, jobVars>>

(* _snapshot commits the version before the profile is saved.  A creation  *)
(* inserts number 1, which an edit may have taken.                         *)
Snapshot(c) ==
    LET n == Len(versions) + 1
        request == client[c]
    IN
    /\ request.at = "snapshot"
    /\ n <= MaxVersions
    /\ \/ /\ request.trigger = "created" => n = 1
          /\ versions' = Append(versions, request.search)
          /\ Proceed(c, [request EXCEPT
                !.at = IF request.trigger = "created" THEN "submit" ELSE "save",
                !.number = n])
       \/ /\ request.trigger = "created" /\ n > 1
          /\ Done(c)
          /\ UNCHANGED versions
    /\ UNCHANGED <<profile, runs, clock, world, attempt, jobVars>>

(* Mutant of Unconflicted: the row is saved whatever its version is.       *)
SavedAnyway(c) == TRUE

(* The version column of the row is the one that the request read.         *)
Unconflicted(c) == profile.version = client[c].read.version

SaveProfile(c) ==
    LET request == client[c] IN
    /\ request.at = "save"
    /\ IF Unconflicted(c) /\ RowAccepted(request.search)
       THEN /\ profile' = [request.read EXCEPT !.search = request.search,
                              !.current = request.number, !.version = @ + 1]
            /\ IF request.read.status = "active"
               THEN Proceed(c, [request EXCEPT !.at = "submit"]) ELSE Done(c)
       ELSE Done(c) /\ UNCHANGED profile
    /\ UNCHANGED <<versions, runs, clock, world, attempt, jobVars>>

SetStatus(c, status) ==
    /\ client[c].at = "idle"
    /\ Given(profile) /\ profile.version <= MaxSaves
    /\ CanTransition(profile.status, status)
    /\ Proceed(c, [NoRequest EXCEPT !.at = "status", !.read = profile, !.target = status])
    /\ UNCHANGED <<profile, versions, runs, clock, world, attempt, jobVars>>

SaveStatus(c) ==
    LET request == client[c] IN
    /\ request.at = "status"
    /\ IF Unconflicted(c)
       THEN /\ profile' = [request.read EXCEPT !.status = request.target, !.version = @ + 1]
            /\ IF request.read.status = "paused" /\ request.target = "active"
               THEN Proceed(c, [request EXCEPT !.at = "submit", !.trigger = "resumed"])
               ELSE Done(c)
       ELSE Done(c) /\ UNCHANGED profile
    /\ UNCHANGED <<versions, runs, clock, world, attempt, jobVars>>

(* _submit_run: a resumption runs the latest version, whoever inserted it. *)
(* The job of a version has one identity for all triggers, and it is       *)
(* committed before the run.                                               *)
SubmitRun(c) ==
    LET request == client[c]
        n == IF request.trigger = "resumed" THEN Len(versions) ELSE request.number
    IN
    /\ request.at = "submit"
    /\ \/ /\ n > 0 /\ runs[<<n, request.trigger>>] = None /\ clock < MaxSubmits
          /\ Jobs!Submit(n)
          /\ clock' = clock + 1
          /\ Proceed(c, [request EXCEPT !.at = "insert", !.number = n, !.created = clock + 1])
       \/ /\ n > 0 => runs[<<n, request.trigger>>] # None
          /\ Done(c)
          /\ UNCHANGED <<clock, jobVars>>
    /\ UNCHANGED <<profile, versions, runs, world, attempt>>

InsertRun(c) ==
    LET request == client[c]
        k == <<request.number, request.trigger>>
    IN
    /\ request.at = "insert"
    /\ runs[k] = None
    /\ runs' = [runs EXCEPT ![k] = NewRun(request.created)]
    /\ Done(c)
    /\ UNCHANGED <<profile, versions, clock, world, attempt, jobVars>>

Abort(c) ==
    /\ client[c].at # "idle"
    /\ Done(c)
    /\ UNCHANGED <<profile, versions, runs, clock, world, attempt, jobVars>>

---------------------------------------------------------------------------
(* The handler of recommendation.run.                                      *)

Continue(w, a) == attempt' = [attempt EXCEPT ![w] = a]

(* The job names the version; process_run reads the profile as it is now.  *)
ClaimRun(w, n) ==
    /\ attempt[w].at = "idle"
    /\ Jobs!Claim(w, n)
    /\ Continue(w, [NoAttempt EXCEPT !.at = "load", !.job = n, !.search = profile.search])
    /\ UNCHANGED <<profile, versions, runs, clock, world, client>>

Report(w, outcome) ==
    /\ Jobs!RecordOutcome(w, attempt[w].job, outcome)
    /\ Continue(w, NoAttempt)

(* Mutant of RunNotFound: nothing to do is taken for done.                 *)
NotFoundIsDone == "succeeded"

(* A job without a run row fails for good.                                 *)
RunNotFound == "permanent"

LoadRun(w) ==
    LET k == RunForVersion(attempt[w].job) IN
    /\ attempt[w].at = "load"
    /\ \/ k = None /\ Report(w, RunNotFound)
       \/ Given(k) /\ runs[k].state = "succeeded" /\ Report(w, "succeeded")
       \/ /\ Given(k) /\ runs[k].state = "pending"
          /\ Continue(w, [attempt[w] EXCEPT !.at = "score", !.key = k,
                                            !.version = runs[k].version])
          /\ UNCHANGED jobVars
    /\ UNCHANGED <<profile, versions, runs, clock, world, client>>

(* The policy engine scores a version with a compilation, the baseline any *)
(* other.                                                                  *)
ScoreRun(w) ==
    LET a == attempt[w]
        byPolicy == a.job \in compiled
        results == IF byPolicy
                   THEN PolicyItems(Policy, a.search, Feeds[feed].listings, Feeds[feed].observed)
                   ELSE BaselineItems(a.search, Feeds[feed].listings)
    IN
    /\ a.at = "score"
    /\ \E items \in results :
          Continue(w, [a EXCEPT !.at = "publish",
             !.result = [NewRun(0) EXCEPT !.state = "succeeded", !.items = items,
                                          !.search = a.search,
                                !.scored_by = IF byPolicy THEN "policy" ELSE "baseline"]])
    /\ UNCHANGED <<profile, versions, runs, clock, world, client, jobVars>>

(* Mutant of RunUnchanged: the run is published whatever its version is.   *)
PublishedAnyway(w) == TRUE

(* The version column of the run is the one that the attempt read.         *)
RunUnchanged(w) == runs[attempt[w].key].version = attempt[w].version

(* publish: run, items, evaluations and event in one transaction.  A lost  *)
(* race is a conflict to retry, or an unclassified StaleDataError when the *)
(* other attempt commits between its read and its update.                  *)
PublishRun(w) ==
    LET a == attempt[w] IN
    /\ a.at = "publish"
    /\ IF RunUnchanged(w)
       THEN /\ runs' = [runs EXCEPT ![a.key] =
                          [a.result EXCEPT !.created = runs[a.key].created, !.version = 2]]
            /\ Continue(w, [NoAttempt EXCEPT !.at = "report", !.job = a.job,
                                             !.outcome = "succeeded"])
       ELSE /\ \E outcome \in {"transient", "permanent"} :
                  Continue(w, [NoAttempt EXCEPT !.at = "report", !.job = a.job,
                                                !.outcome = outcome])
            /\ UNCHANGED runs
    /\ UNCHANGED <<profile, versions, clock, world, client, jobVars>>

EndAttempt(w) ==
    /\ attempt[w].at = "report"
    /\ Report(w, attempt[w].outcome)
    /\ UNCHANGED <<profile, versions, runs, clock, world, client>>

WorkerDies(w) ==
    /\ attempt[w].at # "idle"
    /\ Continue(w, NoAttempt)
    /\ UNCHANGED <<profile, versions, runs, clock, world, client, jobVars>>

LeaseLapses(n) ==
    /\ Jobs!Lapse(n)
    /\ UNCHANGED <<profile, versions, runs, clock, world, client, attempt>>

---------------------------------------------------------------------------
(* What the rest of the system does meanwhile: Silver and Criteria publish *)
(* listings, observations and compilations.                                *)

FeedAdvances ==
    /\ feed < Len(Feeds)
    /\ feed' = feed + 1
    /\ UNCHANGED <<profile, versions, runs, clock, compiled, client, attempt, jobVars>>

CompileProfile(n) ==
    /\ n \in DOMAIN versions
    /\ compiled' = compiled \cup {n}
    /\ UNCHANGED <<profile, versions, runs, clock, feed, client, attempt, jobVars>>

Next ==
    \/ \E c \in Clients :
          \/ \E d \in Drafts : CreateProfile(c, d) \/ UpdateProfile(c, d)
          \/ \E s \in States : SetStatus(c, s)
          \/ Snapshot(c) \/ SaveProfile(c) \/ SaveStatus(c)
          \/ SubmitRun(c) \/ InsertRun(c) \/ Abort(c)
    \/ \E w \in Workers :
          \/ \E n \in VersionIds : ClaimRun(w, n)
          \/ LoadRun(w) \/ ScoreRun(w) \/ PublishRun(w) \/ EndAttempt(w) \/ WorkerDies(w)
    \/ \E n \in VersionIds : LeaseLapses(n) \/ CompileProfile(n)
    \/ FeedAdvances

Spec == Init /\ [][Next]_vars

---------------------------------------------------------------------------
TypeOK ==
    /\ profile \in ProfileRow \cup {None}
    /\ versions \in Seq(Drafts) /\ Len(versions) <= MaxVersions
    /\ runs \in [RunKeys -> RunRow \cup {None}]
    /\ clock \in 0..MaxSubmits
    /\ feed \in 1..Len(Feeds) /\ compiled \subseteq VersionIds
    /\ client \in [Clients -> Requests]
    /\ attempt \in [Workers -> Attempts]
    /\ Jobs!JobTypeOK

(* A published run is frozen: no later attempt of its job, no edit of the  *)
(* profile and no new listing, observation or policy changes its items.    *)
PublishedIsFrozen ==
    [][\A k \in Succeeded : runs'[k] = runs[k]]_vars

(* An archived profile keeps its search and stays archived, although edits *)
(* and resumptions that began before the archiving are still under way.    *)
ArchivedIsFinal ==
    [][Given(profile) /\ profile.status = "archived" => profile' = profile]_vars

(* A job that ended as succeeded leaves a published run for its version,   *)
(* whichever attempt published it and whichever one reported it.           *)
JobSuccessMeansResults ==
    \A n \in VersionIds : phase[n] = "succeeded" => \E k \in RunsOf(n) : k \in Succeeded

=============================================================================
