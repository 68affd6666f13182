---------------------------- MODULE RadarProofs ----------------------------
(* Proofs about a search profile and its recommendation runs, for any      *)
(* number of concurrent requests and workers, any searches and any feed.   *)
EXTENDS Radar, Scoring, FiniteSetTheorems, WellFoundedInduction, TLAPS

-----------------------------------------------------------------------------
(* The inductive invariant                                                 *)

(* A run is written twice: when it is submitted and when it is published.  *)
RunsAreVersioned ==
    \A k \in RunKeys : Given(runs[k]) =>
        runs[k].version = IF runs[k].state = "pending" THEN 1 ELSE 2

Published(n) == \E k \in RunsOf(n) : k \in Succeeded

(* What a request may rely on at each of its steps.                        *)
RequestOK(r) ==
    /\ r.at = "snapshot" =>
          /\ r.search \in Drafts /\ r.trigger \in {"created", "edited"}
          /\ r.trigger = "edited" => Given(r.read) /\ r.read.status # "archived"
    /\ r.at = "save" =>
          /\ r.search \in Drafts /\ r.number \in VersionIds /\ r.trigger = "edited"
          /\ Given(r.read) /\ r.read.status # "archived"
    /\ r.at = "status" => Given(r.read) /\ CanTransition(r.read.status, r.target)
    /\ r.at \in {"submit", "insert"} => r.trigger \in Triggers
    /\ r.at = "submit" => r.trigger = "resumed" \/ r.number \in VersionIds
    /\ r.at = "insert" => r.number \in VersionIds

(* The version column tells whether the row is still the one a request     *)
(* read.                                                                   *)
ReadOK(r, row) ==
    Given(r.read) =>
        /\ Given(row)
        /\ r.read.version <= MaxSaves
        /\ r.read.version <= row.version
        /\ r.read.version = row.version => r.read = row

(* What an attempt has read of its job and of its run.                     *)
AttemptOK(a) ==
    /\ a.at # "idle" => a.job \in VersionIds
    /\ a.at \in {"load", "score", "publish"} => a.search \in Drafts
    /\ a.at \in {"score", "publish"} => a.key \in RunsOf(a.job) /\ a.version = 1
    /\ a.at = "publish" => a.result \in RunRow /\ a.result.state = "succeeded"
    /\ a.at = "report" => a.outcome \in Jobs!Outcomes
    /\ a.at = "report" /\ a.outcome = "succeeded" => Published(a.job)

(* Nothing is submitted before there is a profile.                         *)
ProfileFirst ==
    /\ \A c \in Clients : client[c].at # "idle" => Given(profile)
    /\ \A n \in VersionIds : phase[n] # "absent" => Given(profile)

IInv ==
    /\ TypeOK
    /\ RunsAreVersioned
    /\ ProfileFirst
    /\ \A c \in Clients : RequestOK(client[c])
    /\ \A c \in Clients : ReadOK(client[c], profile)
    /\ \A w \in Workers : AttemptOK(attempt[w])
    /\ JobSuccessMeansResults

-----------------------------------------------------------------------------
(* Records                                                                 *)

LEMMA Bounds ==
    /\ MaxAttempts \in Nat /\ MaxVersions \in Nat /\ MaxSubmits \in Nat /\ MaxSaves \in Nat
    /\ 1 \in 1..MaxSaves + 1 /\ 0 \in 0..MaxSubmits
BY RadarAssumption

LEMMA Fresh ==
    /\ NoRequest \in Requests /\ NoRequest.at = "idle" /\ NoRequest.read = None
    /\ RequestOK(NoRequest)
    /\ \A row : ReadOK(NoRequest, row)
    /\ NoAttempt \in Attempts /\ NoAttempt.at = "idle"
    /\ \A d \in Drafts : NewProfile(d) \in ProfileRow
    /\ \A t \in 0..MaxSubmits : NewRun(t) \in RunRow
<1>1. NoRequest \in Requests /\ NoRequest.at = "idle" /\ NoRequest.read = None
  BY Bounds DEF NoRequest, Requests
<1>2. NoAttempt \in Attempts /\ NoAttempt.at = "idle"
  BY DEF NoAttempt, Attempts
<1>3. \A d \in Drafts : NewProfile(d) \in ProfileRow
  BY Bounds DEF NewProfile, ProfileRow, States
<1>4. \A t \in 0..MaxSubmits : NewRun(t) \in RunRow
  <2>1. <<>> \in Seq(Items)
    OBVIOUS
  <2> QED
    BY <2>1 DEF NewRun, RunRow
<1>5. RequestOK(NoRequest) /\ \A row : ReadOK(NoRequest, row)
  BY <1>1 DEF RequestOK, ReadOK, Given
<1> QED
  BY <1>1, <1>2, <1>3, <1>4, <1>5

LEMMA PublishedRow ==
    ASSUME NEW r \in RunRow, NEW t \in 0..MaxSubmits
    PROVE  /\ [r EXCEPT !.created = t, !.version = 2] \in RunRow
           /\ [r EXCEPT !.created = t, !.version = 2].state = r.state
           /\ [r EXCEPT !.created = t, !.version = 2].version = 2
<1>1. 2 \in 1..2
  OBVIOUS
<1>2. [r EXCEPT !.created = t, !.version = 2] \in RunRow
  BY <1>1 DEF RunRow
<1>3. /\ [r EXCEPT !.created = t, !.version = 2].state = r.state
      /\ [r EXCEPT !.created = t, !.version = 2].version = 2
  BY DEF RunRow
<1> QED
  BY <1>2, <1>3

LEMMA ScoredRow ==
    ASSUME NEW r \in RunRow, NEW items \in Seq(Items), NEW d \in Drafts,
           NEW by \in {"baseline", "policy"}
    PROVE  /\ [r EXCEPT !.state = "succeeded", !.items = items, !.search = d,
                        !.scored_by = by] \in RunRow
           /\ [r EXCEPT !.state = "succeeded", !.items = items, !.search = d,
                        !.scored_by = by].state = "succeeded"
<1>1. [r EXCEPT !.state = "succeeded", !.items = items, !.search = d, !.scored_by = by]
         \in RunRow
  BY DEF RunRow
<1>2. [r EXCEPT !.state = "succeeded", !.items = items, !.search = d,
                !.scored_by = by].state = "succeeded"
  BY DEF RunRow
<1> QED
  BY <1>1, <1>2

LEMMA LoadedAttempt ==
    ASSUME NEW a \in Attempts, NEW k \in RunKeys, NEW v \in 0..2
    PROVE  [a EXCEPT !.at = "score", !.key = k, !.version = v] \in Attempts
BY DEF Attempts

(* Among finitely many created_at there is a latest.                       *)
LEMMA LargestExists ==
    ASSUME NEW S, S # {}, NEW N \in Nat, NEW f \in [S -> 0..N]
    PROVE  \E k \in S : \A o \in S : f[o] <= f[k]
<1> DEFINE T == {N - f[k] : k \in S}
           R == {ss \in Nat \X Nat : ss[1] < ss[2]}
<1>1. T \subseteq Nat /\ T # {}
  OBVIOUS
<1>2. IsWellFoundedOn(R, Nat)
  BY NatLessThanWellFounded, Zenon DEF OpToRel
<1>3. PICK x \in T : \A y \in T : ~ (<<y, x>> \in R)
  <2> HIDE DEF R, T
  <2> QED
    BY <1>1, <1>2, WFMin
<1>4. ASSUME NEW y \in T PROVE x <= y
  <2> HIDE DEF T
  <2>1. x \in Nat /\ y \in Nat
    BY <1>1
  <2>2. y < x => <<y, x>> \in R
    BY <2>1
  <2> QED
    BY <1>3, <2>1, <2>2
<1>5. PICK k \in S : x = N - f[k]
  BY <1>3
<1>6. \A o \in S : N - f[k] <= N - f[o]
  BY <1>4, <1>5
<1>7. \A o \in S : f[o] \in 0..N /\ f[k] \in 0..N
  OBVIOUS
<1> QED
  BY <1>6, <1>7

(* get_for_version returns a run of the version, if there is one.          *)
LEMMA RunForVersionIsARun ==
    ASSUME TypeOK, NEW n \in VersionIds
    PROVE  RunForVersion(n) = None \/ RunForVersion(n) \in RunsOf(n)
<1> DEFINE keys == RunsOf(n)
           f == [k \in keys |-> runs[k].created]
<1>1. CASE keys # {}
  <2>1. f \in [keys -> 0..MaxSubmits]
    <3>1. ASSUME NEW k \in keys PROVE runs[k].created \in 0..MaxSubmits
      <4>1. runs[k] \in RunRow
        BY <3>1 DEF RunsOf, TypeOK, Given
      <4> QED
        BY <4>1 DEF RunRow
    <3> QED
      BY <3>1
  <2>2. \E k \in keys : \A o \in keys : f[o] <= f[k]
    <3> HIDE DEF keys, f
    <3> QED
      BY <1>1, <2>1, LargestExists, Bounds
  <2>3. \E k \in keys : \A o \in keys : runs[o].created <= runs[k].created
    BY <2>2
  <2>4. Latest(keys) \in keys
    BY <2>3 DEF Latest
  <2> QED
    BY <1>1, <2>4 DEF RunForVersion
<1>2. CASE keys = {}
  BY <1>2 DEF RunForVersion
<1> QED
  BY <1>1, <1>2

-----------------------------------------------------------------------------
(* Requests                                                                *)

ProfileStep ==
    \/ profile' = profile
    \/ profile = None /\ profile' \in ProfileRow
    \/ /\ profile \in ProfileRow /\ profile' \in ProfileRow
       /\ profile'.version = profile.version + 1
       /\ profile.status # "archived"

(* One request moves on, to a step whose conditions hold.                  *)
RequestStep(c) ==
    /\ ProfileStep
    /\ \E r \in Requests :
          /\ client' = [client EXCEPT ![c] = r]
          /\ RequestOK(r) /\ ReadOK(r, profile')
          /\ r.at # "idle" => Given(profile')

LEMMA DoneSteps ==
    ASSUME NEW c \in Clients, Done(c), ProfileStep
    PROVE  RequestStep(c)
BY Fresh DEF Done, Proceed, RequestStep

LEMMA CreateProfileSteps ==
    ASSUME IInv, NEW c \in Clients, NEW d \in Drafts, CreateProfile(c, d)
    PROVE  RequestStep(c)
<1> DEFINE r == [NoRequest EXCEPT !.at = "snapshot", !.search = d, !.trigger = "created"]
<1>1. r \in Requests
  BY Fresh DEF Requests, Triggers
<1>2. /\ r.at = "snapshot" /\ r.search = d /\ r.trigger = "created" /\ r.read = None
      /\ client' = [client EXCEPT ![c] = r]
  BY Fresh DEF Requests, CreateProfile, Proceed
<1>3. profile = None /\ profile' \in ProfileRow /\ Given(profile')
  BY Fresh, RadarAssumption DEF CreateProfile, Given
<1> HIDE DEF r
<1>4. RequestOK(r) /\ ReadOK(r, profile')
  BY <1>2 DEF RequestOK, ReadOK, Given
<1> QED
  BY <1>1, <1>2, <1>3, <1>4 DEF RequestStep, ProfileStep

LEMMA UpdateProfileSteps ==
    ASSUME IInv, NEW c \in Clients, NEW d \in Drafts, UpdateProfile(c, d)
    PROVE  RequestStep(c)
<1> DEFINE r == [NoRequest EXCEPT !.at = "snapshot", !.search = d, !.read = profile,
                                  !.trigger = "edited"]
<1>1. r \in Requests
  BY Fresh DEF Requests, Triggers, IInv, TypeOK
<1>2. /\ r.at = "snapshot" /\ r.search = d /\ r.trigger = "edited" /\ r.read = profile
      /\ client' = [client EXCEPT ![c] = r]
  BY Fresh DEF Requests, UpdateProfile, Proceed
<1>3. /\ Given(profile) /\ profile.version <= MaxSaves /\ profile.status # "archived"
      /\ profile' = profile
  BY DEF UpdateProfile
<1>4. profile.version \in Nat
  BY <1>3, Bounds DEF Given, IInv, TypeOK, ProfileRow
<1> HIDE DEF r
<1>5. RequestOK(r)
  BY <1>2, <1>3 DEF RequestOK
<1>6. ReadOK(r, profile')
  BY <1>2, <1>3, <1>4 DEF ReadOK
<1> QED
  BY <1>1, <1>2, <1>3, <1>5, <1>6 DEF RequestStep, ProfileStep

LEMMA SetStatusSteps ==
    ASSUME IInv, NEW c \in Clients, NEW s \in States, SetStatus(c, s)
    PROVE  RequestStep(c)
<1> DEFINE r == [NoRequest EXCEPT !.at = "status", !.read = profile, !.target = s]
<1>1. r \in Requests
  BY Fresh DEF Requests, IInv, TypeOK
<1>2. /\ r.at = "status" /\ r.read = profile /\ r.target = s
      /\ client' = [client EXCEPT ![c] = r]
  BY Fresh DEF Requests, SetStatus, Proceed
<1>3. /\ Given(profile) /\ profile.version <= MaxSaves
      /\ CanTransition(profile.status, s) /\ profile' = profile
  BY DEF SetStatus
<1>4. profile.version \in Nat
  BY <1>3, Bounds DEF Given, IInv, TypeOK, ProfileRow
<1> HIDE DEF r
<1>5. RequestOK(r)
  BY <1>2, <1>3 DEF RequestOK
<1>6. ReadOK(r, profile')
  BY <1>2, <1>3, <1>4 DEF ReadOK
<1> QED
  BY <1>1, <1>2, <1>3, <1>5, <1>6 DEF RequestStep, ProfileStep

(* A request that goes on as the profile is keeps what it read.            *)
LEMMA ReadStays ==
    ASSUME IInv, NEW c \in Clients, NEW r, r.read = client[c].read, profile' = profile
    PROVE  ReadOK(r, profile')
<1>1. ReadOK(client[c], profile)
  BY DEF IInv
<1> QED
  BY <1>1 DEF ReadOK

LEMMA SnapshotSteps ==
    ASSUME IInv, NEW c \in Clients, Snapshot(c)
    PROVE  /\ RequestStep(c)
           /\ versions' \in Seq(Drafts) /\ Len(versions') <= MaxVersions
<1> DEFINE n == Len(versions) + 1
           r == [client[c] EXCEPT
                   !.at = IF client[c].trigger = "created" THEN "submit" ELSE "save",
                   !.number = n]
<1>0. /\ client[c] \in Requests /\ client[c].at = "snapshot" /\ RequestOK(client[c])
      /\ versions \in Seq(Drafts) /\ Len(versions) <= MaxVersions
      /\ Given(profile) /\ profile' = profile
  BY DEF IInv, TypeOK, Snapshot, ProfileFirst
<1>1. n \in VersionIds
  BY <1>0, Bounds DEF VersionIds, Snapshot
<1>2. CASE /\ versions' = Append(versions, client[c].search)
           /\ client' = [client EXCEPT ![c] = r]
  <2>1. client[c].search \in Drafts
    BY <1>0 DEF RequestOK
  <2>2. versions' \in Seq(Drafts) /\ Len(versions') <= MaxVersions
    BY <1>0, <1>2, <2>1 DEF Snapshot
  <2>3. r \in Requests
    BY <1>0, <1>1 DEF Requests
  <2>4. /\ r.at = (IF client[c].trigger = "created" THEN "submit" ELSE "save")
        /\ r.number = n /\ r.read = client[c].read /\ r.trigger = client[c].trigger
        /\ r.search = client[c].search
    BY <1>0 DEF Requests
  <2> HIDE DEF r, n
  <2>5. RequestOK(r)
    BY <1>0, <1>1, <2>1, <2>4 DEF RequestOK, Triggers
  <2>6. ReadOK(r, profile')
    BY <1>0, <2>4, ReadStays
  <2> QED
    BY <1>0, <1>2, <2>2, <2>3, <2>5, <2>6 DEF RequestStep, ProfileStep
<1>3. CASE Done(c) /\ UNCHANGED versions
  BY <1>0, <1>3, DoneSteps DEF ProfileStep
<1> QED
  BY <1>2, <1>3 DEF Snapshot, Proceed

LEMMA SaveProfileSteps ==
    ASSUME IInv, NEW c \in Clients, SaveProfile(c)
    PROVE  RequestStep(c)
<1>0. /\ client[c] \in Requests /\ client[c].at = "save"
      /\ RequestOK(client[c]) /\ ReadOK(client[c], profile)
  BY DEF IInv, TypeOK, SaveProfile
<1>1. /\ client[c].read \in ProfileRow /\ client[c].read.status # "archived"
      /\ client[c].search \in Drafts /\ client[c].number \in VersionIds
      /\ profile \in ProfileRow /\ client[c].read.version <= MaxSaves
      /\ client[c].trigger = "edited"
  BY <1>0 DEF RequestOK, ReadOK, Given, Requests, IInv, TypeOK
<1>2. CASE ~(Unconflicted(c) /\ RowAccepted(client[c].search))
  BY <1>2, DoneSteps DEF SaveProfile, ProfileStep
<1>3. CASE Unconflicted(c) /\ RowAccepted(client[c].search)
  <2> DEFINE p == [client[c].read EXCEPT !.search = client[c].search,
                     !.current = client[c].number, !.version = client[c].read.version + 1]
             r == [client[c] EXCEPT !.at = "submit"]
  <2>1. client[c].read = profile
    BY <1>0, <1>1, <1>3 DEF Unconflicted, ReadOK, RequestOK
  <2>2. profile' = p
    BY <1>1, <1>3 DEF SaveProfile
  <2>3. client[c].read.version + 1 \in 1..MaxSaves + 1
    BY <1>1, Bounds DEF ProfileRow
  <2>4. p \in ProfileRow /\ p.version = client[c].read.version + 1
    BY <1>1, <2>3 DEF ProfileRow
  <2> HIDE DEF p
  <2>5. /\ profile' \in ProfileRow /\ profile'.version = profile.version + 1
        /\ Given(profile')
    BY <2>1, <2>2, <2>4, RadarAssumption DEF Given
  <2>6. ProfileStep
    BY <1>1, <2>1, <2>5 DEF ProfileStep
  <2>7. CASE Done(c)
    BY <2>6, <2>7, DoneSteps
  <2>8. CASE client' = [client EXCEPT ![c] = r]
    <3>1. /\ r \in Requests /\ r.at = "submit" /\ r.read = client[c].read
          /\ r.number = client[c].number /\ r.trigger = client[c].trigger
      BY <1>0 DEF Requests
    <3> HIDE DEF r
    <3>2. RequestOK(r)
      BY <1>1, <3>1 DEF RequestOK, Triggers
    <3>3. profile.version \in Int
      BY <1>1, Bounds DEF ProfileRow
    <3>4. ReadOK(r, profile')
      BY <1>1, <2>1, <2>5, <3>1, <3>3 DEF ReadOK
    <3> QED
      BY <2>5, <2>6, <2>8, <3>1, <3>2, <3>4 DEF RequestStep
  <2> QED
    BY <1>3, <2>7, <2>8 DEF SaveProfile, Proceed
<1> QED
  BY <1>2, <1>3

LEMMA SaveStatusSteps ==
    ASSUME IInv, NEW c \in Clients, SaveStatus(c)
    PROVE  RequestStep(c)
<1>0. /\ client[c] \in Requests /\ client[c].at = "status"
      /\ RequestOK(client[c]) /\ ReadOK(client[c], profile)
  BY DEF IInv, TypeOK, SaveStatus
<1>1. /\ client[c].read \in ProfileRow
      /\ CanTransition(client[c].read.status, client[c].target)
      /\ profile \in ProfileRow /\ client[c].read.version <= MaxSaves
  BY <1>0 DEF RequestOK, ReadOK, Given, Requests, IInv, TypeOK
<1>2. CASE ~Unconflicted(c)
  BY <1>2, DoneSteps DEF SaveStatus, ProfileStep
<1>3. CASE Unconflicted(c)
  <2> DEFINE p == [client[c].read EXCEPT !.status = client[c].target,
                     !.version = client[c].read.version + 1]
             r == [client[c] EXCEPT !.at = "submit", !.trigger = "resumed"]
  <2>1. client[c].read = profile
    BY <1>0, <1>1, <1>3 DEF Unconflicted, ReadOK, RequestOK
  <2>2. profile' = p
    BY <1>1, <1>3 DEF SaveStatus
  <2>3. client[c].read.version + 1 \in 1..MaxSaves + 1
    BY <1>1, Bounds DEF ProfileRow
  <2>4. client[c].target \in States /\ client[c].read.status # "archived"
    <3>1. client[c].read.status \in States
      BY <1>1 DEF ProfileRow
    <3> QED
      BY <1>1, <3>1 DEF CanTransition, States
  <2>5. p \in ProfileRow /\ p.version = client[c].read.version + 1
    BY <1>1, <2>3, <2>4 DEF ProfileRow
  <2> HIDE DEF p
  <2>6. /\ profile' \in ProfileRow /\ profile'.version = profile.version + 1
        /\ Given(profile')
    BY <2>1, <2>2, <2>5, RadarAssumption DEF Given
  <2>7. ProfileStep
    BY <1>1, <2>1, <2>4, <2>6 DEF ProfileStep
  <2>8. CASE Done(c)
    BY <2>7, <2>8, DoneSteps
  <2>9. CASE client' = [client EXCEPT ![c] = r]
    <3>1. /\ r \in Requests /\ r.at = "submit" /\ r.read = client[c].read
          /\ r.trigger = "resumed"
      BY <1>0 DEF Requests, Triggers
    <3> HIDE DEF r
    <3>2. RequestOK(r)
      BY <3>1 DEF RequestOK, Triggers
    <3>3. profile.version \in Int
      BY <1>1, Bounds DEF ProfileRow
    <3>4. ReadOK(r, profile')
      BY <1>1, <2>1, <2>6, <3>1, <3>3 DEF ReadOK
    <3> QED
      BY <2>6, <2>7, <2>9, <3>1, <3>2, <3>4 DEF RequestStep
  <2> QED
    BY <1>3, <2>8, <2>9 DEF SaveStatus, Proceed
<1> QED
  BY <1>2, <1>3

LEMMA SubmitRunSteps ==
    ASSUME IInv, NEW c \in Clients, SubmitRun(c)
    PROVE  /\ RequestStep(c)
           /\ clock' \in 0..MaxSubmits
           /\ \/ \E n \in VersionIds : Jobs!Submit(n)
              \/ UNCHANGED jobVars
<1> DEFINE n == IF client[c].trigger = "resumed" THEN Len(versions) ELSE client[c].number
           r == [client[c] EXCEPT !.at = "insert", !.number = n, !.created = clock + 1]
<1>0. /\ client[c] \in Requests /\ client[c].at = "submit" /\ RequestOK(client[c])
      /\ versions \in Seq(Drafts) /\ Len(versions) <= MaxVersions
      /\ Given(profile) /\ profile' = profile
      /\ clock \in 0..MaxSubmits
  BY DEF IInv, TypeOK, SubmitRun, ProfileFirst
<1>1. CASE Done(c) /\ UNCHANGED <<clock, jobVars>>
  BY <1>0, <1>1, DoneSteps DEF ProfileStep
<1>2. CASE /\ n > 0 /\ clock < MaxSubmits /\ Jobs!Submit(n) /\ clock' = clock + 1
           /\ client' = [client EXCEPT ![c] = r]
  <2>1. n \in VersionIds
    <3>1. CASE client[c].trigger = "resumed"
      BY <1>0, <1>2, <3>1, Bounds DEF VersionIds
    <3>2. CASE client[c].trigger # "resumed"
      BY <1>0, <3>2 DEF RequestOK
    <3> QED
      BY <3>1, <3>2
  <2> HIDE DEF n
  <2>2. clock + 1 \in 0..MaxSubmits
    BY <1>0, <1>2, Bounds
  <2>3. r \in Requests
    BY <1>0, <2>1, <2>2 DEF Requests
  <2>4. /\ r.at = "insert" /\ r.number = n /\ r.read = client[c].read
        /\ r.trigger = client[c].trigger
    BY <1>0 DEF Requests
  <2> HIDE DEF r
  <2>5. RequestOK(r)
    BY <1>0, <2>1, <2>4 DEF RequestOK
  <2>6. ReadOK(r, profile')
    BY <1>0, <2>4, ReadStays
  <2>7. RequestStep(c)
    BY <1>0, <1>2, <2>3, <2>5, <2>6 DEF RequestStep, ProfileStep
  <2> QED
    BY <1>2, <2>1, <2>2, <2>7
<1> QED
  BY <1>1, <1>2 DEF SubmitRun, Proceed

LEMMA InsertRunSteps ==
    ASSUME IInv, NEW c \in Clients, InsertRun(c)
    PROVE  /\ RequestStep(c)
           /\ \E k \in RunKeys : \E t \in 0..MaxSubmits :
                 runs[k] = None /\ runs' = [runs EXCEPT ![k] = NewRun(t)]
<1>0. client[c] \in Requests /\ client[c].at = "insert" /\ RequestOK(client[c])
  BY DEF IInv, TypeOK, InsertRun
<1>1. /\ <<client[c].number, client[c].trigger>> \in RunKeys
      /\ client[c].created \in 0..MaxSubmits
  BY <1>0 DEF RequestOK, RunKeys, Requests
<1> QED
  BY <1>1, DoneSteps DEF InsertRun, ProfileStep

-----------------------------------------------------------------------------
(* Jobs                                                                    *)

(* A job becomes succeeded only by a report of success, and exists only    *)
(* once it was submitted.                                                  *)
JobStep(n, outcome) ==
    /\ Jobs!JobTypeOK'
    /\ \A m \in VersionIds :
          /\ phase'[m] = "succeeded" =>
                phase[m] = "succeeded" \/ (m = n /\ outcome = "succeeded")
          /\ phase'[m] # "absent" => phase[m] # "absent" \/ outcome = "submitted"

LEMMA SubmitMoves ==
    ASSUME Jobs!JobTypeOK, NEW n \in VersionIds, Jobs!Submit(n)
    PROVE  JobStep(n, "submitted")
BY Bounds DEF Jobs!Submit, Jobs!Job!Accept, Jobs!JobTypeOK, JobStep

LEMMA ClaimMoves ==
    ASSUME Jobs!JobTypeOK, NEW w \in Workers, NEW n \in VersionIds, Jobs!Claim(w, n)
    PROVE  JobStep(n, "claimed") /\ phase[n] = "waiting"
<1>1. tries[n] + 1 \in 0..MaxAttempts
  BY Bounds DEF Jobs!Claim, Jobs!Job!Start, Jobs!JobTypeOK
<1>2. tries' \in [VersionIds -> 0..MaxAttempts]
  BY <1>1 DEF Jobs!Claim, Jobs!Job!Start, Jobs!JobTypeOK
<1> QED
  BY <1>2 DEF Jobs!Claim, Jobs!Job!Start, Jobs!JobTypeOK, JobStep

LEMMA OutcomeMoves ==
    ASSUME Jobs!JobTypeOK, NEW w \in Workers, NEW n \in VersionIds,
           NEW outcome \in Jobs!Outcomes, Jobs!RecordOutcome(w, n, outcome)
    PROVE  JobStep(n, outcome)
<1>1. CASE UNCHANGED jobVars
  BY <1>1 DEF jobVars, Jobs!JobTypeOK, JobStep
<1>2. CASE /\ Jobs!EndedAs(n, "succeeded") /\ outcome = "succeeded"
           /\ holder' = [holder EXCEPT ![n] = None]
  BY <1>2 DEF Jobs!EndedAs, Jobs!Job!Finish, Jobs!JobTypeOK, JobStep
<1>3. CASE /\ Jobs!EndedAs(n, "failed")
           /\ holder' = [holder EXCEPT ![n] = None]
  BY <1>3 DEF Jobs!EndedAs, Jobs!Job!Finish, Jobs!JobTypeOK, JobStep
<1>4. CASE /\ Jobs!Job!Retry(n)
           /\ holder' = [holder EXCEPT ![n] = None]
  BY <1>4 DEF Jobs!Job!Retry, Jobs!JobTypeOK, JobStep
<1> QED
  BY <1>1, <1>2, <1>3, <1>4 DEF Jobs!RecordOutcome, Jobs!jobVars, jobVars

LEMMA LapseMoves ==
    ASSUME Jobs!JobTypeOK, NEW n \in VersionIds, Jobs!Lapse(n)
    PROVE  JobStep(n, "lapsed")
BY DEF Jobs!Lapse, Jobs!Job!Interrupt, Jobs!JobTypeOK, JobStep

-----------------------------------------------------------------------------
(* Runs                                                                    *)

(* A run is inserted once and published once.                              *)
RunsStep ==
    /\ runs' \in [RunKeys -> RunRow \cup {None}]
    /\ \A k \in RunKeys :
          \/ runs'[k] = runs[k]
          \/ /\ runs[k] = None /\ Given(runs'[k])
             /\ runs'[k].state = "pending" /\ runs'[k].version = 1
          \/ /\ Given(runs[k]) /\ runs[k].state = "pending" /\ Given(runs'[k])
             /\ runs'[k].state = "succeeded" /\ runs'[k].version = 2

LEMMA InsertMoves ==
    ASSUME TypeOK, NEW k \in RunKeys, NEW t \in 0..MaxSubmits,
           runs[k] = None, runs' = [runs EXCEPT ![k] = NewRun(t)]
    PROVE  RunsStep
<1>1. NewRun(t) \in RunRow /\ NewRun(t).state = "pending" /\ NewRun(t).version = 1
  BY Fresh DEF NewRun
<1>2. Given(NewRun(t))
  BY <1>1, RadarAssumption DEF Given
<1> HIDE DEF NewRun
<1> QED
  BY <1>1, <1>2 DEF RunsStep, TypeOK

(* What stays of the runs.                                                 *)
LEMMA RunsGrow ==
    ASSUME IInv, RunsStep
    PROVE  /\ RunsAreVersioned'
           /\ \A k \in Succeeded : runs'[k] = runs[k]
           /\ \A n \in VersionIds, k \in RunKeys : k \in RunsOf(n) => k \in RunsOf(n)'
           /\ \A k \in RunKeys : k \in Succeeded => k \in Succeeded'
           /\ \A n \in VersionIds : Published(n) => Published(n)'
<1>1. RunsAreVersioned'
  BY DEF IInv, RunsAreVersioned, RunsStep, Given
<1>2. \A k \in Succeeded : runs'[k] = runs[k]
  BY DEF RunsStep, Succeeded, Given
<1>3. \A n \in VersionIds, k \in RunKeys : k \in RunsOf(n) => k \in RunsOf(n)'
  BY DEF RunsStep, RunsOf, Given
<1>4. \A k \in RunKeys : k \in Succeeded => k \in Succeeded'
  BY <1>2 DEF Succeeded
<1>5. ASSUME NEW n \in VersionIds, Published(n) PROVE Published(n)'
  <2>1. PICK k \in RunsOf(n) : k \in Succeeded
    BY <1>5 DEF Published
  <2>2. k \in RunKeys
    BY DEF RunsOf
  <2>3. k \in RunsOf(n)' /\ k \in Succeeded'
    BY <1>3, <1>4, <2>1, <2>2
  <2> QED
    BY <2>3 DEF Published
<1> QED
  BY <1>1, <1>2, <1>3, <1>4, <1>5

LEMMA AttemptStays ==
    ASSUME IInv, RunsStep, NEW CONSTANT a, AttemptOK(a)
    PROVE  AttemptOK(a)'
<1>1. a.at \in {"score", "publish"} => a.job \in VersionIds /\ a.key \in RunsOf(a.job)'
  <2> SUFFICES ASSUME a.at \in {"score", "publish"}
               PROVE  a.job \in VersionIds /\ a.key \in RunsOf(a.job)'
    OBVIOUS
  <2>1. a.job \in VersionIds /\ a.key \in RunsOf(a.job)
    BY DEF AttemptOK
  <2>2. a.key \in RunKeys
    BY <2>1 DEF RunsOf
  <2> QED
    BY <2>1, <2>2, RunsGrow
<1>2. a.at = "report" /\ a.outcome = "succeeded" => Published(a.job)'
  BY RunsGrow DEF AttemptOK
<1> QED
  BY <1>1, <1>2 DEF AttemptOK

-----------------------------------------------------------------------------
(* Workers                                                                 *)

(* One attempt moves on, to a step whose conditions hold.                  *)
AttemptStep(w) ==
    /\ RunsStep
    /\ \E a \in Attempts : attempt' = [attempt EXCEPT ![w] = a] /\ AttemptOK(a)'

LEMMA RunsUnchanged ==
    ASSUME IInv, UNCHANGED runs
    PROVE  RunsStep
BY DEF IInv, TypeOK, RunsStep

LEMMA NoAttemptSteps ==
    ASSUME IInv, NEW w \in Workers, UNCHANGED runs, Continue(w, NoAttempt)
    PROVE  AttemptStep(w)
<1>1. AttemptOK(NoAttempt)'
  BY Fresh DEF AttemptOK
<1> QED
  BY <1>1, Fresh, RunsUnchanged DEF AttemptStep, Continue

LEMMA ClaimRunSteps ==
    ASSUME IInv, NEW w \in Workers, NEW n \in VersionIds, ClaimRun(w, n)
    PROVE  AttemptStep(w) /\ JobStep(n, "claimed")
<1>1. JobStep(n, "claimed") /\ phase[n] = "waiting"
  BY ClaimMoves DEF IInv, TypeOK, ClaimRun
<1>2. profile.search \in Drafts
  BY <1>1 DEF IInv, TypeOK, ProfileFirst, Given, ProfileRow
<1>3. [NoAttempt EXCEPT !.at = "load", !.job = n, !.search = profile.search] \in Attempts
  BY <1>2, Fresh DEF Attempts
<1>4. PICK a \in Attempts :
        a = [NoAttempt EXCEPT !.at = "load", !.job = n, !.search = profile.search]
  BY <1>3
<1>5. a.at = "load" /\ a.job = n /\ a.search \in Drafts
  BY <1>2, <1>4, Fresh DEF Attempts
<1>6. AttemptOK(a)'
  BY <1>5 DEF AttemptOK
<1> QED
  BY <1>1, <1>4, <1>6, RunsUnchanged DEF AttemptStep, ClaimRun, Continue

LEMMA LoadRunSteps ==
    ASSUME IInv, NEW w \in Workers, LoadRun(w)
    PROVE  /\ AttemptStep(w)
           /\ \/ UNCHANGED jobVars
              \/ JobStep(attempt[w].job, "permanent")
              \/ JobStep(attempt[w].job, "succeeded") /\ Published(attempt[w].job)
<1> DEFINE n == attempt[w].job
           k == RunForVersion(n)
<1>0. /\ attempt[w] \in Attempts /\ AttemptOK(attempt[w]) /\ attempt[w].at = "load"
      /\ n \in VersionIds /\ attempt[w].search \in Drafts /\ UNCHANGED runs
  BY DEF IInv, TypeOK, LoadRun, AttemptOK
<1>1. k = None \/ k \in RunsOf(n)
  BY <1>0, RunForVersionIsARun DEF IInv
<1>2. CASE Report(w, RunNotFound)
  <2>1. JobStep(n, "permanent")
    BY <1>0, <1>2, OutcomeMoves DEF Report, RunNotFound, IInv, TypeOK, Jobs!Outcomes
  <2> QED
    BY <1>0, <1>2, <2>1, NoAttemptSteps DEF Report
<1>3. CASE Given(k) /\ runs[k].state = "succeeded" /\ Report(w, "succeeded")
  <2>1. JobStep(n, "succeeded")
    BY <1>0, <1>3, OutcomeMoves DEF Report, IInv, TypeOK, Jobs!Outcomes
  <2>2. k \in RunsOf(n) /\ k \in Succeeded
    BY <1>1, <1>3 DEF Given, RunsOf, Succeeded
  <2> HIDE DEF k
  <2> QED
    BY <1>0, <1>3, <2>1, <2>2, NoAttemptSteps DEF Report, Published
<1>4. CASE /\ Given(k) /\ runs[k].state = "pending"
           /\ Continue(w, [attempt[w] EXCEPT !.at = "score", !.key = k,
                                             !.version = runs[k].version])
           /\ UNCHANGED jobVars
  <2>1. k \in RunsOf(n) /\ k \in RunKeys
    BY <1>1, <1>4 DEF Given, RunsOf
  <2> HIDE DEF k
  <2>2. runs[k].version = 1
    BY <1>4, <2>1 DEF IInv, RunsAreVersioned, RunsOf
  <2>3. [attempt[w] EXCEPT !.at = "score", !.key = k, !.version = runs[k].version]
           \in Attempts
    <3>1. runs[k].version \in 0..2
      BY <2>2
    <3> QED
      BY <1>0, <2>1, <3>1, LoadedAttempt
  <2>4. PICK a \in Attempts :
          a = [attempt[w] EXCEPT !.at = "score", !.key = k, !.version = runs[k].version]
    BY <2>3
  <2>5. /\ a.at = "score" /\ a.key = k /\ a.version = 1 /\ a.job = n
        /\ a.search = attempt[w].search
    BY <1>0, <2>2, <2>4 DEF Attempts
  <2>6. AttemptOK(a)
    BY <1>0, <2>1, <2>5 DEF AttemptOK
  <2>7. RunsStep
    BY <1>0, RunsUnchanged
  <2>8. AttemptOK(a)'
    BY <2>6, <2>7, AttemptStays
  <2> QED
    BY <1>4, <2>4, <2>7, <2>8 DEF AttemptStep, Continue
<1> QED
  BY <1>2, <1>3, <1>4 DEF LoadRun

LEMMA ScoreRunSteps ==
    ASSUME IInv, NEW w \in Workers, ScoreRun(w)
    PROVE  AttemptStep(w)
<1> DEFINE byPolicy == attempt[w].job \in compiled
           results == IF byPolicy
                      THEN PolicyItems(Policy, attempt[w].search, Feeds[feed].listings,
                                       Feeds[feed].observed)
                      ELSE BaselineItems(attempt[w].search, Feeds[feed].listings)
           by == IF byPolicy THEN "policy" ELSE "baseline"
<1>0. /\ attempt[w] \in Attempts /\ AttemptOK(attempt[w]) /\ attempt[w].at = "score"
      /\ attempt[w].search \in Drafts /\ UNCHANGED runs
      /\ feed \in DOMAIN Feeds
  BY RadarAssumption DEF IInv, TypeOK, ScoreRun, AttemptOK
<1>1. results \subseteq Seq(Items) /\ by \in {"baseline", "policy"}
  BY <1>0, RadarAssumption
<1>2. PICK items \in results :
        attempt' = [attempt EXCEPT ![w] =
           [attempt[w] EXCEPT !.at = "publish",
              !.result = [NewRun(0) EXCEPT !.state = "succeeded", !.items = items,
                                           !.search = attempt[w].search, !.scored_by = by]]]
  BY DEF ScoreRun, Continue
<1> DEFINE row == [NewRun(0) EXCEPT !.state = "succeeded", !.items = items,
                                    !.search = attempt[w].search, !.scored_by = by]
           next == [attempt[w] EXCEPT !.at = "publish", !.result = row]
<1> HIDE DEF results, by
<1>3. row \in RunRow /\ row.state = "succeeded"
  <2>1. NewRun(0) \in RunRow /\ attempt[w].search \in Drafts
    BY <1>0, Fresh, Bounds
  <2>2. row \in RunRow
    BY <1>1, <2>1, ScoredRow, Zenon
  <2>3. row.state = "succeeded"
    BY DEF NewRun
  <2> QED
    BY <2>2, <2>3
<1> HIDE DEF row
<1>4. next \in Attempts
  BY <1>0, <1>3 DEF Attempts
<1>5. PICK a \in Attempts : a = next
  BY <1>4
<1>6. /\ a.at = "publish" /\ a.result = row /\ a.key = attempt[w].key
      /\ a.version = attempt[w].version /\ a.job = attempt[w].job
      /\ a.search = attempt[w].search
  BY <1>0, <1>5 DEF Attempts
<1>7. attempt' = [attempt EXCEPT ![w] = next]
  BY <1>2 DEF row
<1> HIDE DEF next
<1>8. AttemptOK(a)
  BY <1>0, <1>3, <1>6 DEF AttemptOK
<1>9. RunsStep
  BY <1>0, RunsUnchanged
<1>10. AttemptOK(a)'
  BY <1>8, <1>9, AttemptStays
<1> QED
  BY <1>5, <1>7, <1>9, <1>10 DEF AttemptStep

LEMMA PublishRunSteps ==
    ASSUME IInv, NEW w \in Workers, PublishRun(w)
    PROVE  AttemptStep(w)
<1>0. /\ attempt[w] \in Attempts /\ AttemptOK(attempt[w]) /\ attempt[w].at = "publish"
      /\ attempt[w].job \in VersionIds /\ attempt[w].key \in RunsOf(attempt[w].job)
      /\ attempt[w].version = 1
      /\ attempt[w].result \in RunRow /\ attempt[w].result.state = "succeeded"
  BY DEF IInv, TypeOK, PublishRun, AttemptOK
<1>1. PICK n \in VersionIds : n = attempt[w].job
  BY <1>0
<1>2. PICK k \in RunKeys : k = attempt[w].key
  BY <1>0 DEF RunsOf
<1>3. runs[k] \in RunRow /\ Given(runs[k]) /\ k[1] = n
  BY <1>0, <1>1, <1>2 DEF RunsOf, IInv, TypeOK, Given
<1>4. CASE RunUnchanged(w)
  <2> DEFINE row == [attempt[w].result EXCEPT !.created = runs[k].created, !.version = 2]
  <2>1. runs[k].state = "pending"
    <3>1. runs[k].version = 1
      BY <1>0, <1>2, <1>4 DEF RunUnchanged
    <3> QED
      BY <1>3, <3>1 DEF IInv, RunsAreVersioned, RunRow
  <2>2. row \in RunRow /\ row.state = "succeeded" /\ row.version = 2
    <3>1. runs[k].created \in 0..MaxSubmits
      BY <1>3 DEF RunRow
    <3> QED
      BY <1>0, <3>1, PublishedRow
  <2>3. runs' = [runs EXCEPT ![k] = row]
    BY <1>2, <1>4 DEF PublishRun
  <2> HIDE DEF row
  <2>4. Given(row)
    BY <2>2, RadarAssumption DEF Given
  <2>5. RunsStep /\ runs'[k] = row
    BY <1>3, <2>1, <2>2, <2>3, <2>4 DEF RunsStep, IInv, TypeOK
  <2>6. [NoAttempt EXCEPT !.at = "report", !.job = n, !.outcome = "succeeded"] \in Attempts
    BY Fresh DEF Attempts, Jobs!Outcomes
  <2>7. PICK a \in Attempts :
          a = [NoAttempt EXCEPT !.at = "report", !.job = n, !.outcome = "succeeded"]
    BY <2>6
  <2>8. a.at = "report" /\ a.job = n /\ a.outcome = "succeeded"
    BY <2>7, Fresh DEF Attempts
  <2>9. k \in RunsOf(n)' /\ k \in Succeeded'
    BY <1>3, <2>2, <2>4, <2>5 DEF RunsOf, Succeeded
  <2>10. Published(n)'
    BY <2>9 DEF Published
  <2>11. AttemptOK(a)'
    BY <2>8, <2>10 DEF AttemptOK, Jobs!Outcomes
  <2> QED
    BY <1>1, <1>4, <2>5, <2>7, <2>11 DEF AttemptStep, PublishRun, Continue
<1>5. CASE ~RunUnchanged(w)
  <2>0. PICK outcome \in {"transient", "permanent"} :
          Continue(w, [NoAttempt EXCEPT !.at = "report", !.job = n, !.outcome = outcome])
    BY <1>1, <1>5 DEF PublishRun
  <2>1. [NoAttempt EXCEPT !.at = "report", !.job = n, !.outcome = outcome] \in Attempts
    BY Fresh DEF Attempts, Jobs!Outcomes
  <2>2. PICK a \in Attempts :
          a = [NoAttempt EXCEPT !.at = "report", !.job = n, !.outcome = outcome]
    BY <2>1
  <2>3. a.at = "report" /\ a.job = n /\ a.outcome = outcome
    BY <2>2, Fresh DEF Attempts
  <2>4. AttemptOK(a)'
    BY <2>3 DEF AttemptOK, Jobs!Outcomes
  <2> QED
    BY <1>1, <1>5, <2>0, <2>2, <2>4, RunsUnchanged DEF AttemptStep, PublishRun, Continue
<1> QED
  BY <1>4, <1>5

LEMMA EndAttemptSteps ==
    ASSUME IInv, NEW w \in Workers, EndAttempt(w)
    PROVE  /\ AttemptStep(w)
           /\ JobStep(attempt[w].job, attempt[w].outcome)
           /\ attempt[w].outcome # "submitted"
           /\ attempt[w].outcome = "succeeded" => Published(attempt[w].job)
<1>0. /\ AttemptOK(attempt[w]) /\ attempt[w].at = "report"
      /\ attempt[w].job \in VersionIds /\ attempt[w].outcome \in Jobs!Outcomes
  BY DEF IInv, EndAttempt, AttemptOK
<1>1. JobStep(attempt[w].job, attempt[w].outcome)
  BY <1>0, OutcomeMoves DEF EndAttempt, Report, IInv, TypeOK
<1> QED
  BY <1>0, <1>1, NoAttemptSteps DEF EndAttempt, Report, AttemptOK, Jobs!Outcomes

-----------------------------------------------------------------------------
(* The invariant is kept                                                   *)

(* The rest of the state under the step of a request.                      *)
LEMMA RequestKeeps ==
    ASSUME IInv, NEW c \in Clients, RequestStep(c)
    PROVE  /\ profile' \in ProfileRow \cup {None}
           /\ client' \in [Clients -> Requests]
           /\ \A d \in Clients : RequestOK(client'[d]) /\ ReadOK(client'[d], profile')
           /\ Given(profile) => Given(profile')
           /\ \A d \in Clients : client'[d].at # "idle" => Given(profile')
<1>1. PICK r \in Requests :
          /\ client' = [client EXCEPT ![c] = r]
          /\ RequestOK(r) /\ ReadOK(r, profile')
          /\ r.at # "idle" => Given(profile')
  BY DEF RequestStep
<1>2. /\ client' \in [Clients -> Requests] /\ client'[c] = r
      /\ \A d \in Clients \ {c} : client'[d] = client[d]
  BY <1>1 DEF IInv, TypeOK
<1>3. profile' \in ProfileRow \cup {None} /\ (Given(profile) => Given(profile'))
  BY RadarAssumption DEF RequestStep, ProfileStep, IInv, TypeOK, Given
<1>4. ASSUME NEW d \in Clients \ {c} PROVE ReadOK(client[d], profile')
  <2> SUFFICES ASSUME Given(client[d].read) PROVE ReadOK(client[d], profile')
    BY DEF ReadOK
  <2>1. /\ ReadOK(client[d], profile) /\ client[d].read \in ProfileRow
        /\ profile \in ProfileRow
    BY DEF IInv, TypeOK, Requests, Given, ReadOK
  <2>2. CASE profile' = profile
    BY <2>1, <2>2
  <2>3. CASE profile'.version = profile.version + 1
    <3>1. profile.version \in Int /\ client[d].read.version \in Int
      BY <2>1, Bounds DEF ProfileRow
    <3> QED
      BY <1>3, <2>1, <2>3, <3>1 DEF ReadOK
  <2> QED
    BY <2>1, <2>2, <2>3, RadarAssumption DEF RequestStep, ProfileStep
<1>5. ASSUME NEW d \in Clients PROVE RequestOK(client'[d]) /\ ReadOK(client'[d], profile')
  <2>1. CASE d = c
    BY <1>1, <1>2, <2>1
  <2>2. CASE d # c
    BY <1>2, <1>4, <2>2 DEF IInv
  <2> QED
    BY <2>1, <2>2
<1>6. ASSUME NEW d \in Clients, client'[d].at # "idle" PROVE Given(profile')
  BY <1>1, <1>2, <1>3, <1>6 DEF IInv, ProfileFirst
<1> QED
  BY <1>2, <1>3, <1>5, <1>6

LEMMA AttemptKeeps ==
    ASSUME IInv, NEW w \in Workers, AttemptStep(w)
    PROVE  /\ attempt' \in [Workers -> Attempts]
           /\ \A v \in Workers : AttemptOK(attempt[v])'
<1>1. PICK a \in Attempts : attempt' = [attempt EXCEPT ![w] = a] /\ AttemptOK(a)'
  BY DEF AttemptStep
<1>2. /\ attempt' \in [Workers -> Attempts] /\ attempt'[w] = a
      /\ \A v \in Workers \ {w} : attempt'[v] = attempt[v]
  BY <1>1 DEF IInv, TypeOK
<1>3. ASSUME NEW v \in Workers PROVE AttemptOK(attempt[v])'
  <2>1. CASE v = w
    BY <1>1, <1>2, <2>1 DEF AttemptOK
  <2>2. CASE v # w
    <3>1. PICK b \in Attempts : b = attempt[v]
      BY DEF IInv, TypeOK
    <3>2. AttemptOK(b)
      BY <3>1 DEF IInv
    <3>3. AttemptOK(b)'
      BY <3>2, AttemptStays DEF AttemptStep
    <3>4. attempt'[v] = b
      BY <1>2, <2>2, <3>1
    <3> QED
      BY <3>3, <3>4 DEF AttemptOK
  <2> QED
    BY <2>1, <2>2
<1> QED
  BY <1>2, <1>3

(* Attempts while none of them moves.                                      *)
LEMMA AttemptsStay ==
    ASSUME IInv, RunsStep, UNCHANGED attempt
    PROVE  /\ attempt' \in [Workers -> Attempts]
           /\ \A v \in Workers : AttemptOK(attempt[v])'
<1>1. ASSUME NEW v \in Workers PROVE AttemptOK(attempt[v])'
  <2>1. PICK b \in Attempts : b = attempt[v]
    BY DEF IInv, TypeOK
  <2>2. AttemptOK(b)
    BY <2>1 DEF IInv
  <2>3. AttemptOK(b)'
    BY <2>2, AttemptStays
  <2> QED
    BY <2>1, <2>3 DEF AttemptOK
<1> QED
  BY <1>1 DEF IInv, TypeOK

(* Jobs succeed only with results.                                         *)
LEMMA JobSuccessKeeps ==
    ASSUME IInv, RunsStep, NEW n, NEW outcome, JobStep(n, outcome),
           n \in VersionIds /\ outcome = "succeeded" => Published(n)
    PROVE  JobSuccessMeansResults'
<1>1. ASSUME NEW m \in VersionIds, phase'[m] = "succeeded" PROVE Published(m)'
  <2>1. Published(m)
    BY <1>1 DEF JobStep, IInv, JobSuccessMeansResults, Published
  <2> QED
    BY <2>1, RunsGrow
<1> QED
  BY <1>1 DEF JobSuccessMeansResults, Published

LEMMA JobsUnchanged ==
    ASSUME IInv, UNCHANGED jobVars
    PROVE  JobStep(None, "none")
BY DEF IInv, TypeOK, jobVars, JobStep, Jobs!JobTypeOK

(* A report of success comes from an attempt that found the results.       *)
JobPart ==
    \E n \in VersionIds \cup {None},
       outcome \in Jobs!Outcomes \cup {"none", "submitted", "claimed", "lapsed"} :
          /\ JobStep(n, outcome)
          /\ outcome = "succeeded" => Published(n)
          /\ outcome = "submitted" => Given(profile')

(* What a step does to each part of the state.                             *)
Parts ==
    /\ \/ \E c \in Clients : RequestStep(c)
       \/ UNCHANGED <<profile, client>>
    /\ versions' \in Seq(Drafts) /\ Len(versions') <= MaxVersions
    /\ RunsStep
    /\ clock' \in 0..MaxSubmits
    /\ feed' \in 1..Len(Feeds) /\ compiled' \subseteq VersionIds
    /\ \/ \E w \in Workers : AttemptStep(w)
       \/ UNCHANGED attempt
    /\ JobPart

LEMMA QuietJobs ==
    ASSUME IInv, UNCHANGED jobVars
    PROVE  JobPart
BY JobsUnchanged DEF JobPart

LEMMA QuietRequest ==
    ASSUME IInv, NEW c \in Clients, RequestStep(c),
           versions' \in Seq(Drafts), Len(versions') <= MaxVersions,
           UNCHANGED <<runs, clock, world, attempt, jobVars>>
    PROVE  Parts
<1>1. /\ clock' \in 0..MaxSubmits /\ feed' \in 1..Len(Feeds)
      /\ compiled' \subseteq VersionIds /\ UNCHANGED attempt
  BY DEF IInv, TypeOK, world
<1>2. RunsStep /\ JobPart
  BY RunsUnchanged, QuietJobs
<1> QED
  BY <1>1, <1>2 DEF Parts

LEMMA QuietWorker ==
    ASSUME IInv, NEW w \in Workers, AttemptStep(w), JobPart,
           UNCHANGED <<profile, versions, clock, world, client>>
    PROVE  Parts
<1>1. /\ versions' \in Seq(Drafts) /\ Len(versions') <= MaxVersions
      /\ clock' \in 0..MaxSubmits /\ feed' \in 1..Len(Feeds)
      /\ compiled' \subseteq VersionIds /\ UNCHANGED <<profile, client>>
  BY DEF IInv, TypeOK, world
<1>2. RunsStep
  BY DEF AttemptStep
<1> QED
  BY <1>1, <1>2 DEF Parts

LEMMA RequestParts ==
    ASSUME IInv, NEW c \in Clients,
           \/ \E d \in Drafts : CreateProfile(c, d) \/ UpdateProfile(c, d)
           \/ \E s \in States : SetStatus(c, s)
           \/ Snapshot(c) \/ SaveProfile(c) \/ SaveStatus(c)
           \/ SubmitRun(c) \/ InsertRun(c) \/ Abort(c)
    PROVE  Parts
<1>0. versions \in Seq(Drafts) /\ Len(versions) <= MaxVersions
  BY DEF IInv, TypeOK
<1>1. ASSUME NEW d \in Drafts, CreateProfile(c, d) PROVE Parts
  <2>1. UNCHANGED <<versions, runs, clock, world, attempt, jobVars>>
    BY <1>1 DEF CreateProfile
  <2> QED
    BY <1>0, <1>1, <2>1, CreateProfileSteps, QuietRequest
<1>2. ASSUME NEW d \in Drafts, UpdateProfile(c, d) PROVE Parts
  <2>1. UNCHANGED <<versions, runs, clock, world, attempt, jobVars>>
    BY <1>2 DEF UpdateProfile
  <2> QED
    BY <1>0, <1>2, <2>1, UpdateProfileSteps, QuietRequest
<1>3. ASSUME NEW s \in States, SetStatus(c, s) PROVE Parts
  <2>1. UNCHANGED <<versions, runs, clock, world, attempt, jobVars>>
    BY <1>3 DEF SetStatus
  <2> QED
    BY <1>0, <1>3, <2>1, SetStatusSteps, QuietRequest
<1>4. CASE Snapshot(c)
  <2>1. UNCHANGED <<runs, clock, world, attempt, jobVars>>
    BY <1>4 DEF Snapshot
  <2> QED
    BY <1>4, <2>1, SnapshotSteps, QuietRequest
<1>5. CASE SaveProfile(c)
  <2>1. UNCHANGED <<versions, runs, clock, world, attempt, jobVars>>
    BY <1>5 DEF SaveProfile
  <2> QED
    BY <1>0, <1>5, <2>1, SaveProfileSteps, QuietRequest
<1>6. CASE SaveStatus(c)
  <2>1. UNCHANGED <<versions, runs, clock, world, attempt, jobVars>>
    BY <1>6 DEF SaveStatus
  <2> QED
    BY <1>0, <1>6, <2>1, SaveStatusSteps, QuietRequest
<1>7. CASE SubmitRun(c)
  <2>1. RequestStep(c) /\ clock' \in 0..MaxSubmits
    BY <1>7, SubmitRunSteps
  <2>2. /\ Given(profile') /\ UNCHANGED <<profile, versions, runs, attempt>>
        /\ feed' \in 1..Len(Feeds) /\ compiled' \subseteq VersionIds
    BY <1>7 DEF SubmitRun, IInv, TypeOK, ProfileFirst, world
  <2>3. \/ \E n \in VersionIds : JobStep(n, "submitted")
        \/ UNCHANGED jobVars
    BY <1>7, SubmitRunSteps, SubmitMoves DEF IInv, TypeOK
  <2>4. JobPart
    BY <2>2, <2>3, QuietJobs DEF JobPart
  <2> QED
    BY <1>0, <2>1, <2>2, <2>4, RunsUnchanged DEF Parts
<1>8. CASE InsertRun(c)
  <2>1. RequestStep(c) /\ RunsStep
    BY <1>8, InsertRunSteps, InsertMoves DEF IInv
  <2>2. /\ UNCHANGED <<versions, attempt, jobVars>> /\ clock' \in 0..MaxSubmits
        /\ feed' \in 1..Len(Feeds) /\ compiled' \subseteq VersionIds
    BY <1>8 DEF InsertRun, IInv, TypeOK, world
  <2> QED
    BY <1>0, <2>1, <2>2, QuietJobs DEF Parts
<1>9. CASE Abort(c)
  <2>1. UNCHANGED <<profile, versions, runs, clock, world, attempt, jobVars>> /\ Done(c)
    BY <1>9 DEF Abort
  <2> QED
    BY <1>0, <2>1, DoneSteps, QuietRequest DEF ProfileStep
<1> QED
  BY <1>1, <1>2, <1>3, <1>4, <1>5, <1>6, <1>7, <1>8, <1>9

LEMMA WorkerParts ==
    ASSUME IInv, NEW w \in Workers,
           \/ \E n \in VersionIds : ClaimRun(w, n)
           \/ LoadRun(w) \/ ScoreRun(w) \/ PublishRun(w) \/ EndAttempt(w) \/ WorkerDies(w)
    PROVE  Parts
<1>0. UNCHANGED <<profile, versions, clock, world, client>>
  BY DEF ClaimRun, LoadRun, ScoreRun, PublishRun, EndAttempt, WorkerDies
<1>1. ASSUME NEW n \in VersionIds, ClaimRun(w, n) PROVE AttemptStep(w) /\ JobPart
  BY <1>1, ClaimRunSteps DEF JobPart
<1>2. CASE LoadRun(w)
  <2>1. attempt[w].job \in VersionIds
    BY <1>2 DEF LoadRun, IInv, AttemptOK
  <2>2. UNCHANGED jobVars => JobPart
    BY QuietJobs
  <2>3. JobStep(attempt[w].job, "permanent") => JobPart
    BY <2>1 DEF Jobs!Outcomes, JobPart
  <2>4. JobStep(attempt[w].job, "succeeded") /\ Published(attempt[w].job) => JobPart
    BY <2>1 DEF Jobs!Outcomes, JobPart
  <2> QED
    BY <1>0, <1>2, <2>2, <2>3, <2>4, LoadRunSteps, QuietWorker
<1>3. CASE ScoreRun(w) \/ PublishRun(w) \/ WorkerDies(w)
  <2>1. UNCHANGED jobVars
    BY <1>3 DEF ScoreRun, PublishRun, WorkerDies
  <2>2. AttemptStep(w)
    BY <1>3, ScoreRunSteps, PublishRunSteps, NoAttemptSteps DEF WorkerDies
  <2> QED
    BY <1>0, <2>1, <2>2, QuietJobs, QuietWorker
<1>4. CASE EndAttempt(w)
  <2>1. attempt[w].job \in VersionIds /\ attempt[w].outcome \in Jobs!Outcomes
    BY <1>4 DEF EndAttempt, IInv, AttemptOK
  <2> QED
    BY <1>0, <1>4, <2>1, EndAttemptSteps, QuietWorker DEF JobPart
<1> QED
  BY <1>0, <1>1, <1>2, <1>3, <1>4, QuietWorker

LEMMA StepParts ==
    ASSUME IInv, [Next]_vars
    PROVE  Parts
<1>0. /\ versions \in Seq(Drafts) /\ Len(versions) <= MaxVersions /\ clock \in 0..MaxSubmits
      /\ feed \in 1..Len(Feeds) /\ compiled \subseteq VersionIds
  BY DEF IInv, TypeOK
<1>1. ASSUME NEW n \in VersionIds, LeaseLapses(n) PROVE Parts
  <2>1. JobStep(n, "lapsed")
    BY <1>1, LapseMoves DEF LeaseLapses, IInv, TypeOK
  <2>2. JobPart
    BY <2>1 DEF JobPart
  <2> QED
    BY <1>0, <1>1, <2>2, RunsUnchanged DEF Parts, LeaseLapses, world
<1>2. ASSUME NEW n \in VersionIds, CompileProfile(n) PROVE Parts
  BY <1>0, <1>2, RunsUnchanged, QuietJobs DEF Parts, CompileProfile
<1>3. CASE FeedAdvances
  <2>1. feed' \in 1..Len(Feeds)
    BY <1>0, <1>3, RadarAssumption DEF FeedAdvances
  <2> QED
    BY <1>0, <1>3, <2>1, RunsUnchanged, QuietJobs DEF Parts, FeedAdvances
<1>4. CASE UNCHANGED vars
  <2>1. /\ UNCHANGED <<profile, client>> /\ UNCHANGED versions /\ UNCHANGED runs
        /\ UNCHANGED clock /\ UNCHANGED <<feed, compiled>> /\ UNCHANGED attempt
        /\ UNCHANGED jobVars
    BY <1>4 DEF vars, world
  <2> QED
    BY <1>0, <2>1, RunsUnchanged, QuietJobs DEF Parts
<1> QED
  BY <1>1, <1>2, <1>3, <1>4, RequestParts, WorkerParts DEF Next

LEMMA IInvStep == IInv /\ [Next]_vars => IInv'
<1> SUFFICES ASSUME IInv, [Next]_vars PROVE IInv'
  OBVIOUS
<1>0. Parts
  BY StepParts
<1>1. /\ profile' \in ProfileRow \cup {None}
      /\ client' \in [Clients -> Requests]
      /\ \A d \in Clients : RequestOK(client'[d]) /\ ReadOK(client'[d], profile')
      /\ Given(profile) => Given(profile')
      /\ \A d \in Clients : client'[d].at # "idle" => Given(profile')
  <2>1. CASE UNCHANGED <<profile, client>>
    BY <2>1 DEF IInv, TypeOK, ProfileFirst
  <2>2. ASSUME NEW c \in Clients, RequestStep(c)
        PROVE  /\ profile' \in ProfileRow \cup {None}
               /\ client' \in [Clients -> Requests]
               /\ \A d \in Clients : RequestOK(client'[d]) /\ ReadOK(client'[d], profile')
               /\ Given(profile) => Given(profile')
               /\ \A d \in Clients : client'[d].at # "idle" => Given(profile')
    BY <2>2, RequestKeeps
  <2>3. (\E c \in Clients : RequestStep(c)) \/ UNCHANGED <<profile, client>>
    BY <1>0 DEF Parts
  <2> QED
    BY <2>1, <2>2, <2>3
<1>2. RunsStep
  BY <1>0 DEF Parts
<1>3. attempt' \in [Workers -> Attempts] /\ \A v \in Workers : AttemptOK(attempt[v])'
  BY <1>0, <1>2, AttemptKeeps, AttemptsStay DEF Parts
<1>4. PICK n \in VersionIds \cup {None},
           outcome \in Jobs!Outcomes \cup {"none", "submitted", "claimed", "lapsed"} :
          /\ JobStep(n, outcome)
          /\ outcome = "succeeded" => Published(n)
          /\ outcome = "submitted" => Given(profile')
  BY <1>0 DEF Parts, JobPart
<1>5. TypeOK'
  BY <1>0, <1>1, <1>2, <1>3, <1>4 DEF TypeOK, Parts, RunsStep, JobStep
<1>6. ProfileFirst'
  BY <1>1, <1>4 DEF IInv, ProfileFirst, JobStep
<1>7. RunsAreVersioned'
  BY <1>2, RunsGrow
<1>8. JobSuccessMeansResults'
  BY <1>2, <1>4, JobSuccessKeeps
<1> QED
  BY <1>1, <1>3, <1>5, <1>6, <1>7, <1>8 DEF IInv

LEMMA InitIInv == Init => IInv
<1> SUFFICES ASSUME Init PROVE IInv
  OBVIOUS
<1>1. /\ \A c \in Clients : client[c] = NoRequest
      /\ \A w \in Workers : attempt[w] = NoAttempt
      /\ \A n \in VersionIds : phase[n] = "absent"
      /\ \A k \in RunKeys : runs[k] = None
  BY DEF Init, Jobs!NoJobs, Jobs!Job!Init
<1>2. Jobs!JobTypeOK
  BY Bounds DEF Init, Jobs!NoJobs, Jobs!Job!Init, Jobs!JobTypeOK
<1>3. versions \in Seq(Drafts) /\ Len(versions) <= MaxVersions
  BY Bounds DEF Init
<1>4. TypeOK
  BY <1>2, <1>3, Fresh, Bounds, RadarAssumption DEF Init, TypeOK
<1>5. \A w \in Workers : AttemptOK(attempt[w])
  BY <1>1, Fresh DEF AttemptOK
<1> QED
  BY <1>1, <1>4, <1>5, Fresh
     DEF IInv, RunsAreVersioned, ProfileFirst, JobSuccessMeansResults, Given

-----------------------------------------------------------------------------
(* Theorems                                                                *)

LEMMA IInvInvariant == Spec => []IInv
BY InitIInv, IInvStep, PTL DEF Spec

(* Every row, request and attempt stays well formed; in particular no row  *)
(* is saved with a version number that was already given.                  *)
THEOREM RadarTypes == Spec => []TypeOK
BY IInvInvariant, PTL DEF IInv

(* A job that ended as succeeded leaves a published run for its version,   *)
(* whichever attempt published it and whichever one reported it.           *)
THEOREM JobSuccessMeansResultsInvariant == Spec => []JobSuccessMeansResults
BY IInvInvariant, PTL DEF IInv

(* A published run is frozen: the version column of the run lets only the  *)
(* first publication through.                                              *)
THEOREM PublishedIsFrozenHolds == Spec => PublishedIsFrozen
<1> DEFINE Step == \A k \in Succeeded : runs'[k] = runs[k]
<1>1. IInv /\ [Next]_vars => [Step]_vars
  BY StepParts, RunsGrow DEF Parts
<1>2. Spec => [][Step]_vars
  BY <1>1, IInvInvariant, PTL DEF Spec
<1> QED
  BY <1>2 DEF PublishedIsFrozen

(* An archived profile keeps its search and its state: a request that read *)
(* the row before loses to its version column.                             *)
THEOREM ArchivedIsFinalHolds == Spec => ArchivedIsFinal
<1> DEFINE Step == Given(profile) /\ profile.status = "archived" => profile' = profile
<1>1. IInv /\ [Next]_vars => [Step]_vars
  BY StepParts DEF Parts, RequestStep, ProfileStep, Given
<1>2. Spec => [][Step]_vars
  BY <1>1, IInvInvariant, PTL DEF Spec
<1> QED
  BY <1>2 DEF ArchivedIsFinal

-----------------------------------------------------------------------------
(***************************************************************************)
(* The scoring service: what a published run is made of, and what the      *)
(* shortlist may hold.                                                     *)
(***************************************************************************)

(* A known criterion cites what it was evaluated from.                     *)
Evidenced(e) == e.state # "unknown" => e.evidence_refs # {}

(* One evaluation for each criterion of the policy.                        *)
Covers(doc, evals) ==
    /\ DOMAIN evals = DOMAIN doc.criteria
    /\ \A i \in DOMAIN evals : evals[i].criterion_key = doc.criteria[i].key

WithinBudget(items, budget) == \A i \in DOMAIN items : items[i].total_cost \in 1..budget

Justified(run, id) ==
    /\ \A i \in DOMAIN EvaluationsFor(run, id) : Evidenced(EvaluationsFor(run, id)[i])
    /\ run.policy # None => Covers(run.policy, EvaluationsFor(run, id))

PublishedRunOK(run) ==
    /\ WithinBudget(run.items, run.profile.budget_max)
    /\ \A id \in ListingIds(run) : Justified(run, id)

(* The listing was in a run, which need not be the latest any more.        *)
OfferedBy(id, rs) == \E r \in DOMAIN rs : id \in ListingIds(rs[r])

IsListOfRuns(rs) == \E S : rs \in Seq(S)

(* A request holds the shortlist between the check and the replacement of  *)
(* the rows.                                                               *)
HeldShortlist(call, rs) ==
    call # None /\ call.doing = "shortlist" =>
        \A i \in DOMAIN call.ids : OfferedBy(call.ids[i], rs)

ScoringInv ==
    /\ search \in Searches
    /\ IsListOfRuns(published)
    /\ \A r \in DOMAIN published : PublishedRunOK(published[r])
    /\ DOMAIN calls = Callers
    /\ \A c \in Callers : HeldShortlist(calls[c], published)
    /\ \A i \in DOMAIN shortlist : OfferedBy(shortlist[i], published)

-----------------------------------------------------------------------------
(* What the scoring of one listing returns.                                *)

LEMMA CriterionEvidenced ==
    ASSUME NEW criterion, NEW p, NEW l, NEW observed
    PROVE  /\ Evidenced(EvaluateCriterion(criterion, p, l, observed))
           /\ EvaluateCriterion(criterion, p, l, observed).criterion_key = criterion.key
  <1> DEFINE observation == observed[criterion.concept]
  <1>1. ASSUME NEW result, NEW refs
        PROVE  /\ Evaluation(criterion, result, refs).criterion_key = criterion.key
               /\ Evaluation(criterion, result, refs).state = result.state
               /\ Evaluation(criterion, result, refs).evidence_refs = refs
    BY DEF Evaluation
  <1>2. MissingObservation.state = "unknown"
    BY DEF MissingObservation, NoData, Result
  <1>3. CASE criterion.key \in FixedCriteria
    <2>1. EvaluateCriterion(criterion, p, l, observed)
            = Evaluation(criterion, EvaluateFixedCriterion(criterion.key, p, l), {criterion.key})
      BY <1>3 DEF EvaluateCriterion
    <2> QED BY <2>1, <1>1 DEF Evidenced
  <1>4. CASE criterion.key \notin FixedCriteria /\ ~Given(observation)
    <2>1. EvaluateCriterion(criterion, p, l, observed)
            = Evaluation(criterion, MissingObservation, {})
      BY <1>4 DEF EvaluateCriterion
    <2> QED BY <2>1, <1>1, <1>2 DEF Evidenced
  <1>5. CASE criterion.key \notin FixedCriteria /\ Given(observation)
    <2>1. EvaluateCriterion(criterion, p, l, observed)
            = Evaluation(criterion, EvaluateObservation(criterion, observation), {observation})
      BY <1>5 DEF EvaluateCriterion
    <2> QED BY <2>1, <1>1 DEF Evidenced
  <1> QED BY <1>3, <1>4, <1>5

LEMMA EvaluationsEvidenced ==
    ASSUME NEW doc, NEW p, NEW l, NEW observed
    PROVE  /\ \A i \in DOMAIN Evaluations(doc, p, l, observed) :
                 Evidenced(Evaluations(doc, p, l, observed)[i])
           /\ Covers(doc, Evaluations(doc, p, l, observed))
  BY CriterionEvidenced DEF Evaluations, Covers

(* What the query narrows is within the budget, whatever the hard filters  *)
(* do with the unknown.                                                    *)
LEMMA CandidatesWithinBudget ==
    ASSUME NEW p \in Searches, NEW narrowed \in ListingSets,
           NEW l \in Candidates(p, narrowed)
    PROVE  l.total_cost \in 1..p.budget_max
  <1>1. l \in Listings /\ Given(l.total_cost) /\ l.total_cost > 0 /\ l.total_cost <= p.budget_max
    BY ScoringAssumption DEF Candidates, Narrowed
  <1>2. l.total_cost \in Int /\ p.budget_max \in Int
    BY <1>1, ScoringAssumption DEF Given
  <1> QED BY <1>1, <1>2

LEMMA BaselineRunWithinBudget ==
    ASSUME NEW p \in Searches, NEW narrowed \in ListingSets,
           NEW items \in BaselineItems(p, narrowed)
    PROVE  WithinBudget(items, p.budget_max)
  <1>1. SUFFICES ASSUME NEW i \in DOMAIN items PROVE items[i].total_cost \in 1..p.budget_max
    BY DEF WithinBudget
  <1>2. items[i] \in BaselineScored(p, narrowed)
    BY DEF BaselineItems, Lists
  <1>3. \E l \in Candidates(p, narrowed) : items[i].total_cost = l.total_cost
    BY <1>2 DEF BaselineScored
  <1> QED BY <1>3, CandidatesWithinBudget

(* An item of a run is a candidate that no gate excluded.                  *)
LEMMA PolicyItemIsCandidate ==
    ASSUME NEW doc, NEW p, NEW narrowed, NEW items \in PolicyItems(doc, p, narrowed, Observed),
           NEW i \in DOMAIN items
    PROVE  \E l \in Candidates(p, narrowed) :
              /\ items[i].id = l.id /\ items[i].total_cost = l.total_cost
              /\ items[i].score = PolicyScore(doc, Evaluations(doc, p, l, Observed[l.id]))
              /\ ~Excluded(Evaluations(doc, p, l, Observed[l.id]))
  <1>1. items[i] \in PolicyScored(doc, p, narrowed, Observed)
    BY DEF PolicyItems, Lists
  <1> DEFINE evals == [l \in Candidates(p, narrowed) |-> Evaluations(doc, p, l, Observed[l.id])]
  <1>2. PICK l \in {c \in DOMAIN evals : ~Excluded(evals[c])} :
            items[i] = [id |-> l.id, score |-> PolicyScore(doc, evals[l]), total_cost |-> l.total_cost]
    BY <1>1 DEF PolicyScored
  <1>3. l \in Candidates(p, narrowed) /\ evals[l] = Evaluations(doc, p, l, Observed[l.id])
    BY <1>2
  <1> QED BY <1>2, <1>3

LEMMA PolicyRunWithinBudget ==
    ASSUME NEW doc, NEW p \in Searches, NEW narrowed \in ListingSets,
           NEW items \in PolicyItems(doc, p, narrowed, Observed)
    PROVE  WithinBudget(items, p.budget_max)
  BY PolicyItemIsCandidate, CandidatesWithinBudget DEF WithinBudget

(* The run that PublishPolicyRun writes.                                   *)
PolicyRun(doc, p, narrowed, items) ==
    LET evals == EvaluationsOf(doc, p, narrowed)
    IN [profile |-> p, policy |-> doc, items |-> items,
        evaluations |-> [id \in {l.id : l \in DOMAIN evals} |->
                           evals[CHOOSE l \in DOMAIN evals : l.id = id]]]

LEMMA PolicyRunJustified ==
    ASSUME NEW doc, NEW p, NEW narrowed, NEW items \in PolicyItems(doc, p, narrowed, Observed),
           NEW id \in ListingIds(PolicyRun(doc, p, narrowed, items))
    PROVE  Justified(PolicyRun(doc, p, narrowed, items), id)
  <1> DEFINE run == PolicyRun(doc, p, narrowed, items)
             pick(x) == CHOOSE l \in DOMAIN EvaluationsOf(doc, p, narrowed) : l.id = x
             evals == EvaluationsOf(doc, p, narrowed)
             all == [l \in Candidates(p, narrowed) |-> Evaluations(doc, p, l, Observed[l.id])]
             kept == {l \in DOMAIN all : ~Excluded(all[l])}
  <1>1. /\ run.policy = doc /\ run.items = items
        /\ run.evaluations = [x \in {l.id : l \in DOMAIN evals} |-> evals[pick(x)]]
    BY DEF PolicyRun
  <1>2. evals = [l \in kept |-> all[l]]
    BY DEF EvaluationsOf, Restrict
  <1>3. \A l \in DOMAIN evals : evals[l] = Evaluations(doc, p, l, Observed[l.id])
    BY <1>2
  <1>4. PICK i \in DOMAIN items : id = items[i].id
    BY <1>1 DEF ListingIds
  <1>5. PICK l \in Candidates(p, narrowed) :
            id = l.id /\ ~Excluded(Evaluations(doc, p, l, Observed[l.id]))
    BY <1>4, PolicyItemIsCandidate
  <1>6. l \in DOMAIN evals
    BY <1>2, <1>5
  <1>7. pick(id) \in DOMAIN evals
    BY <1>5, <1>6
  <1> HIDE DEF run, evals, all, kept, pick
  <1>8. id \in {x.id : x \in DOMAIN evals}
    BY <1>5, <1>6
  <1>9. id \in DOMAIN run.evaluations /\ run.evaluations[id] = evals[pick(id)]
    BY <1>1, <1>8
  <1> DEFINE chosen == pick(id)
  <1>10. EvaluationsFor(run, id) = Evaluations(doc, p, chosen, Observed[chosen.id])
    BY <1>3, <1>7, <1>9 DEF EvaluationsFor
  <1> HIDE DEF chosen
  <1> QED BY <1>1, <1>10, EvaluationsEvidenced DEF Justified, run

LEMMA PolicyRunOK ==
    ASSUME NEW doc, NEW p \in Searches, NEW narrowed \in ListingSets,
           NEW items \in PolicyItems(doc, p, narrowed, Observed)
    PROVE  PublishedRunOK(PolicyRun(doc, p, narrowed, items))
  <1>1. /\ PolicyRun(doc, p, narrowed, items).items = items
        /\ PolicyRun(doc, p, narrowed, items).profile = p
    BY DEF PolicyRun
  <1> QED BY <1>1, PolicyRunWithinBudget, PolicyRunJustified DEF PublishedRunOK

(* The run that PublishBaselineRun writes.                                 *)
BaselineRun(p, items) == [profile |-> p, policy |-> None, items |-> items, evaluations |-> <<>>]

LEMMA BaselineRunOK ==
    ASSUME NEW p \in Searches, NEW narrowed \in ListingSets,
           NEW items \in BaselineItems(p, narrowed)
    PROVE  PublishedRunOK(BaselineRun(p, items))
  <1> DEFINE run == BaselineRun(p, items)
  <1>1. run.items = items /\ run.profile = p /\ run.policy = None /\ run.evaluations = <<>>
    BY DEF BaselineRun
  <1> HIDE DEF run
  <1>2. ASSUME NEW id PROVE EvaluationsFor(run, id) = <<>>
    BY <1>1 DEF EvaluationsFor
  <1>3. \A id : Justified(run, id)
    BY <1>1, <1>2 DEF Justified
  <1>4. WithinBudget(run.items, run.profile.budget_max)
    BY <1>1, BaselineRunWithinBudget
  <1> QED BY <1>3, <1>4 DEF PublishedRunOK, run

-----------------------------------------------------------------------------
(* Every step publishes at most one run, and never takes one back.         *)

RunsExtended(rs, next) ==
    /\ IsListOfRuns(next)
    /\ DOMAIN rs \subseteq DOMAIN next
    /\ \A r \in DOMAIN rs : next[r] = rs[r]

LEMMA AppendExtends ==
    ASSUME NEW rs, IsListOfRuns(rs), NEW run
    PROVE  /\ RunsExtended(rs, Append(rs, run))
           /\ \A r \in DOMAIN Append(rs, run) : r \in DOMAIN rs \/ Append(rs, run)[r] = run
  <1>1. PICK S : rs \in Seq(S)
    BY DEF IsListOfRuns
  <1>2. rs \in Seq(S \cup {run})
    BY <1>1
  <1>3. Append(rs, run) \in Seq(S \cup {run})
    BY <1>2
  <1>4. /\ DOMAIN rs = 1..Len(rs) /\ Len(rs) \in Nat
        /\ DOMAIN Append(rs, run) = 1..(Len(rs) + 1)
        /\ \A r \in 1..Len(rs) : Append(rs, run)[r] = rs[r]
        /\ Append(rs, run)[Len(rs) + 1] = run
    BY <1>2
  <1>5. IsListOfRuns(Append(rs, run))
    BY <1>3 DEF IsListOfRuns
  <1> HIDE DEF IsListOfRuns
  <1> QED BY <1>4, <1>5 DEF RunsExtended

LEMMA OfferedStays ==
    ASSUME NEW rs, NEW next, RunsExtended(rs, next), NEW id, OfferedBy(id, rs)
    PROVE  OfferedBy(id, next)
  BY DEF RunsExtended, OfferedBy

(* A publication, as seen by the rest of the state.                        *)
Publication(run) == published' = Append(published, run) /\ UNCHANGED <<search, shortlist, calls>>

LEMMA PublishPolicyRunSteps ==
    ASSUME ScoringInv, NEW narrowed \in ListingSets, PublishPolicyRun(narrowed)
    PROVE  \E run : PublishedRunOK(run) /\ Publication(run)
  <1> DEFINE doc == registry[LatestNumber]
  <1>1. PICK items \in PolicyItems(doc, search, narrowed, Observed) :
            published' = Append(published, PolicyRun(doc, search, narrowed, items))
    BY DEF PublishPolicyRun, PolicyRun
  <1>2. PublishedRunOK(PolicyRun(doc, search, narrowed, items))
    BY PolicyRunOK DEF ScoringInv
  <1> QED BY <1>1, <1>2 DEF Publication, PublishPolicyRun

LEMMA PublishBaselineRunSteps ==
    ASSUME ScoringInv, NEW narrowed \in ListingSets, PublishBaselineRun(narrowed)
    PROVE  \E run : PublishedRunOK(run) /\ Publication(run)
  <1>1. PICK items \in BaselineItems(search, narrowed) :
            published' = Append(published, BaselineRun(search, items))
    BY DEF PublishBaselineRun, BaselineRun
  <1>2. PublishedRunOK(BaselineRun(search, items))
    BY BaselineRunOK DEF ScoringInv
  <1> QED BY <1>1, <1>2 DEF Publication, PublishBaselineRun

LEMMA PublicationKeeps ==
    ASSUME ScoringInv, NEW run, PublishedRunOK(run), Publication(run)
    PROVE  ScoringInv'
  <1>1. /\ RunsExtended(published, published')
        /\ \A r \in DOMAIN published' : r \in DOMAIN published \/ published'[r] = run
    BY AppendExtends DEF ScoringInv, Publication
  <1>2. \A r \in DOMAIN published' : PublishedRunOK(published'[r])
    BY <1>1 DEF ScoringInv, RunsExtended
  <1>3. \A id : OfferedBy(id, published) => OfferedBy(id, published')
    BY <1>1, OfferedStays
  <1>4. \A c \in Callers : HeldShortlist(calls[c], published')
    BY <1>3 DEF ScoringInv, HeldShortlist
  <1>5. \A i \in DOMAIN shortlist : OfferedBy(shortlist[i], published')
    BY <1>3 DEF ScoringInv
  <1> QED BY <1>1, <1>2, <1>4, <1>5 DEF ScoringInv, Publication, RunsExtended

-----------------------------------------------------------------------------
(* A request changes what it holds, and at most the shortlist.             *)

CallStep(c) ==
    /\ UNCHANGED <<search, published>>
    /\ \E call : calls' = [calls EXCEPT ![c] = call] /\ HeldShortlist(call, published)
    /\ \A i \in DOMAIN shortlist' : OfferedBy(shortlist'[i], published)

LEMMA CallKeeps ==
    ASSUME ScoringInv, NEW c \in Callers, CallStep(c)
    PROVE  ScoringInv'
  <1>1. PICK call : calls' = [calls EXCEPT ![c] = call] /\ HeldShortlist(call, published)
    BY DEF CallStep
  <1>2. DOMAIN calls' = Callers
    BY <1>1 DEF ScoringInv
  <1>3. \A d \in Callers : HeldShortlist(calls'[d], published)
    BY <1>1 DEF ScoringInv
  <1> QED BY <1>2, <1>3 DEF ScoringInv, CallStep

LEMMA RegisterSteps ==
    ASSUME ScoringInv, NEW c \in Callers, NEW doc, BeginRegister(c, doc)
    PROVE  CallStep(c)
  <1> DEFINE call == [doing |-> "register", doc |-> doc, number |-> LatestNumber + 1]
  <1>1. call.doing = "register" /\ calls' = [calls EXCEPT ![c] = call]
    BY DEF BeginRegister
  <1>2. UNCHANGED <<search, published, shortlist>>
    BY DEF BeginRegister
  <1> HIDE DEF call
  <1>3. HeldShortlist(call, published)
    BY <1>1 DEF HeldShortlist
  <1> QED BY <1>1, <1>2, <1>3 DEF CallStep, ScoringInv

LEMMA CompareSteps ==
    ASSUME ScoringInv, NEW c \in Callers, NEW ids, BuildComparison(c, ids)
    PROVE  CallStep(c)
  <1>1. \E rows : calls' = [calls EXCEPT ![c] = [doing |-> "compare", rows |-> rows]]
    BY DEF BuildComparison
  <1>2. PICK call : call.doing = "compare" /\ calls' = [calls EXCEPT ![c] = call]
    BY <1>1
  <1>3. UNCHANGED <<search, published, shortlist>>
    BY DEF BuildComparison
  <1>4. HeldShortlist(call, published)
    BY <1>2 DEF HeldShortlist
  <1> QED BY <1>2, <1>3, <1>4 DEF CallStep, ScoringInv

LEMMA BeginShortlistSteps ==
    ASSUME ScoringInv, NEW c \in Callers, NEW n \in Nat, NEW ids \in [1..n -> Ids],
           BeginShortlist(c, ids)
    PROVE  CallStep(c)
  <1> DEFINE call == [doing |-> "shortlist", ids |-> ids]
  <1>1. call.ids = ids /\ calls' = [calls EXCEPT ![c] = call]
    BY DEF BeginShortlist
  <1>2. UNCHANGED <<search, published, shortlist>>
    BY DEF BeginShortlist
  <1>3. Len(published) \in DOMAIN published
    <2>1. PICK S : published \in Seq(S)
      BY DEF ScoringInv, IsListOfRuns
    <2> QED BY <2>1 DEF BeginShortlist
  <1>4. \A i \in DOMAIN ids : ids[i] \in ListingIds(published[Len(published)])
    BY DEF BeginShortlist, Offered, LatestRun, ToSet
  <1>5. \A i \in DOMAIN ids : OfferedBy(ids[i], published)
    BY <1>3, <1>4 DEF OfferedBy
  <1> HIDE DEF call
  <1>6. HeldShortlist(call, published)
    BY <1>1, <1>5 DEF HeldShortlist
  <1> QED BY <1>1, <1>2, <1>6 DEF CallStep, ScoringInv

(* The request is done; only ReplaceShortlist wrote more than its rows.    *)
LEMMA DoneCallSteps ==
    ASSUME ScoringInv, NEW c \in Callers,
           InsertPolicyVersion(c) \/ ReplaceShortlist(c) \/ Respond(c)
    PROVE  CallStep(c)
  <1>1. calls' = [calls EXCEPT ![c] = None] /\ UNCHANGED <<search, published>>
    BY DEF InsertPolicyVersion, ReplaceShortlist, Respond
  <1>2. HeldShortlist(None, published)
    BY DEF HeldShortlist
  <1>3. CASE ReplaceShortlist(c)
    <2>1. \A i \in DOMAIN calls[c].ids : OfferedBy(calls[c].ids[i], published)
      BY <1>3 DEF ReplaceShortlist, ScoringInv, HeldShortlist
    <2>2. shortlist' = calls[c].ids \/ shortlist' = shortlist
      BY <1>3 DEF ReplaceShortlist
    <2>3. \A i \in DOMAIN shortlist' : OfferedBy(shortlist'[i], published)
      BY <2>1, <2>2 DEF ScoringInv
    <2> QED BY <1>1, <1>2, <2>3 DEF CallStep
  <1>4. CASE InsertPolicyVersion(c) \/ Respond(c)
    <2>1. shortlist' = shortlist
      BY <1>4 DEF InsertPolicyVersion, Respond
    <2> QED BY <1>1, <1>2, <2>1 DEF CallStep, ScoringInv
  <1> QED BY <1>3, <1>4

LEMMA EditProfileKeeps ==
    ASSUME ScoringInv, NEW p \in Searches, EditProfile(p)
    PROVE  ScoringInv'
  BY DEF ScoringInv, EditProfile

LEMMA ScoringInitInv ==
    ScoringInit => ScoringInv
  <1> HAVE ScoringInit
  <1>1. IsListOfRuns(published) /\ DOMAIN published = {} /\ DOMAIN shortlist = {}
    <2>1. published \in Seq({})
      BY DEF ScoringInit
    <2> QED BY <2>1 DEF ScoringInit, IsListOfRuns
  <1>2. \A c \in Callers : HeldShortlist(calls[c], published)
    BY DEF ScoringInit, HeldShortlist
  <1> QED BY <1>1, <1>2 DEF ScoringInit, ScoringInv

LEMMA ScoringInvStep ==
    ScoringInv /\ [ScoringNext]_scoringVars => ScoringInv'
  <1> SUFFICES ASSUME ScoringInv, [ScoringNext]_scoringVars PROVE ScoringInv'
    OBVIOUS
  <1>1. CASE UNCHANGED scoringVars
    BY <1>1 DEF scoringVars, ScoringInv
  <1>2. ASSUME NEW c \in Callers, NEW doc \in Documents, BeginRegister(c, doc) PROVE ScoringInv'
    BY <1>2, RegisterSteps, CallKeeps
  <1>3. ASSUME NEW c \in Callers, SeedRegistry(c) PROVE ScoringInv'
    <2>1. BeginRegister(c, Seed)
      BY <1>3 DEF SeedRegistry
    <2> QED BY <2>1, RegisterSteps, CallKeeps
  <1>4. ASSUME NEW c \in Callers, InsertPolicyVersion(c) \/ ReplaceShortlist(c) \/ Respond(c)
        PROVE  ScoringInv'
    BY <1>4, DoneCallSteps, CallKeeps
  <1>5. ASSUME NEW c \in Callers, NEW n \in 0..MaxListings, NEW ids \in [1..n -> Ids],
               BeginShortlist(c, ids)
        PROVE  ScoringInv'
    BY <1>5, BeginShortlistSteps, CallKeeps
  <1>6. ASSUME NEW c \in Callers, NEW ids \in SUBSET Ids, BuildComparison(c, ids) PROVE ScoringInv'
    BY <1>6, CompareSteps, CallKeeps
  <1>7. ASSUME NEW narrowed \in ListingSets, PublishPolicyRun(narrowed) PROVE ScoringInv'
    BY <1>7, PublishPolicyRunSteps, PublicationKeeps
  <1>8. ASSUME NEW narrowed \in ListingSets, PublishBaselineRun(narrowed) PROVE ScoringInv'
    BY <1>8, PublishBaselineRunSteps, PublicationKeeps
  <1>9. ASSUME NEW p \in Searches, EditProfile(p) PROVE ScoringInv'
    BY <1>9, EditProfileKeeps
  <1> QED BY <1>1, <1>2, <1>3, <1>4, <1>5, <1>6, <1>7, <1>8, <1>9 DEF ScoringNext

LEMMA ScoringInvInvariant ==
    ScoringSpec => []ScoringInv
  BY ScoringInitInv, ScoringInvStep, PTL DEF ScoringSpec

(* No run publishes a listing above the budget of the profile it was made  *)
(* for, whatever the profile's unknown_strategy is: the SQL narrowing of   *)
(* list_candidates decides on the price before the hard filters.           *)
THEOREM BudgetIsRespectedInvariant ==
    ScoringSpec => []BudgetIsRespected
  <1>1. ScoringInv => BudgetIsRespected
    BY DEF ScoringInv, PublishedRunOK, WithinBudget, BudgetIsRespected
  <1> QED BY <1>1, ScoringInvInvariant, PTL

(* No explanation gives a reason without evidence, and none passes over a  *)
(* criterion of the policy that scored the run, for any policy document,   *)
(* any observations and any number of later policies and edits.            *)
THEOREM ReasonsHaveEvidenceInvariant ==
    ScoringSpec => []ReasonsHaveEvidence
  <1>1. ASSUME NEW doc, NEW p, NEW evals
        PROVE  /\ Explanation(doc, p, evals).reasons = Reasons(evals)
               /\ Explanation(doc, p, evals).missing_data = Missing(evals)
    BY DEF Explanation
  <1>2. ASSUME NEW evals, \A i \in DOMAIN evals : Evidenced(evals[i]), NEW reason \in Reasons(evals)
        PROVE  reason.evidence_refs # {}
    BY <1>2 DEF Reasons, Evidenced
  <1>3. ASSUME NEW doc, NEW evals, Covers(doc, evals)
        PROVE  {doc.criteria[i].key : i \in DOMAIN doc.criteria}
                 = {reason.criterion : reason \in Reasons(evals)} \cup Missing(evals)
    <2> DEFINE known == {k \in DOMAIN evals : evals[k].state # "unknown"}
               unknown == {k \in DOMAIN evals : evals[k].state = "unknown"}
    <2>1. {reason.criterion : reason \in Reasons(evals)} = {evals[i].criterion_key : i \in known}
      <3> DEFINE reasonFor(i) ==
                   [criterion |-> evals[i].criterion_key, state |-> evals[i].state,
                    level |-> EvidenceLevel(evals[i].confidence),
                    contribution |-> evals[i].contribution,
                    evidence_refs |-> evals[i].evidence_refs]
      <3>1. \A i : reasonFor(i).criterion = evals[i].criterion_key
        OBVIOUS
      <3>2. Reasons(evals) = {reasonFor(i) : i \in known}
        BY DEF Reasons
      <3> HIDE DEF reasonFor, known
      <3> QED BY <3>1, <3>2
    <2>2. Missing(evals) = {evals[i].criterion_key : i \in unknown}
      BY DEF Missing
    <2>3. {doc.criteria[i].key : i \in DOMAIN doc.criteria}
            = {evals[i].criterion_key : i \in DOMAIN evals}
      BY <1>3 DEF Covers
    <2>4. DOMAIN evals = known \cup unknown
      OBVIOUS
    <2> HIDE DEF known, unknown
    <2> QED BY <2>1, <2>2, <2>3, <2>4
  <1>4. ASSUME NEW run, NEW id, Justified(run, id)
        PROVE  /\ \A reason \in GetExplanation(run, id).reasons : reason.evidence_refs # {}
               /\ run.policy # None =>
                     {run.policy.criteria[i].key : i \in DOMAIN run.policy.criteria}
                       = {reason.criterion : reason \in GetExplanation(run, id).reasons}
                         \cup GetExplanation(run, id).missing_data
    <2> DEFINE evals == EvaluationsFor(run, id)
    <2>1. /\ GetExplanation(run, id).reasons = Reasons(evals)
          /\ GetExplanation(run, id).missing_data = Missing(evals)
      BY <1>1 DEF GetExplanation
    <2>2. /\ \A i \in DOMAIN evals : Evidenced(evals[i])
          /\ run.policy # None => Covers(run.policy, evals)
      BY <1>4 DEF Justified
    <2> HIDE DEF evals
    <2>3. \A reason \in Reasons(evals) : reason.evidence_refs # {}
      BY <1>2, <2>2
    <2>4. run.policy # None =>
             {run.policy.criteria[i].key : i \in DOMAIN run.policy.criteria}
               = {reason.criterion : reason \in Reasons(evals)} \cup Missing(evals)
      BY <1>3, <2>2
    <2> QED BY <2>1, <2>3, <2>4
  <1>5. ScoringInv => ReasonsHaveEvidence
    <2> SUFFICES ASSUME ScoringInv, NEW r \in DOMAIN published,
                        NEW id \in ListingIds(published[r])
                 PROVE  Justified(published[r], id)
      BY <1>4 DEF ReasonsHaveEvidence
    <2> QED BY DEF ScoringInv, PublishedRunOK
  <1> QED BY <1>5, ScoringInvInvariant, PTL

(* Every listing on the shortlist was in a published run, though set_-     *)
(* shortlist checks the latest run and replaces the rows in two            *)
(* transactions, between which other runs may be published.                *)
THEOREM ShortlistWasOfferedInvariant ==
    ScoringSpec => []ShortlistWasOffered
  <1>1. ScoringInv => ShortlistWasOffered
    BY DEF ScoringInv, OfferedBy, ShortlistWasOffered
  <1> QED BY <1>1, ScoringInvInvariant, PTL

-----------------------------------------------------------------------------
(***************************************************************************)
(* Sums and rounding.  What a sum over a function's values is follows from *)
(* a minimal counterexample: the natural numbers are well-founded.         *)
(***************************************************************************)

(* The element that the sum takes next.                                    *)
Pick(s) == CHOOSE x \in s : TRUE

Iterates(h, f, S) ==
    h = [s \in SUBSET S |-> IF s = {} THEN 0 ELSE f[Pick(s)] + h[s \ {Pick(s)}]]

LEMMA SumIsIteration ==
    ASSUME NEW f, NEW h, Iterates(h, f, DOMAIN f)
    PROVE  \E g : Iterates(g, f, DOMAIN f) /\ SumFunction(f) = g[DOMAIN f]
  <1> DEFINE S == DOMAIN f
             g == CHOOSE k : k = [s \in SUBSET S |-> IF s = {} THEN 0 ELSE f[CHOOSE x \in s : TRUE] + k[s \ {CHOOSE x \in s : TRUE}]]
  <1>1. SumFunction(f) = g[S]
    BY Zenon DEF SumFunction, SumFunctionOnSet, FoldFunctionOnSet, MapThenFoldSet
  <1>2. g = CHOOSE k : Iterates(k, f, S)
    BY Zenon DEF Iterates, Pick
  <1>3. Iterates(CHOOSE k : Iterates(k, f, S), f, S)
    <2> HIDE DEF S
    <2> QED BY Zenon DEF S
  <1> QED BY <1>1, <1>2, <1>3

LEMMA Induction ==
    ASSUME NEW T, T \subseteq Nat, 0 \in T, \A n \in T : n + 1 \in T
    PROVE  T = Nat
  <1> SUFFICES ASSUME Nat \ T # {} PROVE FALSE
    OBVIOUS
  <1> DEFINE R == {ss \in Nat \X Nat : ss[1] < ss[2]}
             U == Nat \ T
  <1>1. IsWellFoundedOn(R, Nat)
    BY NatLessThanWellFounded, Zenon DEF OpToRel
  <1>2. PICK x \in U : \A y \in U : ~(<<y, x>> \in R)
    <2>1. U \subseteq Nat /\ U # {}
      OBVIOUS
    <2> HIDE DEF R, U
    <2> QED BY <1>1, <2>1, WFMin
  <1>3. x \in Nat /\ x # 0
    BY <1>2
  <1>4. x - 1 \in Nat /\ <<x - 1, x>> \in R
    BY <1>3
  <1>5. x - 1 \in T
    BY <1>2, <1>4
  <1>6. (x - 1) + 1 = x
    BY <1>3
  <1> QED BY <1>2, <1>5, <1>6

LEMMA PickRemoves ==
    ASSUME NEW S, IsFiniteSet(S), NEW s \in SUBSET S, s # {}
    PROVE  /\ Pick(s) \in s /\ s \ {Pick(s)} \in SUBSET S
           /\ Cardinality(s) \in Nat /\ Cardinality(s \ {Pick(s)}) = Cardinality(s) - 1
  <1>1. Pick(s) \in s
    BY DEF Pick
  <1>2. IsFiniteSet(s)
    BY FS_Subset
  <1> HIDE DEF Pick
  <1> QED BY <1>1, <1>2, FS_RemoveElement, FS_CardinalityType

LEMMA IterationExists ==
    ASSUME NEW f, NEW S, IsFiniteSet(S)
    PROVE  \E h : Iterates(h, f, S)
  <1> DEFINE Below(n) == {s \in SUBSET S : Cardinality(s) <= n}
             Value(h, s) == IF s = {} THEN 0 ELSE f[Pick(s)] + h[s \ {Pick(s)}]
             T == {n \in Nat : \E h : \A s \in Below(n) : h[s] = Value(h, s)}
  <1>1. ASSUME NEW s \in SUBSET S PROVE Cardinality(s) \in Nat
    BY FS_Subset, FS_CardinalityType
  <1>2. 0 \in T
    <2>1. ASSUME NEW s \in Below(0) PROVE s = {}
      BY <1>1, FS_EmptySet, FS_Subset
    <2> DEFINE h == [s \in Below(0) |-> 0]
    <2>2. \A s \in Below(0) : h[s] = Value(h, s)
      BY <2>1
    <2> QED BY <2>2
  <1>3. ASSUME NEW n \in T PROVE n + 1 \in T
    <2>1. n \in Nat
      OBVIOUS
    <2>2. PICK h : \A s \in Below(n) : h[s] = Value(h, s)
      OBVIOUS
    <2> DEFINE g == [s \in Below(n + 1) |-> IF Cardinality(s) <= n THEN h[s] ELSE Value(h, s)]
    <2>3. ASSUME NEW s \in Below(n + 1) PROVE g[s] = Value(h, s)
      BY <2>1, <2>2
    <2>4. ASSUME NEW s \in Below(n) PROVE g[s] = h[s]
      <3>1. s \in Below(n + 1)
        BY <1>1, <2>1
      <3> QED BY <3>1
    <2> HIDE DEF g
    <2>5. ASSUME NEW s \in Below(n + 1) PROVE Value(h, s) = Value(g, s)
      <3>1. CASE s = {}
        BY <3>1
      <3>2. CASE s # {}
        <4>1. s \ {Pick(s)} \in Below(n)
          BY <2>1, <3>2, PickRemoves
        <4>2. g[s \ {Pick(s)}] = h[s \ {Pick(s)}]
          BY <2>4, <4>1
        <4> QED BY <3>2, <4>2
      <3> QED BY <3>1, <3>2
    <2> HIDE DEF Value, Below
    <2>6. \A s \in Below(n + 1) : g[s] = Value(g, s)
      BY <2>3, <2>5
    <2> QED BY <2>1, <2>6
  <1>4. T = Nat
    <2>1. T \subseteq Nat
      OBVIOUS
    <2> HIDE DEF T
    <2> QED BY <1>2, <1>3, <2>1, Induction
  <1>5. Cardinality(S) \in Nat /\ \A s \in SUBSET S : s \in Below(Cardinality(S))
    BY FS_CardinalityType, FS_Subset
  <1>6. PICK h : \A s \in SUBSET S : h[s] = Value(h, s)
    BY <1>4, <1>5
  <1> DEFINE g == [s \in SUBSET S |-> h[s]]
  <1>7. ASSUME NEW s \in SUBSET S PROVE h[s] = Value(g, s)
    <2>1. s \ {Pick(s)} \in SUBSET S
      OBVIOUS
    <2>2. g[s \ {Pick(s)}] = h[s \ {Pick(s)}]
      BY <2>1
    <2> HIDE DEF g
    <2> QED BY <1>6, <2>2
  <1>8. g = [s \in SUBSET S |-> Value(g, s)]
    <2> HIDE DEF Value
    <2> QED BY <1>7
  <1> QED BY <1>8, Zenon DEF Iterates

(* Sums of integers over a finite set are integers, and monotone.          *)
LEMMA SumsCompare ==
    ASSUME NEW f, NEW g, DOMAIN f = DOMAIN g, IsFiniteSet(DOMAIN f),
           \A x \in DOMAIN f : f[x] \in Int /\ g[x] \in Int /\ f[x] <= g[x]
    PROVE  SumFunction(f) \in Int /\ SumFunction(g) \in Int /\ SumFunction(f) <= SumFunction(g)
  <1> DEFINE S == DOMAIN f
  <1>1. PICK a : Iterates(a, f, S) /\ SumFunction(f) = a[S]
    <2>1. PICK h : Iterates(h, f, S)
      BY IterationExists
    <2> QED BY <2>1, SumIsIteration
  <1>2. PICK b : Iterates(b, g, S) /\ SumFunction(g) = b[S]
    <2>1. PICK h : Iterates(h, g, DOMAIN g)
      BY IterationExists
    <2> QED BY <2>1, SumIsIteration
  <1> HIDE DEF S
  <1>3. IsFiniteSet(S) /\ \A x \in S : f[x] \in Int /\ g[x] \in Int /\ f[x] <= g[x]
    BY DEF S
  <1> DEFINE OK(s) == a[s] \in Int /\ b[s] \in Int /\ a[s] <= b[s]
             T == {n \in Nat : \A s \in SUBSET S : Cardinality(s) = n => OK(s)}
  <1>4. ASSUME NEW s \in SUBSET S, s # {}
        PROVE  /\ a[s] = f[Pick(s)] + a[s \ {Pick(s)}]
               /\ b[s] = g[Pick(s)] + b[s \ {Pick(s)}]
    BY <1>1, <1>2, <1>4 DEF Iterates
  <1>5. a[{}] = 0 /\ b[{}] = 0
    BY <1>1, <1>2 DEF Iterates
  <1>6. 0 \in T
    <2>1. ASSUME NEW s \in SUBSET S, Cardinality(s) = 0 PROVE s = {}
      BY <1>3, <2>1, FS_Subset, FS_EmptySet
    <2> QED BY <1>5, <2>1
  <1>7. ASSUME NEW n \in T PROVE n + 1 \in T
    <2> SUFFICES ASSUME NEW s \in SUBSET S, Cardinality(s) = n + 1 PROVE OK(s)
      OBVIOUS
    <2>0. n \in Nat /\ Cardinality({}) = 0
      BY FS_EmptySet
    <2>1. s # {}
      <3> HIDE DEF T
      <3> QED BY <2>0
    <2>2. /\ Pick(s) \in S /\ s \ {Pick(s)} \in SUBSET S
          /\ Cardinality(s \ {Pick(s)}) = n
      BY <1>3, <2>1, PickRemoves
    <2>3. OK(s \ {Pick(s)})
      BY <2>2
    <2> DEFINE x == Pick(s)
               t == s \ {Pick(s)}
    <2>4. a[s] = f[x] + a[t] /\ b[s] = g[x] + b[t]
      BY <1>4, <2>1
    <2>5. f[x] \in Int /\ g[x] \in Int /\ f[x] <= g[x]
      BY <1>3, <2>2
    <2>6. a[t] \in Int /\ b[t] \in Int /\ a[t] <= b[t]
      BY <2>3
    <2> HIDE DEF x, t, T
    <2> QED BY <2>4, <2>5, <2>6
  <1>8. T = Nat
    <2>1. T \subseteq Nat
      OBVIOUS
    <2> HIDE DEF T
    <2> QED BY <1>6, <1>7, <2>1, Induction
  <1>9. Cardinality(S) \in T
    BY <1>3, <1>8, FS_CardinalityType
  <1>10. OK(S)
    BY <1>9
  <1> QED BY <1>1, <1>2, <1>10

LEMMA RoundedCompare ==
    ASSUME NEW m \in Int, NEW n \in Int, m <= n, NEW d \in Int, d > 0
    PROVE  Rounded(m, d) \in Int /\ Rounded(n, d) \in Int /\ Rounded(m, d) <= Rounded(n, d)
  <1>1. ASSUME NEW a \in Int, NEW b \in Int, a <= b, NEW k \in Int, k > 0
        PROVE  a \div k \in Int /\ b \div k \in Int /\ a \div k <= b \div k
    <2> DEFINE q == a \div k
               r == b \div k
    <2>1. q \in Int /\ r \in Int /\ k * q <= a /\ b < k * r + k
      BY <1>1
    <2> HIDE DEF q, r
    <2>2. ASSUME q > r PROVE FALSE
      <3>1. q - (r + 1) \in Nat
        BY <2>1, <2>2
      <3>2. k * (q - (r + 1)) >= 0
        BY <1>1, <3>1
      <3>3. k * (q - (r + 1)) = k * q - k * r - k
        BY <1>1, <2>1
      <3>4. k * q \in Int /\ k * r \in Int
        BY <1>1, <2>1
      <3> QED BY <1>1, <2>1, <3>2, <3>3, <3>4
    <2>3. q <= r
      BY <2>1, <2>2
    <2> QED BY <2>1, <2>3 DEF q, r
  <1>2. 2 * m + d \in Int /\ 2 * n + d \in Int /\ 2 * m + d <= 2 * n + d /\ 2 * d \in Int /\ 2 * d > 0
    OBVIOUS
  <1> QED BY <1>1, <1>2 DEF Rounded

LEMMA ClampCompare ==
    ASSUME NEW x \in Int, NEW y \in Int, x <= y, NEW low \in Int, NEW high \in Int, low <= high
    PROVE  Clamp(x, low, high) \in Int /\ Clamp(y, low, high) \in Int
           /\ Clamp(x, low, high) <= Clamp(y, low, high)
  BY DEF Clamp

LEMMA MinOfTwo ==
    ASSUME NEW a \in Int, NEW b \in Int
    PROVE  Min({a, b}) = IF a <= b THEN a ELSE b
  BY DEF Min

LEMMA TimesCompare ==
    ASSUME NEW w \in Nat, NEW x \in Int, NEW y \in Int, x <= y
    PROVE  w * x \in Int /\ w * y \in Int /\ w * x <= w * y
  <1>1. w * (y - x) >= 0
    OBVIOUS
  <1>2. w * (y - x) = w * y - w * x
    OBVIOUS
  <1>3. w * x \in Int /\ w * y \in Int
    OBVIOUS
  <1> QED BY <1>1, <1>2, <1>3

-----------------------------------------------------------------------------
(* The same flat for less is scored at least as high.                      *)

AlikeFor(p, l, m) ==
    /\ l.rooms = m.rooms /\ l.surface_m2 = m.surface_m2
    /\ l.neighborhood = m.neighborhood /\ l.geo_precision = m.geo_precision
    /\ l.geo_precision \in DOMAIN PrecisionFit
    /\ p.budget_max \in Int
    /\ l.total_cost \in 1..p.budget_max /\ m.total_cost \in 1..p.budget_max
    /\ l.total_cost < m.total_cost /\ l.total_cost # None /\ m.total_cost # None

LEMMA HeadroomCompare ==
    ASSUME NEW p, NEW l, NEW m, AlikeFor(p, l, m)
    PROVE  /\ p.budget_max > 0
           /\ Headroom(p, l) \in Int /\ Headroom(p, m) \in Int
           /\ Headroom(p, m) <= Headroom(p, l)
  <1> DEFINE b == p.budget_max
             x == l.total_cost
             y == m.total_cost
  <1>1. b \in Int /\ x \in 1..b /\ y \in 1..b /\ x < y
    BY DEF AlikeFor
  <1> HIDE DEF b, x, y
  <1>2. b > 0 /\ b - y \in Int /\ b - x \in Int /\ b - y <= b - x
    BY <1>1
  <1>3. /\ Clamp(b - x, 0, b) \in Int /\ Clamp(b - y, 0, b) \in Int
        /\ Clamp(b - y, 0, b) <= Clamp(b - x, 0, b)
    <2> DEFINE u == b - y
               v == b - x
    <2>1. u \in Int /\ v \in Int /\ u <= v /\ 0 <= b /\ 0 \in Int
      BY <1>1, <1>2
    <2> HIDE DEF u, v
    <2>2. /\ Clamp(u, 0, b) \in Int /\ Clamp(v, 0, b) \in Int
          /\ Clamp(u, 0, b) <= Clamp(v, 0, b)
      BY <1>1, <2>1, ClampCompare
    <2> QED BY <2>2 DEF u, v
  <1> QED BY <1>2, <1>3 DEF Headroom, b, x, y

LEMMA FitTypes ==
    ASSUME NEW p, NEW l, l.geo_precision \in DOMAIN PrecisionFit
    PROVE  /\ RoomsFit(p, l) \in Int /\ SurfaceFit(p, l) \in Int
           /\ PrecisionFit[l.geo_precision] \in Int
  <1>1. RoomsFit(p, l) \in Int
    BY DEF RoomsFit
  <1>2. SurfaceFit(p, l) \in Int
    BY DEF SurfaceFit
  <1>3. PrecisionFit[l.geo_precision] \in Int
    BY DEF PrecisionFit
  <1> QED BY <1>1, <1>2, <1>3

LEMMA BaselineScoreCompare ==
    ASSUME NEW p, NEW l, NEW m, AlikeFor(p, l, m)
    PROVE  /\ ComputeScore(p, l) \in Int /\ ComputeScore(p, m) \in Int
           /\ ComputeScore(p, m) <= ComputeScore(p, l)
  <1> DEFINE b == p.budget_max
             x == Headroom(p, l)
             y == Headroom(p, m)
             fit == RoomsFit(p, l) + SurfaceFit(p, l) + PrecisionFit[l.geo_precision]
  <1>1. b \in Int /\ b > 0 /\ x \in Int /\ y \in Int /\ y <= x
    BY HeadroomCompare DEF AlikeFor
  <1>2. fit \in Int
    BY FitTypes DEF AlikeFor
  <1>3. fit = RoomsFit(p, m) + SurfaceFit(p, m) + PrecisionFit[m.geo_precision]
    <2>1. RoomsFit(p, l) = RoomsFit(p, m)
      BY DEF AlikeFor, RoomsFit
    <2>2. SurfaceFit(p, l) = SurfaceFit(p, m)
      BY DEF AlikeFor, SurfaceFit, TooSmall
    <2> QED BY <2>1, <2>2 DEF AlikeFor
  <1>4. /\ ComputeScore(p, l) = Rounded(40 * Unit * x + 20 * b * fit, 100 * b)
        /\ ComputeScore(p, m) = Rounded(40 * Unit * y + 20 * b * fit, 100 * b)
    BY <1>3 DEF ComputeScore
  <1> HIDE DEF b, x, y, fit
  <1>5. 20 * b * fit \in Int /\ 100 * b \in Int /\ 100 * b > 0
    BY <1>1, <1>2
  <1> DEFINE rest == 20 * b * fit
  <1> HIDE DEF rest
  <1>6. rest \in Int
    BY <1>5 DEF rest
  <1>7. /\ 40 * Unit * x + rest \in Int /\ 40 * Unit * y + rest \in Int
        /\ 40 * Unit * y + rest <= 40 * Unit * x + rest
    BY <1>1, <1>6 DEF Unit
  <1> QED BY <1>4, <1>5, <1>7, RoundedCompare DEF rest

(* Two results, the second for the dearer listing.                         *)
NoWorse(r, q) == r.state = q.state /\ r.score \in Int /\ q.score \in Int /\ q.score <= r.score

LEMMA ResultFields ==
    ASSUME NEW score, NEW confidence, NEW state
    PROVE  /\ Result(score, confidence, state).score = score
           /\ Result(score, confidence, state).state = state
  BY DEF Result

LEMMA BudgetCompare ==
    ASSUME NEW p, NEW l, NEW m, AlikeFor(p, l, m)
    PROVE  NoWorse(EvaluateBudget(p, l), EvaluateBudget(p, m))
  <1>1. /\ BudgetFit(p, l) \in Int /\ BudgetFit(p, m) \in Int
        /\ BudgetFit(p, m) <= BudgetFit(p, l)
    <2> DEFINE x == Headroom(p, l)
               y == Headroom(p, m)
    <2>1. p.budget_max \in Int /\ p.budget_max > 0 /\ x \in Int /\ y \in Int /\ y <= x
      BY HeadroomCompare DEF AlikeFor
    <2> HIDE DEF x, y
    <2>2. Unit * x \in Int /\ Unit * y \in Int /\ Unit * y <= Unit * x
      BY <2>1 DEF Unit
    <2> QED BY <2>1, <2>2, RoundedCompare DEF BudgetFit, x, y
  <1>2. /\ Given(l.total_cost) /\ ~(l.total_cost > p.budget_max)
        /\ Given(m.total_cost) /\ ~(m.total_cost > p.budget_max)
    BY DEF AlikeFor, Given
  <1>3. /\ EvaluateBudget(p, l) = Result(BudgetFit(p, l), 1000, "match")
        /\ EvaluateBudget(p, m) = Result(BudgetFit(p, m), 1000, "match")
    BY <1>2 DEF EvaluateBudget
  <1> QED BY <1>1, <1>3, ResultFields DEF NoWorse

LEMMA FixedCompare ==
    ASSUME NEW p, NEW l, NEW m, AlikeFor(p, l, m), NEW key \in FixedCriteria
    PROVE  NoWorse(EvaluateFixedCriterion(key, p, l), EvaluateFixedCriterion(key, p, m))
  <1>1. CASE key = "presupuesto"
    <2>1. /\ EvaluateFixedCriterion(key, p, l) = EvaluateBudget(p, l)
          /\ EvaluateFixedCriterion(key, p, m) = EvaluateBudget(p, m)
      BY <1>1, Zenon DEF EvaluateFixedCriterion
    <2> QED BY <2>1, BudgetCompare
  <1>2. CASE key # "presupuesto"
    <2>1. EvaluateFixedCriterion(key, p, l) = EvaluateFixedCriterion(key, p, m)
      BY <1>2 DEF FixedCriteria, EvaluateFixedCriterion, AlikeFor, RoomsFit, SurfaceFit, TooSmall
    <2>2. EvaluateFixedCriterion(key, p, l).score \in Int
      <3>1. CASE key = "ambientes"
        <4>1. \/ EvaluateFixedCriterion(key, p, l) = Result(5000, 0, "unknown")
              \/ EvaluateFixedCriterion(key, p, l) = Result(RoomsFit(p, l), 1000, "match")
          BY <3>1 DEF EvaluateFixedCriterion
        <4> QED BY <4>1, ResultFields, FitTypes DEF AlikeFor
      <3>2. CASE key = "superficie"
        <4>1. \/ EvaluateFixedCriterion(key, p, l) = Result(5000, 0, "unknown")
              \/ EvaluateFixedCriterion(key, p, l) = Result(5000, 1000, "mismatch")
              \/ EvaluateFixedCriterion(key, p, l) = Result(SurfaceFit(p, l), 1000, "match")
          BY <3>2 DEF EvaluateFixedCriterion
        <4> QED BY <4>1, ResultFields, FitTypes DEF AlikeFor
      <3>3. CASE key = "ubicacion"
        <4>1. EvaluateFixedCriterion(key, p, l)
                = EvaluateGeoProximity(l.neighborhood \in p.zones, l.geo_precision)
          BY <3>3 DEF EvaluateFixedCriterion
        <4> QED BY <4>1, ResultFields DEF EvaluateGeoProximity
      <3> QED BY <1>2, <3>1, <3>2, <3>3 DEF FixedCriteria
    <2> QED BY <2>1, <2>2 DEF NoWorse
  <1> QED BY <1>1, <1>2

LEMMA ObservationScore ==
    ASSUME NEW criterion, NEW observation, observation.score \in Int
    PROVE  EvaluateObservation(criterion, observation).score \in Int
  <1>1. EvaluateNumericRange(observation.value, criterion.params).score \in Int
    BY ResultFields DEF EvaluateNumericRange, NoData
  <1>2. EvaluateCategorical(observation.value, criterion.params).score \in Int
    BY ResultFields DEF EvaluateCategorical, NoData
  <1>3. EvaluateSemanticFeature(observation, criterion.params).score \in Int
    BY ResultFields DEF EvaluateSemanticFeature
  <1>4. EvaluateGeoProximity(FALSE, "unknown").score \in Int
    BY ResultFields DEF EvaluateGeoProximity
  <1> QED BY <1>1, <1>2, <1>3, <1>4 DEF EvaluateObservation

(* The same for a row of criterion_evaluations.                            *)
RowNoWorse(e, f) ==
    /\ e.criterion_key = f.criterion_key /\ e.gate = f.gate /\ e.state = f.state
    /\ e.contribution \in Int /\ f.contribution \in Int /\ f.contribution <= e.contribution

ScoredConcept(criterion, observed) ==
    \/ criterion.key \in FixedCriteria
    \/ observed[criterion.concept] = None
    \/ observed[criterion.concept].score \in Int

LEMMA RowCompare ==
    ASSUME NEW criterion, criterion.weight \in Nat, NEW r, NEW q, NoWorse(r, q), NEW refs
    PROVE  RowNoWorse(Evaluation(criterion, r, refs), Evaluation(criterion, q, refs))
  <1> DEFINE e == Evaluation(criterion, r, refs)
             f == Evaluation(criterion, q, refs)
             w == criterion.weight
             x == q.score
             y == r.score
  <1>1. /\ e.criterion_key = f.criterion_key /\ e.gate = f.gate
        /\ e.state = r.state /\ f.state = q.state
        /\ e.contribution = w * y /\ f.contribution = w * x
    BY DEF Evaluation
  <1>2. w \in Nat /\ x \in Int /\ y \in Int /\ x <= y /\ r.state = q.state
    BY DEF NoWorse
  <1> HIDE DEF e, f, w, x, y
  <1>3. w * x \in Int /\ w * y \in Int /\ w * x <= w * y
    BY <1>2, TimesCompare
  <1> QED BY <1>1, <1>2, <1>3 DEF RowNoWorse, e, f

LEMMA CriterionCompare ==
    ASSUME NEW criterion, criterion.weight \in Nat, NEW observed, ScoredConcept(criterion, observed),
           NEW p, NEW l, NEW m, AlikeFor(p, l, m)
    PROVE  RowNoWorse(EvaluateCriterion(criterion, p, l, observed),
                      EvaluateCriterion(criterion, p, m, observed))
  <1> DEFINE observation == observed[criterion.concept]
  <1>1. CASE criterion.key \in FixedCriteria
    <2>1. ASSUME NEW x
          PROVE  EvaluateCriterion(criterion, p, x, observed)
            = Evaluation(criterion, EvaluateFixedCriterion(criterion.key, p, x), {criterion.key})
      BY <1>1 DEF EvaluateCriterion
    <2>2. NoWorse(EvaluateFixedCriterion(criterion.key, p, l), EvaluateFixedCriterion(criterion.key, p, m))
      BY <1>1, FixedCompare
    <2> QED BY <2>1, <2>2, RowCompare
  <1>2. CASE criterion.key \notin FixedCriteria /\ ~Given(observation)
    <2>1. ASSUME NEW x
          PROVE  EvaluateCriterion(criterion, p, x, observed)
                   = Evaluation(criterion, MissingObservation, {})
      BY <1>2 DEF EvaluateCriterion
    <2>2. NoWorse(MissingObservation, MissingObservation)
      BY ResultFields DEF MissingObservation, NoData, NoWorse
    <2> QED BY <2>1, <2>2, RowCompare
  <1>3. CASE criterion.key \notin FixedCriteria /\ Given(observation)
    <2> DEFINE r == EvaluateObservation(criterion, observation)
    <2>1. ASSUME NEW x
          PROVE  EvaluateCriterion(criterion, p, x, observed)
                   = Evaluation(criterion, r, {observation})
      BY <1>3 DEF EvaluateCriterion
    <2>2. observation.score \in Int
      BY <1>3 DEF ScoredConcept, Given
    <2>3. r.score \in Int
      BY <2>2, ObservationScore
    <2>4. NoWorse(r, r)
      BY <2>3 DEF NoWorse
    <2> HIDE DEF r
    <2> QED BY <2>1, <2>4, RowCompare
  <1> QED BY <1>1, <1>2, <1>3

(* The policy that scores a run was validated when it was registered.      *)
DocumentOK(doc) == doc \in Documents \cup {Seed} /\ ValidPolicy(doc)

LEMMA DocumentFacts ==
    ASSUME NEW doc, DocumentOK(doc)
    PROVE  /\ IsFiniteSet(DOMAIN doc.criteria) /\ IsFiniteSet(doc.deltas)
           /\ \A i \in DOMAIN doc.criteria : doc.criteria[i].weight \in Nat
           /\ \A d \in doc.deltas : d.delta \in Int
           /\ \A i \in DOMAIN doc.criteria : \A l \in Listings :
                 ScoredConcept(doc.criteria[i], Observed[l.id])
  <1>1. IsFiniteSet(DOMAIN doc.criteria) /\ IsFiniteSet(doc.deltas)
    BY ScoringAssumption DEF DocumentOK
  <1>2. \A i \in DOMAIN doc.criteria : doc.criteria[i].weight \in 0..100
    BY DEF DocumentOK, ValidPolicy
  <1>3. \A d \in doc.deltas : d.delta \in -20..20
    BY DEF DocumentOK, ValidPolicy
  <1>4. \A i \in DOMAIN doc.criteria : \A l \in Listings :
                 ScoredConcept(doc.criteria[i], Observed[l.id])
    BY ScoringAssumption DEF DocumentOK, ScoredConcept
  <1>5. 0..100 \subseteq Nat /\ -20..20 \subseteq Int
    OBVIOUS
  <1> QED BY <1>1, <1>2, <1>3, <1>4, <1>5

(* All rows of two listings, the second the dearer one.                    *)
RowsNoWorse(es, fs) ==
    /\ DOMAIN es = DOMAIN fs /\ IsFiniteSet(DOMAIN es)
    /\ \A i \in DOMAIN es : RowNoWorse(es[i], fs[i])

LEMMA EvaluationsCompare ==
    ASSUME NEW doc, DocumentOK(doc), NEW p, NEW l \in Listings, NEW m \in Listings,
           AlikeFor(p, l, m), Observed[l.id] = Observed[m.id]
    PROVE  RowsNoWorse(Evaluations(doc, p, l, Observed[l.id]), Evaluations(doc, p, m, Observed[m.id]))
  <1> DEFINE facts == Observed[l.id]
  <1>1. \A i \in DOMAIN doc.criteria :
           RowNoWorse(EvaluateCriterion(doc.criteria[i], p, l, facts),
                      EvaluateCriterion(doc.criteria[i], p, m, facts))
    <2>1. ASSUME NEW i \in DOMAIN doc.criteria
          PROVE  doc.criteria[i].weight \in Nat /\ ScoredConcept(doc.criteria[i], facts)
      BY DocumentFacts
    <2> HIDE DEF facts
    <2> QED BY <2>1, CriterionCompare
  <1>2. IsFiniteSet(DOMAIN doc.criteria)
    BY DocumentFacts
  <1>3. Observed[m.id] = facts /\ Observed[l.id] = facts
    OBVIOUS
  <1> HIDE DEF facts
  <1> QED BY <1>1, <1>2, <1>3 DEF RowsNoWorse, Evaluations

(* Gates and deltas look at the states alone, so they fire for both.       *)
LEMMA FiresForBoth ==
    ASSUME NEW es, NEW fs, RowsNoWorse(es, fs)
    PROVE  /\ \A key, state : InState(es, key, state) <=> InState(fs, key, state)
           /\ \A gate, state : GateFires(es, gate, state) <=> GateFires(fs, gate, state)
  <1>1. /\ DOMAIN es = DOMAIN fs
        /\ \A i \in DOMAIN es : /\ es[i].criterion_key = fs[i].criterion_key
                                /\ es[i].gate = fs[i].gate /\ es[i].state = fs[i].state
    BY DEF RowsNoWorse, RowNoWorse
  <1> QED BY <1>1 DEF InState, GateFires

LEMMA TotalCompare ==
    ASSUME NEW doc, DocumentOK(doc), NEW es, NEW fs, RowsNoWorse(es, fs)
    PROVE  /\ WithDeltas(doc, es) \in Int /\ WithDeltas(doc, fs) \in Int
           /\ WithDeltas(doc, fs) <= WithDeltas(doc, es)
  <1> DEFINE S == {d \in doc.deltas : InState(es, d.criterion, d.state)}
             delta == [d \in S |-> d.delta]
             x == [i \in DOMAIN fs |-> fs[i].contribution]
             y == [i \in DOMAIN es |-> es[i].contribution]
  <1>1. S = {d \in doc.deltas : InState(fs, d.criterion, d.state)}
    BY FiresForBoth
  <1>2. /\ WithDeltas(doc, es) = SumFunction(y) + Unit * SumFunction(delta)
        /\ WithDeltas(doc, fs) = SumFunction(x) + Unit * SumFunction(delta)
    BY <1>1, Zenon DEF WithDeltas
  <1>3. SumFunction(delta) \in Int
    <2>1. S \in SUBSET doc.deltas /\ IsFiniteSet(doc.deltas)
      BY DocumentFacts
    <2>2. IsFiniteSet(S)
      BY <2>1, FS_Subset
    <2>3. DOMAIN delta = S /\ \A d \in S : delta[d] \in Int /\ delta[d] <= delta[d]
      BY DocumentFacts
    <2> HIDE DEF S, delta
    <2> QED BY <2>2, <2>3, SumsCompare
  <1>4. SumFunction(x) \in Int /\ SumFunction(y) \in Int /\ SumFunction(x) <= SumFunction(y)
    <2>1. DOMAIN x = DOMAIN y /\ IsFiniteSet(DOMAIN x)
      BY DEF RowsNoWorse
    <2>2. \A i \in DOMAIN x : x[i] \in Int /\ y[i] \in Int /\ x[i] <= y[i]
      BY DEF RowsNoWorse, RowNoWorse
    <2> HIDE DEF x, y
    <2> QED BY <2>1, <2>2, SumsCompare
  <1> HIDE DEF S, delta, x, y
  <1> QED BY <1>2, <1>3, <1>4 DEF Unit

LEMMA PolicyScoreCompare ==
    ASSUME NEW doc, DocumentOK(doc), NEW es, NEW fs, RowsNoWorse(es, fs)
    PROVE  /\ PolicyScore(doc, es) \in Int /\ PolicyScore(doc, fs) \in Int
           /\ PolicyScore(doc, fs) <= PolicyScore(doc, es)
  <1> DEFINE x == WithDeltas(doc, fs)
             y == WithDeltas(doc, es)
             u == Capped(fs, x)
             v == Capped(es, y)
  <1>1. x \in Int /\ y \in Int /\ x <= y
    BY TotalCompare
  <1>2. u \in Int /\ v \in Int /\ u <= v
    <2> HIDE DEF x, y
    <2> DEFINE caps(evals) == \/ GateFires(evals, "cap_0.6_on_mismatch", "mismatch")
                              \/ GateFires(evals, "cap_0.6_on_unknown", "unknown")
    <2>1. caps(es) <=> caps(fs)
      BY FiresForBoth
    <2>2. 60 * Unit \in Int
      BY DEF Unit
    <2>3. /\ u = IF caps(fs) THEN Min({x, 60 * Unit}) ELSE x
          /\ v = IF caps(es) THEN Min({y, 60 * Unit}) ELSE y
      BY DEF Capped
    <2> HIDE DEF caps, u, v
    <2>4. /\ Min({x, 60 * Unit}) = IF x <= 60 * Unit THEN x ELSE 60 * Unit
          /\ Min({y, 60 * Unit}) = IF y <= 60 * Unit THEN y ELSE 60 * Unit
      BY <1>1, <2>2, MinOfTwo
    <2> DEFINE top == 60 * Unit
    <2> HIDE DEF top
    <2>5. /\ top \in Int
          /\ u = IF caps(fs) THEN (IF x <= top THEN x ELSE top) ELSE x
          /\ v = IF caps(es) THEN (IF y <= top THEN y ELSE top) ELSE y
      BY <2>2, <2>3, <2>4 DEF top
    <2> QED BY <1>1, <2>1, <2>5
  <1>3. /\ PolicyScore(doc, es) = Rounded(Clamp(v, 0, 100 * Unit), 100)
        /\ PolicyScore(doc, fs) = Rounded(Clamp(u, 0, 100 * Unit), 100)
    BY DEF PolicyScore
  <1> HIDE DEF x, y, u, v
  <1> DEFINE high == 100 * Unit
  <1>4. high \in Int /\ 0 <= high
    BY DEF Unit
  <1> HIDE DEF high
  <1>5. /\ Clamp(u, 0, high) \in Int /\ Clamp(v, 0, high) \in Int
        /\ Clamp(u, 0, high) <= Clamp(v, 0, high)
    BY <1>2, <1>4, ClampCompare
  <1> DEFINE a == Clamp(u, 0, high)
             b == Clamp(v, 0, high)
  <1>6. a \in Int /\ b \in Int /\ a <= b
    BY <1>5
  <1>7. PolicyScore(doc, es) = Rounded(b, 100) /\ PolicyScore(doc, fs) = Rounded(a, 100)
    BY <1>3 DEF high
  <1> HIDE DEF a, b
  <1> QED BY <1>6, <1>7, RoundedCompare

-----------------------------------------------------------------------------
(* The order of a run                                                      *)

(* The listing of an item.                                                 *)
ListingOf(item) == CHOOSE l \in Listings : l.id = item.id

CheaperFirst(run) ==
    \A i, j \in DOMAIN run.items :
        (/\ OrdersByCost(run)
         /\ Similar(ListingOf(run.items[i]), ListingOf(run.items[j]))
         /\ Observed[ListingOf(run.items[i]).id] = Observed[ListingOf(run.items[j]).id]
         /\ ListingOf(run.items[i]).total_cost < ListingOf(run.items[j]).total_cost) => i < j

LEMMA SimilarIsAlike ==
    ASSUME NEW p \in Searches, NEW narrowed \in ListingSets,
           NEW l \in Candidates(p, narrowed), NEW m \in Candidates(p, narrowed),
           Similar(l, m), l.total_cost < m.total_cost
    PROVE  AlikeFor(p, l, m)
  <1>1. l \in Listings /\ m \in Listings /\ Given(l.total_cost) /\ Given(m.total_cost)
    BY ScoringAssumption DEF Candidates, Narrowed
  <1>2. /\ l.total_cost \in 1..p.budget_max /\ m.total_cost \in 1..p.budget_max
        /\ p.budget_max \in Int
    BY CandidatesWithinBudget, ScoringAssumption
  <1>3. DOMAIN l = ListingFieldNames /\ l.geo_precision \in DOMAIN PrecisionFit
    BY <1>1, ScoringAssumption
  <1>4. m = [l EXCEPT !.id = m.id, !.total_cost = m.total_cost]
    BY DEF Similar
  <1>5. /\ l.rooms = m.rooms /\ l.surface_m2 = m.surface_m2
        /\ l.neighborhood = m.neighborhood /\ l.geo_precision = m.geo_precision
    <2>1. \A field \in DOMAIN l \ {"id", "total_cost"} : l[field] = m[field]
      BY <1>4
    <2> QED BY <1>3, <2>1 DEF ListingFieldNames
  <1> QED BY <1>1, <1>2, <1>3, <1>5 DEF AlikeFor, Given

LEMMA CandidateIsListing ==
    ASSUME NEW p, NEW narrowed \in ListingSets, NEW l \in Candidates(p, narrowed), NEW item,
           item.id = l.id
    PROVE  ListingOf(item) = l /\ l \in Listings
  <1>1. l \in Listings
    BY ScoringAssumption DEF Candidates
  <1>2. \A k \in Listings : k.id = item.id => k = l
    BY <1>1, ScoringAssumption
  <1> QED BY <1>1, <1>2 DEF ListingOf

(* Two items in the order of publication, by score and then by cost.       *)
LEMMA OrderedByScore ==
    ASSUME NEW items, DOMAIN items \subseteq Int, NEW i \in DOMAIN items, NEW j \in DOMAIN items,
           \A a, b \in DOMAIN items : a < b => Before(items[a], items[b]),
           items[i].score \in Int, items[j].score \in Int, items[j].score <= items[i].score,
           items[i].total_cost \in Int, items[j].total_cost \in Int,
           items[i].total_cost < items[j].total_cost
    PROVE  i < j
  <1>1. i # j
    OBVIOUS
  <1>2. ~Before(items[j], items[i])
    BY DEF Before
  <1>3. ~(j < i)
    BY <1>2
  <1>4. i \in Int /\ j \in Int
    OBVIOUS
  <1> QED BY <1>1, <1>3, <1>4

LEMMA CandidateCosts ==
    ASSUME NEW p, NEW l, NEW m, AlikeFor(p, l, m)
    PROVE  l.total_cost \in Int /\ m.total_cost \in Int /\ l.total_cost < m.total_cost
  BY DEF AlikeFor

LEMMA PolicyRunOrdered ==
    ASSUME NEW doc, DocumentOK(doc), doc # None, NEW p \in Searches, NEW narrowed \in ListingSets,
           NEW items \in PolicyItems(doc, p, narrowed, Observed)
    PROVE  CheaperFirst(PolicyRun(doc, p, narrowed, items))
  <1> DEFINE run == PolicyRun(doc, p, narrowed, items)
  <1>1. run.items = items /\ run.policy = doc
    BY DEF PolicyRun
  <1> SUFFICES ASSUME NEW i \in DOMAIN items, NEW j \in DOMAIN items, OrdersByCost(run),
                      Similar(ListingOf(items[i]), ListingOf(items[j])),
                      Observed[ListingOf(items[i]).id] = Observed[ListingOf(items[j]).id],
                      ListingOf(items[i]).total_cost < ListingOf(items[j]).total_cost
               PROVE  i < j
    <2> HIDE DEF run
    <2> QED BY <1>1 DEF CheaperFirst, run
  <1>2. doc.tie_break = TieBreak
    BY <1>1 DEF OrdersByCost
  <1>3. /\ DOMAIN items \subseteq Int
        /\ \A a, b \in DOMAIN items : a < b => Before(items[a], items[b])
    BY <1>2 DEF PolicyItems, Lists, PolicyBefore
  <1>4. PICK l \in Candidates(p, narrowed) :
            /\ items[i].id = l.id /\ items[i].total_cost = l.total_cost
            /\ items[i].score = PolicyScore(doc, Evaluations(doc, p, l, Observed[l.id]))
    BY PolicyItemIsCandidate
  <1>5. PICK m \in Candidates(p, narrowed) :
            /\ items[j].id = m.id /\ items[j].total_cost = m.total_cost
            /\ items[j].score = PolicyScore(doc, Evaluations(doc, p, m, Observed[m.id]))
    BY PolicyItemIsCandidate
  <1>6. /\ ListingOf(items[i]) = l /\ l \in Listings
        /\ ListingOf(items[j]) = m /\ m \in Listings
    BY <1>4, <1>5, CandidateIsListing
  <1>7. AlikeFor(p, l, m) /\ Observed[l.id] = Observed[m.id]
    BY <1>6, SimilarIsAlike
  <1>8. RowsNoWorse(Evaluations(doc, p, l, Observed[l.id]), Evaluations(doc, p, m, Observed[m.id]))
    BY <1>6, <1>7, EvaluationsCompare
  <1>9. items[i].score \in Int /\ items[j].score \in Int /\ items[j].score <= items[i].score
    BY <1>4, <1>5, <1>8, PolicyScoreCompare
  <1>10. /\ items[i].total_cost \in Int /\ items[j].total_cost \in Int
         /\ items[i].total_cost < items[j].total_cost
    BY <1>4, <1>5, <1>7, CandidateCosts
  <1> QED BY <1>3, <1>9, <1>10, OrderedByScore

LEMMA BaselineRunOrdered ==
    ASSUME NEW p \in Searches, NEW narrowed \in ListingSets, NEW items \in BaselineItems(p, narrowed)
    PROVE  CheaperFirst(BaselineRun(p, items))
  <1> DEFINE run == BaselineRun(p, items)
  <1>1. run.items = items
    BY DEF BaselineRun
  <1> SUFFICES ASSUME NEW i \in DOMAIN items, NEW j \in DOMAIN items,
                      Similar(ListingOf(items[i]), ListingOf(items[j])),
                      ListingOf(items[i]).total_cost < ListingOf(items[j]).total_cost
               PROVE  i < j
    <2> HIDE DEF run
    <2> QED BY <1>1 DEF CheaperFirst, run
  <1>2. /\ DOMAIN items \subseteq Int
        /\ \A a, b \in DOMAIN items : a < b => Before(items[a], items[b])
    BY DEF BaselineItems, Lists
  <1>3. ASSUME NEW k \in DOMAIN items
        PROVE  \E l \in Candidates(p, narrowed) :
                  items[k] = [id |-> l.id, score |-> ComputeScore(p, l), total_cost |-> l.total_cost]
    BY DEF BaselineItems, Lists, BaselineScored
  <1>4. PICK l \in Candidates(p, narrowed) :
            /\ items[i].id = l.id /\ items[i].total_cost = l.total_cost
            /\ items[i].score = ComputeScore(p, l)
    BY <1>3
  <1>5. PICK m \in Candidates(p, narrowed) :
            /\ items[j].id = m.id /\ items[j].total_cost = m.total_cost
            /\ items[j].score = ComputeScore(p, m)
    BY <1>3
  <1>6. ListingOf(items[i]) = l /\ ListingOf(items[j]) = m
    BY <1>4, <1>5, CandidateIsListing
  <1>7. AlikeFor(p, l, m)
    BY <1>6, SimilarIsAlike
  <1>8. items[i].score \in Int /\ items[j].score \in Int /\ items[j].score <= items[i].score
    BY <1>4, <1>5, <1>7, BaselineScoreCompare
  <1>9. /\ items[i].total_cost \in Int /\ items[j].total_cost \in Int
        /\ items[i].total_cost < items[j].total_cost
    BY <1>4, <1>5, <1>7, CandidateCosts
  <1> QED BY <1>2, <1>8, <1>9, OrderedByScore

-----------------------------------------------------------------------------
(* The registry holds validated documents only, and so does a request that *)
(* is about to insert one.                                                 *)

HeldDocument(call) == call # None /\ call.doing = "register" => DocumentOK(call.doc)

RegistryInv ==
    /\ DOMAIN registry = PolicyNumbers
    /\ \A n \in PolicyNumbers : registry[n] = None \/ DocumentOK(registry[n])
    /\ DOMAIN calls = Callers
    /\ \A c \in Callers : HeldDocument(calls[c])

LEMMA LatestIsRegistered ==
    ASSUME RegistryInv, LatestNumber > 0
    PROVE  registry[LatestNumber] # None /\ DocumentOK(registry[LatestNumber])
  <1> DEFINE S == {0} \cup {n \in PolicyNumbers : Given(registry[n])}
  <1>1. S # {} /\ S \subseteq 0..MaxPolicies /\ MaxPolicies \in Nat
    BY ScoringAssumption DEF PolicyNumbers
  <1>2. \E x \in S : \A y \in S : x >= y
    <2> DEFINE f == [x \in S |-> x]
    <2>1. f \in [S -> 0..MaxPolicies]
      BY <1>1
    <2> HIDE DEF f
    <2>2. PICK x \in S : \A y \in S : f[y] <= f[x]
      BY <1>1, <2>1, LargestExists
    <2>3. \A y \in S : f[y] = y /\ y \in Int
      BY <1>1 DEF f
    <2> HIDE DEF S
    <2> QED BY <2>2, <2>3
  <1>3. LatestNumber \in S
    <2>1. LatestNumber = CHOOSE x \in S : \A y \in S : x >= y
      BY Zenon DEF LatestNumber, Max
    <2> HIDE DEF S
    <2> QED BY <1>2, <2>1
  <1> QED BY <1>3 DEF RegistryInv, Given

OrderInv == \A r \in DOMAIN published : CheaperFirst(published[r])

ScoredInv == ScoringInv /\ RegistryInv /\ OrderInv

LEMMA RegistryInitInv == ScoringInit => RegistryInv /\ OrderInv
  <1> HAVE ScoringInit
  <1>1. DOMAIN published = {}
    BY DEF ScoringInit
  <1> QED BY <1>1 DEF ScoringInit, RegistryInv, HeldDocument, OrderInv

(* A request moves on without touching the registry.                       *)
LEMMA RequestKeepsRegistry ==
    ASSUME RegistryInv, NEW c \in Callers, NEW call, calls' = [calls EXCEPT ![c] = call],
           HeldDocument(call), registry' = registry
    PROVE  RegistryInv'
  <1>1. DOMAIN calls' = Callers /\ \A d \in Callers : HeldDocument(calls'[d])
    BY DEF RegistryInv
  <1> QED BY <1>1 DEF RegistryInv, PolicyNumbers

LEMMA RegisterKeepsRegistry ==
    ASSUME RegistryInv, NEW c \in Callers, NEW doc \in Documents \cup {Seed}, BeginRegister(c, doc)
    PROVE  RegistryInv'
  <1> DEFINE call == [doing |-> "register", doc |-> doc, number |-> LatestNumber + 1]
  <1>1. call.doc = doc /\ calls' = [calls EXCEPT ![c] = call] /\ registry' = registry
    BY DEF BeginRegister
  <1>2. DocumentOK(doc)
    BY DEF DocumentOK, BeginRegister
  <1> HIDE DEF call
  <1>3. HeldDocument(call)
    BY <1>1, <1>2 DEF HeldDocument
  <1> QED BY <1>1, <1>3, RequestKeepsRegistry

LEMMA InsertKeepsRegistry ==
    ASSUME RegistryInv, NEW c \in Callers, InsertPolicyVersion(c)
    PROVE  RegistryInv'
  <1> DEFINE call == calls[c]
  <1>1. DocumentOK(call.doc) /\ calls' = [calls EXCEPT ![c] = None]
    BY DEF InsertPolicyVersion, RegistryInv, HeldDocument
  <1>2. \/ registry' = registry
        \/ registry' = [registry EXCEPT ![call.number] = call.doc]
    BY DEF InsertPolicyVersion
  <1>3. DOMAIN calls' = Callers /\ \A d \in Callers : HeldDocument(calls'[d])
    BY <1>1 DEF RegistryInv, HeldDocument
  <1> HIDE DEF call
  <1>4. /\ DOMAIN registry' = PolicyNumbers
        /\ \A n \in PolicyNumbers : registry'[n] = None \/ DocumentOK(registry'[n])
    BY <1>1, <1>2 DEF RegistryInv
  <1> QED BY <1>3, <1>4 DEF RegistryInv, PolicyNumbers

LEMMA RegistryStep ==
    ASSUME RegistryInv, [ScoringNext]_scoringVars
    PROVE  RegistryInv'
  <1>1. CASE UNCHANGED scoringVars
    BY <1>1 DEF scoringVars, RegistryInv, PolicyNumbers
  <1>2. ASSUME NEW c \in Callers, NEW doc \in Documents \cup {Seed}, BeginRegister(c, doc)
        PROVE  RegistryInv'
    BY <1>2, RegisterKeepsRegistry
  <1>3. ASSUME NEW c \in Callers, InsertPolicyVersion(c) PROVE RegistryInv'
    BY <1>3, InsertKeepsRegistry
  <1>4. ASSUME NEW c \in Callers, NEW ids, BeginShortlist(c, ids) PROVE RegistryInv'
    <2> DEFINE call == [doing |-> "shortlist", ids |-> ids]
    <2>1. call.doing = "shortlist" /\ calls' = [calls EXCEPT ![c] = call] /\ registry' = registry
      BY <1>4 DEF BeginShortlist
    <2> HIDE DEF call
    <2>2. HeldDocument(call)
      BY <2>1 DEF HeldDocument
    <2> QED BY <2>1, <2>2, RequestKeepsRegistry
  <1>5. ASSUME NEW c \in Callers, NEW ids, BuildComparison(c, ids) PROVE RegistryInv'
    <2>1. PICK rs : calls' = [calls EXCEPT ![c] = [doing |-> "compare", rows |-> rs]]
      BY <1>5 DEF BuildComparison
    <2>2. PICK call : call.doing = "compare" /\ calls' = [calls EXCEPT ![c] = call]
      BY <2>1
    <2>3. registry' = registry
      BY <1>5 DEF BuildComparison
    <2>4. HeldDocument(call)
      BY <2>2 DEF HeldDocument
    <2> QED BY <2>2, <2>3, <2>4, RequestKeepsRegistry
  <1>6. ASSUME NEW c \in Callers, ReplaceShortlist(c) \/ Respond(c) PROVE RegistryInv'
    <2>1. calls' = [calls EXCEPT ![c] = None] /\ registry' = registry
      BY <1>6 DEF ReplaceShortlist, Respond
    <2>2. HeldDocument(None)
      BY DEF HeldDocument
    <2> QED BY <2>1, <2>2, RequestKeepsRegistry
  <1>7. ASSUME UNCHANGED <<registry, calls>> PROVE RegistryInv'
    BY <1>7 DEF RegistryInv, PolicyNumbers
  <1>8. ASSUME NEW narrowed, PublishPolicyRun(narrowed) \/ PublishBaselineRun(narrowed)
        PROVE  RegistryInv'
    BY <1>7, <1>8 DEF PublishPolicyRun, PublishBaselineRun
  <1>9. ASSUME NEW p, EditProfile(p) PROVE RegistryInv'
    BY <1>7, <1>9 DEF EditProfile
  <1> QED
    BY <1>1, <1>2, <1>3, <1>4, <1>5, <1>6, <1>8, <1>9 DEF ScoringNext, SeedRegistry

LEMMA OrderStep ==
    ASSUME ScoredInv, [ScoringNext]_scoringVars
    PROVE  OrderInv'
  <1>1. CASE published' = published
    BY <1>1 DEF ScoredInv, OrderInv
  <1>2. ASSUME NEW run, CheaperFirst(run), published' = Append(published, run)
        PROVE  OrderInv'
    <2>1. /\ RunsExtended(published, published')
          /\ \A r \in DOMAIN published' : r \in DOMAIN published \/ published'[r] = run
      BY <1>2, AppendExtends DEF ScoredInv, ScoringInv
    <2> QED BY <1>2, <2>1 DEF ScoredInv, OrderInv, RunsExtended
  <1>3. ASSUME NEW narrowed \in ListingSets, PublishPolicyRun(narrowed) PROVE OrderInv'
    <2> DEFINE doc == registry[LatestNumber]
    <2>1. PICK items \in PolicyItems(doc, search, narrowed, Observed) :
              published' = Append(published, PolicyRun(doc, search, narrowed, items))
      BY <1>3 DEF PublishPolicyRun, PolicyRun
    <2>2. doc # None /\ DocumentOK(doc) /\ search \in Searches
      BY <1>3, LatestIsRegistered DEF PublishPolicyRun, ScoredInv, ScoringInv
    <2> HIDE DEF doc
    <2>3. CheaperFirst(PolicyRun(doc, search, narrowed, items))
      BY <2>2, PolicyRunOrdered
    <2> QED BY <1>2, <2>1, <2>3
  <1>4. ASSUME NEW narrowed \in ListingSets, PublishBaselineRun(narrowed) PROVE OrderInv'
    <2>1. PICK items \in BaselineItems(search, narrowed) :
              published' = Append(published, BaselineRun(search, items))
      BY <1>4 DEF PublishBaselineRun, BaselineRun
    <2>2. CheaperFirst(BaselineRun(search, items))
      BY BaselineRunOrdered DEF ScoredInv, ScoringInv
    <2> QED BY <1>2, <2>1, <2>2
  <1>5. \/ published' = published
        \/ \E narrowed \in ListingSets : PublishPolicyRun(narrowed) \/ PublishBaselineRun(narrowed)
    BY DEF ScoringNext, scoringVars, BeginRegister, SeedRegistry, InsertPolicyVersion, BeginShortlist,
           ReplaceShortlist, BuildComparison, Respond, EditProfile
  <1> QED BY <1>1, <1>3, <1>4, <1>5

LEMMA ScoredInvInvariant == ScoringSpec => []ScoredInv
  <1>1. ScoringInit => ScoredInv
    BY ScoringInitInv, RegistryInitInv DEF ScoredInv
  <1>2. ScoredInv /\ [ScoringNext]_scoringVars => ScoredInv'
    BY ScoringInvStep, RegistryStep, OrderStep DEF ScoredInv
  <1> QED BY <1>1, <1>2, PTL DEF ScoringSpec

(* Of two listings of a run that differ only in the cost, the cheaper is   *)
(* ranked first: for any policy document that validates, any gates, deltas *)
(* and weights, any observations and any numbers, neither capping nor      *)
(* rounding turns the order of score_candidates around.                    *)
THEOREM CheaperRanksFirstInvariant == ScoringSpec => []CheaperRanksFirst
  <1>1. OrderInv => CheaperRanksFirst
    BY DEF OrderInv, CheaperFirst, ListingOf, CheaperRanksFirst
  <1>2. ScoredInv => OrderInv
    BY DEF ScoredInv
  <1> QED BY <1>1, <1>2, ScoredInvInvariant, PTL

=============================================================================
