------------------------------- MODULE Criteria -------------------------------
(***************************************************************************)
(* The criteria service: the concept registry, the preference facts of one *)
(* profile and their compilation, and the observations of listings that    *)
(* extraction and recompute jobs publish.                                  *)
(*                                                                         *)
(* Every repository method is a transaction of its own, so a request and   *)
(* an attempt are several steps, and either may die between two of them.   *)
(* Workers of two releases run side by side during a deployment: each      *)
(* registers and uses the version of the rules that it was built with.     *)
(* What the model provider answers is a free choice.                       *)
(***************************************************************************)
EXTENDS CriteriaRules

CONSTANTS
    Clients,        \* concurrent requests of users and operators
    Workers,
    MaxAttempts,
    Release,        \* [Workers -> 1..2]: the version of the extractors in the worker
    Keys,           \* the concepts of the contract that are in use
    Listings,       \* sequence of Silver listings
    Answers,        \* what the model provider may return
    Work,           \* the jobs: [kind, scope]
    Seed,           \* the concepts that seed_registry has loaded, with their rows
    ConceptDrafts, FactDrafts, EditDrafts,
    Owner,          \* owner of the profile
    MaxVersions,    \* bound: version of a concept
    MaxBatches,     \* bound: batches of observations
    MaxFacts, MaxCompilations

ConceptRow(d, n) ==
    [version |-> n, matcher_type |-> d.matcher_type, aliases |-> d.aliases]

(* A scope names a concept, an extraction artifact or a parser, or is full. *)
ScopeAssumption(scope) ==
    \/ scope.kind \in {"parser", "full"}
    \/ scope.kind = "concept" /\ scope.key \in Keys
    \/ scope.kind = "extraction" /\ scope.key \in Keys \X (1..2)

ASSUME CriteriaAssumption ==
    /\ MaxAttempts \in Nat /\ MaxVersions \in Nat \ {0} /\ MaxBatches \in Nat
    /\ Keys # {} /\ Keys \subseteq Contract /\ None \notin Workers
    /\ Release \in [Workers -> 1..2]
    /\ Listings \in Seq(Listing) /\ Listings # <<>>
    /\ \A answers \in Answers : answers \in Seq(Output \cup {None})
    /\ DOMAIN Seed \subseteq Keys /\ \A k \in DOMAIN Seed : Seed[k].version = 1
    /\ \A d \in ConceptDrafts :
          d.key \in Keys /\ \A n \in 1..MaxVersions : Given(ConceptRow(d, n))
    /\ \A d \in FactDrafts : d.concept_key \in Keys
    /\ \A j \in Work : j.kind \in {"extract", "recompute"} /\ ScopeAssumption(j.scope)

VARIABLES
    concepts,       \* the registry: row of each key, or None
    versions,       \* concept_versions: <<key, number>>
    artifacts,      \* extraction_versions of each key, in order of creation
    silver,         \* how many listings Silver has
    observations,   \* listing_observations
    batches,        \* batches published
    recomputes,     \* recomputation_runs: state by job and attempt
    facts,          \* preference_facts of the profile
    compilations,   \* of its current version, by compilation_version
    client,         \* the request each client executes
    attempt,        \* the attempt each worker executes
    phase, tries, holder

Jobs == INSTANCE JobAttempts WITH Jobs <- Work, Nobody <- None

jobVars == <<phase, tries, holder>>
registry == <<concepts, versions>>
preferences == <<facts, compilations>>
extracted == <<artifacts, observations, batches, recomputes>>
vars == <<registry, preferences, extracted, silver, client, attempt, jobVars>>

NoRequest == [at |-> "idle", draft |-> None, read |-> 0, seen |-> {}, criteria |-> <<>>]
NoAttempt ==
    [at |-> "idle", job |-> None, try |-> 0, supersede |-> {}, listings |-> 0, todo |-> {},
     previous |-> None, outcome |-> None]

Init ==
    /\ concepts = [k \in Keys |-> IF k \in DOMAIN Seed THEN Seed[k] ELSE None]
    /\ versions = {<<k, 1>> : k \in DOMAIN Seed}
    /\ artifacts = [k \in Keys |-> <<>>]
    /\ silver = 1
    /\ observations = {}
    /\ batches = 0
    /\ recomputes = [r \in Work \X (1..MaxAttempts) |-> "none"]
    /\ facts = {}
    /\ compilations = <<>>
    /\ client = [c \in Clients |-> NoRequest]
    /\ attempt = [w \in Workers |-> NoAttempt]
    /\ Jobs!NoJobs

Proceed(c, request) == client' = [client EXCEPT ![c] = request]
Done(c) == Proceed(c, NoRequest)

---------------------------------------------------------------------------
(* The concept registry.                                                   *)

(* register_concept_version: reads the row, whose version numbers the new  *)
(* concept version.                                                        *)
RegisterConcept(c, d) ==
    /\ client[c].at = "idle"
    /\ ValidConceptSeed(d)
    /\ Proceed(c, [NoRequest EXCEPT !.at = "concept", !.draft = d,
          !.read = IF Given(concepts[d.key]) THEN concepts[d.key].version ELSE 0])
    /\ UNCHANGED <<registry, preferences, extracted, silver, attempt, jobVars>>

(* insert refuses a key that is there by now; save compares nothing and    *)
(* counts the row's own version.                                           *)
SaveConcept(c) ==
    LET d == client[c].draft IN
    /\ client[c].at = "concept"
    /\ \/ /\ client[c].read = 0 /\ concepts[d.key] = None
          /\ concepts' = [concepts EXCEPT ![d.key] = ConceptRow(d, 1)]
       \/ /\ client[c].read > 0
          /\ concepts[d.key].version < MaxVersions
          /\ concepts' = [concepts EXCEPT ![d.key] = ConceptRow(d, concepts[d.key].version + 1)]
    /\ Proceed(c, [client[c] EXCEPT !.at = "version"])
    /\ UNCHANGED <<versions, preferences, extracted, silver, attempt, jobVars>>

InsertVersion(c) ==
    LET new == <<client[c].draft.key, client[c].read + 1>> IN
    /\ client[c].at = "version"
    /\ new \notin versions
    /\ versions' = versions \cup {new}
    /\ Proceed(c, [client[c] EXCEPT !.at = "invalidate"])
    /\ UNCHANGED <<concepts, preferences, extracted, silver, attempt, jobVars>>

Invalidated(selected) ==
    {IF o \in selected /\ o.state = "active" THEN [o EXCEPT !.state = "invalidated"] ELSE o :
        o \in observations}

InvalidateForConcept(c) ==
    LET d == client[c].draft IN
    /\ client[c].at = "invalidate"
    /\ observations' = Invalidated({o \in observations : o.concept_key = d.key})
    /\ Done(c)
    /\ UNCHANGED <<registry, preferences, artifacts, batches, recomputes, silver, attempt, jobVars>>

---------------------------------------------------------------------------
(* Preference facts and their compilation.                                 *)

ValidFact(d) ==
    /\ d.owner = Owner
    /\ Given(concepts[d.concept_key])
    /\ d.weight \in 0..10

Active(rows) == {r \in rows : r.state = "active"}
ActiveFacts(key) == {f \in Active(facts) : f.concept_key = key}

(* The update of record_change runs on the active rows that are committed  *)
(* when it starts, and locks them.                                         *)
RecordPreferenceFact(c, d) ==
    /\ client[c].at = "idle"
    /\ ValidFact(d)
    /\ Proceed(c, [NoRequest EXCEPT !.at = "fact", !.draft = d,
                                    !.seen = ActiveFacts(d.concept_key)])
    /\ UNCHANGED <<registry, preferences, extracted, silver, attempt, jobVars>>

(* Mutant of FactAccepted: there is no unique index.                       *)
FactAlwaysAccepted(c) == TRUE

(* uq_preference_facts_active: an active row that the update did not see   *)
(* makes the insert fail, and with it the transaction.                     *)
FactAccepted(c) == ActiveFacts(client[c].draft.concept_key) \subseteq client[c].seen

CommitFact(c) ==
    LET d == client[c].draft
        new == [id |-> Cardinality(facts) + 1, concept_key |-> d.concept_key,
                weight |-> d.weight, state |-> "active"]
    IN
    /\ client[c].at = "fact"
    /\ Cardinality(facts) < MaxFacts
    /\ FactAccepted(c)
    /\ facts' = {IF f \in client[c].seen THEN [f EXCEPT !.state = "superseded"] ELSE f :
                    f \in facts} \cup {new}
    /\ Done(c)
    /\ UNCHANGED <<registry, compilations, extracted, silver, attempt, jobVars>>

(* The registered concepts, of which the seed leaves at least one.         *)
ConceptMap == [k \in {key \in Keys : Given(concepts[key])} |-> concepts[k]]

CompileProfile(c, d) ==
    /\ client[c].at = "idle"
    /\ d.owner = Owner
    /\ ~CompileRaises(ConceptMap, d.edits, d.confirmations)
    /\ Proceed(c, [NoRequest EXCEPT !.at = "compiled", !.draft = d,
                     !.criteria = CompileCriteria(ConceptMap, Active(facts), d.edits)])
    /\ UNCHANGED <<registry, preferences, extracted, silver, attempt, jobVars>>

(* The latest compilation is read after the criteria are computed.         *)
NumberCompilation(c) ==
    /\ client[c].at = "compiled"
    /\ Proceed(c, [client[c] EXCEPT !.at = "insert", !.read = Len(compilations)])
    /\ UNCHANGED <<registry, preferences, extracted, silver, attempt, jobVars>>

NewCompilation(c) ==
    [criteria |-> client[c].criteria, confirmations |-> client[c].draft.confirmations]

InsertCompilation(c) ==
    /\ client[c].at = "insert"
    /\ client[c].read = Len(compilations)
    /\ Len(compilations) < MaxCompilations
    /\ compilations' = Append(compilations, NewCompilation(c))
    /\ Done(c)
    /\ UNCHANGED <<registry, facts, extracted, silver, attempt, jobVars>>

(* The process dies, or a unique constraint refuses the next insert.       *)
Abort(c) ==
    /\ client[c].at # "idle"
    /\ Done(c)
    /\ UNCHANGED <<registry, preferences, extracted, silver, attempt, jobVars>>

---------------------------------------------------------------------------
(* Extraction and recompute jobs.                                          *)

(* submit_extraction and submit_recompute: an identity is accepted once.   *)
SubmitWork(j) ==
    /\ phase[j] = "absent"
    /\ Jobs!Submit(j)
    /\ UNCHANGED <<registry, preferences, extracted, silver, client, attempt>>

(* invalidate_scope, an operator's call.                                   *)
ScopeOf(scope) ==
    {o \in observations :
        CASE scope.kind = "concept" -> o.concept_key = scope.key
          [] scope.kind = "extraction" -> <<o.concept_key, o.artifact>> = scope.key
          [] scope.kind = "parser" -> Listings[o.listing].normalizer = scope.key
          [] scope.kind = "full" -> TRUE}

InvalidateScope(scope) ==
    /\ scope.kind # "full"
    /\ Invalidated(ScopeOf(scope)) # observations
    /\ observations' = Invalidated(ScopeOf(scope))
    /\ UNCHANGED <<registry, preferences, artifacts, batches, recomputes, silver, client,
                   attempt, jobVars>>

Continue(w, a) == attempt' = [attempt EXCEPT ![w] = a]
Scope(w) == attempt[w].job.scope
RunId(w) == <<attempt[w].job, attempt[w].try>>

ClaimWork(w, j) ==
    /\ attempt[w].at = "idle"
    /\ Jobs!Claim(w, j)
    /\ Continue(w, [NoAttempt EXCEPT !.job = j, !.try = tries[j] + 1,
                      !.at = IF j.kind = "recompute" THEN "run" ELSE "listings"])
    /\ UNCHANGED <<registry, preferences, extracted, silver, client>>

(* Mutant of ReadsFirst: both read what they supersede at the end.         *)
NeverReadsFirst(kind) == FALSE

(* A recompute reads what it will supersede before it reads the listings,  *)
(* an extraction when its batch is ready.                                  *)
ReadsFirst(kind) == kind = "recompute"

InsertRun(w) ==
    /\ attempt[w].at = "run"
    /\ recomputes' = [recomputes EXCEPT ![RunId(w)] = "pending"]
    /\ Continue(w, [attempt[w] EXCEPT
          !.at = IF ReadsFirst(attempt[w].job.kind) THEN "ids" ELSE "listings"])
    /\ UNCHANGED <<registry, preferences, artifacts, observations, batches, silver, client, jobVars>>

(* ids_for_scope                                                           *)
Id(o) == <<o.listing, o.concept_key, o.batch>>
IdsForScope(scope) ==
    {Id(o) : o \in {p \in ScopeOf(scope) : p.state \in {"active", "invalidated"}}}

ReadIds(w) ==
    /\ attempt[w].at = "ids"
    /\ Continue(w, [attempt[w] EXCEPT !.supersede = IdsForScope(Scope(w)),
          !.at = IF ReadsFirst(attempt[w].job.kind) THEN "listings" ELSE "publish"])
    /\ UNCHANGED <<registry, preferences, extracted, silver, client, jobVars>>

Report(w, outcome) ==
    /\ Jobs!RecordOutcome(w, attempt[w].job, outcome)
    /\ Continue(w, NoAttempt)

(* Mutant of Failure: the error is logged and swallowed.                   *)
Swallowed == "succeeded"

Failure == "permanent"

(* A CriteriaError of the extraction: a recompute marks its run as failed  *)
(* in a transaction of its own.                                            *)
Raise(w) ==
    IF attempt[w].job.kind = "recompute"
    THEN /\ recomputes' = [recomputes EXCEPT ![RunId(w)] = "failed"]
         /\ Continue(w, [attempt[w] EXCEPT !.at = "report", !.outcome = Failure])
         /\ UNCHANGED jobVars
    ELSE Report(w, Failure) /\ UNCHANGED recomputes

(* The versions of the extraction artifacts, by concept.                   *)
Registered(k, artifact) == artifact \in Range(artifacts[k])
LatestArtifact(k) == IF artifacts[k] = <<>> THEN None ELSE Last(artifacts[k])
WithArtifact(k, artifact) == [artifacts EXCEPT ![k] = Append(@, artifact)]

(* The targets of a scope: a concept has to be registered, an extraction   *)
(* artifact names its key, and the wider scopes take the whole seed.       *)
Targets(scope) ==
    CASE scope.kind = "concept" -> {scope.key}
      [] scope.kind = "extraction" -> {scope.key[1]}
      [] OTHER -> Keys

TargetMissing(scope) ==
    CASE scope.kind = "concept" -> concepts[scope.key] = None
      [] scope.kind = "extraction" -> ~Registered(scope.key[1], scope.key[2])
      [] OTHER -> FALSE

ReadListings(w) ==
    /\ attempt[w].at = "listings"
    /\ IF TargetMissing(Scope(w)) THEN Raise(w)
       ELSE /\ Continue(w, [attempt[w] EXCEPT !.at = "find", !.listings = silver,
                                              !.todo = Targets(Scope(w))])
            /\ UNCHANGED <<recomputes, jobVars>>
    /\ UNCHANGED <<registry, preferences, artifacts, observations, batches, silver, client>>

ListingsOf(w) ==
    {l \in 1..attempt[w].listings :
        Scope(w).kind = "parser" => Listings[l].normalizer = Scope(w).key}

(* register_extraction_version, for one concept after the other: what is   *)
(* found is used as it is, and only the one who inserts the new version    *)
(* invalidates what the previous one observed.                             *)
Artifact(w) == Release[w]
Current(w) == CHOOSE k \in attempt[w].todo : TRUE

FindArtifact(w) ==
    /\ attempt[w].at = "find"
    /\ IF Registered(Current(w), Artifact(w))
       THEN Continue(w, [attempt[w] EXCEPT !.at = "extract"])
       ELSE Continue(w, [attempt[w] EXCEPT !.at = "artifact",
                                           !.previous = LatestArtifact(Current(w))])
    /\ UNCHANGED <<registry, preferences, extracted, silver, client, jobVars>>

(* The unique constraint refuses a version that another worker inserted:   *)
(* an unclassified failure, which leaves the run as it is.                 *)
InsertArtifact(w) ==
    LET k == Current(w) IN
    /\ attempt[w].at = "artifact"
    /\ IF Registered(k, Artifact(w))
       THEN Report(w, "permanent") /\ UNCHANGED artifacts
       ELSE /\ artifacts' = WithArtifact(k, Artifact(w))
            /\ Continue(w, [attempt[w] EXCEPT
                  !.at = IF attempt[w].previous = None THEN "extract" ELSE "previous"])
            /\ UNCHANGED jobVars
    /\ UNCHANGED <<registry, preferences, observations, batches, recomputes, silver, client>>

InvalidatePrevious(w) ==
    /\ attempt[w].at = "previous"
    /\ observations' = Invalidated({o \in observations :
          o.concept_key = Current(w) /\ o.artifact = attempt[w].previous})
    /\ Continue(w, [attempt[w] EXCEPT !.at = "extract", !.previous = None])
    /\ UNCHANGED <<registry, preferences, artifacts, batches, recomputes, silver, client, jobVars>>

(* The listings are looked at, batch_size of them at a time; what comes    *)
(* out is in the operator Extract.  A worker without an extractor fails on *)
(* the first listing of a concept of the model.                            *)
ExtractConcept(w) ==
    LET a == attempt[w]
        left == a.todo \ {Current(w)}
    IN
    /\ a.at = "extract"
    /\ \/ /\ Continue(w, [a EXCEPT !.todo = left,
                !.at = IF left # {} THEN "find"
                       ELSE IF ReadsFirst(a.job.kind) THEN "publish" ELSE "ids"])
          /\ UNCHANGED <<recomputes, jobVars>>
       \/ /\ Current(w) \in ModelConcepts /\ ListingsOf(w) # {}
          /\ Raise(w)
    /\ UNCHANGED <<registry, preferences, artifacts, observations, batches, silver, client>>

(* The new observations: one of each target and each listing that was      *)
(* read, by rule or from what the provider answered.                       *)
NewObservation(w, l, k, answers) ==
    LET content == IF k \in RuleConcepts THEN RuleObservation(k, Listings[l])
                   ELSE ModelObservation(k, answers[<<l, k>>])
    IN [listing |-> l, concept_key |-> k, batch |-> batches + 1, artifact |-> Artifact(w),
        value |-> content.value, score |-> content.score, confidence |-> content.confidence,
        fragment |-> content.fragment, state |-> content.state]

(* The provider is asked about each listing and concept of its own.        *)
Asked(w) == ListingsOf(w) \X (Targets(Scope(w)) \cap ModelConcepts)

Extract(w, answers) ==
    {NewObservation(w, p[1], p[2], answers) : p \in ListingsOf(w) \X Targets(Scope(w))}

Superseded(ids) ==
    {IF Id(o) \in ids THEN [o EXCEPT !.state = "superseded"] ELSE o : o \in observations}

(* uq_listing_observations_active                                          *)
OneActive(rows) ==
    \A o, p \in Active(rows) :
        o.listing = p.listing /\ o.concept_key = p.concept_key => o = p

(* A recompute ends its run with its batch, an extraction has none.        *)
RunSucceeded(w) ==
    IF attempt[w].job.kind = "recompute"
    THEN [recomputes EXCEPT ![RunId(w)] = "succeeded"] ELSE recomputes

(* publish: the batch, what it supersedes, the run and the event commit    *)
(* together, or nothing of it does.                                        *)
Publish(w) ==
    /\ attempt[w].at = "publish"
    /\ batches < MaxBatches
    /\ \E answers \in [Asked(w) -> Answers] :
          LET rows == Superseded(attempt[w].supersede) \cup Extract(w, answers) IN
          IF OneActive(rows)
          THEN /\ observations' = rows
               /\ batches' = batches + 1
               /\ recomputes' = RunSucceeded(w)
               /\ Continue(w, [attempt[w] EXCEPT !.at = "report", !.outcome = "succeeded"])
          ELSE /\ Continue(w, [attempt[w] EXCEPT !.at = "report", !.outcome = "permanent"])
               /\ UNCHANGED <<observations, batches, recomputes>>
    /\ UNCHANGED <<registry, preferences, artifacts, silver, client, jobVars>>

EndAttempt(w) ==
    /\ attempt[w].at = "report"
    /\ Report(w, attempt[w].outcome)
    /\ UNCHANGED <<registry, preferences, extracted, silver, client>>

WorkerDies(w) ==
    /\ attempt[w].at # "idle"
    /\ Continue(w, NoAttempt)
    /\ UNCHANGED <<registry, preferences, extracted, silver, client, jobVars>>

LeaseLapses(j) ==
    /\ Jobs!Lapse(j)
    /\ UNCHANGED <<registry, preferences, extracted, silver, client, attempt>>

(* Silver normalizes one more listing.                                     *)
ListingArrives ==
    /\ silver < Len(Listings)
    /\ silver' = silver + 1
    /\ UNCHANGED <<registry, preferences, extracted, client, attempt, jobVars>>

Next ==
    \/ \E c \in Clients :
          \/ \E d \in ConceptDrafts : RegisterConcept(c, d)
          \/ \E d \in FactDrafts : RecordPreferenceFact(c, d)
          \/ \E d \in EditDrafts : CompileProfile(c, d)
          \/ SaveConcept(c) \/ InsertVersion(c) \/ InvalidateForConcept(c)
          \/ CommitFact(c) \/ NumberCompilation(c) \/ InsertCompilation(c) \/ Abort(c)
    \/ \E w \in Workers :
          \/ \E j \in Work : ClaimWork(w, j)
          \/ InsertRun(w) \/ ReadIds(w) \/ ReadListings(w)
          \/ FindArtifact(w) \/ InsertArtifact(w) \/ InvalidatePrevious(w) \/ ExtractConcept(w)
          \/ Publish(w) \/ EndAttempt(w) \/ WorkerDies(w)
    \/ \E j \in Work : SubmitWork(j) \/ LeaseLapses(j) \/ InvalidateScope(j.scope)
    \/ ListingArrives

Spec == Init /\ [][Next]_vars

---------------------------------------------------------------------------
Attempt ==
    [at : {"idle", "run", "ids", "listings", "find", "artifact", "previous", "extract",
           "publish", "report"},
     job : Work \cup {None}, try : 0..MaxAttempts,
     supersede : SUBSET ((1..Len(Listings)) \X Keys \X (1..MaxBatches)),
     listings : 0..Len(Listings), todo : SUBSET Keys, previous : {1, 2, None},
     outcome : {"succeeded", "permanent", None}]

TypeOK ==
    /\ DOMAIN concepts = Keys
    /\ \A k \in Keys : Given(concepts[k]) => concepts[k].version \in 1..MaxVersions
    /\ versions \subseteq Keys \X (1..MaxVersions)
    /\ artifacts \in [Keys -> Seq(1..2)]
    /\ silver \in 1..Len(Listings) /\ batches \in 0..MaxBatches
    /\ \A o \in observations :
          /\ o.listing \in 1..silver /\ o.concept_key \in Keys /\ o.batch \in 1..batches
          /\ o.artifact \in 1..2
          /\ o.state \in {"active", "invalidated", "superseded", "failed"}
    /\ recomputes \in [Work \X (1..MaxAttempts) -> {"none", "pending", "succeeded", "failed"}]
    /\ attempt \in [Workers -> Attempt]
    /\ Jobs!JobTypeOK

Covered(rows) == {<<o.listing, o.concept_key>> : o \in Active(rows)}
Refused(rows) == {<<o.listing, o.concept_key>> : o \in {p \in rows : p.state = "failed"}}

(* A recompute that publishes while listings arrive and other jobs publish *)
(* leaves no listing without an observation that it had, unless the model  *)
(* gave no valid answer for it.                                            *)
RecomputeKeepsCoverage ==
    [][(\E r \in DOMAIN recomputes : recomputes[r] = "pending" /\ recomputes'[r] = "succeeded")
          => Covered(observations) \subseteq
                Covered(observations') \cup Refused(observations' \ observations)]_vars

(* What the description says of a concept: a denial outweighs a mention,   *)
(* and the word integrada alone is taken to be about the kitchen.          *)
TextSays(l, key, value) ==
    LET said == {l.description_text[i] : i \in DOMAIN l.description_text}
        Words(phrases) == {p.says : p \in said} \cap phrases # {}
    IN \/ key = "balcon" /\ value = "false" /\ Words(BalconNegative)
       \/ key = "balcon" /\ value = "true" /\ Words(BalconPositive) /\ ~Words(BalconNegative)
       \/ key \in {"ambientes", "piso"} /\ [says |-> key, n |-> value] \in said
       \/ key = "tipo_cocina" /\ value = "none" /\ Words(CocinaNone)
       \/ key = "tipo_cocina" /\ value = "separada" /\ Words(CocinaSeparada) /\ ~Words(CocinaNone)
       \/ key = "tipo_cocina" /\ value = "integrada" /\ Words(CocinaIntegrada)
                              /\ ~Words(CocinaSeparada \cup CocinaNone)

TextIsSilent(l, phrases) ==
    \A i \in DOMAIN l.description_text : l.description_text[i].says \notin phrases

FieldSays(l, key, value) ==
    /\ TextIsSilent(l, {key})
    /\ (key = "ambientes" /\ value = l.rooms) \/ (key = "piso" /\ value = l.floor)

(* One of the provider's answers, valid for the schema of the concept.     *)
Answered(key, value, confidence) ==
    \E answers \in Answers : \E i \in DOMAIN answers :
        /\ Accepted(key, answers[i])
        /\ answers[i].value = value /\ answers[i].confidence = confidence

(* Where an observed value may come from, and what it then quotes.         *)
Grounded(key, l, o) ==
    /\ o.value = None => o.score = 0 /\ o.confidence = 0
    /\ Given(o.value) =>
          \/ key \in RuleConcepts /\ o.fragment = {"description_text"} /\ o.score = 10
             /\ TextSays(l, key, o.value)
          \/ key = "balcon" /\ o.value = "true" /\ o.fragment = {"amenities"} /\ o.score = 10
             /\ TextIsSilent(l, BalconPositive) /\ l.amenities \cap BalconPositive # {}
          \/ key \in RuleConcepts /\ o.fragment = {} /\ o.score = 6 /\ FieldSays(l, key, o.value)
          \/ key \in ModelConcepts /\ o.fragment = {"model"} /\ o.score = 0
             /\ Answered(key, o.value, o.confidence)

(* Whatever is republished, superseded or invalidated, an active           *)
(* observation can be traced to its source.  With the full score it quotes *)
(* the description, which says the value and does not deny it, or, where   *)
(* the description is silent, an amenity that mentions a balcony (one that *)
(* denies it mentions it too).  A rule's value without a quotation is the  *)
(* normalized field, at the lower score.  A model's value is that of a     *)
(* valid answer of the provider, in whose words it is quoted.  Without a   *)
(* value an observation weighs nothing.                                    *)
ObservationsAreGrounded ==
    \A o \in Active(observations) : Grounded(o.concept_key, Listings[o.listing], o)

(* A job that ended as succeeded left an observation of each of its        *)
(* concepts on the listing that was there from the start, and a recompute  *)
(* its run, whatever died, lapsed or collided on the way.                  *)
SucceededWorkIsComplete ==
    \A j \in Work : phase[j] = "succeeded" =>
        /\ j.scope.kind # "parser" =>
              \A k \in Targets(j.scope) :
                  \E o \in observations : o.listing = 1 /\ o.concept_key = k
        /\ j.kind = "recompute" =>
              \E t \in 1..MaxAttempts : recomputes[<<j, t>>] = "succeeded"

(* A preference that was stated once stays stated, and by one active fact, *)
(* however many changes of it are recorded at the same time.               *)
OnePreference ==
    \A f \in facts : Cardinality(ActiveFacts(f.concept_key)) = 1

=============================================================================
