-------------------------------- MODULE Silver -------------------------------
(***************************************************************************)
(* Silver normalisation: one durable job per succeeded import run turns    *)
(* its raw snapshots into listings, attaches each to a canonical property, *)
(* records what changed in its chain and links it to likely duplicates;    *)
(* operators decide the proposed links.                                    *)
(*                                                                         *)
(* Every repository method is a transaction of its own, so each step below *)
(* is one commit or one read, and the jobs of several runs interleave.     *)
(* (snapshot_id, normalizer_version) is unique: a listing is named by its  *)
(* snapshot.  A chain is a (source_id, external_id).                       *)
(***************************************************************************)
EXTENDS SilverRules, SequencesExt

CONSTANTS
    Snapshots,    \* raw_listing_snapshots
    Runs,         \* import runs whose normalisation was submitted
    RunOf,        \* the run that captured each snapshot
    Chain,        \* its (source_id, external_id)
    CapturedAt,   \* its captured_at: the attempt of the run that captured it
    Payload,      \* its payload
    GeoAnswers,   \* the precisions the geocoder may answer with
    Workers,
    Operators,    \* people deciding links
    MaxAttempts

ASSUME SilverAssumption ==
    /\ RunOf \in [Snapshots -> Runs]
    /\ CapturedAt \in [Snapshots -> Nat]
    /\ DOMAIN Chain = Snapshots /\ DOMAIN Payload = Snapshots
    /\ GeoAnswers \subseteq Precisions
    /\ MaxAttempts \in Nat \ {0}
    /\ IsFiniteSet(Snapshots)
    /\ None \notin Snapshots \cup Runs \cup Workers \cup {"deterministic"}
    /\ None \notin Nat

VARIABLES
    phase, tries, holder,  \* the jobs
    properties,  \* number of canonical_properties; they are 1..properties
    listings,    \* silver_listings by snapshot, None without a row
    changes,     \* listing_changes
    links,       \* dedupe_links by pair, None without a row
    worker,      \* where each worker's process() is
    operator     \* where each operator's decision is

jobVars == <<phase, tries, holder>>
vars == <<phase, tries, holder, properties, listings, changes, links,
          worker, operator>>

Jobs == INSTANCE JobAttempts WITH Jobs <- Runs, Nobody <- None

-----------------------------------------------------------------------------
(* Rows                                                                    *)

Fields == [s \in Snapshots |-> NormalizeSnapshot(Payload[s])]
Evaluation ==
    [p \in Snapshots \X Snapshots |-> EvaluatePair(Fields[p[1]], Fields[p[2]])]
Listed == {s \in Snapshots : listings[s] # None}
Canonical(s) == listings[s].canonical
SameChain(a, b) == Chain[a] = Chain[b]

Pairs == {p \in SUBSET Snapshots : Cardinality(p) = 2}
ListingRow == [canonical : Nat \ {0}, geo_precision : Precisions]
ChangeRow == [listing : Snapshots, previous : Snapshots,
              field : {ChangeFields[i] : i \in 1..Len(ChangeFields)}]
LinkRow == [method : {"deterministic", "proposal"},
            state : {"pending", "confirmed", "rejected"},
            version : Nat, decided_by : Operators \cup {None}]

ASSUME RowsAssumption == None \notin ListingRow \cup LinkRow

NewListing(s, canonical, answer) ==
    [canonical |-> canonical, geo_precision |-> MaybeGeocode(Fields[s], answer)]
NewChange(s, previous, field) == [listing |-> s, previous |-> previous, field |-> field]
NewLink(method) == [method |-> method, state |-> LinkState(method),
                    version |-> 1, decided_by |-> None]

Idle == [pc |-> "idle", run |-> None, todo |-> <<>>, previous |-> None,
         candidates |-> <<>>, canonical |-> None, fields |-> {}]
OperatorIdle == [pc |-> "idle", pair |-> {}, version |-> 0]

(* The state of one call of process and of _decide_link.                   *)
Process ==
    [pc : {"idle", "load", "snapshot", "candidates", "create", "insert", "after", "link"},
     run : Runs \cup {None}, todo : Seq(Snapshots),
     previous : Snapshots \cup {None}, candidates : Seq(Snapshots),
     canonical : (Nat \ {0}) \cup {None}, fields : SUBSET (1..Len(ChangeFields))]
Decision == [pc : {"idle", "save"}, pair : Pairs \cup {{}}, version : Nat]

TypeOK ==
    /\ Jobs!JobTypeOK
    /\ properties \in Nat
    /\ listings \in [Snapshots -> ListingRow \cup {None}]
    /\ changes \subseteq ChangeRow
    /\ links \in [Pairs -> LinkRow \cup {None}]
    /\ worker \in [Workers -> Process]
    /\ operator \in [Operators -> Decision]

(* The job is submitted once its run is saved as succeeded.                *)
Init ==
    /\ Jobs!AllWaiting
    /\ properties = 0
    /\ listings = [s \in Snapshots |-> None]
    /\ changes = {}
    /\ links = [p \in Pairs |-> None]
    /\ worker = [w \in Workers |-> Idle]
    /\ operator = [o \in Operators |-> OperatorIdle]

-----------------------------------------------------------------------------
(* Reads: rows ordered by captured_at, those of one instant in any order   *)

Ordered(S) ==
    {q \in SetToSeqs(S) :
        \A i, j \in 1..Len(q) : i < j => CapturedAt[q[i]] <= CapturedAt[q[j]]}

ListForRun(r) == Ordered({s \in Snapshots : RunOf[s] = r})
ListChain(s) == Ordered({t \in Listed : SameChain(s, t)})

(* Same operation (there is only rental) and neighbourhood, another chain. *)
FindDedupeCandidates(s) ==
    IF Fields[s].neighborhood = None THEN {<<>>}
    ELSE Ordered({t \in Listed : /\ ~SameChain(s, t)
                                 /\ Fields[t].neighborhood = Fields[s].neighborhood})

(* Mutant: the first candidate decides the property, matching or not.      *)
AnyCandidate(s, candidates) == DOMAIN candidates

DeterministicMatches(s, candidates) ==
    {i \in DOMAIN candidates : Evaluation[<<s, candidates[i]>>] = "deterministic"}

-----------------------------------------------------------------------------
(* The handler: process(run_id)                                            *)

Current(w) == Head(worker[w].todo)
To(w, pc) == worker' = [worker EXCEPT ![w].pc = pc]
Ended(w, outcome) ==
    /\ Jobs!RecordOutcome(w, worker[w].run, outcome)
    /\ worker' = [worker EXCEPT ![w] = Idle]
(* Any exception that the handler does not declare ends the job.           *)
Failed(w) == Ended(w, "permanent")

Begin(w, r) ==
    /\ worker[w].pc = "idle"
    /\ Jobs!Claim(w, r)
    /\ worker' = [worker EXCEPT ![w] = [Idle EXCEPT !.pc = "load", !.run = r]]
    /\ UNCHANGED <<properties, listings, changes, links, operator>>

(* The state of the import run is read once: succeeded, or running again   *)
(* when an import attempt that outlived its lease saved its own copy.      *)
(* run_not_ready cannot happen: the run is saved before the job exists.    *)
LoadRun(w) ==
    /\ worker[w].pc = "load"
    /\ \E state \in {"running", "succeeded"} :
          \/ state # "succeeded" /\ Failed(w)
          \/ /\ state = "succeeded"
             /\ \E q \in ListForRun(worker[w].run) :
                   worker' = [worker EXCEPT ![w].pc = "snapshot", ![w].todo = q]
             /\ UNCHANGED jobVars
    /\ UNCHANGED <<properties, listings, changes, links, operator>>

(* Mutant: the last snapshot is taken for done.                            *)
AllButLastDone(w) == Len(worker[w].todo) <= 1

AllDone(w) == worker[w].todo = <<>>

Skip(w) ==
    /\ worker[w].pc = "snapshot"
    /\ ~AllDone(w)
    /\ listings[Current(w)] # None
    /\ worker' = [worker EXCEPT ![w].todo = Tail(@)]
    /\ UNCHANGED <<jobVars, properties, listings, changes, links, operator>>

(* Not there: the chain is read, and its last listing by capture time, not *)
(* by insertion, is the previous one.                                      *)
ReadChain(w) ==
    /\ worker[w].pc = "snapshot"
    /\ ~AllDone(w)
    /\ listings[Current(w)] = None
    /\ \E chain \in ListChain(Current(w)) :
          LET previous == IF chain = <<>> THEN None ELSE Last(chain) IN
          worker' = [worker EXCEPT
             ![w].pc = "candidates", ![w].previous = previous,
             ![w].canonical = IF previous = None THEN None ELSE Canonical(previous)]
    /\ UNCHANGED <<jobVars, properties, listings, changes, links, operator>>

(* The property of the chain, else of the first deterministic match, else  *)
(* a new one.                                                              *)
ReadCandidates(w) ==
    /\ worker[w].pc = "candidates"
    /\ \E candidates \in FindDedupeCandidates(Current(w)) :
          LET matches == DeterministicMatches(Current(w), candidates)
              canonical == IF worker[w].canonical = None /\ matches # {}
                           THEN Canonical(candidates[Min(matches)]) ELSE worker[w].canonical
          IN  worker' = [worker EXCEPT
                 ![w].pc = IF canonical = None THEN "create" ELSE "insert",
                 ![w].candidates = candidates, ![w].canonical = canonical]
    /\ UNCHANGED <<jobVars, properties, listings, changes, links, operator>>

(* Properties are known by the order of their creation.                    *)
NewProperty == properties + 1

CreateProperty(w) ==
    /\ worker[w].pc = "create"
    /\ properties' = NewProperty
    /\ worker' = [worker EXCEPT ![w].pc = "insert", ![w].canonical = NewProperty]
    /\ UNCHANGED <<jobVars, listings, changes, links, operator>>

(* uq_silver_listings_snapshot_version, ..._source_external_captured and   *)
(* ck_silver_listings_price.                                               *)
Insertable(s) ==
    /\ Fields[s].price_value > 0
    /\ \A t \in Listed : t # s /\ (SameChain(s, t) => CapturedAt[s] # CapturedAt[t])

Inserted(s, row) == [listings EXCEPT ![s] = row]

InsertListing(w) ==
    LET s == Current(w)
        previous == worker[w].previous IN
    /\ worker[w].pc = "insert"
    /\ Insertable(s)
    /\ \E answer \in GeoAnswers \cup {None} :
          listings' = Inserted(s, NewListing(s, worker[w].canonical, answer))
    /\ worker' = [worker EXCEPT
           ![w].pc = "after", ![w].canonical = None,
           ![w].fields = IF previous = None THEN {}
                         ELSE CompareListings(Fields[previous], Fields[s])]
    /\ UNCHANGED <<jobVars, properties, changes, links, operator>>

(* Mutant: a listing that is there already is taken for this one's, and    *)
(* its links are made again.                                               *)
InsertIgnored(w) ==
    /\ worker[w].pc = "insert"
    /\ ~Insertable(Current(w))
    /\ To(w, "after")
    /\ UNCHANGED <<jobVars, properties, listings, changes, links, operator>>

InsertConflict(w) ==
    /\ worker[w].pc = "insert"
    /\ ~Insertable(Current(w))
    /\ Failed(w)
    /\ UNCHANGED <<properties, listings, changes, links, operator>>

EmitChange(w) ==
    /\ worker[w].pc = "after"
    /\ worker[w].fields # {}
    /\ LET i == Min(worker[w].fields) IN
          /\ changes' = changes \cup
                 {NewChange(Current(w), worker[w].previous, ChangeFields[i])}
          /\ worker' = [worker EXCEPT ![w].fields = @ \ {i}]
    /\ UNCHANGED <<jobVars, properties, listings, links, operator>>

PairOf(w) == {Current(w), Head(worker[w].candidates)}
Method(w) == Evaluation[<<Current(w), Head(worker[w].candidates)>>]

(* find_pair and evaluate_pair.                                            *)
PassOver(w) ==
    /\ worker[w].pc = "after" /\ worker[w].fields = {}
    /\ worker[w].candidates # <<>>
    /\ links[PairOf(w)] # None \/ Method(w) = None
    /\ worker' = [worker EXCEPT ![w].candidates = Tail(@)]
    /\ UNCHANGED <<jobVars, properties, listings, changes, links, operator>>

FoundNoPair(w) ==
    /\ worker[w].pc = "after" /\ worker[w].fields = {}
    /\ worker[w].candidates # <<>>
    /\ links[PairOf(w)] = None /\ Method(w) # None
    /\ To(w, "link")
    /\ UNCHANGED <<jobVars, properties, listings, changes, links, operator>>

InsertLink(w) ==
    /\ worker[w].pc = "link"
    /\ links[PairOf(w)] = None
    /\ links' = [links EXCEPT ![PairOf(w)] = NewLink(Method(w))]
    /\ worker' = [worker EXCEPT ![w].pc = "after", ![w].candidates = Tail(@)]
    /\ UNCHANGED <<jobVars, properties, listings, changes, operator>>

NextSnapshot(w) ==
    /\ worker[w].pc = "after" /\ worker[w].fields = {}
    /\ worker[w].candidates = <<>>
    /\ worker' = [worker EXCEPT
           ![w] = [Idle EXCEPT !.pc = "snapshot", !.run = worker[w].run,
                               !.todo = Tail(worker[w].todo)]]
    /\ UNCHANGED <<jobVars, properties, listings, changes, links, operator>>

Finished(w) ==
    /\ worker[w].pc = "snapshot"
    /\ AllDone(w)
    /\ Ended(w, "succeeded")
    /\ UNCHANGED <<properties, listings, changes, links, operator>>

(* Anything else that a transaction can raise.                             *)
HandlerError(w) ==
    /\ worker[w].pc # "idle"
    /\ Failed(w)
    /\ UNCHANGED <<properties, listings, changes, links, operator>>

WorkerCrash(w) ==
    /\ worker[w].pc # "idle"
    /\ worker' = [worker EXCEPT ![w] = Idle]
    /\ UNCHANGED <<jobVars, properties, listings, changes, links, operator>>

LeaseEnds(r) ==
    /\ phase[r] = "running"
    /\ Jobs!Lapse(r)
    /\ UNCHANGED <<properties, listings, changes, links, worker, operator>>

-----------------------------------------------------------------------------
(* _decide_link                                                            *)

(* Only a pending proposal gets as far as the save.                        *)
DecideLoad(o, p) ==
    /\ operator[o].pc = "idle"
    /\ links[p] # None
    /\ links[p].method = "proposal" /\ links[p].state = "pending"
    /\ operator' = [operator EXCEPT ![o] =
           [pc |-> "save", pair |-> p, version |-> links[p].version]]
    /\ UNCHANGED <<jobVars, properties, listings, changes, links, worker>>

SameVersion(o) == links[operator[o].pair].version = operator[o].version

DecideSave(o, state) ==
    /\ operator[o].pc = "save"
    /\ SameVersion(o)
    /\ links' = [links EXCEPT ![operator[o].pair] =
           [@ EXCEPT !.state = state, !.decided_by = o, !.version = operator[o].version + 1]]
    /\ operator' = [operator EXCEPT ![o] = OperatorIdle]
    /\ UNCHANGED <<jobVars, properties, listings, changes, worker>>

DecideConflict(o) ==
    /\ operator[o].pc = "save"
    /\ ~SameVersion(o)
    /\ operator' = [operator EXCEPT ![o] = OperatorIdle]
    /\ UNCHANGED <<jobVars, properties, listings, changes, links, worker>>

-----------------------------------------------------------------------------
WorkerStep(w) ==
    \/ \E r \in Runs : Begin(w, r)
    \/ LoadRun(w) \/ Skip(w) \/ ReadChain(w) \/ ReadCandidates(w)
    \/ CreateProperty(w) \/ InsertListing(w) \/ InsertConflict(w)
    \/ EmitChange(w) \/ PassOver(w) \/ FoundNoPair(w) \/ InsertLink(w) \/ NextSnapshot(w)
    \/ Finished(w) \/ HandlerError(w) \/ WorkerCrash(w)

OperatorStep(o) ==
    \/ \E p \in Pairs : DecideLoad(o, p)
    \/ \E state \in {"confirmed", "rejected"} : DecideSave(o, state)
    \/ DecideConflict(o)

Next ==
    \/ \E w \in Workers : WorkerStep(w)
    \/ \E o \in Operators : OperatorStep(o)
    \/ \E r \in Runs : LeaseEnds(r)

Spec == Init /\ [][Next]_vars

-----------------------------------------------------------------------------
(* Safety                                                                  *)

Related ==
    [a \in Snapshots |->
        {b \in Snapshots : SameChain(a, b) \/ SameFingerprint(Fields[a], Fields[b])}]

(* Dedupe merges only on proof: whatever the order in which runs, retries  *)
(* and overlapping attempts insert, two listings carry the same canonical  *)
(* property only if a path of same-chain and same-fingerprint listings     *)
(* joins them.  (A set of listings closed under both relations shares no   *)
(* property with the rest.)                                                *)
MergesAreJustified ==
    \A S \in SUBSET Listed :
        LET rest == Listed \ S IN
        (\A a \in S : Related[a] \cap rest = {})
            => \A a \in S, b \in rest : Canonical(a) # Canonical(b)

(* A normalisation job that ended well left no snapshot of its run behind, *)
(* whichever attempts inserted them.                                       *)
NormalizedIsComplete ==
    \A s \in Snapshots : phase[RunOf[s]] = "succeeded" => s \in Listed

(* links.insert never meets uq_dedupe_links_pair, although find_pair and   *)
(* insert are two transactions: of two listings only the later one can     *)
(* have seen the other as a candidate.                                     *)
LinksNeverCollide ==
    \A w \in Workers : worker[w].pc = "link" => links[PairOf(w)] = None

=============================================================================
