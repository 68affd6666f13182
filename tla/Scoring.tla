------------------------------- MODULE Scoring -------------------------------
(***************************************************************************)
(* The scoring service around the runs of one search profile: the registry *)
(* of immutable policy versions, the scoring of a run with the latest one, *)
(* the explanations and comparisons computed on demand from what the run   *)
(* froze, and the shortlist.  A registration reads the latest number and   *)
(* inserts the next one in two transactions; the unique constraint decides *)
(* between two that read the same.                                         *)
(***************************************************************************)
EXTENDS Matching, Functions

CONSTANTS
    Listings,       \* Silver listings, each with an id of its own
    ListingSets,    \* the sets of them Silver may hold when a run scores
    Observed,       \* the active observations: listing id -> concept -> observation
    Searches,       \* what the profile may hold
    Documents,      \* policy documents; those that are not valid are rejected
    Seed,           \* the policy document of the contract
    Callers,        \* concurrent requests
    MaxPolicies,    \* bound: policy versions
    MaxRuns,        \* bound: published runs
    MaxListings     \* comparison_max_listings

ListingFieldNames ==
    {"id", "neighborhood", "total_cost", "rooms", "surface_m2", "geo_precision"}

ASSUME ScoringAssumption ==
    /\ MaxPolicies \in Nat
    /\ \A l \in Listings :
          /\ DOMAIN l = ListingFieldNames
          /\ l.total_cost \in Int \cup {None}
          /\ l.geo_precision \in DOMAIN PrecisionFit
    /\ \A l, m \in Listings : l.id = m.id => l = m
    /\ \A listings \in ListingSets : listings \subseteq Listings
    /\ \A p \in Searches : p.budget_max \in Int
    /\ \A doc \in Documents \cup {Seed} :
          /\ IsFiniteSet(DOMAIN doc.criteria)
          /\ IsFiniteSet(doc.deltas)
          /\ \A i \in DOMAIN doc.criteria, l \in Listings :
                LET observation == Observed[l.id][doc.criteria[i].concept]
                IN \/ doc.criteria[i].key \in FixedCriteria
                   \/ observation = None
                   \/ observation.score \in Int

VARIABLES
    registry,       \* scoring_policy_versions, by number
    search,         \* the profile as it is now
    published,      \* the succeeded runs with their items and evaluations
    shortlist,      \* comparison_shortlists, in order of position
    calls           \* what each request holds between two transactions

scoringVars == <<registry, search, published, shortlist, calls>>

PolicyNumbers == 1..MaxPolicies

(* latest_version: the highest number, 0 if there is none.                 *)
LatestNumber == Max({0} \cup {n \in PolicyNumbers : Given(registry[n])})

ScoringInit ==
    /\ registry = [n \in PolicyNumbers |-> None]
    /\ search \in Searches
    /\ published = <<>>
    /\ shortlist = <<>>
    /\ calls = [c \in Callers |-> None]

---------------------------------------------------------------------------
(* register_policy_version: validate, read the latest number, insert.      *)

BeginRegister(c, doc) ==
    /\ calls[c] = None
    /\ ValidPolicy(doc)
    /\ LatestNumber < MaxPolicies
    /\ calls' = [calls EXCEPT ![c] = [doing |-> "register", doc |-> doc,
                                        number |-> LatestNumber + 1]]
    /\ UNCHANGED <<registry, search, published, shortlist>>

(* seed_registry registers the seed only if there is no version at all.    *)
SeedRegistry(c) == LatestNumber = 0 /\ BeginRegister(c, Seed)

(* uq_scoring_policy_versions_policy_version                               *)
NumberIsFree(n) == registry[n] = None

InsertPolicyVersion(c) ==
    /\ calls[c] # None
    /\ calls[c].doing = "register"
    /\ registry' = IF NumberIsFree(calls[c].number)
                   THEN [registry EXCEPT ![calls[c].number] = calls[c].doc]
                   ELSE registry
    /\ calls' = [calls EXCEPT ![c] = None]
    /\ UNCHANGED <<search, published, shortlist>>

---------------------------------------------------------------------------
(* A run: the candidates are what the SQL query returns now, the policy is *)
(* the latest one.  Without a compilation the baseline scores.             *)

(* The evaluations frozen with the items: none for an excluded candidate.  *)
EvaluationsOf(doc, p, narrowed) ==
    LET evals == [l \in Candidates(p, narrowed) |-> Evaluations(doc, p, l, Observed[l.id])]
    IN Restrict(evals, {l \in DOMAIN evals : ~Excluded(evals[l])})

PublishPolicyRun(narrowed) ==
    /\ LatestNumber > 0
    /\ Len(published) < MaxRuns
    /\ LET doc == registry[LatestNumber]
           evals == EvaluationsOf(doc, search, narrowed)
       IN \E items \in PolicyItems(doc, search, narrowed, Observed) :
             published' = Append(published,
                [profile |-> search, policy |-> doc, items |-> items,
                 evaluations |-> [id \in {l.id : l \in DOMAIN evals} |->
                                    evals[CHOOSE l \in DOMAIN evals : l.id = id]]])
    /\ UNCHANGED <<registry, search, shortlist, calls>>

PublishBaselineRun(narrowed) ==
    /\ Len(published) < MaxRuns
    /\ \E items \in BaselineItems(search, narrowed) :
          published' = Append(published,
             [profile |-> search, policy |-> None, items |-> items, evaluations |-> <<>>])
    /\ UNCHANGED <<registry, search, shortlist, calls>>

EditProfile(p) ==
    /\ ValidProfile(p)
    /\ p # search
    /\ search' = p
    /\ UNCHANGED <<registry, published, shortlist, calls>>

---------------------------------------------------------------------------
(* Reads of a published run.                                               *)

LatestRun == published[Len(published)]
ListingIds(run) == {run.items[i].id : i \in DOMAIN run.items}

(* for_run_and_listings: a listing without evaluation rows has none.       *)
EvaluationsFor(run, id) ==
    IF id \in DOMAIN run.evaluations THEN run.evaluations[id] ELSE <<>>

(* latest_policy_document: an empty registry is seeded first, which are    *)
(* the steps SeedRegistry and InsertPolicyVersion.                         *)
LatestDocument == registry[LatestNumber]

(* get_explanation and list_explanations: the frozen evaluations, with the *)
(* latest policy and the profile as it is now.                             *)
GetExplanation(run, id) == Explanation(LatestDocument, search, EvaluationsFor(run, id))

Comparable(ids) ==
    /\ Cardinality(ids) \in 2..MaxListings
    /\ ids \subseteq ListingIds(LatestRun)

(* build_comparison checks the requested listings and shows the items of   *)
(* the run; only the requested listings are looked up in Silver.           *)
BuildComparison(c, ids) ==
    LET listing(id) == IF id \in ids THEN CHOOSE l \in Listings : l.id = id ELSE None
        looked == [id \in ids |-> EvaluationsFor(LatestRun, id)]
        evals(id) == IF id \in ids THEN looked[id] ELSE <<>>
    IN
    /\ calls[c] = None
    /\ published # <<>>
    /\ LatestNumber > 0
    /\ Comparable(ids)
    /\ calls' = [calls EXCEPT ![c] =
         [doing |-> "compare",
          rows |-> [id \in ListingIds(LatestRun) |->
                      [d \in Dimensions(LatestDocument) |-> Cell(listing(id), evals(id), d)]]]]
    /\ UNCHANGED <<registry, search, published, shortlist>>

(* The comparison is sent to the user.                                     *)
Respond(c) ==
    /\ calls[c] # None
    /\ calls[c].doing = "compare"
    /\ calls' = [calls EXCEPT ![c] = None]
    /\ UNCHANGED <<registry, search, published, shortlist>>

---------------------------------------------------------------------------
(* set_shortlist checks the listings against the latest run and replaces   *)
(* the rows in a second transaction.                                       *)

(* Mutant of Offered: any listing of Silver will do.                       *)
AnyListing(ids) == TRUE

Offered(ids) == ToSet(ids) \subseteq ListingIds(LatestRun)

BeginShortlist(c, ids) ==
    /\ calls[c] = None
    /\ published # <<>>
    /\ Len(ids) <= MaxListings
    /\ Offered(ids)
    /\ calls' = [calls EXCEPT ![c] = [doing |-> "shortlist", ids |-> ids]]
    /\ UNCHANGED <<registry, search, published, shortlist>>

(* The rows of the profile are deleted and inserted.  A listing twice      *)
(* violates uq_comparison_shortlists_profile_listing, and a replacement    *)
(* whose delete did not see the rows of one beside it violates             *)
(* uq_comparison_shortlists_profile_position, or has none to insert.       *)
ReplaceShortlist(c) ==
    /\ calls[c] # None
    /\ calls[c].doing = "shortlist"
    /\ \/ IsInjective(calls[c].ids) /\ shortlist' = calls[c].ids
       \/ UNCHANGED shortlist
    /\ calls' = [calls EXCEPT ![c] = None]
    /\ UNCHANGED <<registry, search, published>>

---------------------------------------------------------------------------
Ids == {l.id : l \in Listings}

ScoringNext ==
    \/ \E c \in Callers :
          \/ \E doc \in Documents : BeginRegister(c, doc)
          \/ SeedRegistry(c)
          \/ InsertPolicyVersion(c)
          \/ \E n \in 0..MaxListings : \E ids \in [1..n -> Ids] : BeginShortlist(c, ids)
          \/ ReplaceShortlist(c)
          \/ \E ids \in SUBSET Ids : BuildComparison(c, ids)
          \/ Respond(c)
    \/ \E narrowed \in ListingSets : PublishPolicyRun(narrowed) \/ PublishBaselineRun(narrowed)
    \/ \E p \in Searches : EditProfile(p)

ScoringSpec == ScoringInit /\ [][ScoringNext]_scoringVars

---------------------------------------------------------------------------
(* A policy whose tie_break names the cost, or the baseline.               *)
OrdersByCost(run) == run.policy = None \/ run.policy.tie_break = TieBreak

Similar(l, m) == [l EXCEPT !.id = m.id, !.total_cost = m.total_cost] = m

(* Of two listings of a run that differ only in the cost, and about which  *)
(* the same was observed, the cheaper one is never ranked below the other: *)
(* neither the gates that cap a score (and so make ties), nor the deltas,  *)
(* nor the rounding of score_candidates turn the order around.             *)
CheaperRanksFirst ==
    \A r \in DOMAIN published : \A i, j \in DOMAIN published[r].items :
        LET run == published[r]
            cheap == CHOOSE l \in Listings : l.id = run.items[i].id
            dear == CHOOSE l \in Listings : l.id = run.items[j].id
        IN (/\ OrdersByCost(run)
            /\ Similar(cheap, dear)
            /\ Observed[cheap.id] = Observed[dear.id]
            /\ cheap.total_cost < dear.total_cost) => i < j

(* What the profile's unknown_strategy may be: with any of them, the SQL   *)
(* narrowing and the hard filters together let no listing above the budget *)
(* of the profile the run was made for into the published items.           *)
BudgetIsRespected ==
    \A r \in DOMAIN published : \A i \in DOMAIN published[r].items :
        published[r].items[i].total_cost \in 1..published[r].profile.budget_max

(* build_explanation makes no claim without evidence (SC-007), and no      *)
(* criterion of the policy that scored the run is passed over in silence:  *)
(* it is a reason or missing data.                                         *)
ReasonsHaveEvidence ==
    LatestNumber > 0 =>
        \A r \in DOMAIN published : \A id \in ListingIds(published[r]) :
            LET run == published[r]
                explanation == GetExplanation(run, id)
            IN /\ \A reason \in explanation.reasons : reason.evidence_refs # {}
               /\ run.policy # None =>
                     {run.policy.criteria[i].key : i \in DOMAIN run.policy.criteria}
                       = {reason.criterion : reason \in explanation.reasons}
                         \cup explanation.missing_data

(* set_shortlist admits only listings the radar published, though the run  *)
(* it checked may no longer be the latest when the rows are replaced.      *)
ShortlistWasOffered ==
    \A i \in DOMAIN shortlist : \E r \in DOMAIN published :
        shortlist[i] \in ListingIds(published[r])

=============================================================================
