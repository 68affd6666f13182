------------------------------ MODULE Matching -------------------------------
(***************************************************************************)
(* The pure rules a recommendation run applies to one search profile and   *)
(* the Silver listings: validation of the profile, the SQL narrowing, the  *)
(* hard filters, the baseline score, the policy score with its evaluators, *)
(* the order of publication, and the explanation of one item.              *)
(*                                                                         *)
(* Scores are integers in units of 1/Unit (the code rounds them to four    *)
(* decimals), weights and deltas in hundredths, confidences in             *)
(* thousandths, so that every sum of the code is exact.  Neighbourhoods    *)
(* are compared casefolded; a name of the model is the folded one.         *)
(***************************************************************************)
EXTENDS Integers, Sequences, FiniteSets, FiniteSetsExt, SequencesExt

CONSTANTS
    Neighborhoods,  \* the CABA zones of the search profile contract
    None            \* SQL NULL

Unit == 10000

Given(v) == v # None
Clamp(x, low, high) == IF x < low THEN low ELSE IF x > high THEN high ELSE x
(* round: numerator n over d, to the nearest integer.                      *)
Rounded(n, d) == (2 * n + d) \div (2 * d)

---------------------------------------------------------------------------
(* The search profile: validate_profile, the check constraints of its row, *)
(* and the transitions of its status.                                      *)

States == {"active", "paused", "archived"}

ValidProfile(p) ==
    /\ p.zones # {}
    /\ Cardinality(p.zones) <= 15
    /\ p.zones \subseteq Neighborhoods
    /\ p.budget_max > 0
    /\ Given(p.budget_min) => p.budget_min < p.budget_max
    /\ p.min_rooms \in 0..200
    /\ Given(p.surface_min) /\ Given(p.surface_max) => p.surface_max > p.surface_min

RowAccepted(p) ==
    /\ p.budget_max > 0
    /\ Given(p.budget_min) => p.budget_min < p.budget_max
    /\ Given(p.surface_min) => p.surface_min >= 0
    /\ Given(p.surface_min) /\ Given(p.surface_max) => p.surface_max > p.surface_min
    /\ p.min_rooms \in 0..200

CanTransition(from, to) ==
    to \in CASE from = "active" -> {"paused", "archived"}
             [] from = "paused" -> {"active", "archived"}
             [] from = "archived" -> {}

---------------------------------------------------------------------------
(* Which listings are candidates: the SQL query, and the hard filters on   *)
(* what it returns.                                                        *)

Excludes(p, filter) == p.unknown_strategy[filter] = "exclude"

(* Mutant of Narrowed: the query leaves the price to the hard filters.     *)
PriceNotNarrowed(p, l) ==
    /\ Given(l.total_cost)
    /\ Excludes(p, "location") => l.neighborhood \in p.zones
    /\ p.min_rooms > 0 => ~Given(l.rooms) \/ l.rooms >= p.min_rooms

Narrowed(p, l) ==
    /\ Given(l.total_cost) /\ l.total_cost > 0 /\ l.total_cost <= p.budget_max
    /\ Excludes(p, "location") => l.neighborhood \in p.zones
    /\ p.min_rooms > 0 => ~Given(l.rooms) \/ l.rooms >= p.min_rooms

ApplyHardFilters(p, l) ==
    /\ Excludes(p, "price") =>
          Given(l.total_cost) /\ l.total_cost > 0 /\ l.total_cost <= p.budget_max
    /\ Excludes(p, "location") => l.neighborhood \in p.zones
    /\ p.min_rooms > 0 =>
          IF Given(l.rooms) THEN l.rooms >= p.min_rooms ELSE ~Excludes(p, "rooms")

Candidates(p, listings) ==
    {l \in listings : Narrowed(p, l) /\ ApplyHardFilters(p, l)}

---------------------------------------------------------------------------
(* The baseline score, rounded once; the policy's evaluator rounds the fit *)
(* of the budget itself.                                                   *)

PrecisionFit ==
    [exact |-> 10000, block |-> 9500, neighborhood |-> 9000,
     approximate |-> 7000, unknown |-> 5000]

Headroom(p, l) == Clamp(p.budget_max - l.total_cost, 0, p.budget_max)
BudgetFit(p, l) == Rounded(Unit * Headroom(p, l), p.budget_max)

RoomsFit(p, l) ==
    IF p.min_rooms = 0 THEN 10000
    ELSE IF ~Given(l.rooms) THEN 5000
    ELSE IF l.rooms = p.min_rooms THEN 10000 ELSE 8500

Unbounded(p) == ~Given(p.surface_min) /\ ~Given(p.surface_max)
TooSmall(p, l) == Given(p.surface_min) /\ l.surface_m2 < p.surface_min

(* Above surface_max the fit is 0.8 until one and a half times of it.      *)
SurfaceFit(p, l) ==
    IF Unbounded(p) THEN 10000
    ELSE IF ~Given(l.surface_m2) THEN 5000
    ELSE IF TooSmall(p, l) THEN 5000
    ELSE IF ~Given(p.surface_max) \/ l.surface_m2 <= p.surface_max THEN 10000
    ELSE IF 2 * l.surface_m2 <= 3 * p.surface_max THEN 8000 ELSE 6000

ComputeScore(p, l) ==
    Rounded(40 * Unit * Headroom(p, l)
              + 20 * p.budget_max * (RoomsFit(p, l) + SurfaceFit(p, l)
                                       + PrecisionFit[l.geo_precision]),
            100 * p.budget_max)

---------------------------------------------------------------------------
(* The policy document: criteria (key, concept, matcher, weight, params,   *)
(* gate), bonuses and penalties.                                           *)

FixedCriteria == {"presupuesto", "ambientes", "superficie", "ubicacion"}
Gates == {None, "cap_0.6_on_mismatch", "cap_0.6_on_unknown", "exclude_on_mismatch"}
TieBreak == <<"score", "total_cost_asc", "listing_id_asc">>

(* parse_policy_document: weights that normalise, one criterion for a key, *)
(* supported gates, and no delta on a criterion that is not there.         *)
ValidPolicy(doc) ==
    LET keys == {doc.criteria[i].key : i \in DOMAIN doc.criteria} IN
    /\ doc.criteria # <<>>
    /\ Cardinality(keys) = Len(doc.criteria)
    /\ \A i \in DOMAIN doc.criteria :
          doc.criteria[i].weight \in 0..100 /\ doc.criteria[i].gate \in Gates
    /\ FoldSeq(LAMBDA c, sum : c.weight + sum, 0, doc.criteria) = 100
    /\ \A d \in doc.deltas : d.criterion \in keys /\ d.delta \in -20..20
    /\ Head(doc.tie_break) = "score"
    /\ ToSet(doc.tie_break) \subseteq ToSet(TieBreak)

(* The shared output contract of the evaluators.                           *)
Result(score, confidence, state) ==
    [score |-> score, confidence |-> confidence, state |-> state]
NoData == Result(0, 0, "unknown")

EvaluateNumericRange(value, params) ==
    IF ~Given(value) THEN NoData
    ELSE IF Given(params.min) /\ value < params.min THEN Result(0, 1000, "mismatch")
    ELSE IF Given(params.max) /\ value > params.max THEN Result(7000, 1000, "match")
    ELSE Result(10000, 1000, "match")

EvaluateCategorical(value, params) ==
    IF ~Given(value) THEN NoData
    ELSE IF value \in params.allowed_values THEN Result(10000, 1000, "match")
    ELSE Result(0, 1000, "mismatch")

EvaluateSemanticFeature(observation, params) ==
    Result(observation.score, observation.confidence,
           IF observation.score >= params.threshold THEN "match" ELSE "mismatch")

EvaluateGeoProximity(in_zone, precision) ==
    LET confidence == PrecisionFit[precision] \div 10
    IN IF in_zone THEN Result(10000, confidence, "match")
                  ELSE Result(3000, confidence, "mismatch")

EvaluateBudget(p, l) ==
    IF ~Given(l.total_cost) THEN NoData
    ELSE IF l.total_cost > p.budget_max THEN Result(0, 1000, "mismatch")
    ELSE Result(BudgetFit(p, l), 1000, "match")

EvaluateFixedCriterion(key, p, l) ==
    CASE key = "presupuesto" -> EvaluateBudget(p, l)
      [] key = "ambientes" ->
            IF p.min_rooms > 0 /\ ~Given(l.rooms) THEN Result(5000, 0, "unknown")
            ELSE Result(RoomsFit(p, l), 1000, "match")
      [] key = "superficie" ->
            IF ~Unbounded(p) /\ ~Given(l.surface_m2) THEN Result(5000, 0, "unknown")
            ELSE IF ~Unbounded(p) /\ TooSmall(p, l) THEN Result(5000, 1000, "mismatch")
            ELSE Result(SurfaceFit(p, l), 1000, "match")
      [] key = "ubicacion" -> EvaluateGeoProximity(l.neighborhood \in p.zones, l.geo_precision)

EvaluateObservation(criterion, observation) ==
    CASE criterion.matcher_type = "numeric_range" ->
            EvaluateNumericRange(observation.value, criterion.params)
      [] criterion.matcher_type = "categorical" ->
            EvaluateCategorical(observation.value, criterion.params)
      [] criterion.matcher_type = "semantic_feature" ->
            EvaluateSemanticFeature(observation, criterion.params)
      [] OTHER -> EvaluateGeoProximity(FALSE, "unknown")

(* Mutant of MissingObservation: no data counts against the listing.       *)
MissingIsMismatch == Result(0, 0, "mismatch")

(* A criterion without an observation is unknown.                          *)
MissingObservation == NoData

(* The row of criterion_evaluations, which cites what it was computed from.*)
Evaluation(criterion, result, refs) ==
    [criterion_key |-> criterion.key, gate |-> criterion.gate, score |-> result.score,
     confidence |-> result.confidence, state |-> result.state,
     contribution |-> criterion.weight * result.score, evidence_refs |-> refs]

EvaluateCriterion(criterion, p, l, observed) ==
    LET observation == observed[criterion.concept] IN
    IF criterion.key \in FixedCriteria
    THEN Evaluation(criterion, EvaluateFixedCriterion(criterion.key, p, l), {criterion.key})
    ELSE IF ~Given(observation) THEN Evaluation(criterion, MissingObservation, {})
    ELSE Evaluation(criterion, EvaluateObservation(criterion, observation), {observation})

Evaluations(doc, p, l, observed) ==
    [i \in DOMAIN doc.criteria |-> EvaluateCriterion(doc.criteria[i], p, l, observed)]

---------------------------------------------------------------------------
(* score_candidates.  The total is in units of 1/(100 * Unit).             *)

InState(evals, key, state) ==
    \E i \in DOMAIN evals : evals[i].criterion_key = key /\ evals[i].state = state

GateFires(evals, gate, state) ==
    \E i \in DOMAIN evals : evals[i].gate = gate /\ evals[i].state = state

Excluded(evals) == GateFires(evals, "exclude_on_mismatch", "mismatch")

WithDeltas(doc, evals) ==
    LET fired == {d \in doc.deltas : InState(evals, d.criterion, d.state)}
    IN SumFunction([i \in DOMAIN evals |-> evals[i].contribution])
         + Unit * SumFunction([d \in fired |-> d.delta])

Capped(evals, total) ==
    IF (\/ GateFires(evals, "cap_0.6_on_mismatch", "mismatch")
        \/ GateFires(evals, "cap_0.6_on_unknown", "unknown"))
    THEN Min({total, 60 * Unit}) ELSE total

PolicyScore(doc, evals) ==
    Rounded(Clamp(Capped(evals, WithDeltas(doc, evals)), 0, 100 * Unit), 100)

Confidence(evals) ==
    LET unknown == Cardinality({i \in DOMAIN evals : evals[i].state = "unknown"})
        sum == SumFunction([i \in DOMAIN evals |-> evals[i].confidence])
    IN IF evals = <<>> THEN 0
       ELSE Clamp(Rounded(sum - 200 * unknown * Len(evals), Len(evals)), 0, 1000)

(* Mutant of Before: ties go by the id alone.                              *)
IdBreaksTies(a, b) == a.score > b.score \/ (a.score = b.score /\ a.id < b.id)

(* The order of publication: score, then the cheaper, then the id; with    *)
(* any other tie_break than the full one the cost is left out.             *)
Before(a, b) ==
    \/ a.score > b.score
    \/ a.score = b.score /\ a.total_cost < b.total_cost
    \/ a.score = b.score /\ a.total_cost = b.total_cost /\ a.id < b.id

BeforeById(a, b) == a.score > b.score \/ (a.score = b.score /\ a.id < b.id)

BaselineScored(p, listings) ==
    {[id |-> l.id, score |-> ComputeScore(p, l), total_cost |-> l.total_cost]
        : l \in Candidates(p, listings)}

PolicyScored(doc, p, listings, observed) ==
    LET evals == [l \in Candidates(p, listings) |-> Evaluations(doc, p, l, observed[l.id])]
    IN {[id |-> l.id, score |-> PolicyScore(doc, evals[l]), total_cost |-> l.total_cost]
          : l \in {c \in DOMAIN evals : ~Excluded(evals[c])}}

PolicyBefore(doc, a, b) ==
    IF doc.tie_break = TieBreak THEN Before(a, b) ELSE BeforeById(a, b)

(* The lists that a sort may return, of which there is one when the ids    *)
(* are different.                                                          *)
Lists(items) == [1..Cardinality(items) -> items]

BaselineItems(p, listings) ==
    {s \in Lists(BaselineScored(p, listings)) :
        \A i, j \in DOMAIN s : i < j => Before(s[i], s[j])}

PolicyItems(doc, p, listings, observed) ==
    {s \in Lists(PolicyScored(doc, p, listings, observed)) :
        \A i, j \in DOMAIN s : i < j => PolicyBefore(doc, s[i], s[j])}

---------------------------------------------------------------------------
(* build_explanation: reasons for what is known, risks for what is unknown *)
(* or weakly known, and the missing data.                                  *)

EvidenceLevel(confidence) ==
    IF confidence >= 800 THEN "strong" ELSE IF confidence >= 500 THEN "medium" ELSE "low"

Missing(evals) ==
    {evals[i].criterion_key : i \in {k \in DOMAIN evals : evals[k].state = "unknown"}}

Reasons(evals) ==
    {[criterion |-> evals[i].criterion_key, state |-> evals[i].state,
      level |-> EvidenceLevel(evals[i].confidence),
      contribution |-> evals[i].contribution, evidence_refs |-> evals[i].evidence_refs]
        : i \in {k \in DOMAIN evals : evals[k].state # "unknown"}}

Risks(evals) ==
    {[criterion |-> evals[i].criterion_key, state |-> evals[i].state]
        : i \in {k \in DOMAIN evals : evals[k].state = "unknown" \/ evals[k].confidence < 500}}

SatisfiedFilters(p) ==
    {"budget_max", "zones"} \cup (IF p.min_rooms > 0 THEN {"min_rooms"} ELSE {})
    \cup (IF Given(p.surface_min) \/ Given(p.surface_max) THEN {"surface"} ELSE {})

Explanation(doc, p, evals) ==
    [score_version |-> doc.version, confidence |-> Confidence(evals),
     reasons |-> Reasons(evals), risks |-> Risks(evals),
     missing_data |-> Missing(evals), satisfied_filters |-> SatisfiedFilters(p)]

---------------------------------------------------------------------------
(* build_comparison: one row for an item of the run, one cell for each     *)
(* dimension; what is not known is shown as missing.                       *)

ListingFields == {"total_cost", "surface_m2", "rooms"}

Dimensions(doc) ==
    ListingFields \cup {"location", "score"}
    \cup ({doc.criteria[i].key : i \in DOMAIN doc.criteria} \ FixedCriteria)

(* The state of a cell; l is None for a listing that was not looked up.    *)
Cell(l, evals, dimension) ==
    CASE dimension = "score" -> "match"
      [] dimension = "location" -> IF Given(l) THEN "match" ELSE "unknown"
      [] dimension \in ListingFields ->
            IF l # None /\ l[dimension] # None THEN "match" ELSE "unknown"
      [] OTHER ->
            IF \E i \in DOMAIN evals : evals[i].criterion_key = dimension
            THEN evals[CHOOSE i \in DOMAIN evals : evals[i].criterion_key = dimension].state
            ELSE "unknown"
=============================================================================
