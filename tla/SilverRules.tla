----------------------------- MODULE SilverRules -----------------------------
(***************************************************************************)
(* The pure rules of Silver: normalize_snapshot, compare_listings, the     *)
(* clamp on geocoding, and the pair evaluation of dedupe-policy-v1.        *)
(*                                                                         *)
(* A payload carries the fields that the rules tell apart.  Prices and     *)
(* surfaces are whole numbers, an address is its set of word tokens, and a *)
(* neighbourhood is a pair of its name and its inner spacing: the          *)
(* fingerprint forgets the spacing, the SQL query for candidates does not. *)
(***************************************************************************)
EXTENDS Integers, Sequences, FiniteSets, FiniteSetsExt

CONSTANT None

-----------------------------------------------------------------------------
(* normalize_snapshot                                                      *)

(* None stands for a value that is absent or does not parse.               *)
Given(x) == x # None

Currencies == {"ARS", "USD"}
PropertyTypes == {"apartment", "house", "room", "studio", "commercial", "other"}

AsCurrency(x) == IF x \in Currencies THEN x ELSE None
AsPropertyType(x) == IF x \in PropertyTypes THEN x ELSE "other"

(* The ranges of the contract; a value outside is dropped, never clamped.  *)
Ranges == [surface_m2 |-> 1..1000000, rooms |-> 0..200, bedrooms |-> 0..100,
           floor |-> -10..1000]

InRange(x, field) == IF Given(x) /\ x \in Ranges[field] THEN x ELSE None
AtLeast(x, lo) == IF Given(x) /\ x >= lo THEN x ELSE None

(* A missing or non-positive price becomes 0, which the table refuses.     *)
PriceValue(p) == IF Given(AtLeast(p.price, 1)) THEN p.price ELSE 0
PriceCurrency(p) == IF Given(AsCurrency(p.currency)) THEN p.currency ELSE "ARS"

ExpensesCurrency(p) ==
    IF Given(AsCurrency(p.expenses_currency)) THEN p.expenses_currency
    ELSE PriceCurrency(p)

(* Expenses in another currency than the price are not added to anything.  *)
ExpensesValue(p) ==
    IF ExpensesCurrency(p) = PriceCurrency(p) THEN AtLeast(p.expenses, 0) ELSE None

TotalCost(p) ==
    PriceValue(p) + (IF Given(ExpensesValue(p)) THEN ExpensesValue(p) ELSE 0)

AssignLocation(p) ==
    IF p.coordinates
    THEN IF p.address # {} THEN "exact" ELSE "block"
    ELSE IF Given(p.neighborhood) THEN "neighborhood" ELSE "unknown"

NormalizeSnapshot(p) ==
    [property_type     |-> AsPropertyType(p.property_type),
     price_value       |-> PriceValue(p),
     price_currency    |-> PriceCurrency(p),
     expenses_value    |-> ExpensesValue(p),
     expenses_currency |-> ExpensesCurrency(p),
     total_cost        |-> TotalCost(p),
     surface_m2        |-> InRange(p.surface_m2, "surface_m2"),
     rooms             |-> InRange(p.rooms, "rooms"),
     bedrooms          |-> InRange(p.bedrooms, "bedrooms"),
     floor             |-> InRange(p.floor, "floor"),
     location_text     |-> p.address,
     neighborhood      |-> p.neighborhood,
     geometry          |-> p.coordinates,
     geo_precision     |-> AssignLocation(p)]

-----------------------------------------------------------------------------
(* _maybe_geocode                                                          *)

Precisions == {"unknown", "approximate", "neighborhood", "block", "exact"}

PrecisionOrder(p) ==
    CASE p = "unknown" -> 0 [] p = "approximate" -> 1 [] p = "neighborhood" -> 2
      [] p = "block" -> 3 [] p = "exact" -> 4

MaxPrecision(f) ==
    IF Given(f.neighborhood) /\ f.location_text = {} THEN "neighborhood" ELSE "block"

(* Only a listing without coordinates and with something to look up.       *)
Geocodable(f) ==
    /\ ~f.geometry
    /\ f.geo_precision \in {"neighborhood", "unknown"}
    /\ f.location_text # {} \/ Given(f.neighborhood)

ClampPrecision(f, p) ==
    IF PrecisionOrder(p) > PrecisionOrder(MaxPrecision(f)) THEN MaxPrecision(f) ELSE p

(* The precision after the geocoder answered with a point of precision     *)
(* answer, or with no point.                                               *)
MaybeGeocode(f, answer) ==
    IF Geocodable(f) /\ Given(answer) THEN ClampPrecision(f, answer)
    ELSE f.geo_precision

-----------------------------------------------------------------------------
(* compare_listings: the fields of the contract's change_fields, in order, *)
(* and the positions of those that differ                                  *)

ChangeFields ==
    <<"price_value", "price_currency", "expenses_value", "expenses_currency",
      "total_cost", "location_text", "neighborhood", "property_type",
      "surface_m2", "rooms", "bedrooms", "floor">>

CompareListings(previous, current) ==
    {i \in 1..Len(ChangeFields) : previous[ChangeFields[i]] # current[ChangeFields[i]]}

-----------------------------------------------------------------------------
(* evaluate_pair                                                           *)

(* casefold and split-join: the spacing is gone.                           *)
FoldedName(n) == IF Given(n) THEN n[1] ELSE None

StrongFields(f) ==
    <<f.property_type, f.price_value, f.price_currency, f.surface_m2, f.rooms,
      f.bedrooms, FoldedName(f.neighborhood)>>

MissingStrong(f) == \E i \in 1..Len(StrongFields(f)) : ~Given(StrongFields(f)[i])

(* SHA-256 of the tuple is the tuple itself.                               *)
SameFingerprint(f, g) ==
    ~MissingStrong(f) /\ ~MissingStrong(g) /\ StrongFields(f) = StrongFields(g)

(* Scores are in units of 0.0001, rounded, and None when the dimension     *)
(* cannot be compared.                                                     *)
Unit == 10000

Distance(x, y) ==
    LET lo == IF x < y THEN x ELSE y
        hi == IF x < y THEN y ELSE x
    IN  Unit - (2 * Unit * lo + hi) \div (2 * hi)

Jaccard(a, b) ==
    IF a \cup b = {} THEN None
    ELSE (Unit * Cardinality(a \cap b)) \div Cardinality(a \cup b)

PriceScore(f, g) ==
    IF f.price_currency = g.price_currency /\ f.price_value > 0 /\ g.price_value > 0
    THEN Distance(f.price_value, g.price_value) ELSE None

SurfaceScore(f, g) ==
    IF Given(f.surface_m2) /\ Given(g.surface_m2)
    THEN Distance(f.surface_m2, g.surface_m2) ELSE None

RoomsScore(f, g) ==
    IF ~Given(f.rooms) \/ ~Given(g.rooms) THEN None
    ELSE CASE f.rooms = g.rooms -> Unit
           [] f.rooms - g.rooms \in {-1, 1} -> Unit \div 2
           [] OTHER -> 0

(* The proposal rules of the policy document, in tenths.                   *)
Proposal ==
    [threshold |-> 6,
     weights   |-> [address_tokens |-> 5, price |-> 2, surface |-> 2, rooms |-> 1]]

DimensionScore(f, g) ==
    [address_tokens |-> Jaccard(f.location_text, g.location_text),
     price          |-> PriceScore(f, g),
     surface        |-> SurfaceScore(f, g),
     rooms          |-> RoomsScore(f, g)]

(* The weighted mean of the comparable dimensions reaches the threshold.   *)
ReachesThreshold(f, g) ==
    LET score == DimensionScore(f, g)
        comparable == {d \in DOMAIN Proposal.weights : Given(score[d])}
        weights == MapThenSumSet(LAMBDA d : Proposal.weights[d], comparable)
        total == MapThenSumSet(LAMBDA d : Proposal.weights[d] * score[d], comparable)
    IN  comparable # {} /\ 10 * total >= Proposal.threshold * Unit * weights

(* The method of the link between listings of two chains, or None.         *)
EvaluatePair(f, g) ==
    CASE SameFingerprint(f, g) -> "deterministic"
      [] MissingStrong(f) \/ MissingStrong(g) -> None
      [] ~SameFingerprint(f, g) /\ ~MissingStrong(f) /\ ~MissingStrong(g) ->
            IF ReachesThreshold(f, g) THEN "proposal" ELSE None

LinkState(method) == IF method = "deterministic" THEN "confirmed" ELSE "pending"
=============================================================================
