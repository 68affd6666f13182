------------------------------ MODULE MCScoring ------------------------------
(* An instance of Scoring for TLC: two flats that differ in the cost, the  *)
(* dearer with the smaller id, and a studio above the budget of which      *)
(* little is known; a policy whose gates cap scores into ties, one that    *)
(* excludes and breaks ties by id, and one that does not validate.         *)
EXTENDS Scoring

Wide == [zones |-> {"palermo"}, budget_max |-> 100, budget_min |-> None, min_rooms |-> 2,
         surface_min |-> 30, surface_max |-> 60,
         unknown_strategy |-> [price |-> "exclude", location |-> "exclude", rooms |-> "include"]]
Lax == [Wide EXCEPT !.min_rooms = 0, !.surface_min = None, !.surface_max = None,
        !.unknown_strategy = [price |-> "include", location |-> "include", rooms |-> "exclude"]]

Dear == [id |-> 1, neighborhood |-> "palermo", total_cost |-> 80, rooms |-> 2,
         surface_m2 |-> 70, geo_precision |-> "exact"]
Cheap == [Dear EXCEPT !.id = 2, !.total_cost = 79]
Studio == [id |-> 3, neighborhood |-> "recoleta", total_cost |-> 120, rooms |-> None,
           surface_m2 |-> None, geo_precision |-> "approximate"]
Attic == [Studio EXCEPT !.id = 4, !.total_cost = 60]
MCListings == {Dear, Cheap, Studio, Attic}
MCListingSets == {{Dear, Cheap, Studio}, {Dear, Cheap, Attic}}

Seen(value) == [value |-> value, score |-> 0, confidence |-> 400]
MCObserved == [id \in 1..4 |-> IF id \in 1..2 THEN [balcon |-> Seen("no"), luz |-> None]
                                              ELSE [balcon |-> None, luz |-> Seen("si")]]

NewCriterion(key, matcher, weight, gate, params) ==
    [key |-> key, concept |-> key, matcher_type |-> matcher, weight |-> weight,
     gate |-> gate, params |-> params]

MCSeed ==
    [version |-> 1, tie_break |-> TieBreak,
        criteria |-> << NewCriterion("presupuesto", "numeric_range", 10, None, None),
                        NewCriterion("ambientes", "numeric_range", 30, None, None),
                        NewCriterion("superficie", "numeric_range", 10, None, None),
                        NewCriterion("ubicacion", "geo_proximity", 30, None, None),
                        NewCriterion("balcon", "categorical", 10, "cap_0.6_on_mismatch",
                                  [allowed_values |-> {"si"}]),
                        NewCriterion("luz", "semantic_feature", 10, "cap_0.6_on_unknown",
                                  [threshold |-> 5000]) >>,
        deltas |-> {[criterion |-> "balcon", state |-> "match", delta |-> 3]}]
Strict ==
    [MCSeed EXCEPT !.version = 2, !.tie_break = <<"score", "listing_id_asc">>,
                   !.criteria[5].gate = "exclude_on_mismatch"]
Unnormalised == [MCSeed EXCEPT !.criteria[1].weight = 90]

MCDocuments == {Strict, Unnormalised}
MCSearches == {Wide, Lax}
Symmetry == Permutations(Callers)
=============================================================================
