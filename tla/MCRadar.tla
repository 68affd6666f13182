------------------------------- MODULE MCRadar -------------------------------
(* An instance of Radar for TLC: a search, the same one with a smaller     *)
(* budget, and two listings, the second of which comes in later with an    *)
(* observation.                                                            *)
EXTENDS Radar

Wide == [zones |-> {"palermo"}, budget_max |-> 100, budget_min |-> None, min_rooms |-> 2,
         surface_min |-> None, surface_max |-> None,
         unknown_strategy |-> [price |-> "exclude", location |-> "exclude", rooms |-> "include"]]
Cheap == [Wide EXCEPT !.budget_max = 50]

Flat == [id |-> 1, neighborhood |-> "palermo", total_cost |-> 80, rooms |-> 2,
         surface_m2 |-> None, geo_precision |-> "exact"]
Loft == [Flat EXCEPT !.id = 2, !.total_cost = 40, !.rooms = None]

Balcony(value) == [balcon |-> [value |-> value, score |-> 10000, confidence |-> 1000]]
NoBalcony == [balcon |-> None]

MCFeeds == << [listings |-> {Flat}, observed |-> <<NoBalcony, NoBalcony>>],
              [listings |-> {Flat, Loft}, observed |-> <<Balcony("no"), Balcony("si")>>] >>

NewCriterion(key, matcher, weight, gate, params) ==
    [key |-> key, concept |-> key, matcher_type |-> matcher, weight |-> weight,
     gate |-> gate, params |-> params]

MCPolicy ==
    [version |-> 1, tie_break |-> TieBreak,
        criteria |-> << NewCriterion("presupuesto", "numeric_range", 60, None, None),
                        NewCriterion("balcon", "categorical", 40, "cap_0.6_on_mismatch",
                                  [allowed_values |-> {"si"}]) >>,
        deltas |-> {[criterion |-> "balcon", state |-> "match", delta |-> 3]}]

MCDrafts == {Wide, Cheap}

(* Edits lower the budget, one thing of the rest of the system changes in  *)
(* a behaviour, and two attempts are made.                                 *)
NewSearch ==
    \A c \in Clients : /\ client[c].trigger = "created" => client[c].search = Wide
                       /\ client[c].trigger = "edited" => client[c].search = Cheap
OneChange == feed + Cardinality(compiled) <= 2
TwoAttempts == MapThenSumSet(LAMBDA n : tries[n], VersionIds) <= 2
Symmetry == Permutations(Clients) \cup Permutations(Workers)
=============================================================================
