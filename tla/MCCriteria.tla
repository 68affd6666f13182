----------------------------- MODULE MCCriteria -----------------------------
(* An instance of Criteria for TLC: three concepts by rule and one by      *)
(* model, two listings, and workers of two releases.                       *)
EXTENDS Criteria

Says(phrase, n) == [says |-> phrase, n |-> n]

(* The first text denies and mentions, and disagrees with the fields; the  *)
(* second says next to nothing.                                            *)
MCListings == <<
    [description_text |-> <<Says("no tiene balcon", None), Says("cocina separada", None),
                            Says("ambientes", "3"), Says("sin cocina", None)>>,
     amenities |-> {"balcon"}, rooms |-> "2", floor |-> None, normalizer |-> "silver-v1"],
    [description_text |-> <<Says("integrada", None)>>, amenities |-> {"balcon"},
     rooms |-> "1", floor |-> None, normalizer |-> "silver-v1"] >>

Answer(value, evidence) == [value |-> value, evidence |-> evidence, confidence |-> 8]
MCAnswers == { <<None, Answer("alta", TRUE)>>, <<Answer("alta", FALSE), None>> }

ScopeTo(kind, key) == [kind |-> kind, key |-> key]
WorkOn(kind, scope) == [kind |-> kind, scope |-> scope]
OfModel == ScopeTo("concept", "luminosidad")
Everything == ScopeTo("full", "full")

MCWork == { WorkOn("extract", Everything), WorkOn("recompute", OfModel) }

Draft(key, matcher, params) ==
    [key |-> key, matcher_type |-> matcher, params |-> params, aliases |-> {key}]
MCConcepts == { Draft("balcon", "categorical", {"allowed_values"}),
                Draft("balcon", "numeric_range", {"allowed_values"}) }
MCFacts == { [owner |-> "ana", concept_key |-> "luminosidad", weight |-> 5],
             [owner |-> "eva", concept_key |-> "luminosidad", weight |-> 5] }
Edit(source, hard) ==
    [concept_key |-> "luz", matcher_type |-> "semantic_feature", params |-> {"threshold"},
     source_ref |-> source, soft_to_hard |-> hard]
MCEdits == { [owner |-> "ana", edits |-> <<Edit("edit:memory", TRUE)>>, confirmations |-> {}],
             [owner |-> "ana", edits |-> <<Edit("edit:user", TRUE)>>, confirmations |-> {}],
             [owner |-> "ana", edits |-> <<Edit("edit:user", TRUE)>>, confirmations |-> {"luz"}] }

MCRelease == [w \in Workers |-> IF w = "old" THEN 1 ELSE 2]

MCSeed ==
    [luminosidad |-> [version |-> 1, matcher_type |-> "semantic_feature", aliases |-> {"luz"}]]

(* A behaviour is about preferences or about observations, with two        *)
(* attempts of jobs and then changes of the registry.                      *)
Preferring ==
    \/ facts # {} \/ compilations # <<>>
    \/ \E c \in Clients : client[c].at \in {"fact", "compiled", "insert"}
Started == {j \in Work : phase[j] # "absent"}
Registering == {c \in Clients : client[c].at \in {"concept", "version", "invalidate"}}

OneSide == Preferring => Started = {} /\ Registering = {}
JobsFirst ==
    Registering # {} \/ Given(concepts["balcon"]) =>
        /\ \A w \in Workers : attempt[w].at = "idle"
        /\ \A j \in Started : phase[j] \in {"succeeded", "failed"}
        /\ Started # {} => Cardinality(Registering) <= 1
TwoAttempts ==
    /\ Cardinality(Started) <= 2
    /\ MapThenSumSet(LAMBDA j : tries[j], Work) <= 2
Symmetry == Permutations(Clients)
=============================================================================
