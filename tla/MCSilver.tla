------------------------------ MODULE MCSilver -------------------------------
(* An instance of Silver for TLC.  Publication a is captured by both runs, *)
(* with another bedroom the second time; b looks like a duplicate of the   *)
(* first capture and has the fingerprint of the second; c is another flat  *)
(* of the same neighbourhood.                                              *)
EXTENDS Silver, TLC

CONSTANTS a1, a2, b1, c1, r1, r2

Flat == [property_type |-> "apartment", price |-> 100, currency |-> "USD",
         expenses |-> 5, expenses_currency |-> "ARS", surface_m2 |-> 50,
         rooms |-> 3, bedrooms |-> 2, floor |-> 1, address |-> {"thames", "1500"},
         neighborhood |-> <<"palermo", "single">>, coordinates |-> TRUE]

MCPayload ==
    a1 :> [Flat EXCEPT !.bedrooms = 1] @@ a2 :> Flat @@ b1 :> Flat
    @@ c1 :> [Flat EXCEPT !.price = 10, !.surface_m2 = 300, !.rooms = 1,
                          !.address = {}, !.coordinates = FALSE]

MCRunOf == a1 :> r1 @@ b1 :> r1 @@ a2 :> r2 @@ c1 :> r2
MCChain == a1 :> "a" @@ a2 :> "a" @@ b1 :> "b" @@ c1 :> "c"
MCCapturedAt == a1 :> 1 @@ b1 :> 1 @@ a2 :> 2 @@ c1 :> 3

(* One of the two jobs is retried.                                         *)
ThreeAttempts == MapThenSumSet(LAMBDA r : tries[r], Runs) <= 3

(* Workers ask only whether a link is there, so nothing is lost when links *)
(* are decided while the workers are idle.                                 *)
DecisionsApart ==
    \/ \A o \in Operators : operator[o] = OperatorIdle
    \/ \A w \in Workers : worker[w] = Idle

Symmetry == Permutations(Workers) \cup Permutations(Operators)
=============================================================================
