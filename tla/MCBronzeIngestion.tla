------------------------- MODULE MCBronzeIngestion --------------------------
(* Two imports whose files overlap in one record, and a third file that is *)
(* refused.                                                                *)
EXTENDS BronzeIngestion, FiniteSetsExt, TLC

CONSTANTS f1, f2, f3

MCRecords == f1 :> <<"a", "x", "a">> @@ f2 :> <<"a">> @@ f3 :> <<"a">>
MCParseErrors == f1 :> 0 @@ f2 :> 1 @@ f3 :> 0
MCValid == {"a"}

(* Two attempts in all: one of each import, or two of the same one.        *)
MCTwoAttempts == FoldSet(LAMBDA b, n : tries[b] + n, 0, Batches) <= 2
Symmetry == Permutations(Workers) \cup Permutations(Clients) \cup Permutations(Batches)
=============================================================================
