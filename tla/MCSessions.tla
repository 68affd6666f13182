----------------------------- MODULE MCSessions -----------------------------
(* Two users with a session each; two calls at a time. *)
EXTENDS Sessions, TLC

CONSTANTS alice, bob, ta, tb

MCOwner == (ta :> alice) @@ (tb :> bob)
MCSymmetry == Permutations(Clients)

=============================================================================
