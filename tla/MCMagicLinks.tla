---------------------------- MODULE MCMagicLinks ----------------------------
(* Instance of MagicLinks for TLC.  Request identifiers are ordered, so    *)
(* everything but them is interchangeable.                                 *)
EXTENDS MagicLinks, TLC

Symmetry == Permutations(Workers) \cup Permutations(Browsers) \cup Permutations(Emails)
            \cup Permutations(Origins) \cup Permutations(Subjects)
=============================================================================
