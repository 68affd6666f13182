---------------------------- MODULE SchemaVersion ----------------------------
(* What the revision history promises, without tables: a database is at one   *)
(* revision; an upgrade takes it to a newer one and a downgrade one        *)
(* revision back, each at once.                                               *)
EXTENDS Integers

CONSTANTS
    Newest,        \* the head of the revision graph
    Reversible     \* the revisions whose downgrade can run

VARIABLE revision  \* alembic_version

Init == revision \in 0..Newest

(* alembic upgrade head, of this checkout or of an older one. *)
Upgrade == \E head \in revision + 1..Newest : revision' = head

(* alembic downgrade -1. *)
Downgrade == revision \in Reversible /\ revision' = revision - 1

Next == Upgrade \/ Downgrade

Spec == Init /\ [][Next]_revision
=============================================================================
