------------------------- MODULE MCVersionedObjects -------------------------
(* Three puts of two contents in two processes, and two reconciler passes. *)
EXTENDS VersionedObjects, TLC

CONSTANTS w1, w2, w3, api, worker

MCProcess == (w1 :> api) @@ (w2 :> api) @@ (w3 :> worker)

=============================================================================
