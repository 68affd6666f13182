------------------------------ MODULE MCRelease ------------------------------
(* A promotion of a release at the head revision and a rollback to one at     *)
(* 0002, beside an alembic command run by hand from a checkout of 0002.         *)
EXTENDS Release

CONSTANTS p1, back, op, r1, r2

MCPromotions == {p1}
MCRollbacks == {back}
MCOperators == {op}
MCMigrators == MCPromotions \cup MCOperators
MCReleaseOf == (p1 :> r1) @@ (back :> r2)
MCManifestRevision == (r1 :> 7) @@ (r2 :> 2)
MCSurfaces == {"web", "api", "scheduler"}
MCStartReleases == {None, r2}
MCCheckouts == {2}
MCStartRevisions == {0, 2, 5}
MCFromNothing == {0}
MCRadarCheckout == {5}
MCDataTables == {"product_users"}

(* Nothing more is asked once both deployments have ended. *)
MCUndecided == \E p \in Deployments : pc[p] \notin {"passed", "failed"}

(* A behaviour is about alembic commands side by side, before anything runs,  *)
(* or about deployments side by side.                                         *)
MCOneSide ==
    mig[op].pc # "idle" \/ rows \cap DataTables # {} => deployments = <<>>

(* What fails while it waits leaves as much behind as what fails before or    *)
(* after, and the rows are written once one of the deployments has waited.    *)
MCFailsOutside ==
    \A p \in Deployments :
        pc[p] = "failed" => seen[p] = Surfaces \/ \A s \in Surfaces : expected[p][s] = 0

MCRowsAreRead ==
    (\E s \in Surfaces : status[s] # NoStatus) =>
        \E p \in Deployments : pc[p] \in {"deployed", "smoke", "probed"} \/ seen[p] = Surfaces
=============================================================================
