------------------------ MODULE JobRuntimeRefinement ------------------------
(* The job runtime implements the job lifecycle: pending, queued and       *)
(* retry_wait are one waiting phase to a caller.                           *)
EXTENDS JobRuntime

Phase(state) == IF state \in Waiting THEN "waiting" ELSE state

Lifecycle == INSTANCE JobLifecycle WITH
    phase <- [j \in Jobs |-> Phase(exec[j].state)],
    tries <- [j \in Jobs |-> exec[j].attempt_count]

(* Every behaviour of the runtime, with its crashes, duplicate deliveries, *)
(* lost messages and rebuilds, is one of the lifecycle.                    *)
ImplementsLifecycle == Lifecycle!Spec
=============================================================================
