------------------------------ MODULE MCInMemory ------------------------------
(* Two schedules and one submitted job; two loops in the durable runtime, two *)
(* workers in the other.                                                      *)
EXTENDS InMemoryRuntime

CONSTANTS loop1, loop2, w1, w2, job

(* In memory one job is followed to its end, or two up to the first attempt;  *)
(* the submitted one is completed only where there is no schedule.            *)
MCFewJobs ==
    LET there == {j \in Jobs : exec[j].state # "absent"}
    IN  runtime = "memory" =>
            /\ Len(schedules) <= 1
            /\ DOMAIN completed # {} => schedules = <<>>
            /\ \/ Cardinality(there) <= 1
               \/ Cardinality(there) = 2 /\ \A j \in there : AttemptCount(j) = 0
===============================================================================
