----------------------------- MODULE JobAttempts -----------------------------
(***************************************************************************)
(* What a handler sees of the job runtime: JobLifecycle, and the worker    *)
(* that holds the current attempt of each job.  An attempt whose lease     *)
(* ended keeps executing next to the one that replaced it, and its outcome *)
(* is dropped.                                                             *)
(***************************************************************************)
EXTENDS Integers

CONSTANTS Jobs, Workers, Nobody, MaxAttempts

VARIABLES phase, tries, holder

jobVars == <<phase, tries, holder>>

Job == INSTANCE JobLifecycle

Outcomes == {"succeeded", "transient", "permanent"}

JobTypeOK ==
    /\ phase \in [Jobs -> {"absent", "waiting", "running", "succeeded", "failed"}]
    /\ tries \in [Jobs -> 0..MaxAttempts]
    /\ holder \in [Jobs -> Workers \cup {Nobody}]

NoJobs == Job!Init /\ holder = [j \in Jobs |-> Nobody]

AllWaiting ==
    /\ phase = [j \in Jobs |-> "waiting"]
    /\ tries = [j \in Jobs |-> 0]
    /\ holder = [j \in Jobs |-> Nobody]

(* A submission of an identity that is there returns the execution.        *)
Submit(j) ==
    /\ IF phase[j] = "absent" THEN Job!Accept(j) ELSE UNCHANGED <<phase, tries>>
    /\ UNCHANGED holder

Claim(w, j) ==
    /\ Job!Start(j)
    /\ holder' = [holder EXCEPT ![j] = w]

EndedAs(j, state) == Job!Finish(j) /\ phase'[j] = state

(* record_outcome, which an attempt that is not the current one cannot     *)
(* influence.                                                              *)
RecordOutcome(w, j, outcome) ==
    \/ holder[j] # w /\ UNCHANGED jobVars
    \/ /\ holder[j] = w
       /\ \/ outcome = "succeeded" /\ EndedAs(j, "succeeded")
          \/ outcome = "permanent" /\ EndedAs(j, "failed")
          \/ outcome = "transient" /\ tries[j] = MaxAttempts /\ EndedAs(j, "failed")
          \/ outcome = "transient" /\ Job!Retry(j)
       /\ holder' = [holder EXCEPT ![j] = Nobody]

(* The lease ends and the reaper takes the job back.                       *)
Lapse(j) ==
    /\ Job!Interrupt({j})
    /\ holder' = [holder EXCEPT ![j] = Nobody]
=============================================================================
