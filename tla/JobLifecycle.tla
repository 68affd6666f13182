---------------------------- MODULE JobLifecycle ----------------------------
(***************************************************************************)
(* What the job runtime promises a caller of submit and get: a job is      *)
(* accepted once, runs one attempt at a time, at most MaxAttempts of them, *)
(* and ends once, as succeeded or failed.  Outbox, leases, transport and   *)
(* row locks do not appear.                                                *)
(***************************************************************************)
EXTENDS Integers

CONSTANTS Jobs, MaxAttempts

VARIABLES
    phase,  \* absent, waiting, running, succeeded or failed
    tries   \* attempts started

vars == <<phase, tries>>

Init ==
    /\ phase = [j \in Jobs |-> "absent"]
    /\ tries = [j \in Jobs |-> 0]

Accept(j) ==
    /\ phase[j] = "absent"
    /\ phase' = [phase EXCEPT ![j] = "waiting"]
    /\ UNCHANGED tries

Start(j) ==
    /\ phase[j] = "waiting"
    /\ tries[j] < MaxAttempts
    /\ phase' = [phase EXCEPT ![j] = "running"]
    /\ tries' = [tries EXCEPT ![j] = @ + 1]

(* A transient failure puts the job back while attempts remain.            *)
Retry(j) ==
    /\ phase[j] = "running"
    /\ tries[j] < MaxAttempts
    /\ phase' = [phase EXCEPT ![j] = "waiting"]
    /\ UNCHANGED tries

Finish(j) ==
    /\ phase[j] = "running"
    /\ \E outcome \in {"succeeded", "failed"} :
          phase' = [phase EXCEPT ![j] = outcome]
    /\ UNCHANGED tries

(* Attempts whose lease ended are taken back together.                     *)
Interrupt(S) ==
    /\ \A j \in S : phase[j] = "running"
    /\ phase' = [j \in Jobs |->
                    IF j \notin S THEN phase[j]
                    ELSE IF tries[j] < MaxAttempts THEN "waiting" ELSE "failed"]
    /\ UNCHANGED tries

Next ==
    \/ \E j \in Jobs : Accept(j) \/ Start(j) \/ Retry(j) \/ Finish(j)
    \/ \E S \in SUBSET Jobs : Interrupt(S)

Spec == Init /\ [][Next]_vars
=============================================================================
