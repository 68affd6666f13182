----------------------- MODULE InMemoryRuntimeProofs -----------------------
(* Proofs about the in-memory job runtime and the schedules of both        *)
(* runtimes, for any number of jobs, schedules, loops and workers, and any *)
(* limits and delays.                                                      *)
EXTENDS InMemoryRuntime, TLAPS

-----------------------------------------------------------------------------
(* The inductive invariant                                                 *)

Waiting == {"pending", "queued", "retry_wait"}
JobStates == Waiting \cup {"absent", "running", "succeeded", "failed"}
Retried == {"transient_failure", "abandoned"}
AttemptStates == Retried \cup {"running", "succeeded", "permanent_failure"}

(* The attempts of a job, seen with its state.                             *)
Last(attempts) == IF attempts = <<>> THEN "none" ELSE attempts[Len(attempts)]

Tells(state, attempts) ==
    /\ \A n \in 1..(Len(attempts) - 1) : attempts[n] \in Retried
    /\ state \in {"absent", "pending"} => attempts = <<>>
    /\ state = "queued" => Last(attempts) \in {"none"} \cup Retried
    /\ state = "retry_wait" => Last(attempts) \in Retried
    /\ state \in {"running", "succeeded"} => Last(attempts) = state
    /\ state = "failed" => \/ Last(attempts) = "permanent_failure"
                           \/ Last(attempts) \in Retried /\ Len(attempts) = MaxAttempts

ExecShape(e) ==
    e \in [state : JobStates, attempts : Seq(AttemptStates), available : {e.available},
           owner : {e.owner}, lease : {e.lease}]

JobsAreTold ==
    /\ exec = [j \in Jobs |-> exec[j]]
    /\ \A j \in Jobs :
          /\ ExecShape(exec[j])
          /\ exec[j].state \in {"absent", "pending"} => exec[j].attempts = <<>>
          /\ exec[j].state = "running" => exec[j].attempts # <<>>
          /\ AttemptCount(j) <= MaxAttempts
    /\ \A j \in Jobs \ DOMAIN completed : Tells(exec[j].state, exec[j].attempts)

(* Outbox rows exist for the attempts made and, while the job waits, for   *)
(* the next one; complete() leaves the row of a job that waited.           *)
RowShape(r) ==
    r \in [state : {"absent", "pending", "published", "failed"},
           available : {r.available}, failures : {r.failures}]

RowsFollow ==
    /\ outbox = [j \in Jobs |-> outbox[j]]
    /\ \A j \in Jobs : outbox[j] = [n \in 1..MaxAttempts |-> outbox[j][n]]
    /\ \A j \in Jobs, n \in 1..MaxAttempts :
          /\ RowShape(outbox[j][n])
          /\ outbox[j][n].state # "absent" =>
                /\ exec[j].state # "absent"
                /\ j \notin DOMAIN completed =>
                      /\ n <= AttemptCount(j) + 1
                      /\ n = AttemptCount(j) + 1 => exec[j].state \in Waiting
    /\ sent \subseteq Jobs \X (1..MaxAttempts)
    /\ \A m \in sent : outbox[m[1]][m[2]].state # "absent"

(* A fixed interval keeps its phase, a one-shot its instant.               *)
Schedule ==
    [kind : {"one_shot", "fixed_interval"}, first : 0..MaxTime, next : Nat, enabled : BOOLEAN]

InPhase(s) ==
    IF s.kind = "one_shot" THEN s.next = s.first
    ELSE \E q \in Nat : s.next = s.first + q * Interval

SchedulesInPhase ==
    /\ runtime \in {"durable", "memory"} /\ now \in 0..MaxTime
    /\ schedules \in Seq(Schedule) /\ Len(schedules) <= MaxSchedules
    /\ \A i \in DOMAIN schedules : InPhase(schedules[i])

(* The rows a loop has locked are due, and locked by it only.              *)
HeldAreDue ==
    /\ held = [l \in Loops |-> held[l]]
    /\ \A l \in Loops :
          /\ runtime = "memory" => held[l] = {}
          /\ \A i \in held[l] : i \in DOMAIN schedules /\ Due(i)
          /\ \A k \in Loops \ {l} : held[l] \cap held[k] = {}

(* No execution of a schedule that is not there.                           *)
NoOtherSlots ==
    \A i \in 1..MaxSchedules, t \in 0..MaxTime :
        i \notin DOMAIN schedules => exec[<<i, t>>].state = "absent"

IInv ==
    /\ JobsAreTold
    /\ RowsFollow
    /\ SchedulesInPhase
    /\ HeldAreDue
    /\ NoOtherSlots
    /\ SlotsAreExact

-----------------------------------------------------------------------------
(* Attempts                                                                *)

LEMMA Limits ==
    /\ MaxAttempts \in Nat \ {0} /\ MaxTime \in Nat /\ MaxSchedules \in Nat
    /\ Interval \in Nat \ {0}
BY RuntimeAssumption, SchedulesAssumption

(* An attempt is added, or the last one changed.                           *)
LEMMA AttemptAdded ==
    ASSUME NEW tries \in Seq(AttemptStates)
    PROVE  /\ Append(tries, "running") \in Seq(AttemptStates)
           /\ Len(Append(tries, "running")) = Len(tries) + 1
           /\ Append(tries, "running") # <<>>
BY DEF AttemptStates

LEMMA AttemptEnded ==
    ASSUME NEW tries \in Seq(AttemptStates), tries # <<>>, NEW a \in AttemptStates
    PROVE  /\ [tries EXCEPT ![Len(tries)] = a] \in Seq(AttemptStates)
           /\ Len([tries EXCEPT ![Len(tries)] = a]) = Len(tries)
OBVIOUS

(* A waiting job starts its next attempt.                                  *)
LEMMA TellsStart ==
    ASSUME NEW state \in Waiting, NEW tries \in Seq(AttemptStates), Tells(state, tries)
    PROVE  /\ Append(tries, "running") \in Seq(AttemptStates)
           /\ Len(Append(tries, "running")) = Len(tries) + 1
           /\ Tells("running", Append(tries, "running"))
<1> DEFINE new == Append(tries, "running")
<1>1. /\ new \in Seq(AttemptStates) /\ Len(new) = Len(tries) + 1
      /\ new[Len(tries) + 1] = "running"
      /\ \A n \in 1..Len(tries) : new[n] = tries[n]
  BY DEF AttemptStates
<1>2. ASSUME NEW n \in 1..Len(tries) PROVE tries[n] \in Retried
  <2>1. CASE n < Len(tries)
    BY <2>1 DEF Tells
  <2>2. CASE n = Len(tries)
    <3>1. tries # <<>> /\ Last(tries) = tries[n]
      BY <2>2 DEF Last
    <3>2. Last(tries) \in {"none"} \cup Retried
      BY <3>1 DEF Tells, Waiting
    <3>3. tries[n] \in AttemptStates
      OBVIOUS
    <3> QED
      BY <3>1, <3>2, <3>3 DEF AttemptStates, Retried
  <2> QED
    BY <2>1, <2>2
<1>3. new # <<>>
  BY <1>1
<1> HIDE DEF new
<1>4. Last(new) = "running"
  BY <1>1, <1>3 DEF Last
<1>5. \A n \in 1..(Len(new) - 1) : new[n] \in Retried
  BY <1>1, <1>2
<1>6. Tells("running", new)
  BY <1>4, <1>5 DEF Tells
<1> QED
  BY <1>1, <1>6 DEF new

(* How the running attempt may end, and what becomes of the job.           *)
Endings ==
    {<<"succeeded", "succeeded">>, <<"failed", "permanent_failure">>}
      \cup {<<"retry_wait", a>> : a \in Retried}

LEMMA TellsEnd ==
    ASSUME NEW tries \in Seq(AttemptStates), Tells("running", tries),
           NEW state, NEW a,
           \/ <<state, a>> \in Endings
           \/ state = "failed" /\ a \in Retried /\ Len(tries) = MaxAttempts
    PROVE  /\ [tries EXCEPT ![Len(tries)] = a] \in Seq(AttemptStates)
           /\ Len([tries EXCEPT ![Len(tries)] = a]) = Len(tries)
           /\ Tells(state, [tries EXCEPT ![Len(tries)] = a])
           /\ Len(tries) >= 1
<1> DEFINE new == [tries EXCEPT ![Len(tries)] = a]
<1>1. tries # <<>>
  BY DEF Tells, Last
<1>2. Len(tries) >= 1 /\ Len(tries) \in DOMAIN tries
  BY <1>1
<1>3. a \in AttemptStates
  BY DEF Endings, AttemptStates, Retried
<1>4. /\ new \in Seq(AttemptStates) /\ Len(new) = Len(tries)
      /\ new[Len(new)] = a
      /\ \A n \in 1..(Len(tries) - 1) : new[n] = tries[n]
  BY <1>2, <1>3
<1> HIDE DEF new
<1>5. new # <<>>
  BY <1>2, <1>4
<1>6. Last(new) = a
  BY <1>4, <1>5 DEF Last
<1>7. \A n \in 1..(Len(new) - 1) : new[n] \in Retried
  BY <1>4 DEF Tells
<1>8. CASE <<state, a>> \in Endings
  <2>1. \/ state = "succeeded" /\ a = "succeeded"
        \/ state = "failed" /\ a = "permanent_failure"
        \/ state = "retry_wait" /\ a \in Retried
    BY <1>8 DEF Endings
  <2>2. Tells(state, new)
    BY <1>6, <1>7, <2>1 DEF Tells
  <2> QED
    BY <1>2, <1>4, <2>2 DEF new
<1>9. CASE state = "failed" /\ a \in Retried /\ Len(tries) = MaxAttempts
  <2>1. Tells(state, new)
    BY <1>4, <1>6, <1>7, <1>9 DEF Tells
  <2> QED
    BY <1>2, <1>4, <2>1 DEF new
<1> QED
  BY <1>8, <1>9

(* A message makes a waiting job queued.                                   *)
LEMMA TellsQueued ==
    ASSUME NEW state \in Waiting, NEW tries \in Seq(AttemptStates), Tells(state, tries)
    PROVE  Tells("queued", tries)
BY DEF Tells, Waiting, Last

-----------------------------------------------------------------------------
(* Jobs                                                                    *)

(* What a step may do to one job.                                          *)
JobStep(j) ==
    \/ exec'[j].state = exec[j].state /\ exec'[j].attempts = exec[j].attempts
    \/ /\ exec[j].state = "absent" /\ exec'[j].state = "pending"
       /\ exec'[j].attempts = exec[j].attempts
    \/ /\ exec[j].state \in Waiting /\ exec'[j].state = "running"
       /\ AttemptCount(j) < MaxAttempts
       /\ exec'[j].attempts = Append(exec[j].attempts, "running")
    \/ /\ exec[j].state \in Waiting /\ exec'[j].state = "queued"
       /\ exec'[j].attempts = exec[j].attempts
    \/ /\ exec[j].state = "running"
       /\ exec'[j].state = "retry_wait" => AttemptCount(j) < MaxAttempts
       /\ \E a \in AttemptStates :
             /\ \/ <<exec'[j].state, a>> \in Endings
                \/ exec'[j].state = "failed" /\ a \in Retried /\ AttemptCount(j) = MaxAttempts
             /\ exec'[j].attempts = [exec[j].attempts EXCEPT ![AttemptCount(j)] = a]
    \/ /\ j \in DOMAIN completed' /\ exec[j].state # "absent"
       /\ exec'[j].state \in {"succeeded", "queued"} /\ exec'[j].attempts = exec[j].attempts

(* Completed jobs stay completed, and what is shown of them stays.         *)
CompletedStay ==
    /\ DOMAIN completed \subseteq DOMAIN completed'
    /\ \A j \in DOMAIN completed' : j \in Jobs => Shown(j)' = Shown(j)

(* Rows are added for the next attempt only, and none goes away.           *)
RowStep(j, n) ==
    /\ RowShape(outbox'[j][n])
    /\ outbox[j][n].state # "absent" => outbox'[j][n].state # "absent"
    /\ outbox[j][n].state = "absent" /\ outbox'[j][n].state # "absent" =>
          n = Len(exec'[j].attempts) + 1 /\ exec'[j].state \in Waiting

(* Jobs change one at a time, except that a relay makes several queued and *)
(* the reaper takes several back.                                          *)
OneJobOrBatch ==
    \/ \E j \in Jobs : \A k \in Jobs \ {j} : exec'[k] = exec[k]
    \/ \A j \in Jobs :
          \/ exec'[j] = exec[j]
          \/ /\ exec[j].state \in Waiting \/ j \in DOMAIN completed'
             /\ exec'[j].state = "queued"
             /\ exec'[j].attempts = exec[j].attempts
    \/ \E S \in SUBSET Jobs :
          /\ \A j \in Jobs \ S : exec'[j] = exec[j]
          /\ \A j \in S :
                /\ exec[j].state = "running"
                /\ exec'[j].state = IF AttemptCount(j) < MaxAttempts
                                    THEN "retry_wait" ELSE "failed"

(* A step of the runtime that accepts the jobs in S.                       *)
RuntimeStep(S) ==
    /\ exec' = [j \in Jobs |-> exec'[j]]
    /\ CompletedStay
    /\ \A j \in Jobs : ExecShape(exec'[j]) /\ JobStep(j)
    /\ \A j \in Jobs : exec'[j].state = "absent" <=> exec[j].state = "absent" /\ j \notin S
    /\ outbox' = [j \in Jobs |-> outbox'[j]]
    /\ \A j \in Jobs : outbox'[j] = [n \in 1..MaxAttempts |-> outbox'[j][n]]
    /\ \A j \in Jobs, n \in 1..MaxAttempts : RowStep(j, n)
    /\ sent' \subseteq Jobs \X (1..MaxAttempts)
    /\ \A m \in sent' : m \in sent \/ outbox'[m[1]][m[2]].state # "absent"
    /\ OneJobOrBatch

(* How many attempts a step makes.                                         *)
LEMMA JobCounts ==
    ASSUME JobsAreTold, NEW j \in Jobs, ExecShape(exec'[j]), JobStep(j)
    PROVE  /\ Len(exec'[j].attempts) <= MaxAttempts
           /\ exec'[j].state \in {"absent", "pending"} => exec'[j].attempts = <<>>
           /\ exec'[j].state = "running" => exec'[j].attempts # <<>>
           /\ exec'[j].state = "running" /\ exec[j].state # "running" =>
                 Len(exec'[j].attempts) = AttemptCount(j) + 1
           /\ ~(exec'[j].state = "running" /\ exec[j].state # "running") =>
                 Len(exec'[j].attempts) = AttemptCount(j)
<1>0. /\ exec[j].attempts \in Seq(AttemptStates)
      /\ exec[j].state \in {"absent", "pending"} => exec[j].attempts = <<>>
      /\ exec[j].state = "running" => exec[j].attempts # <<>>
      /\ AttemptCount(j) <= MaxAttempts /\ AttemptCount(j) = Len(exec[j].attempts)
  BY DEF JobsAreTold, ExecShape, AttemptCount
<1>1. CASE exec'[j].state = exec[j].state /\ exec'[j].attempts = exec[j].attempts
  BY <1>0, <1>1
<1>2. CASE /\ exec[j].state = "absent" /\ exec'[j].state = "pending"
           /\ exec'[j].attempts = exec[j].attempts
  BY <1>0, <1>2
<1>3. CASE /\ exec[j].state \in Waiting /\ exec'[j].state = "running"
           /\ AttemptCount(j) < MaxAttempts
           /\ exec'[j].attempts = Append(exec[j].attempts, "running")
  <2>1. /\ Len(exec'[j].attempts) = Len(exec[j].attempts) + 1
        /\ exec'[j].attempts # <<>>
    BY <1>0, <1>3, AttemptAdded
  <2> QED
    BY <1>0, <1>3, <2>1, Limits DEF Waiting
<1>4. CASE /\ exec[j].state \in Waiting /\ exec'[j].state = "queued"
           /\ exec'[j].attempts = exec[j].attempts
  BY <1>0, <1>4 DEF Waiting
<1>5. ASSUME exec[j].state = "running", NEW a \in AttemptStates,
             \/ <<exec'[j].state, a>> \in Endings
             \/ exec'[j].state = "failed",
             exec'[j].attempts = [exec[j].attempts EXCEPT ![AttemptCount(j)] = a]
      PROVE  /\ Len(exec'[j].attempts) = AttemptCount(j)
             /\ exec'[j].state \in {"retry_wait", "succeeded", "failed"}
  BY <1>0, <1>5, AttemptEnded DEF Endings
<1>6. CASE /\ exec[j].state # "absent" /\ exec'[j].state \in {"succeeded", "queued"}
           /\ exec'[j].attempts = exec[j].attempts
  BY <1>0, <1>6
<1> QED
  BY <1>0, <1>1, <1>2, <1>3, <1>4, <1>5, <1>6 DEF JobStep

LEMMA JobKeeps ==
    ASSUME JobsAreTold, CompletedStay, NEW j \in Jobs, j \notin DOMAIN completed',
           ExecShape(exec'[j]), JobStep(j)
    PROVE  Tells(exec'[j].state, exec'[j].attempts)
<1>0. /\ exec[j].attempts \in Seq(AttemptStates) /\ Tells(exec[j].state, exec[j].attempts)
      /\ AttemptCount(j) = Len(exec[j].attempts)
  BY DEF JobsAreTold, CompletedStay, ExecShape, AttemptCount
<1>1. CASE exec'[j].state = exec[j].state /\ exec'[j].attempts = exec[j].attempts
  BY <1>0, <1>1
<1>2. CASE /\ exec[j].state = "absent" /\ exec'[j].state = "pending"
           /\ exec'[j].attempts = exec[j].attempts
  BY <1>0, <1>2 DEF Tells
<1>3. CASE /\ exec[j].state \in Waiting /\ exec'[j].state = "running"
           /\ exec'[j].attempts = Append(exec[j].attempts, "running")
  BY <1>0, <1>3, TellsStart
<1>4. CASE /\ exec[j].state \in Waiting /\ exec'[j].state = "queued"
           /\ exec'[j].attempts = exec[j].attempts
  BY <1>0, <1>4, TellsQueued
<1>5. ASSUME exec[j].state = "running", NEW a \in AttemptStates,
             \/ <<exec'[j].state, a>> \in Endings
             \/ exec'[j].state = "failed" /\ a \in Retried /\ AttemptCount(j) = MaxAttempts,
             exec'[j].attempts = [exec[j].attempts EXCEPT ![AttemptCount(j)] = a]
      PROVE  Tells(exec'[j].state, exec'[j].attempts)
  <2>1. Tells("running", exec[j].attempts)
    BY <1>0, <1>5
  <2> QED
    BY <1>0, <1>5, <2>1, TellsEnd
<1> QED
  BY <1>1, <1>2, <1>3, <1>4, <1>5 DEF JobStep

LEMMA RuntimeKeeps ==
    ASSUME JobsAreTold, RowsFollow, NEW S, RuntimeStep(S)
    PROVE  JobsAreTold' /\ RowsFollow'
<1>0. CompletedStay /\ \A j \in Jobs : ExecShape(exec'[j]) /\ JobStep(j)
  BY DEF RuntimeStep
<1>1. JobsAreTold'
  <2>1. \A j \in Jobs :
          /\ Len(exec'[j].attempts) <= MaxAttempts
          /\ exec'[j].state \in {"absent", "pending"} => exec'[j].attempts = <<>>
          /\ exec'[j].state = "running" => exec'[j].attempts # <<>>
    BY <1>0, JobCounts
  <2>2. \A j \in Jobs \ DOMAIN completed' : Tells(exec'[j].state, exec'[j].attempts)
    BY <1>0, JobKeeps
  <2>3. exec' = [j \in Jobs |-> exec'[j]]
    BY DEF RuntimeStep
  <2> QED
    BY <1>0, <2>1, <2>2, <2>3 DEF JobsAreTold, ExecShape, AttemptCount
<1>6. ASSUME NEW j \in Jobs, NEW n \in 1..MaxAttempts, outbox'[j][n].state # "absent"
      PROVE  exec'[j].state # "absent"
  <2>0. /\ RowStep(j, n)
        /\ exec'[j].state = "absent" => exec[j].state = "absent"
    BY DEF RuntimeStep
  <2>1. outbox[j][n].state # "absent" => exec[j].state # "absent"
    BY DEF RowsFollow
  <2> QED
    BY <1>6, <2>0, <2>1 DEF RowStep, Waiting
<1>2. ASSUME NEW j \in Jobs, NEW n \in 1..MaxAttempts, outbox'[j][n].state # "absent",
             j \notin DOMAIN completed'
      PROVE  /\ n <= Len(exec'[j].attempts) + 1
             /\ n = Len(exec'[j].attempts) + 1 => exec'[j].state \in Waiting
  <2>0. /\ RowStep(j, n) /\ JobStep(j) /\ ExecShape(exec'[j]) /\ j \notin DOMAIN completed
        /\ exec'[j].state = "absent" => exec[j].state = "absent"
        /\ Len(exec'[j].attempts) \in Nat /\ Len(exec[j].attempts) \in Nat
    BY <1>2 DEF RuntimeStep, CompletedStay, JobsAreTold, ExecShape
  <2>1. CASE outbox[j][n].state = "absent"
    <3>1. n = Len(exec'[j].attempts) + 1 /\ exec'[j].state \in Waiting
      BY <1>2, <2>0, <2>1 DEF RowStep
    <3> QED
      BY <2>0, <3>1 DEF Waiting
  <2>2. CASE outbox[j][n].state # "absent"
    <3>1. /\ exec[j].state # "absent"
          /\ n <= Len(exec[j].attempts) + 1
          /\ n = Len(exec[j].attempts) + 1 => exec[j].state \in Waiting
      BY <2>0, <2>2 DEF RowsFollow, AttemptCount
    <3>2. CASE exec'[j].state = "running" /\ exec[j].state # "running"
      <4>1. Len(exec'[j].attempts) = Len(exec[j].attempts) + 1
        BY <2>0, <3>2, JobCounts DEF AttemptCount
      <4> QED
        BY <2>0, <3>1, <3>2, <4>1
    <3>3. CASE ~(exec'[j].state = "running" /\ exec[j].state # "running")
      <4>1. Len(exec'[j].attempts) = Len(exec[j].attempts)
        BY <2>0, <3>3, JobCounts DEF AttemptCount
      <4>2. exec[j].state \in Waiting => exec'[j].state \in Waiting
        BY <1>2, <2>0, <3>3 DEF JobStep, Waiting
      <4> QED
        BY <2>0, <3>1, <4>1, <4>2
    <3> QED
      BY <3>2, <3>3
  <2> QED
    BY <2>1, <2>2
<1>3. \A j \in Jobs, n \in 1..MaxAttempts : RowShape(outbox'[j][n])
  BY DEF RuntimeStep, RowStep
<1>4. ASSUME NEW m \in sent' PROVE outbox'[m[1]][m[2]].state # "absent"
  <2>1. CASE m \in sent
    <3>1. m[1] \in Jobs /\ m[2] \in 1..MaxAttempts /\ outbox[m[1]][m[2]].state # "absent"
      BY <2>1 DEF RowsFollow
    <3> QED
      BY <3>1 DEF RuntimeStep, RowStep
  <2>2. CASE m \notin sent
    BY <2>2 DEF RuntimeStep
  <2> QED
    BY <2>1, <2>2
<1>5. RowsFollow'
  BY <1>2, <1>3, <1>4, <1>6 DEF RuntimeStep, RowsFollow, RowShape, AttemptCount
<1> QED
  BY <1>1, <1>5

LEMMA NewRowShape ==
    ASSUME NEW at
    PROVE  RowShape(NewRow(at)) /\ NewRow(at).state = "pending"
BY DEF NewRow, NoRow, RowShape

LEMMA OneJob ==
    ASSUME JobsAreTold, NEW j \in Jobs, NEW e, ExecShape(e),
           exec' = [exec EXCEPT ![j] = e]
    PROVE  /\ exec' = [k \in Jobs |-> exec'[k]]
           /\ exec'[j] = e
           /\ \A k \in Jobs \ {j} : exec'[k] = exec[k]
           /\ \A k \in Jobs : ExecShape(exec'[k])
<1>1. DOMAIN exec = Jobs
  BY DEF JobsAreTold
<1>2. /\ exec' = [k \in Jobs |-> exec'[k]] /\ exec'[j] = e
      /\ \A k \in Jobs \ {j} : exec'[k] = exec[k]
  BY <1>1
<1>3. ASSUME NEW k \in Jobs PROVE ExecShape(exec'[k])
  <2>1. CASE k = j
    BY <1>2, <2>1
  <2>2. CASE k # j
    <3>1. exec'[k] = exec[k] /\ ExecShape(exec[k])
      BY <1>2, <2>2 DEF JobsAreTold
    <3> QED
      BY <3>1
  <2> QED
    BY <2>1, <2>2
<1> QED
  BY <1>2, <1>3

LEMMA SameRows ==
    ASSUME RowsFollow, UNCHANGED outbox
    PROVE  /\ outbox' = [j \in Jobs |-> outbox'[j]]
           /\ \A j \in Jobs : outbox'[j] = [n \in 1..MaxAttempts |-> outbox'[j][n]]
           /\ \A j \in Jobs, n \in 1..MaxAttempts : RowStep(j, n)
BY DEF RowsFollow, RowStep, RowShape

LEMMA OneRow ==
    ASSUME RowsFollow, NEW j \in Jobs, NEW at, NEW n0 \in 1..MaxAttempts,
           outbox' = [outbox EXCEPT ![j][n0] = NewRow(at)],
           n0 = Len(exec'[j].attempts) + 1, exec'[j].state \in Waiting
    PROVE  /\ outbox' = [k \in Jobs |-> outbox'[k]]
           /\ \A k \in Jobs : outbox'[k] = [n \in 1..MaxAttempts |-> outbox'[k][n]]
           /\ \A k \in Jobs, n \in 1..MaxAttempts : RowStep(k, n)
<1> DEFINE rows == [outbox[j] EXCEPT ![n0] = NewRow(at)]
<1>1. DOMAIN outbox = Jobs /\ \A k \in Jobs : DOMAIN outbox[k] = 1..MaxAttempts
  BY DEF RowsFollow
<1>2. outbox' = [outbox EXCEPT ![j] = rows]
  BY <1>1
<1>3. /\ rows = [n \in 1..MaxAttempts |-> rows[n]] /\ rows[n0] = NewRow(at)
      /\ \A n \in 1..MaxAttempts : n # n0 => rows[n] = outbox[j][n]
  BY <1>1
<1> HIDE DEF rows
<1>4. /\ outbox' = [k \in Jobs |-> outbox'[k]] /\ outbox'[j] = rows
      /\ \A k \in Jobs : k # j => outbox'[k] = outbox[k]
  BY <1>1, <1>2
<1>5. ASSUME NEW k \in Jobs PROVE outbox'[k] = [n \in 1..MaxAttempts |-> outbox'[k][n]]
  <2>1. CASE k = j
    BY <1>3, <1>4, <2>1
  <2>2. CASE k # j
    <3>1. outbox'[k] = outbox[k] /\ outbox[k] = [n \in 1..MaxAttempts |-> outbox[k][n]]
      BY <1>4, <2>2 DEF RowsFollow
    <3> QED
      BY <3>1
  <2> QED
    BY <2>1, <2>2
<1>6. ASSUME NEW k \in Jobs, NEW n \in 1..MaxAttempts PROVE RowStep(k, n)
  <2>1. CASE k = j /\ n = n0
    BY <1>3, <1>4, <2>1, NewRowShape DEF RowStep
  <2>2. CASE k # j \/ n # n0
    <3>1. outbox'[k][n] = outbox[k][n] /\ RowShape(outbox[k][n])
      BY <1>3, <1>4, <2>2 DEF RowsFollow
    <3> QED
      BY <3>1 DEF RowStep
  <2> QED
    BY <2>1, <2>2
<1> QED
  BY <1>4, <1>5, <1>6

LEMMA QuietRuntime ==
    ASSUME JobsAreTold, RowsFollow, UNCHANGED <<exec, outbox, sent, completed>>
    PROVE  RuntimeStep({})
<1>0. CompletedStay
  BY DEF CompletedStay, Shown
<1>1. /\ exec' = [j \in Jobs |-> exec'[j]]
      /\ \A j \in Jobs : ExecShape(exec'[j]) /\ JobStep(j)
  BY DEF JobsAreTold, ExecShape, JobStep
<1>2. sent' \subseteq Jobs \X (1..MaxAttempts)
  BY DEF RowsFollow
<1>3. OneJobOrBatch
  BY DEF OneJobOrBatch
<1> QED
  BY <1>0, <1>1, <1>2, <1>3, SameRows DEF RuntimeStep

(* Nothing is completed.                                                   *)
LEMMA NoneCompleted ==
    ASSUME UNCHANGED completed
    PROVE  CompletedStay
BY DEF CompletedStay, Shown

LEMMA AcceptSteps ==
    ASSUME JobsAreTold, RowsFollow, NEW j \in Jobs, Accept(j), UNCHANGED <<sent, completed>>
    PROVE  RuntimeStep({j})
<1>0. CompletedStay
  BY NoneCompleted
<1>1. CASE exec[j].state # "absent"
  <2>1. UNCHANGED <<exec, outbox, sent, completed>>
    BY <1>1 DEF Accept
  <2>2. RuntimeStep({})
    BY <2>1, QuietRuntime
  <2> QED
    BY <1>1, <2>2 DEF RuntimeStep
<1>2. CASE exec[j].state = "absent"
  <2> DEFINE e == [exec[j] EXCEPT !.state = "pending", !.available = now]
  <2>0. ExecShape(exec[j]) /\ exec[j].attempts = <<>> /\ DOMAIN exec = Jobs
    BY <1>2 DEF JobsAreTold
  <2>1. exec' = [exec EXCEPT ![j] = e] /\ outbox' = [outbox EXCEPT ![j][1] = NewRow(now)]
    BY <1>2, <2>0 DEF Accept, ExecShape
  <2>2. ExecShape(e) /\ e.state = "pending" /\ e.attempts = exec[j].attempts
    BY <2>0 DEF ExecShape, JobStates, Waiting
  <2> HIDE DEF e
  <2>3. /\ exec' = [k \in Jobs |-> exec'[k]] /\ exec'[j] = e
        /\ \A k \in Jobs \ {j} : exec'[k] = exec[k]
        /\ \A k \in Jobs : ExecShape(exec'[k])
    BY <2>1, <2>2, OneJob
  <2>5. 1 = Len(exec'[j].attempts) + 1 /\ exec'[j].state \in Waiting /\ 1 \in 1..MaxAttempts
    BY <2>0, <2>2, <2>3, Limits DEF Waiting
  <2>6. \A k \in Jobs : JobStep(k)
    BY <1>2, <2>2, <2>3 DEF JobStep
  <2>7. \A k \in Jobs : exec'[k].state = "absent" <=> exec[k].state = "absent" /\ k \notin {j}
    BY <1>2, <2>2, <2>3
  <2>8. /\ outbox' = [k \in Jobs |-> outbox'[k]]
        /\ \A k \in Jobs : outbox'[k] = [n \in 1..MaxAttempts |-> outbox'[k][n]]
        /\ \A k \in Jobs, n \in 1..MaxAttempts : RowStep(k, n)
    BY <2>1, <2>5, OneRow
  <2>9. sent' = sent /\ sent \subseteq Jobs \X (1..MaxAttempts)
    BY DEF RowsFollow
  <2>10. OneJobOrBatch
    BY <2>3 DEF OneJobOrBatch
  <2> QED
    BY <1>0, <2>3, <2>6, <2>7, <2>8, <2>9, <2>10 DEF RuntimeStep
<1> QED
  BY <1>1, <1>2

(* One job changes, which was there, and no row.                           *)
LEMMA OneJobSteps ==
    ASSUME JobsAreTold, RowsFollow, NEW j \in Jobs, NEW e, ExecShape(e),
           exec' = [exec EXCEPT ![j] = e], UNCHANGED <<outbox, sent>>, CompletedStay,
           JobStep(j), exec[j].state # "absent", e.state # "absent"
    PROVE  RuntimeStep({})
<1>1. /\ exec' = [k \in Jobs |-> exec'[k]] /\ exec'[j] = e
      /\ \A k \in Jobs \ {j} : exec'[k] = exec[k]
      /\ \A k \in Jobs : ExecShape(exec'[k])
  BY OneJob
<1>2. \A k \in Jobs : JobStep(k)
  BY <1>1 DEF JobStep
<1>3. \A k \in Jobs : exec'[k].state = "absent" <=> exec[k].state = "absent" /\ k \notin {}
  BY <1>1
<1>4. sent' = sent /\ sent \subseteq Jobs \X (1..MaxAttempts)
  BY DEF RowsFollow
<1>5. OneJobOrBatch
  BY <1>1 DEF OneJobOrBatch
<1> QED
  BY <1>1, <1>2, <1>3, <1>4, <1>5, SameRows DEF RuntimeStep

LEMMA ClaimSteps ==
    ASSUME JobsAreTold, RowsFollow, NEW w \in Workers, NEW j \in Jobs,
           NEW n \in 1..MaxAttempts, Claim(w, j, n)
    PROVE  RuntimeStep({})
<1> DEFINE e == [exec[j] EXCEPT !.state = "running", !.owner = w, !.lease = now + JobLease,
                                !.attempts = Append(exec[j].attempts, "running")]
<1>0. /\ ExecShape(exec[j]) /\ DOMAIN exec = Jobs
      /\ exec[j].attempts \in Seq(AttemptStates)
      /\ exec[j].state \in Waiting /\ n = AttemptCount(j) + 1
  BY DEF JobsAreTold, Claim, ClaimWaiting, Waiting, ExecShape
<1>7. CompletedStay
  BY NoneCompleted DEF Claim
<1>1. exec' = [exec EXCEPT ![j] = e] /\ UNCHANGED <<outbox, sent>>
  <2>1. /\ exec' = [exec EXCEPT ![j] =
               [@ EXCEPT !.state = "running", !.owner = w, !.lease = now + JobLease,
                         !.attempts = Append(exec[j].attempts, "running")]]
        /\ UNCHANGED <<outbox, sent>>
    BY DEF Claim, ClaimWaiting
  <2> QED
    BY <1>0, <2>1
<1>2. Append(exec[j].attempts, "running") \in Seq(AttemptStates)
  BY <1>0, AttemptAdded
<1>3. /\ ExecShape(e) /\ e.state = "running"
      /\ e.attempts = Append(exec[j].attempts, "running")
  BY <1>0, <1>2 DEF ExecShape, JobStates
<1> HIDE DEF e
<1>4. exec'[j] = e
  BY <1>1, <1>3, OneJob
<1>5. AttemptCount(j) < MaxAttempts
  BY <1>0, Limits DEF AttemptCount
<1>6. JobStep(j)
  BY <1>0, <1>3, <1>4, <1>5 DEF JobStep
<1> QED
  BY <1>0, <1>1, <1>3, <1>6, <1>7, OneJobSteps DEF Waiting

(* A settled job: its running attempt ends as the job does.                *)
LEMMA SettleSteps ==
    ASSUME JobsAreTold, RowsFollow, NEW j \in Jobs, NEW state, NEW a,
           exec[j].state = "running", Settle(j, state, a), UNCHANGED <<sent, completed>>,
           \/ <<state, a>> \in {<<"succeeded", "succeeded">>, <<"failed", "permanent_failure">>}
           \/ state = "failed" /\ a \in Retried /\ AttemptCount(j) = MaxAttempts
    PROVE  RuntimeStep({})
<1> DEFINE tries == [exec[j].attempts EXCEPT ![AttemptCount(j)] = a]
           e == [exec[j] EXCEPT !.state = state, !.attempts = tries,
                                !.owner = None, !.lease = None]
<1>0. /\ ExecShape(exec[j]) /\ DOMAIN exec = Jobs
      /\ exec[j].attempts \in Seq(AttemptStates) /\ exec[j].attempts # <<>>
  BY DEF JobsAreTold, ExecShape
<1>1. exec' = [exec EXCEPT ![j] = e] /\ UNCHANGED <<outbox, sent>>
  BY <1>0 DEF Settle
<1>2. \/ <<state, a>> \in Endings
      \/ state = "failed" /\ a \in Retried /\ Len(exec[j].attempts) = MaxAttempts
  BY DEF Endings, AttemptCount
<1>4. a \in AttemptStates /\ state \in {"succeeded", "failed"}
  BY DEF AttemptStates, Retried
<1>3. tries \in Seq(AttemptStates)
  BY <1>0, <1>4, AttemptEnded DEF AttemptCount
<1> HIDE DEF tries
<1>5. ExecShape(e) /\ e.state = state /\ e.attempts = tries
  BY <1>0, <1>3, <1>4 DEF ExecShape, JobStates
<1> HIDE DEF e
<1>6. exec'[j] = e
  BY <1>1, <1>5, OneJob
<1>7. JobStep(j)
  <2>1. exec'[j].attempts = [exec[j].attempts EXCEPT ![AttemptCount(j)] = a]
    BY <1>5, <1>6 DEF tries
  <2>2. exec'[j].state = state /\ exec'[j].state # "retry_wait"
    BY <1>4, <1>5, <1>6
  <2>3. \/ <<exec'[j].state, a>> \in Endings
        \/ exec'[j].state = "failed" /\ a \in Retried /\ AttemptCount(j) = MaxAttempts
    BY <1>2, <2>2 DEF AttemptCount
  <2> QED
    BY <1>4, <2>1, <2>2, <2>3 DEF JobStep
<1> QED
  BY <1>1, <1>4, <1>5, <1>7, NoneCompleted, OneJobSteps

(* A retried job: its next attempt has a row.                              *)
LEMMA RetrySteps ==
    ASSUME JobsAreTold, RowsFollow, NEW j \in Jobs, NEW delay,
           exec[j].state = "running", Retry(j, delay), UNCHANGED <<sent, completed>>
    PROVE  RuntimeStep({})
<1> DEFINE a == "transient_failure"
           tries == [exec[j].attempts EXCEPT ![AttemptCount(j)] = a]
           e == [exec[j] EXCEPT !.state = "retry_wait", !.owner = None, !.lease = None,
                                !.attempts = tries, !.available = now + delay]
<1>0. /\ ExecShape(exec[j]) /\ DOMAIN exec = Jobs /\ exec[j].attempts # <<>>
      /\ exec[j].attempts \in Seq(AttemptStates) /\ AttemptCount(j) = Len(exec[j].attempts)
      /\ AttemptCount(j) < MaxAttempts
  BY DEF JobsAreTold, ExecShape, AttemptCount, Retry
<1>1. /\ exec' = [exec EXCEPT ![j] = e] /\ sent' = sent
      /\ outbox' = [outbox EXCEPT ![j][AttemptCount(j) + 1] = NewRow(now + delay)]
  BY <1>0 DEF Retry
<1>2. <<"retry_wait", a>> \in Endings /\ a \in AttemptStates
  BY DEF Endings, Retried, AttemptStates
<1>3. tries \in Seq(AttemptStates) /\ Len(tries) = AttemptCount(j)
  BY <1>0, <1>2, AttemptEnded
<1>a. tries = [exec[j].attempts EXCEPT ![AttemptCount(j)] = a]
  OBVIOUS
<1> HIDE DEF tries, a
<1>5. ExecShape(e) /\ e.state = "retry_wait" /\ e.attempts = tries
  BY <1>0, <1>3 DEF ExecShape, JobStates, Waiting
<1> HIDE DEF e
<1>6. /\ exec' = [k \in Jobs |-> exec'[k]] /\ exec'[j] = e
      /\ \A k \in Jobs \ {j} : exec'[k] = exec[k]
      /\ \A k \in Jobs : ExecShape(exec'[k])
  BY <1>1, <1>5, OneJob
<1>7. JobStep(j)
  BY <1>0, <1>2, <1>5, <1>6, <1>a DEF JobStep
<1>8. \A k \in Jobs : JobStep(k)
  BY <1>6, <1>7 DEF JobStep
<1>9. \A k \in Jobs : exec'[k].state = "absent" <=> exec[k].state = "absent" /\ k \notin {}
  BY <1>5, <1>6
<1>10. /\ AttemptCount(j) + 1 \in 1..MaxAttempts
       /\ AttemptCount(j) + 1 = Len(exec'[j].attempts) + 1 /\ exec'[j].state \in Waiting
  BY <1>0, <1>3, <1>5, <1>6, Limits DEF Waiting
<1>11. /\ outbox' = [k \in Jobs |-> outbox'[k]]
       /\ \A k \in Jobs : outbox'[k] = [n \in 1..MaxAttempts |-> outbox'[k][n]]
       /\ \A k \in Jobs, n \in 1..MaxAttempts : RowStep(k, n)
  BY <1>1, <1>10, OneRow
<1>12. sent' \subseteq Jobs \X (1..MaxAttempts)
  BY <1>1 DEF RowsFollow
<1>13. OneJobOrBatch
  BY <1>6 DEF OneJobOrBatch
<1> QED
  BY <1>1, <1>6, <1>8, <1>9, <1>11, <1>12, <1>13, NoneCompleted DEF RuntimeStep

LEMMA ClearedSteps ==
    ASSUME JobsAreTold, RowsFollow, NEW j \in Jobs,
           exec[j].state = "running", LeaseCleared(j), UNCHANGED <<sent, completed>>
    PROVE  RuntimeStep({})
<1> DEFINE e == [exec[j] EXCEPT !.owner = None, !.lease = None]
<1>0. ExecShape(exec[j]) /\ DOMAIN exec = Jobs
  BY DEF JobsAreTold
<1>1. exec' = [exec EXCEPT ![j] = e] /\ UNCHANGED <<outbox, sent>>
  BY <1>0 DEF LeaseCleared, ExecShape
<1>2. ExecShape(e) /\ e.state = exec[j].state /\ e.attempts = exec[j].attempts
  BY <1>0 DEF ExecShape
<1> HIDE DEF e
<1>3. exec'[j] = e
  BY <1>1, <1>2, OneJob
<1>4. JobStep(j)
  BY <1>2, <1>3 DEF JobStep
<1> QED
  BY <1>1, <1>2, <1>4, NoneCompleted, OneJobSteps

LEMMA OutcomeSteps ==
    ASSUME JobsAreTold, RowsFollow, NEW w \in Workers, NEW j \in Jobs, NEW n,
           RecordOutcome(w, j, n)
    PROVE  RuntimeStep({})
<1>1. UNCHANGED <<sent, completed>>
  BY DEF RecordOutcome
<1>2. CASE ~Current(w, j, n)
  BY <1>1, <1>2, QuietRuntime DEF RecordOutcome
<1>3. CASE Current(w, j, n)
  <2>1. exec[j].state = "running"
    BY <1>3 DEF Current
  <2>2. CASE Settle(j, "succeeded", "succeeded")
    BY <1>1, <2>1, <2>2, SettleSteps
  <2>3. CASE Settle(j, "failed", "permanent_failure")
    BY <1>1, <2>1, <2>3, SettleSteps
  <2>4. CASE AttemptCount(j) = MaxAttempts /\ Settle(j, "failed", "transient_failure")
    BY <1>1, <2>1, <2>4, SettleSteps DEF Retried
  <2>5. CASE \E delay \in 0..DelayCap : Retry(j, delay)
    BY <1>1, <2>1, <2>5, RetrySteps
  <2>6. CASE LeaseCleared(j)
    BY <1>1, <2>1, <2>6, ClearedSteps
  <2> QED
    BY <1>3, <2>2, <2>3, <2>4, <2>5, <2>6 DEF RecordOutcome
<1> QED
  BY <1>2, <1>3

(* complete() leaves the attempts and the rows alone.                      *)
LEMMA CompleteSteps ==
    ASSUME JobsAreTold, RowsFollow, NEW j \in Jobs, Complete(j)
    PROVE  RuntimeStep({})
<1> DEFINE e == [exec[j] EXCEPT !.state = "succeeded", !.owner = None, !.lease = None]
<1>0. ExecShape(exec[j]) /\ DOMAIN exec = Jobs /\ exec[j].state # "absent"
  BY DEF JobsAreTold, Complete
<1>1. exec' = [exec EXCEPT ![j] = e] /\ UNCHANGED <<outbox, sent>>
  BY <1>0 DEF Complete
<1>2. ExecShape(e) /\ e.state = "succeeded" /\ e.attempts = exec[j].attempts
  BY <1>0 DEF ExecShape, JobStates
<1> HIDE DEF e
<1>3. exec'[j] = e
  BY <1>1, <1>2, OneJob
<1>4. /\ DOMAIN completed' = DOMAIN completed \cup {j}
      /\ \A k \in DOMAIN completed' : completed'[k] = Shown(k)
  BY DEF Complete
<1>5. CompletedStay
  <2>1. ASSUME NEW k \in DOMAIN completed' PROVE Shown(k)' = completed'[k]
    BY DEF Shown
  <2> QED
    BY <1>4, <2>1 DEF CompletedStay
<1>6. JobStep(j)
  BY <1>0, <1>2, <1>3, <1>4 DEF JobStep
<1> QED
  BY <1>0, <1>1, <1>2, <1>5, <1>6, OneJobSteps

(* Rows that only change their state, and jobs that become queued.         *)
LEMMA RowStates ==
    ASSUME NEW r, RowShape(r), NEW s \in {"pending", "published", "failed"}
    PROVE  LET e == [r EXCEPT !.state = s] IN RowShape(e) /\ e.state = s
BY DEF RowShape

LEMMA UnpublishedRow ==
    ASSUME NEW r, RowShape(r), r.state = "pending"
    PROVE  RowShape(Unpublished(r)) /\ Unpublished(r).state # "absent"
<1> DEFINE failures == r.failures + 1
           s == IF failures >= MaxPublish THEN "failed" ELSE r.state
           at == IF failures >= MaxPublish THEN r.available
                 ELSE now + Min({DelayCap, 2 ^ (failures - 1)})
           e == [r EXCEPT !.failures = failures, !.state = s, !.available = at]
<1>1. Unpublished(r) = e
  BY DEF Unpublished, RowShape
<1>2. s \in {"failed", "pending"}
  OBVIOUS
<1> HIDE DEF failures, s, at
<1>3. RowShape(e) /\ e.state = s
  BY <1>2 DEF RowShape
<1> HIDE DEF e
<1> QED
  BY <1>1, <1>2, <1>3

LEMMA RowsStep ==
    ASSUME RowsFollow, NEW f,
           outbox' = [j \in Jobs |-> [n \in 1..MaxAttempts |-> f[<<j, n>>]]],
           \A j \in Jobs, n \in 1..MaxAttempts :
              \/ f[<<j, n>>] = outbox[j][n]
              \/ /\ outbox[j][n].state # "absent"
                 /\ RowShape(f[<<j, n>>]) /\ f[<<j, n>>].state # "absent"
    PROVE  /\ outbox' = [j \in Jobs |-> outbox'[j]]
           /\ \A j \in Jobs : outbox'[j] = [n \in 1..MaxAttempts |-> outbox'[j][n]]
           /\ \A j \in Jobs, n \in 1..MaxAttempts : RowStep(j, n)
<1>1. /\ outbox' = [j \in Jobs |-> outbox'[j]]
      /\ \A j \in Jobs : outbox'[j] = [n \in 1..MaxAttempts |-> outbox'[j][n]]
      /\ \A j \in Jobs, n \in 1..MaxAttempts : outbox'[j][n] = f[<<j, n>>]
  OBVIOUS
<1>2. ASSUME NEW j \in Jobs, NEW n \in 1..MaxAttempts PROVE RowStep(j, n)
  <2>0. RowShape(outbox[j][n])
    BY DEF RowsFollow
  <2>1. CASE f[<<j, n>>] = outbox[j][n]
    BY <1>1, <2>0, <2>1 DEF RowStep
  <2>2. CASE f[<<j, n>>] # outbox[j][n]
    BY <1>1, <2>2 DEF RowStep
  <2> QED
    BY <2>1, <2>2
<1> QED
  BY <1>1, <1>2

LEMMA BatchParts ==
    ASSUME NEW S, NEW B \in Batches(S)
    PROVE  B \subseteq S
BY DEF Batches

LEMMA RelaySteps ==
    ASSUME JobsAreTold, RowsFollow, NEW delivered, RelayDue(delivered)
    PROVE  RuntimeStep({})
<1>0. UNCHANGED completed
  BY DEF RelayDue
<1> DEFINE Ready == {r \in Rows("pending") : outbox[r[1]][r[2]].available <= now}
<1>1. PICK batch \in Batches(Ready) :
          /\ delivered \subseteq batch
          /\ outbox' = [j \in Jobs |-> [n \in 1..MaxAttempts |->
                 IF <<j, n>> \in delivered
                 THEN [outbox[j][n] EXCEPT !.state = "published"]
                 ELSE IF <<j, n>> \in batch THEN Unpublished(outbox[j][n])
                 ELSE outbox[j][n]]]
  BY DEF RelayDue
<1>2. batch \subseteq Ready
  BY BatchParts
<1>3. \A r \in batch : /\ r \in Jobs \X (1..MaxAttempts)
                       /\ outbox[r[1]][r[2]].state = "pending"
  BY <1>2 DEF Rows
<1> HIDE DEF Ready
<1> DEFINE f == [r \in Jobs \X (1..MaxAttempts) |->
                 IF r \in delivered
                 THEN [outbox[r[1]][r[2]] EXCEPT !.state = "published"]
                 ELSE IF r \in batch THEN Unpublished(outbox[r[1]][r[2]])
                 ELSE outbox[r[1]][r[2]]]
<1>4. \A j \in Jobs, n \in 1..MaxAttempts :
        f[<<j, n>>] = IF <<j, n>> \in delivered
                      THEN [outbox[j][n] EXCEPT !.state = "published"]
                      ELSE IF <<j, n>> \in batch THEN Unpublished(outbox[j][n])
                      ELSE outbox[j][n]
  OBVIOUS
<1> HIDE DEF f
<1>5. outbox' = [j \in Jobs |-> [n \in 1..MaxAttempts |-> f[<<j, n>>]]]
  BY <1>1, <1>4, Zenon
<1>6. ASSUME NEW j \in Jobs, NEW n \in 1..MaxAttempts, <<j, n>> \in batch
      PROVE  /\ outbox[j][n].state = "pending"
             /\ RowShape(f[<<j, n>>]) /\ f[<<j, n>>].state # "absent"
  <2>1. RowShape(outbox[j][n]) /\ outbox[j][n].state = "pending"
    BY <1>3, <1>6 DEF RowsFollow
  <2>2. CASE <<j, n>> \in delivered
    <3>1. f[<<j, n>>] = [outbox[j][n] EXCEPT !.state = "published"]
      BY <1>4, <2>2
    <3> QED
      BY <2>1, <3>1, RowStates
  <2>3. CASE <<j, n>> \notin delivered
    <3>1. f[<<j, n>>] = Unpublished(outbox[j][n])
      BY <1>4, <1>6, <2>3
    <3> QED
      BY <2>1, <3>1, UnpublishedRow
  <2> QED
    BY <2>2, <2>3
<1>7. ASSUME NEW j \in Jobs, NEW n \in 1..MaxAttempts
      PROVE  \/ f[<<j, n>>] = outbox[j][n]
             \/ /\ outbox[j][n].state # "absent"
                /\ RowShape(f[<<j, n>>]) /\ f[<<j, n>>].state # "absent"
  <2>1. CASE <<j, n>> \in batch
    BY <1>6, <2>1
  <2>2. CASE <<j, n>> \notin batch
    BY <1>1, <1>4, <2>2
  <2> QED
    BY <2>1, <2>2
<1>8. /\ outbox' = [j \in Jobs |-> outbox'[j]]
      /\ \A j \in Jobs : outbox'[j] = [n \in 1..MaxAttempts |-> outbox'[j][n]]
      /\ \A j \in Jobs, n \in 1..MaxAttempts : RowStep(j, n)
  BY <1>5, <1>7, RowsStep
<1>9. ASSUME NEW j \in Jobs
      PROVE  /\ ExecShape(exec'[j])
             /\ \/ exec'[j] = exec[j]
                \/ /\ exec[j].state \in Waiting \/ j \in DOMAIN completed'
                   /\ exec'[j].state = "queued" /\ exec[j].state # "absent"
                   /\ exec'[j].attempts = exec[j].attempts
  <2>0. ExecShape(exec[j]) /\ AttemptCount(j) \in Nat
    BY DEF JobsAreTold, ExecShape, AttemptCount
  <2>1. CASE Requeued(j, delivered)
    <3> DEFINE n == AttemptCount(j) + 1
    <3>1. <<j, n>> \in batch /\ n \in 1..MaxAttempts /\ outbox[j][n].state = "pending"
      BY <1>1, <1>3, <2>1 DEF Requeued
    <3>2. /\ exec[j].state # "absent"
          /\ exec[j].state \in Waiting \/ j \in DOMAIN completed'
      BY <1>0, <3>1 DEF RowsFollow
    <3>3. exec'[j] = [exec[j] EXCEPT !.state = "queued"]
      BY <2>1 DEF RelayDue
    <3> QED
      BY <2>0, <3>2, <3>3 DEF ExecShape, JobStates, Waiting
  <2>2. CASE ~Requeued(j, delivered)
    <3>1. exec'[j] = exec[j]
      BY <2>2 DEF RelayDue
    <3> QED
      BY <2>0, <3>1
  <2> QED
    BY <2>1, <2>2
<1>10. exec' = [j \in Jobs |-> exec'[j]]
  BY DEF RelayDue
<1>11. \A j \in Jobs : JobStep(j)
  BY <1>9 DEF JobStep
<1>12. \A j \in Jobs : exec'[j].state = "absent" <=> exec[j].state = "absent" /\ j \notin {}
  BY <1>9 DEF Waiting
<1>13. OneJobOrBatch
  BY <1>9 DEF OneJobOrBatch
<1>14. sent' = sent \cup delivered /\ sent \subseteq Jobs \X (1..MaxAttempts)
  BY DEF RelayDue, RowsFollow
<1>15. ASSUME NEW m \in delivered
       PROVE  m \in Jobs \X (1..MaxAttempts) /\ outbox'[m[1]][m[2]].state # "absent"
  <2>1. m \in batch /\ m[1] \in Jobs /\ m[2] \in 1..MaxAttempts /\ m = <<m[1], m[2]>>
    BY <1>1, <1>3
  <2>2. outbox[m[1]][m[2]].state = "pending"
    BY <1>3, <2>1
  <2>3. RowStep(m[1], m[2])
    BY <1>8, <2>1
  <2> QED
    BY <2>1, <2>2, <2>3 DEF RowStep
<1>16. sent' \subseteq Jobs \X (1..MaxAttempts)
  BY <1>14, <1>15
<1>17. \A m \in sent' : m \in sent \/ outbox'[m[1]][m[2]].state # "absent"
  BY <1>14, <1>15
<1> QED
  BY <1>0, <1>8, <1>9, <1>10, <1>11, <1>12, <1>13, <1>16, <1>17, NoneCompleted DEF RuntimeStep

(* The executions do not change.                                           *)
LEMMA SameJobs ==
    ASSUME JobsAreTold, UNCHANGED exec
    PROVE  /\ exec' = [j \in Jobs |-> exec'[j]]
           /\ \A j \in Jobs : ExecShape(exec'[j]) /\ JobStep(j)
           /\ \A j \in Jobs : exec'[j].state = "absent" <=> exec[j].state = "absent" /\ j \notin {}
           /\ OneJobOrBatch
<1>1. exec' = [j \in Jobs |-> exec'[j]] /\ \A j \in Jobs : ExecShape(exec'[j])
  BY DEF JobsAreTold, ExecShape
<1>2. \A j \in Jobs : JobStep(j)
  BY DEF JobStep
<1>3. OneJobOrBatch
  BY DEF OneJobOrBatch
<1> QED
  BY <1>1, <1>2, <1>3

LEMMA RebuildSteps ==
    ASSUME JobsAreTold, RowsFollow, RebuildOutbox
    PROVE  RuntimeStep({})
<1>1. PICK batch \in Batches(Rows("published")) :
          outbox' = [j \in Jobs |-> [n \in 1..MaxAttempts |->
                 IF <<j, n>> \notin batch THEN outbox[j][n]
                 ELSE IF outbox[j][n].failures >= MaxPublish
                 THEN [outbox[j][n] EXCEPT !.state = "failed"]
                 ELSE [outbox[j][n] EXCEPT !.state = "pending"]]]
  BY DEF RebuildOutbox
<1>2. batch \subseteq Rows("published")
  BY BatchParts
<1> DEFINE f == [r \in Jobs \X (1..MaxAttempts) |->
                 IF r \notin batch THEN outbox[r[1]][r[2]]
                 ELSE IF outbox[r[1]][r[2]].failures >= MaxPublish
                 THEN [outbox[r[1]][r[2]] EXCEPT !.state = "failed"]
                 ELSE [outbox[r[1]][r[2]] EXCEPT !.state = "pending"]]
<1>4. \A j \in Jobs, n \in 1..MaxAttempts :
        f[<<j, n>>] = IF <<j, n>> \notin batch THEN outbox[j][n]
                      ELSE IF outbox[j][n].failures >= MaxPublish
                      THEN [outbox[j][n] EXCEPT !.state = "failed"]
                      ELSE [outbox[j][n] EXCEPT !.state = "pending"]
  OBVIOUS
<1> HIDE DEF f
<1>5. outbox' = [j \in Jobs |-> [n \in 1..MaxAttempts |-> f[<<j, n>>]]]
  BY <1>1, <1>4, Zenon
<1>7. ASSUME NEW j \in Jobs, NEW n \in 1..MaxAttempts
      PROVE  \/ f[<<j, n>>] = outbox[j][n]
             \/ /\ outbox[j][n].state # "absent"
                /\ RowShape(f[<<j, n>>]) /\ f[<<j, n>>].state # "absent"
  <2>1. CASE <<j, n>> \in batch
    <3>1. RowShape(outbox[j][n]) /\ outbox[j][n].state = "published"
      BY <1>2, <2>1 DEF RowsFollow, Rows
    <3>2. PICK s \in {"failed", "pending"} : f[<<j, n>>] = [outbox[j][n] EXCEPT !.state = s]
      BY <1>4, <2>1
    <3> QED
      BY <3>1, <3>2, RowStates
  <2>2. CASE <<j, n>> \notin batch
    BY <1>4, <2>2
  <2> QED
    BY <2>1, <2>2
<1>8. /\ outbox' = [j \in Jobs |-> outbox'[j]]
      /\ \A j \in Jobs : outbox'[j] = [n \in 1..MaxAttempts |-> outbox'[j][n]]
      /\ \A j \in Jobs, n \in 1..MaxAttempts : RowStep(j, n)
  BY <1>5, <1>7, RowsStep
<1>9. UNCHANGED <<exec, sent, completed>> /\ sent' \subseteq Jobs \X (1..MaxAttempts)
  BY DEF RebuildOutbox, RowsFollow
<1> QED
  BY <1>8, <1>9, SameJobs, NoneCompleted DEF RuntimeStep

(* An attempt whose lease ended is abandoned.                              *)
LEMMA AbandonedJob ==
    ASSUME JobsAreTold, NEW j \in Jobs, exec[j].state = "running"
    PROVE  /\ ExecShape(Abandoned(j))
           /\ Abandoned(j).state =
                 IF AttemptCount(j) < MaxAttempts THEN "retry_wait" ELSE "failed"
           /\ Abandoned(j).attempts = [exec[j].attempts EXCEPT ![AttemptCount(j)] = "abandoned"]
           /\ Len(Abandoned(j).attempts) = AttemptCount(j)
<1> DEFINE more == AttemptCount(j) < MaxAttempts
           tries == [exec[j].attempts EXCEPT ![AttemptCount(j)] = "abandoned"]
           state == IF more THEN "retry_wait" ELSE "failed"
           at == IF more THEN now ELSE exec[j].available
           e == [exec[j] EXCEPT !.attempts = tries, !.owner = None, !.lease = None,
                                !.state = state, !.available = at]
<1>0. /\ ExecShape(exec[j]) /\ exec[j].attempts # <<>>
      /\ exec[j].attempts \in Seq(AttemptStates) /\ AttemptCount(j) = Len(exec[j].attempts)
      /\ AttemptCount(j) <= MaxAttempts
  BY DEF JobsAreTold, ExecShape, AttemptCount
<1>1. Abandoned(j) = e
  BY <1>0 DEF Abandoned, ExecShape
<1>2. "abandoned" \in AttemptStates
  BY DEF AttemptStates, Retried
<1>3. tries \in Seq(AttemptStates) /\ Len(tries) = AttemptCount(j)
  BY <1>0, <1>2, AttemptEnded
<1>4. state \in {"retry_wait", "failed"}
  OBVIOUS
<1> HIDE DEF tries, state, at
<1>5. ExecShape(e) /\ e.state = state /\ e.attempts = tries
  BY <1>0, <1>3, <1>4 DEF ExecShape, JobStates, Waiting
<1> HIDE DEF e
<1> QED
  BY <1>1, <1>3, <1>5 DEF tries, state

LEMMA ReapSteps ==
    ASSUME JobsAreTold, RowsFollow, ReapExpired
    PROVE  RuntimeStep({})
<1>1. PICK batch \in Batches({j \in Jobs : Expired(j)}) : AbandonAll(batch)
  BY DEF ReapExpired
<1>2. batch \subseteq Jobs /\ \A j \in batch : exec[j].state = "running"
  BY BatchParts DEF Expired
<1>3. exec' = [j \in Jobs |-> IF j \in batch THEN Abandoned(j) ELSE exec[j]]
  BY <1>1 DEF AbandonAll
<1>4. /\ exec' = [j \in Jobs |-> exec'[j]]
      /\ \A j \in batch : exec'[j] = Abandoned(j)
      /\ \A j \in Jobs \ batch : exec'[j] = exec[j]
  BY <1>2, <1>3
<1>5. ASSUME NEW j \in batch
      PROVE  /\ ExecShape(exec'[j]) /\ JobStep(j)
             /\ exec'[j].state = IF AttemptCount(j) < MaxAttempts THEN "retry_wait" ELSE "failed"
             /\ Len(exec'[j].attempts) = AttemptCount(j)
  <2>0. AttemptCount(j) \in Nat /\ AttemptCount(j) <= MaxAttempts
    BY <1>2 DEF JobsAreTold, ExecShape, AttemptCount
  <2>1. /\ ExecShape(exec'[j])
        /\ exec'[j].state = IF AttemptCount(j) < MaxAttempts THEN "retry_wait" ELSE "failed"
        /\ exec'[j].attempts = [exec[j].attempts EXCEPT ![AttemptCount(j)] = "abandoned"]
        /\ Len(exec'[j].attempts) = AttemptCount(j)
    BY <1>2, <1>4, AbandonedJob
  <2>2. "abandoned" \in AttemptStates /\ "abandoned" \in Retried
    BY DEF AttemptStates, Retried
  <2>3. \/ <<exec'[j].state, "abandoned">> \in Endings
        \/ exec'[j].state = "failed" /\ "abandoned" \in Retried /\ AttemptCount(j) = MaxAttempts
    BY <2>0, <2>1, <2>2, Limits DEF Endings
  <2>4. exec'[j].state = "retry_wait" => AttemptCount(j) < MaxAttempts
    BY <2>1
  <2>5. JobStep(j)
    BY <1>2, <2>1, <2>2, <2>3, <2>4 DEF JobStep
  <2> QED
    BY <2>1, <2>5
<1>6. \A j \in Jobs : ExecShape(exec'[j]) /\ JobStep(j)
  <2>1. ASSUME NEW j \in Jobs \ batch PROVE ExecShape(exec'[j]) /\ JobStep(j)
    <3>1. exec'[j] = exec[j] /\ ExecShape(exec[j])
      BY <1>4 DEF JobsAreTold
    <3> QED
      BY <3>1 DEF JobStep
  <2> QED
    BY <1>5, <2>1
<1>7. \A j \in Jobs : exec'[j].state = "absent" <=> exec[j].state = "absent" /\ j \notin {}
  BY <1>2, <1>4, <1>5
<1>8. OneJobOrBatch
  BY <1>2, <1>4, <1>5 DEF OneJobOrBatch
<1>9. outbox' = [j \in Jobs |->
          IF j \in batch /\ AttemptCount(j) < MaxAttempts
          THEN [outbox[j] EXCEPT ![AttemptCount(j) + 1] = NewRow(now)]
          ELSE outbox[j]]
  BY <1>1 DEF AbandonAll
<1>10. ASSUME NEW j \in Jobs
       PROVE  /\ outbox'[j] = [n \in 1..MaxAttempts |-> outbox'[j][n]]
              /\ \A n \in 1..MaxAttempts : RowStep(j, n)
  <2>0. /\ outbox[j] = [n \in 1..MaxAttempts |-> outbox[j][n]]
        /\ \A n \in 1..MaxAttempts : RowShape(outbox[j][n])
    BY DEF RowsFollow
  <2>1. CASE j \in batch /\ AttemptCount(j) < MaxAttempts
    <3> DEFINE n0 == AttemptCount(j) + 1
    <3>1. outbox'[j] = [outbox[j] EXCEPT ![n0] = NewRow(now)]
      BY <1>9, <2>1
    <3>2. n0 = Len(exec'[j].attempts) + 1 /\ exec'[j].state \in Waiting
      BY <1>5, <2>1 DEF Waiting
    <3> HIDE DEF n0
    <3>3. /\ outbox'[j] = [n \in 1..MaxAttempts |-> outbox'[j][n]]
          /\ \A n \in 1..MaxAttempts : n # n0 => outbox'[j][n] = outbox[j][n]
          /\ n0 \in 1..MaxAttempts => outbox'[j][n0] = NewRow(now)
      BY <2>0, <3>1
    <3>4. ASSUME NEW n \in 1..MaxAttempts PROVE RowStep(j, n)
      <4>1. CASE n = n0
        BY <3>2, <3>3, <4>1, NewRowShape DEF RowStep
      <4>2. CASE n # n0
        <5>1. outbox'[j][n] = outbox[j][n] /\ RowShape(outbox[j][n])
          BY <2>0, <3>3, <4>2
        <5> QED
          BY <5>1 DEF RowStep
      <4> QED
        BY <4>1, <4>2
    <3> QED
      BY <3>3, <3>4
  <2>2. CASE ~(j \in batch /\ AttemptCount(j) < MaxAttempts)
    <3>1. outbox'[j] = outbox[j]
      BY <1>9, <2>2
    <3> QED
      BY <2>0, <3>1 DEF RowStep
  <2> QED
    BY <2>1, <2>2
<1>11. outbox' = [j \in Jobs |-> outbox'[j]]
  BY <1>9
<1>12. sent' = sent /\ UNCHANGED completed /\ sent' \subseteq Jobs \X (1..MaxAttempts)
  BY DEF ReapExpired, RowsFollow
<1> QED
  BY <1>4, <1>6, <1>7, <1>8, <1>10, <1>11, <1>12, NoneCompleted DEF RuntimeStep

-----------------------------------------------------------------------------
(* Schedules                                                               *)

(* The instants of a fixed interval: n is one iff n - first is a multiple. *)
LEMMA Multiples ==
    ASSUME NEW q \in Nat, NEW r \in Nat, r < Interval
    PROVE  (q * Interval + r) % Interval = r
<1>1. Interval \in Nat \ {0}
  BY Limits
<1> QED
  BY <1>1

(* Planned, as a function of the schedule.                                 *)
Instants(s) ==
    IF s.kind = "one_shot" THEN {t \in {s.first} : ~s.enabled}
    ELSE {t \in s.first..MaxTime : t < s.next /\ (t - s.first) % Interval = 0}

LEMMA PlannedIs ==
    /\ \A i \in DOMAIN schedules : Planned(i) = Instants(schedules[i])
    /\ \A i \in DOMAIN schedules' : Planned(i)' = Instants(schedules'[i])
BY DEF Planned, Instants

(* advance_schedule passes the planned instant and no other.               *)
LEMMA IntervalInstants ==
    ASSUME NEW first \in 0..MaxTime, NEW q \in Nat, NEW next \in Nat,
           next = first + q * Interval, next <= MaxTime
    PROVE  {t \in first..MaxTime : t < next + Interval /\ (t - first) % Interval = 0}
             = {t \in first..MaxTime : t < next /\ (t - first) % Interval = 0} \cup {next}
<1>0. MaxTime \in Nat /\ Interval \in Nat \ {0} /\ q * Interval \in Nat
  BY Limits
<1>1. next \in first..MaxTime /\ next < next + Interval
  BY <1>0
<1>2. (next - first) % Interval = 0
  <2>1. next - first = q * Interval + 0
    BY <1>0
  <2> QED
    BY <1>0, <2>1, Multiples
<1>3. ASSUME NEW t \in first..MaxTime, t < next + Interval, (t - first) % Interval = 0,
             ~(t < next)
      PROVE  t = next
  <2>1. t - next \in Nat /\ t - next < Interval /\ t - first = q * Interval + (t - next)
    BY <1>0, <1>3
  <2>2. (t - first) % Interval = t - next
    BY <2>1, Multiples
  <2> QED
    BY <1>0, <1>3, <2>2
<1>4. \A t \in first..MaxTime : t < next => t < next + Interval
  BY <1>0
<1> QED
  BY <1>1, <1>2, <1>3, <1>4

(* The schedule that Advance leaves.                                       *)
Advanced(s) ==
    IF s.kind = "one_shot" THEN [s EXCEPT !.enabled = FALSE]
    ELSE [s EXCEPT !.next = s.next + Interval]

LEMMA AdvancedSchedule ==
    ASSUME NEW s \in Schedule, InPhase(s), s.enabled, s.next <= MaxTime
    PROVE  /\ Advanced(s) \in Schedule
           /\ InPhase(Advanced(s))
           /\ Instants(Advanced(s)) = Instants(s) \cup {s.next}
           /\ s.next \in 0..MaxTime
<1>0. /\ s.kind \in {"one_shot", "fixed_interval"} /\ s.first \in 0..MaxTime /\ s.next \in Nat
      /\ MaxTime \in Nat /\ Interval \in Nat \ {0}
  BY Limits DEF Schedule
<1>1. CASE s.kind = "one_shot"
  <2> DEFINE e == [s EXCEPT !.enabled = FALSE]
  <2>1. Advanced(s) = e
    BY <1>1 DEF Advanced
  <2>2. e \in Schedule /\ e.kind = "one_shot" /\ e.first = s.first /\ e.next = s.next
    BY <1>1 DEF Schedule
  <2>3. e.enabled = FALSE
    BY DEF Schedule
  <2> HIDE DEF e
  <2>4. s.next = s.first
    BY <1>1 DEF InPhase
  <2>5. InPhase(e)
    BY <2>2, <2>4 DEF InPhase
  <2>6. Instants(s) = {}
    BY <1>1 DEF Instants
  <2>7. Instants(e) = {s.first}
    BY <2>2, <2>3 DEF Instants
  <2> QED
    BY <1>0, <2>1, <2>2, <2>4, <2>5, <2>6, <2>7
<1>2. CASE s.kind # "one_shot"
  <2> DEFINE e == [s EXCEPT !.next = s.next + Interval]
  <2>1. Advanced(s) = e
    BY <1>2 DEF Advanced
  <2>2. s.next + Interval \in Nat
    BY <1>0
  <2>3. e \in Schedule /\ e.kind = s.kind /\ e.first = s.first /\ e.next = s.next + Interval
    BY <2>2 DEF Schedule
  <2> HIDE DEF e
  <2>4. PICK q \in Nat : s.next = s.first + q * Interval
    BY <1>2 DEF InPhase
  <2>5. e.next = e.first + (q + 1) * Interval /\ q + 1 \in Nat
    BY <1>0, <2>3, <2>4
  <2>6. InPhase(e)
    BY <1>2, <2>3, <2>5 DEF InPhase
  <2>7. Instants(e) = {t \in s.first..MaxTime : t < s.next + Interval /\ (t - s.first) % Interval = 0}
    BY <1>2, <2>3 DEF Instants
  <2>8. Instants(s) = {t \in s.first..MaxTime : t < s.next /\ (t - s.first) % Interval = 0}
    BY <1>2 DEF Instants
  <2>9. Instants(e) = Instants(s) \cup {s.next}
    BY <1>0, <2>4, <2>7, <2>8, IntervalInstants
  <2> QED
    BY <1>0, <2>1, <2>3, <2>6, <2>9
<1> QED
  BY <1>1, <1>2

(* A schedule that was just added has been through no instant.             *)
LEMMA NewSchedule ==
    ASSUME NEW kind \in {"one_shot", "fixed_interval"}, NEW first \in 0..MaxTime
    PROVE  LET s == [kind |-> kind, first |-> first, next |-> first, enabled |-> TRUE]
           IN  s \in Schedule /\ InPhase(s) /\ Instants(s) = {}
<1> DEFINE s == [kind |-> kind, first |-> first, next |-> first, enabled |-> TRUE]
<1>0. MaxTime \in Nat /\ Interval \in Nat /\ first \in Nat
  BY Limits
<1>1. s \in Schedule
  BY <1>0 DEF Schedule
<1>2. s.kind = kind /\ s.first = first /\ s.next = first /\ s.enabled = TRUE
  OBVIOUS
<1> HIDE DEF s
<1>3. InPhase(s)
  <2>1. first = first + 0 * Interval
    BY <1>0
  <2> QED
    BY <1>2, <2>1 DEF InPhase
<1>4. Instants(s) = {}
  <2>1. CASE kind = "one_shot"
    BY <1>2, <2>1 DEF Instants
  <2>2. CASE kind # "one_shot"
    BY <1>0, <1>2, <2>2 DEF Instants
  <2> QED
    BY <2>1, <2>2
<1> QED
  BY <1>1, <1>3, <1>4 DEF s

LEMMA SlotJobs ==
    \A i \in 1..MaxSchedules, t \in 0..MaxTime :
        <<i, t>> \in Slots /\ <<i, t>> \in Jobs /\ <<i, t>> \notin Submitted
BY RuntimeAssumption DEF Slots, Jobs

LEMMA ScheduleNumbers ==
    ASSUME SchedulesInPhase
    PROVE  /\ DOMAIN schedules = 1..Len(schedules) /\ Len(schedules) \in Nat
           /\ DOMAIN schedules \subseteq 1..MaxSchedules
           /\ now \in Nat /\ now <= MaxTime
           /\ \A i \in DOMAIN schedules : schedules[i] \in Schedule
BY Limits DEF SchedulesInPhase

ScheduleInv == SchedulesInPhase /\ HeldAreDue /\ NoOtherSlots /\ SlotsAreExact

(* Steps that create no execution of a schedule.                           *)
LEMMA SlotsKeep ==
    ASSUME ScheduleInv, NEW S, S \cap Slots = {}, RuntimeStep(S),
           DOMAIN schedules \subseteq DOMAIN schedules',
           \A i \in DOMAIN schedules : schedules'[i] = schedules[i],
           \A i \in DOMAIN schedules' \ DOMAIN schedules :
              i \in 1..MaxSchedules /\ Instants(schedules'[i]) = {}
    PROVE  NoOtherSlots' /\ SlotsAreExact'
<1>1. \A i \in 1..MaxSchedules, t \in 0..MaxTime :
         exec'[<<i, t>>].state = "absent" <=> exec[<<i, t>>].state = "absent"
  BY SlotJobs DEF RuntimeStep
<1>2. NoOtherSlots'
  BY <1>1 DEF ScheduleInv, NoOtherSlots
<1>3. ASSUME NEW i \in DOMAIN schedules'
      PROVE  {t \in 0..MaxTime : exec'[<<i, t>>].state # "absent"} = Planned(i)'
  <2>1. CASE i \in DOMAIN schedules
    <3>1. i \in 1..MaxSchedules
      BY <2>1, ScheduleNumbers DEF ScheduleInv
    <3>2. {t \in 0..MaxTime : exec[<<i, t>>].state # "absent"} = Instants(schedules[i])
      BY <2>1, PlannedIs DEF ScheduleInv, SlotsAreExact
    <3>3. Planned(i)' = Instants(schedules[i])
      BY <2>1, PlannedIs
    <3> QED
      BY <1>1, <3>1, <3>2, <3>3
  <2>2. CASE i \notin DOMAIN schedules
    <3>1. i \in 1..MaxSchedules /\ Planned(i)' = {}
      BY <2>2, PlannedIs
    <3> QED
      BY <1>1, <2>2, <3>1 DEF ScheduleInv, NoOtherSlots
  <2> QED
    BY <2>1, <2>2
<1> QED
  BY <1>2, <1>3 DEF SlotsAreExact

LEMMA QuietSchedules ==
    ASSUME ScheduleInv, UNCHANGED schedvars, NEW S, S \cap Slots = {}, RuntimeStep(S)
    PROVE  ScheduleInv'
<1>1. UNCHANGED <<runtime, now, schedules, held>>
  BY DEF schedvars
<1>2. SchedulesInPhase' /\ HeldAreDue'
  BY <1>1 DEF ScheduleInv, SchedulesInPhase, InPhase, HeldAreDue, Due
<1>3. NoOtherSlots' /\ SlotsAreExact'
  BY <1>1, SlotsKeep
<1> QED
  BY <1>2, <1>3 DEF ScheduleInv

LEMMA AddKeeps ==
    ASSUME ScheduleInv, RuntimeStep({}), NEW kind \in {"one_shot", "fixed_interval"},
           NEW first \in 0..MaxTime, AddSchedule(kind, first)
    PROVE  ScheduleInv'
<1> DEFINE s == [kind |-> kind, first |-> first, next |-> first, enabled |-> TRUE]
           new == Len(schedules) + 1
<1>1. schedules' = Append(schedules, s) /\ UNCHANGED <<runtime, now, held>>
      /\ Len(schedules) < MaxSchedules
  BY DEF AddSchedule
<1>2. s \in Schedule /\ InPhase(s) /\ Instants(s) = {}
  BY NewSchedule
<1> HIDE DEF s
<1>3. /\ schedules \in Seq(Schedule) /\ DOMAIN schedules = 1..Len(schedules)
      /\ Len(schedules) \in Nat /\ MaxSchedules \in Nat
  BY ScheduleNumbers, Limits DEF ScheduleInv, SchedulesInPhase
<1>4. /\ schedules' \in Seq(Schedule) /\ Len(schedules') = new
      /\ DOMAIN schedules' = DOMAIN schedules \cup {new}
      /\ schedules'[new] = s /\ new \notin DOMAIN schedules
      /\ \A i \in DOMAIN schedules : schedules'[i] = schedules[i]
  BY <1>1, <1>2, <1>3
<1>5. new <= MaxSchedules /\ new \in 1..MaxSchedules
  BY <1>1, <1>3
<1> HIDE DEF new
<1>6. \A i \in DOMAIN schedules' : InPhase(schedules'[i])
  BY <1>2, <1>4 DEF ScheduleInv, SchedulesInPhase
<1>7. SchedulesInPhase'
  BY <1>1, <1>4, <1>5, <1>6 DEF ScheduleInv, SchedulesInPhase, InPhase
<1>8. HeldAreDue'
  BY <1>1, <1>4 DEF ScheduleInv, HeldAreDue, Due
<1>9. NoOtherSlots' /\ SlotsAreExact'
  BY <1>2, <1>4, <1>5, SlotsKeep
<1> QED
  BY <1>7, <1>8, <1>9 DEF ScheduleInv

(* The clock, and the locks of the loops.                                  *)
LEMMA ClockKeeps ==
    ASSUME ScheduleInv, RuntimeStep({}), Tick
    PROVE  ScheduleInv'
<1>1. /\ UNCHANGED <<runtime, schedules, held>> /\ now' = now + 1 /\ now < MaxTime
      /\ now \in Nat /\ MaxTime \in Nat
  BY ScheduleNumbers, Limits DEF Tick, ScheduleInv
<1>2. SchedulesInPhase'
  BY <1>1 DEF ScheduleInv, SchedulesInPhase, InPhase
<1>3. \A i \in DOMAIN schedules : schedules[i].next \in Nat
  BY ScheduleNumbers DEF ScheduleInv, Schedule
<1>4. \A i \in DOMAIN schedules : Due(i) => Due(i)'
  BY <1>1, <1>3 DEF Due
<1>5. HeldAreDue'
  BY <1>1, <1>4 DEF ScheduleInv, HeldAreDue
<1>6. NoOtherSlots' /\ SlotsAreExact'
  BY <1>1, SlotsKeep
<1> QED
  BY <1>2, <1>5, <1>6 DEF ScheduleInv

LEMMA LocksKeep ==
    ASSUME ScheduleInv, RuntimeStep({}), NEW l \in Loops, ClaimDue(l) \/ TickLost(l)
    PROVE  ScheduleInv'
<1>1. UNCHANGED <<runtime, now, schedules>>
  BY DEF ClaimDue, TickLost
<1>2. SchedulesInPhase'
  BY <1>1 DEF ScheduleInv, SchedulesInPhase, InPhase
<1>3. NoOtherSlots' /\ SlotsAreExact'
  BY <1>1, SlotsKeep
<1>4. held = [k \in Loops |-> held[k]]
  BY DEF ScheduleInv, HeldAreDue
<1>5. CASE ClaimDue(l)
  <2> DEFINE free == {i \in DOMAIN schedules : Due(i) /\ \A k \in Loops : i \notin held[k]}
  <2>1. held' = [held EXCEPT ![l] = free] /\ runtime = "durable"
    BY <1>5 DEF ClaimDue
  <2>2. /\ \A i \in free : i \in DOMAIN schedules /\ Due(i)
        /\ \A k \in Loops : free \cap held[k] = {}
    OBVIOUS
  <2> HIDE DEF free
  <2>3. /\ held' = [k \in Loops |-> held'[k]] /\ held'[l] = free
        /\ \A k \in Loops \ {l} : held'[k] = held[k]
    BY <1>4, <2>1
  <2>4. HeldAreDue'
    BY <1>1, <2>1, <2>2, <2>3 DEF ScheduleInv, HeldAreDue, Due
  <2> QED
    BY <1>2, <1>3, <2>4 DEF ScheduleInv
<1>6. CASE TickLost(l)
  <2>1. held' = [held EXCEPT ![l] = {}]
    BY <1>6 DEF TickLost
  <2>2. /\ held' = [k \in Loops |-> held'[k]] /\ held'[l] = {}
        /\ \A k \in Loops \ {l} : held'[k] = held[k]
    BY <1>4, <2>1
  <2>3. HeldAreDue'
    BY <1>1, <2>2 DEF ScheduleInv, HeldAreDue, Due
  <2> QED
    BY <1>2, <1>3, <2>3 DEF ScheduleInv
<1> QED
  BY <1>5, <1>6

(* The execution of the planned instant is created as the schedule moves.  *)
LEMMA AdvanceKeeps ==
    ASSUME ScheduleInv, NEW i \in DOMAIN schedules, Due(i), Advance(i),
           UNCHANGED <<runtime, now>>, RuntimeStep({<<i, schedules[i].next>>})
    PROVE  /\ SchedulesInPhase' /\ NoOtherSlots' /\ SlotsAreExact'
           /\ DOMAIN schedules' = DOMAIN schedules
           /\ \A k \in DOMAIN schedules \ {i} : schedules'[k] = schedules[k]
<1> DEFINE s == schedules[i]
           e == Advanced(s)
<1>0. /\ schedules \in Seq(Schedule) /\ DOMAIN schedules = 1..Len(schedules)
      /\ DOMAIN schedules \subseteq 1..MaxSchedules
      /\ now \in Nat /\ now <= MaxTime /\ s \in Schedule /\ InPhase(s)
  BY ScheduleNumbers DEF ScheduleInv, SchedulesInPhase
<1>1. s.enabled /\ s.next <= MaxTime
  <2>1. s.next \in Nat /\ s.next <= now /\ MaxTime \in Nat
    BY <1>0, Limits DEF Due, Schedule
  <2> QED
    BY <1>0, <2>1 DEF Due
<1>2. /\ e \in Schedule /\ InPhase(e) /\ Instants(e) = Instants(s) \cup {s.next}
      /\ s.next \in 0..MaxTime
  BY <1>0, <1>1, AdvancedSchedule
<1>3. schedules' = [schedules EXCEPT ![i] = e]
  BY DEF Advance, Advanced
<1> HIDE DEF e
<1>4. /\ schedules' \in Seq(Schedule) /\ Len(schedules') = Len(schedules)
      /\ DOMAIN schedules' = DOMAIN schedules /\ schedules'[i] = e
      /\ \A k \in DOMAIN schedules \ {i} : schedules'[k] = schedules[k]
  BY <1>0, <1>2, <1>3
<1>5. \A k \in DOMAIN schedules' : InPhase(schedules'[k])
  BY <1>2, <1>4 DEF ScheduleInv, SchedulesInPhase
<1>6. SchedulesInPhase'
  BY <1>4, <1>5 DEF ScheduleInv, SchedulesInPhase, InPhase
<1>7. \A k \in 1..MaxSchedules, t \in 0..MaxTime :
         exec'[<<k, t>>].state = "absent" <=>
            exec[<<k, t>>].state = "absent" /\ ~(k = i /\ t = s.next)
  BY SlotJobs DEF RuntimeStep
<1>8. NoOtherSlots'
  BY <1>4, <1>7 DEF ScheduleInv, NoOtherSlots
<1>9. ASSUME NEW k \in DOMAIN schedules'
      PROVE  {t \in 0..MaxTime : exec'[<<k, t>>].state # "absent"} = Planned(k)'
  <2>0. k \in 1..MaxSchedules /\ k \in DOMAIN schedules
    BY <1>0, <1>4
  <2>1. {t \in 0..MaxTime : exec[<<k, t>>].state # "absent"} = Instants(schedules[k])
    BY <2>0, PlannedIs DEF ScheduleInv, SlotsAreExact
  <2>2. Planned(k)' = Instants(schedules'[k])
    BY PlannedIs
  <2>3. CASE k = i
    <3>1. Planned(k)' = Instants(s) \cup {s.next}
      BY <1>2, <1>4, <2>2, <2>3
    <3>2. {t \in 0..MaxTime : exec'[<<k, t>>].state # "absent"}
            = {t \in 0..MaxTime : exec[<<k, t>>].state # "absent"} \cup {s.next}
      BY <1>2, <1>7, <2>0, <2>3
    <3> QED
      BY <2>1, <2>3, <3>1, <3>2
  <2>4. CASE k # i
    <3>1. Planned(k)' = Instants(schedules[k])
      BY <1>4, <2>0, <2>2, <2>4
    <3>2. {t \in 0..MaxTime : exec'[<<k, t>>].state # "absent"}
            = {t \in 0..MaxTime : exec[<<k, t>>].state # "absent"}
      BY <1>7, <2>0, <2>4
    <3> QED
      BY <2>1, <3>1, <3>2
  <2> QED
    BY <2>3, <2>4
<1>10. SlotsAreExact'
  BY <1>9 DEF SlotsAreExact
<1> QED
  BY <1>4, <1>6, <1>8, <1>10

LEMMA CommitKeeps ==
    ASSUME ScheduleInv, NEW l \in Loops, NEW i, CommitTick(l, i),
           RuntimeStep({<<i, schedules[i].next>>})
    PROVE  ScheduleInv'
<1>1. i \in held[l] /\ i \in DOMAIN schedules /\ Due(i)
  BY DEF CommitTick, Earliest, ScheduleInv, HeldAreDue
<1>2. Advance(i) /\ UNCHANGED <<runtime, now>> /\ held' = [held EXCEPT ![l] = {}]
  BY DEF CommitTick
<1>3. /\ SchedulesInPhase' /\ NoOtherSlots' /\ SlotsAreExact'
      /\ DOMAIN schedules' = DOMAIN schedules
      /\ \A k \in DOMAIN schedules \ {i} : schedules'[k] = schedules[k]
  BY <1>1, <1>2, AdvanceKeeps
<1>4. held = [k \in Loops |-> held[k]]
  BY DEF ScheduleInv, HeldAreDue
<1>5. /\ held' = [k \in Loops |-> held'[k]] /\ held'[l] = {}
      /\ \A k \in Loops \ {l} : held'[k] = held[k]
  BY <1>2, <1>4
<1>6. \A k \in Loops \ {l} : i \notin held[k]
  BY <1>1 DEF ScheduleInv, HeldAreDue
<1>7. \A k \in Loops : \A n \in held'[k] : n \in DOMAIN schedules' /\ Due(n)'
  BY <1>2, <1>3, <1>5, <1>6 DEF ScheduleInv, HeldAreDue, Due
<1>8. HeldAreDue'
  BY <1>2, <1>5, <1>7 DEF ScheduleInv, HeldAreDue
<1> QED
  BY <1>3, <1>8 DEF ScheduleInv

LEMMA MemoryTickKeeps ==
    ASSUME ScheduleInv, NEW i \in DOMAIN schedules, Due(i), TickFirst(i),
           RuntimeStep({<<i, schedules[i].next>>})
    PROVE  ScheduleInv'
<1>1. Advance(i) /\ UNCHANGED <<runtime, now, held>> /\ runtime = "memory"
  BY DEF TickFirst
<1>2. SchedulesInPhase' /\ NoOtherSlots' /\ SlotsAreExact'
  BY <1>1, AdvanceKeeps
<1>3. \A l \in Loops : held[l] = {}
  BY <1>1 DEF ScheduleInv, HeldAreDue
<1>4. HeldAreDue'
  BY <1>1, <1>3 DEF ScheduleInv, HeldAreDue
<1> QED
  BY <1>2, <1>4 DEF ScheduleInv

-----------------------------------------------------------------------------
(* Invariance                                                              *)

LEMMA AbsentJob ==
    /\ ExecShape(Absent) /\ Absent.state = "absent" /\ Absent.attempts = <<>>
    /\ Len(Absent.attempts) = 0 /\ Tells("absent", <<>>)
    /\ RowShape(NoRow) /\ NoRow.state = "absent"
<1>1. <<>> \in Seq(AttemptStates) /\ Len(<<>>) = 0
  OBVIOUS
<1>2. ExecShape(Absent) /\ Absent.state = "absent" /\ Absent.attempts = <<>>
  BY <1>1 DEF Absent, ExecShape, JobStates
<1>3. Tells("absent", <<>>)
  BY <1>1 DEF Tells
<1>4. RowShape(NoRow) /\ NoRow.state = "absent"
  BY DEF NoRow, RowShape
<1> QED
  BY <1>1, <1>2, <1>3, <1>4

LEMMA InitIInv ==
    Init => IInv
<1> SUFFICES ASSUME Init PROVE IInv
  OBVIOUS
<1>1. /\ exec = [j \in Jobs |-> Absent]
      /\ outbox = [j \in Jobs |-> [n \in 1..MaxAttempts |-> NoRow]] /\ sent = {}
      /\ runtime \in {"durable", "memory"} /\ now = 0 /\ schedules = <<>>
      /\ held = [l \in Loops |-> {}] /\ DOMAIN completed = {}
  BY DEF Init, SchedInit
<1>2. \A j \in Jobs : exec[j] = Absent /\ AttemptCount(j) = 0
  BY <1>1, AbsentJob DEF AttemptCount
<1>3. JobsAreTold
  BY <1>1, <1>2, AbsentJob, Limits DEF JobsAreTold
<1>4. \A j \in Jobs, n \in 1..MaxAttempts : outbox[j][n] = NoRow
  BY <1>1
<1>5. RowsFollow
  <2>1. /\ outbox = [j \in Jobs |-> outbox[j]]
        /\ \A j \in Jobs : outbox[j] = [n \in 1..MaxAttempts |-> outbox[j][n]]
    BY <1>1
  <2> QED
    BY <1>1, <1>4, <2>1, AbsentJob DEF RowsFollow
<1>6. DOMAIN schedules = {} /\ schedules \in Seq(Schedule) /\ Len(schedules) = 0
  BY <1>1
<1>7. SchedulesInPhase
  BY <1>1, <1>6, Limits DEF SchedulesInPhase
<1>8. HeldAreDue
  BY <1>1 DEF HeldAreDue
<1>9. NoOtherSlots
  BY <1>2, AbsentJob, SlotJobs DEF NoOtherSlots
<1>10. SlotsAreExact
  BY <1>6 DEF SlotsAreExact
<1> QED
  BY <1>3, <1>5, <1>7, <1>8, <1>9, <1>10 DEF IInv

(* Every step is one of the runtime, and keeps the schedules.              *)
LEMMA StepKinds ==
    ASSUME IInv, [Next]_vars
    PROVE  ScheduleInv' /\ \E S : RuntimeStep(S)
<1>0. JobsAreTold /\ RowsFollow /\ ScheduleInv
  BY DEF IInv, ScheduleInv
<1>1. ASSUME NEW kind \in {"one_shot", "fixed_interval"}, NEW first \in 0..MaxTime,
             AddSchedule(kind, first), UNCHANGED memvars
      PROVE  ScheduleInv' /\ RuntimeStep({})
  <2>1. RuntimeStep({})
    BY <1>0, <1>1, QuietRuntime DEF memvars
  <2> QED
    BY <1>0, <1>1, <2>1, AddKeeps
<1>2. ASSUME NEW l \in Loops, ClaimDue(l) \/ TickLost(l), UNCHANGED memvars
      PROVE  ScheduleInv' /\ RuntimeStep({})
  <2>1. RuntimeStep({})
    BY <1>0, <1>2, QuietRuntime DEF memvars
  <2> QED
    BY <1>0, <1>2, <2>1, LocksKeep
<1>3. ASSUME Tick, UNCHANGED memvars
      PROVE  ScheduleInv' /\ RuntimeStep({})
  <2>1. RuntimeStep({})
    BY <1>0, <1>3, QuietRuntime DEF memvars
  <2> QED
    BY <1>0, <1>3, <2>1, ClockKeeps
<1>4. ASSUME NEW i \in DOMAIN schedules, Due(i)
      PROVE  <<i, schedules[i].next>> \in Jobs
  <2>1. /\ i \in 1..MaxSchedules /\ schedules[i] \in Schedule
        /\ now \in Nat /\ now <= MaxTime /\ MaxTime \in Nat
    BY <1>0, ScheduleNumbers, Limits DEF ScheduleInv
  <2>2. schedules[i].next \in Nat /\ schedules[i].next <= now
    BY <1>4, <2>1 DEF Due, Schedule
  <2>3. schedules[i].next \in 0..MaxTime
    BY <2>1, <2>2
  <2> QED
    BY <2>1, <2>3, SlotJobs
<1>5. ASSUME NEW l \in Loops, NEW i \in DOMAIN schedules, CommitSlot(l, i)
      PROVE  ScheduleInv' /\ RuntimeStep({<<i, schedules[i].next>>})
  <2>1. /\ CommitTick(l, i) /\ Accept(<<i, schedules[i].next>>)
        /\ UNCHANGED <<sent, completed>>
    BY <1>5 DEF CommitSlot
  <2>2. Due(i)
    BY <1>0, <2>1 DEF CommitTick, Earliest, ScheduleInv, HeldAreDue
  <2>3. RuntimeStep({<<i, schedules[i].next>>})
    BY <1>0, <1>4, <2>1, <2>2, AcceptSteps
  <2> QED
    BY <1>0, <2>1, <2>3, CommitKeeps
<1>6. ASSUME NEW i \in DOMAIN schedules, Due(i), TickFirst(i),
             Accept(<<i, schedules[i].next>>), UNCHANGED <<sent, completed>>
      PROVE  ScheduleInv' /\ RuntimeStep({<<i, schedules[i].next>>})
  <2>1. RuntimeStep({<<i, schedules[i].next>>})
    BY <1>0, <1>4, <1>6, AcceptSteps
  <2> QED
    BY <1>0, <1>6, <2>1, MemoryTickKeeps
<1>7. ASSUME NEW j \in Submitted, Submit(j)
      PROVE  ScheduleInv' /\ RuntimeStep({j})
  <2>1. /\ j \in Jobs /\ {j} \cap Slots = {} /\ UNCHANGED schedvars
        /\ UNCHANGED <<sent, completed>> /\ Accept(j)
    BY <1>7, RuntimeAssumption DEF Jobs, Submit
  <2>2. RuntimeStep({j})
    BY <1>0, <2>1, AcceptSteps
  <2> QED
    BY <1>0, <2>1, <2>2, QuietSchedules
<1>8. ASSUME RuntimeStep({}), UNCHANGED schedvars
      PROVE  ScheduleInv'
  BY <1>0, <1>8, QuietSchedules
<1>9. ASSUME NEW delivered, RelayDue(delivered)
      PROVE  ScheduleInv' /\ RuntimeStep({})
  <2>1. RuntimeStep({}) /\ UNCHANGED schedvars
    BY <1>0, <1>9, RelaySteps DEF RelayDue
  <2> QED
    BY <1>8, <2>1
<1>10. ASSUME RebuildOutbox
       PROVE  ScheduleInv' /\ RuntimeStep({})
  <2>1. RuntimeStep({}) /\ UNCHANGED schedvars
    BY <1>0, <1>10, RebuildSteps DEF RebuildOutbox
  <2> QED
    BY <1>8, <2>1
<1>11. ASSUME NEW w \in Workers, NEW m \in Messages,
              Claim(w, m[1], m[2]) \/ RecordOutcome(w, m[1], m[2])
       PROVE  ScheduleInv' /\ RuntimeStep({})
  <2>0. m[1] \in Jobs /\ m[2] \in 1..MaxAttempts
    BY DEF Messages
  <2>1. UNCHANGED schedvars
    BY <1>11 DEF Claim, RecordOutcome
  <2>2. RuntimeStep({})
    BY <1>0, <1>11, <2>0, ClaimSteps, OutcomeSteps
  <2> QED
    BY <1>8, <2>1, <2>2
<1>12. ASSUME ReapExpired
       PROVE  ScheduleInv' /\ RuntimeStep({})
  <2>1. RuntimeStep({}) /\ UNCHANGED schedvars
    BY <1>0, <1>12, ReapSteps DEF ReapExpired
  <2> QED
    BY <1>8, <2>1
<1>13. ASSUME UNCHANGED vars
       PROVE  ScheduleInv' /\ RuntimeStep({})
  <2>1. UNCHANGED schedvars /\ UNCHANGED <<exec, outbox, sent, completed>>
    BY <1>13 DEF vars, memvars, schedvars
  <2>2. RuntimeStep({})
    BY <1>0, <2>1, QuietRuntime
  <2> QED
    BY <1>8, <2>1, <2>2
<1>14. CASE ScheduleTick
  BY <1>6, <1>14 DEF ScheduleTick
<1>15. ASSUME NEW j \in Jobs, Complete(j)
       PROVE  ScheduleInv' /\ RuntimeStep({})
  <2>1. RuntimeStep({}) /\ UNCHANGED schedvars
    BY <1>0, <1>15, CompleteSteps DEF Complete
  <2> QED
    BY <1>8, <2>1
<1> QED
  BY <1>1, <1>2, <1>3, <1>5, <1>7, <1>9, <1>10, <1>11, <1>12, <1>13, <1>14,
     <1>15 DEF Next

LEMMA IInvStep ==
    IInv /\ [Next]_vars => IInv'
<1> SUFFICES ASSUME IInv, [Next]_vars PROVE IInv'
  OBVIOUS
<1>1. ScheduleInv'
  BY StepKinds
<1>2. JobsAreTold' /\ RowsFollow'
  <2>1. PICK S : RuntimeStep(S)
    BY StepKinds
  <2> QED
    BY <2>1, RuntimeKeeps DEF IInv
<1> QED
  BY <1>1, <1>2 DEF IInv, ScheduleInv

LEMMA IInvInvariant ==
    Spec => []IInv
BY InitIInv, IInvStep, PTL DEF Spec

(* With overlapping loops that die at any point, and in either runtime,    *)
(* claim_due_schedule and schedule_tick create exactly the executions of   *)
(* the instants each schedule has been through.                            *)
THEOREM SlotsAreExactInvariant ==
    Spec => []SlotsAreExact
<1>1. IInv => SlotsAreExact
  BY DEF IInv
<1> QED
  BY <1>1, IInvInvariant, PTL

(* The attempts of a job that no test completed tell its state, and no     *)
(* message of the attempt after the running one was sent.                  *)
THEOREM AttemptsTellTheStateInvariant ==
    Spec => []AttemptsTellTheState
<1>1. ASSUME IInv PROVE AttemptsTellTheState
  <2>1. ASSUME NEW j \in Jobs \ DOMAIN completed
        PROVE  LET tries == exec[j].attempts
                   last == IF tries = <<>> THEN "none" ELSE tries[Len(tries)]
                   retried == {"transient_failure", "abandoned"}
               IN  /\ \A n \in 1..(Len(tries) - 1) : tries[n] \in retried
                   /\ exec[j].state = "running" => <<j, Len(tries) + 1>> \notin sent
                   /\ CASE exec[j].state \in {"absent", "pending"} -> tries = <<>>
                        [] exec[j].state = "queued" -> last \in {"none"} \cup retried
                        [] exec[j].state = "retry_wait" -> last \in retried
                        [] exec[j].state \in {"running", "succeeded"} -> last = exec[j].state
                        [] exec[j].state = "failed" ->
                               \/ last = "permanent_failure"
                               \/ last \in retried /\ Len(tries) = MaxAttempts
    <3>0. ExecShape(exec[j]) /\ Tells(exec[j].state, exec[j].attempts)
      BY <1>1 DEF IInv, JobsAreTold
    <3>1. exec[j].state \in JobStates
      BY <3>0 DEF ExecShape
    <3>2. exec[j].state = "running" => <<j, Len(exec[j].attempts) + 1>> \notin sent
      <4> SUFFICES ASSUME exec[j].state = "running",
                          <<j, Len(exec[j].attempts) + 1>> \in sent
                   PROVE  FALSE
        OBVIOUS
      <4> DEFINE n == Len(exec[j].attempts) + 1
      <4>1. n \in 1..MaxAttempts /\ outbox[j][n].state # "absent"
        BY <1>1 DEF IInv, RowsFollow
      <4>2. exec[j].state \in Waiting
        BY <1>1, <4>1 DEF IInv, RowsFollow, AttemptCount
      <4> QED
        BY <4>2 DEF Waiting
    <3>3. PICK state \in JobStates : state = exec[j].state
      BY <3>1
    <3>4. PICK tries : tries = exec[j].attempts
      OBVIOUS
    <3>5. Tells(state, tries)
      BY <3>0, <3>3, <3>4
    <3>6. /\ \A n \in 1..(Len(tries) - 1) : tries[n] \in Retried
          /\ CASE state \in {"absent", "pending"} -> tries = <<>>
               [] state = "queued" -> Last(tries) \in {"none"} \cup Retried
               [] state = "retry_wait" -> Last(tries) \in Retried
               [] state \in {"running", "succeeded"} -> Last(tries) = state
               [] state = "failed" ->
                      \/ Last(tries) = "permanent_failure"
                      \/ Last(tries) \in Retried /\ Len(tries) = MaxAttempts
      BY <3>5 DEF Tells, JobStates, Waiting
    <3> QED
      BY <3>2, <3>3, <3>4, <3>6 DEF Last, Retried
  <2> QED
    BY <2>1 DEF AttemptsTellTheState
<1> QED
  BY <1>1, IInvInvariant, PTL

-----------------------------------------------------------------------------
(* The in-memory runtime implements the lifecycle                          *)

LEMMA Phases ==
    /\ \A state \in Waiting : Phase(state) = "waiting"
    /\ \A state \in {"absent", "running", "succeeded", "failed"} : Phase(state) = state
BY DEF Phase, Waiting

(* What is shown of a job before and after a step.                         *)
LEMMA ShownIs ==
    \A j : /\ j \notin DOMAIN completed =>
                Shown(j) = [phase |-> Phase(exec[j].state), tries |-> AttemptCount(j)]
           /\ j \notin DOMAIN completed' =>
                Shown(j)' = [phase |-> Phase(exec'[j].state), tries |-> Len(exec'[j].attempts)]
BY DEF Shown, AttemptCount

LEMMA LifecycleInit ==
    Init => Lifecycle!Init
<1> SUFFICES ASSUME Init PROVE Lifecycle!Init
  OBVIOUS
<1>1. DOMAIN completed = {}
  BY DEF Init
<1>2. \A j \in Jobs : exec[j].state = "absent" /\ AttemptCount(j) = 0
  BY AbsentJob DEF Init, AttemptCount
<1>3. \A j \in Jobs : Shown(j).phase = "absent" /\ Shown(j).tries = 0
  BY <1>1, <1>2, ShownIs, Phases
<1> QED
  BY <1>3 DEF Lifecycle!Init

(* A step that shows no change.                                            *)
LEMMA Stutters ==
    ASSUME \A j \in Jobs : Shown(j)' = Shown(j)
    PROVE  UNCHANGED Lifecycle!vars
BY DEF Lifecycle!vars

(* An execution that stays as it is is shown as it was.                    *)
LEMMA SameShown ==
    ASSUME CompletedStay, NEW j \in Jobs,
           j \in DOMAIN completed' \/ /\ Phase(exec'[j].state) = Phase(exec[j].state)
                                      /\ Len(exec'[j].attempts) = AttemptCount(j)
    PROVE  Shown(j)' = Shown(j)
BY ShownIs DEF CompletedStay

(* One job is shown differently: the functions of the lifecycle change at  *)
(* that job alone.                                                         *)
LEMMA OneShown ==
    ASSUME NEW j \in Jobs, \A k \in Jobs \ {j} : Shown(k)' = Shown(k)
    PROVE  /\ [k \in Jobs |-> Shown(k).phase]' =
                 [[k \in Jobs |-> Shown(k).phase] EXCEPT ![j] = Shown(j)'.phase]
           /\ [k \in Jobs |-> Shown(k).tries]' =
                 [[k \in Jobs |-> Shown(k).tries] EXCEPT ![j] = Shown(j)'.tries]
<1>1. \A k \in Jobs \ {j} : /\ Shown(k)'.phase = Shown(k).phase
                            /\ Shown(k)'.tries = Shown(k).tries
  OBVIOUS
<1>2. [k \in Jobs |-> Shown(k).phase]' =
         [k \in Jobs |-> IF k = j THEN Shown(j)'.phase ELSE Shown(k).phase]
  BY <1>1
<1>3. [k \in Jobs |-> Shown(k).tries]' =
         [k \in Jobs |-> IF k = j THEN Shown(j)'.tries ELSE Shown(k).tries]
  BY <1>1
<1> QED
  BY <1>2, <1>3

(* One job changes: a step of the lifecycle, or none that a caller sees.   *)
LEMMA OneJobLifecycle ==
    ASSUME JobsAreTold, CompletedStay, NEW j \in Jobs,
           \A k \in Jobs \ {j} : exec'[k] = exec[k], ExecShape(exec'[j]), JobStep(j)
    PROVE  Lifecycle!Next \/ UNCHANGED Lifecycle!vars
<1>0. \A k \in Jobs \ {j} : Shown(k)' = Shown(k)
  BY SameShown DEF AttemptCount
<1>1. CASE Shown(j)' = Shown(j)
  BY <1>0, <1>1, Stutters
<1> SUFFICES ASSUME j \notin DOMAIN completed'
             PROVE  Lifecycle!Next \/ UNCHANGED Lifecycle!vars
  BY <1>1, SameShown
<1>2. /\ Shown(j) = [phase |-> Phase(exec[j].state), tries |-> AttemptCount(j)]
      /\ Shown(j)' = [phase |-> Phase(exec'[j].state), tries |-> Len(exec'[j].attempts)]
  BY ShownIs DEF CompletedStay
<1>3. /\ exec[j].attempts \in Seq(AttemptStates) /\ AttemptCount(j) = Len(exec[j].attempts)
      /\ AttemptCount(j) \in Nat
  BY DEF JobsAreTold, ExecShape, AttemptCount
<1>4. CASE exec[j].state = "absent" /\ exec'[j].state = "pending"
           /\ exec'[j].attempts = exec[j].attempts
  <2>1. /\ Shown(j).phase = "absent" /\ Shown(j)'.phase = "waiting"
        /\ Shown(j)'.tries = Shown(j).tries
    BY <1>2, <1>3, <1>4, Phases DEF Waiting
  <2>2. Lifecycle!Accept(j)
    BY <1>0, <2>1, OneShown DEF Lifecycle!Accept
  <2> QED
    BY <2>2 DEF Lifecycle!Next
<1>5. CASE /\ exec[j].state \in Waiting /\ exec'[j].state = "running"
           /\ AttemptCount(j) < MaxAttempts
           /\ exec'[j].attempts = Append(exec[j].attempts, "running")
  <2>1. Len(exec'[j].attempts) = AttemptCount(j) + 1
    BY <1>3, <1>5, AttemptAdded
  <2>2. /\ Shown(j).phase = "waiting" /\ Shown(j)'.phase = "running"
        /\ Shown(j)'.tries = Shown(j).tries + 1 /\ Shown(j).tries < MaxAttempts
    BY <1>2, <1>5, <2>1, Phases
  <2>3. Lifecycle!Start(j)
    BY <1>0, <2>2, OneShown DEF Lifecycle!Start
  <2> QED
    BY <2>3 DEF Lifecycle!Next
<1>6. CASE /\ exec[j].state \in Waiting /\ exec'[j].state = "queued"
           /\ exec'[j].attempts = exec[j].attempts
  <2>1. /\ Phase(exec'[j].state) = Phase(exec[j].state)
        /\ Len(exec'[j].attempts) = AttemptCount(j)
    BY <1>3, <1>6, Phases DEF Waiting
  <2> QED
    BY <1>1, <2>1, SameShown
<1>7. ASSUME exec[j].state = "running",
             exec'[j].state = "retry_wait" => AttemptCount(j) < MaxAttempts,
             exec'[j].state \in {"retry_wait", "succeeded", "failed"}
      PROVE  Lifecycle!Next
  <2>1. Len(exec'[j].attempts) = AttemptCount(j)
    BY <1>7, JobCounts
  <2>2. Shown(j).phase = "running" /\ Shown(j)'.tries = Shown(j).tries
    BY <1>2, <1>7, <2>1, Phases
  <2>3. CASE exec'[j].state = "retry_wait"
    <3>1. Shown(j)'.phase = "waiting" /\ Shown(j).tries < MaxAttempts
      BY <1>2, <1>7, <2>3, Phases DEF Waiting
    <3>2. Lifecycle!Retry(j)
      BY <1>0, <2>2, <3>1, OneShown DEF Lifecycle!Retry
    <3> QED
      BY <3>2 DEF Lifecycle!Next
  <2>4. CASE exec'[j].state \in {"succeeded", "failed"}
    <3>1. Shown(j)'.phase \in {"succeeded", "failed"}
      BY <1>2, <2>4, Phases
    <3>2. Lifecycle!Finish(j)
      BY <1>0, <2>2, <3>1, OneShown DEF Lifecycle!Finish
    <3> QED
      BY <3>2 DEF Lifecycle!Next
  <2> QED
    BY <1>7, <2>3, <2>4
<1>8. ASSUME exec[j].state = "running",
             exec'[j].state = "retry_wait" => AttemptCount(j) < MaxAttempts,
             NEW a, \/ <<exec'[j].state, a>> \in Endings
                    \/ exec'[j].state = "failed"
      PROVE  Lifecycle!Next
  <2>1. exec'[j].state \in {"retry_wait", "succeeded", "failed"}
    BY <1>8 DEF Endings
  <2> QED
    BY <1>7, <1>8, <2>1
<1>9. CASE exec'[j].state = exec[j].state /\ exec'[j].attempts = exec[j].attempts
  BY <1>1, <1>3, <1>9, SameShown
<1> QED
  BY <1>4, <1>5, <1>6, <1>8, <1>9 DEF JobStep

LEMMA LifecycleStep ==
    IInv /\ [Next]_vars => [Lifecycle!Next]_(Lifecycle!vars)
<1> SUFFICES ASSUME IInv, [Next]_vars
             PROVE  Lifecycle!Next \/ UNCHANGED Lifecycle!vars
  OBVIOUS
<1>0. PICK accepted : RuntimeStep(accepted)
  BY StepKinds
<1>1. /\ JobsAreTold /\ OneJobOrBatch /\ CompletedStay
      /\ \A j \in Jobs : ExecShape(exec'[j]) /\ JobStep(j)
  BY <1>0 DEF IInv, RuntimeStep
<1>2. ASSUME NEW j \in Jobs, \A k \in Jobs \ {j} : exec'[k] = exec[k]
      PROVE  Lifecycle!Next \/ UNCHANGED Lifecycle!vars
  BY <1>1, <1>2, OneJobLifecycle
<1>3. ASSUME \A j \in Jobs :
                \/ exec'[j] = exec[j]
                \/ /\ exec[j].state \in Waiting \/ j \in DOMAIN completed'
                   /\ exec'[j].state = "queued"
                   /\ exec'[j].attempts = exec[j].attempts
      PROVE  UNCHANGED Lifecycle!vars
  <2>1. \A j \in Jobs \ DOMAIN completed' :
           /\ Phase(exec'[j].state) = Phase(exec[j].state)
           /\ Len(exec'[j].attempts) = AttemptCount(j)
    BY <1>3, Phases DEF Waiting, AttemptCount
  <2>2. \A j \in Jobs : Shown(j)' = Shown(j)
    BY <1>1, <2>1, SameShown
  <2> QED
    BY <2>2, Stutters
<1>4. ASSUME NEW S \in SUBSET Jobs,
             \A j \in Jobs \ S : exec'[j] = exec[j],
             \A j \in S :
                /\ exec[j].state = "running"
                /\ exec'[j].state = IF AttemptCount(j) < MaxAttempts
                                    THEN "retry_wait" ELSE "failed"
      PROVE  Lifecycle!Next
  <2> DEFINE T == S \ DOMAIN completed'
  <2>1. \A j \in S : Len(exec'[j].attempts) = AttemptCount(j)
    <3>1. ASSUME NEW j \in S PROVE Len(exec'[j].attempts) = AttemptCount(j)
      <4>1. ~(exec'[j].state = "running" /\ exec[j].state # "running")
        BY <1>4
      <4> QED
        BY <1>1, <4>1, JobCounts
    <3> QED
      BY <3>1
  <2>2. \A j \in T : /\ Shown(j).phase = "running" /\ Shown(j)'.tries = Shown(j).tries
                     /\ Shown(j)'.phase = IF Shown(j).tries < MaxAttempts
                                          THEN "waiting" ELSE "failed"
    <3>1. ASSUME NEW j \in T
          PROVE  /\ Shown(j).phase = "running" /\ Shown(j)'.tries = Shown(j).tries
                 /\ Shown(j)'.phase = IF Shown(j).tries < MaxAttempts
                                      THEN "waiting" ELSE "failed"
      <4>1. /\ Shown(j) = [phase |-> Phase(exec[j].state), tries |-> AttemptCount(j)]
            /\ Shown(j)' = [phase |-> Phase(exec'[j].state), tries |-> Len(exec'[j].attempts)]
        BY <1>1, ShownIs DEF CompletedStay
      <4>2. /\ Phase(exec[j].state) = "running"
            /\ Phase(exec'[j].state) = IF AttemptCount(j) < MaxAttempts
                                       THEN "waiting" ELSE "failed"
        BY <1>4, Phases DEF Waiting
      <4> QED
        BY <2>1, <4>1, <4>2
    <3> QED
      BY <3>1
  <2>3. \A j \in Jobs \ T : Shown(j)' = Shown(j)
    BY <1>1, <1>4, SameShown DEF AttemptCount
  <2>4. Lifecycle!Interrupt(T)
    BY <2>2, <2>3 DEF Lifecycle!Interrupt
  <2> QED
    BY <2>4 DEF Lifecycle!Next
<1> QED
  BY <1>1, <1>2, <1>3, <1>4 DEF OneJobOrBatch

(* Refinement: up to the moment a test completes it, the in-memory runtime *)
(* shows a caller of a job the lifecycle that the durable one shows: it is *)
(* accepted once, tried at most MaxAttempts times, and ends once.          *)
THEOREM InMemoryKeepsLifecycle ==
    Spec => KeepsLifecycle
<1>1. Spec => Lifecycle!Init /\ [][Lifecycle!Next]_(Lifecycle!vars)
  BY LifecycleInit, LifecycleStep, IInvInvariant, PTL DEF Spec
<1> QED
  BY <1>1 DEF KeepsLifecycle, Lifecycle!Spec

=============================================================================
