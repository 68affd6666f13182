--------------------------- MODULE InMemoryRuntime ---------------------------
(* InMemoryJobRuntime, the runtime of the local composition and of the        *)
(* tests, with the schedules of both runtimes.  Every method holds the lock.  *)
(* An execution of the durable runtime is only created here: what becomes of  *)
(* it is JobRuntime.                                                          *)
EXTENDS Schedules

CONSTANTS
    Submitted,    \* identities that callers submit
    Workers,
    MaxAttempts,
    MaxPublish,   \* publish_attempts at which a row fails (100 in the code)
    JobLease,     \* lease_seconds, in ticks
    DelayCap,     \* the cap of every backoff (300 seconds), in ticks
    Limit,        \* how many rows one relay, rebuild or reap takes
    None

(* No caller submits the key of a planned instant, which names a schedule. *)
ASSUME RuntimeAssumption ==
    /\ {MaxAttempts, MaxPublish, JobLease, Limit} \subseteq Nat \ {0}
    /\ DelayCap \in Nat
    /\ Submitted \cap Slots = {}

Jobs == Submitted \cup Slots

VARIABLES
    exec,    \* _executions, by identity
    outbox,  \* _outbox, by execution and attempt number
    sent,    \* messages that reached the queue: delivered any number of times
    claims,  \* per worker: the claim it works on
    completed  \* jobs that complete() was called on, each as a caller saw it before

memvars == <<exec, outbox, sent, claims, completed>>

vars == <<schedvars, memvars>>

Absent == [state |-> "absent", attempts |-> <<>>, available |-> 0,
           owner |-> None, lease |-> None]

NoRow == [state |-> "absent", available |-> 0, failures |-> 0]

NewRow(at) == [NoRow EXCEPT !.state = "pending", !.available = at]

AttemptCount(j) == Len(exec[j].attempts)

Init ==
    /\ SchedInit
    /\ exec = [j \in Jobs |-> Absent]
    /\ outbox = [j \in Jobs |-> [n \in 1..MaxAttempts |-> NoRow]]
    /\ sent = {}
    /\ claims = [w \in Workers |-> None]
    /\ completed = [j \in {} |-> None]

-----------------------------------------------------------------------------
(* submit: an identity that is known only returns its execution. *)
Accept(j) ==
    IF exec[j].state # "absent" THEN UNCHANGED <<exec, outbox>>
    ELSE /\ exec' = [exec EXCEPT ![j].state = "pending", ![j].available = now]
         /\ outbox' = [outbox EXCEPT ![j][1] = NewRow(now)]

Submit(j) ==
    /\ runtime = "memory"
    /\ Accept(j)
    /\ UNCHANGED <<schedvars, sent, claims, completed>>

CommitSlot(l, i) ==
    /\ CommitTick(l, i)
    /\ Accept(<<i, schedules[i].next>>)
    /\ UNCHANGED <<sent, claims, completed>>

ScheduleTick ==
    \E i \in DOMAIN schedules :
        /\ Due(i)
        /\ TickFirst(i)
        /\ Accept(<<i, schedules[i].next>>)
        /\ UNCHANGED <<sent, claims, completed>>

(* _abandon_locked: the lease of the current attempt has ended. *)
Abandoned(j) ==
    [exec[j] EXCEPT
        !.attempts[AttemptCount(j)] = "abandoned",
        !.owner = None, !.lease = None,
        !.state = IF AttemptCount(j) < MaxAttempts THEN "retry_wait" ELSE "failed",
        !.available = IF AttemptCount(j) < MaxAttempts THEN now ELSE @]

AbandonAll(S) ==
    /\ exec' = [j \in Jobs |-> IF j \in S THEN Abandoned(j) ELSE exec[j]]
    /\ outbox' = [j \in Jobs |->
           IF j \in S /\ AttemptCount(j) < MaxAttempts
           THEN [outbox[j] EXCEPT ![AttemptCount(j) + 1] = NewRow(now)]
           ELSE outbox[j]]

Expired(j) ==
    exec[j].state = "running" /\ exec[j].lease # None /\ exec[j].lease <= now

ClaimWaiting(w, j) ==
    /\ exec[j].state \in {"pending", "queued", "retry_wait"}
    /\ exec[j].available <= now
    /\ exec' = [exec EXCEPT ![j] =
           [@ EXCEPT !.state = "running", !.owner = w, !.lease = now + JobLease,
                     !.attempts = Append(exec[j].attempts, "running")]]
    /\ claims' = [claims EXCEPT ![w] = <<j, AttemptCount(j) + 1>>]
    /\ UNCHANGED outbox

(* process: a message for any but the next attempt is dropped.  claim also    *)
(* takes back the ended lease of a running job, but there is no message of    *)
(* the attempt after the one that runs.                                       *)
Claim(w, j, n) ==
    /\ claims[w] = None
    /\ <<j, n>> \in sent
    /\ n = AttemptCount(j) + 1
    /\ ClaimWaiting(w, j)
    /\ UNCHANGED <<schedvars, sent, completed>>

CurrentByNumber(w, j, n) == AttemptCount(j) = n

(* The fence of record_outcome. *)
Current(w, j, n) ==
    /\ exec[j].state = "running"
    /\ AttemptCount(j) = n
    /\ exec[j].owner = w
    /\ exec[j].lease # None
    /\ exec[j].lease > now

Settle(j, state, attempt) ==
    /\ exec' = [exec EXCEPT ![j] =
           [@ EXCEPT !.state = state, !.attempts[AttemptCount(j)] = attempt,
                     !.owner = None, !.lease = None]]
    /\ UNCHANGED outbox

Retry(j, delay) ==
    /\ AttemptCount(j) < MaxAttempts
    /\ exec' = [exec EXCEPT ![j] =
           [@ EXCEPT !.state = "retry_wait", !.owner = None, !.lease = None,
                     !.attempts[AttemptCount(j)] = "transient_failure",
                     !.available = now + delay]]
    /\ outbox' = [outbox EXCEPT ![j][AttemptCount(j) + 1] = NewRow(now + delay)]

(* A result that _json_object refuses raises after the lease was cleared. *)
LeaseCleared(j) ==
    /\ exec' = [exec EXCEPT ![j].owner = None, ![j].lease = None]
    /\ UNCHANGED outbox

(* record_outcome: succeeded, transient or permanent failure, or a result     *)
(* that cannot be encoded.                                                    *)
RecordOutcome(w, j, n) ==
    /\ claims[w] = <<j, n>>
    /\ IF Current(w, j, n)
       THEN \/ Settle(j, "succeeded", "succeeded")
            \/ Settle(j, "failed", "permanent_failure")
            \/ /\ AttemptCount(j) = MaxAttempts
               /\ Settle(j, "failed", "transient_failure")
            \/ \E delay \in 0..DelayCap : Retry(j, delay)
            \/ LeaseCleared(j)
       ELSE UNCHANGED <<exec, outbox>>
    /\ claims' = [claims EXCEPT ![w] = None]
    /\ UNCHANGED <<schedvars, sent, completed>>

Phase(state) ==
    IF state \in {"pending", "queued", "retry_wait"} THEN "waiting" ELSE state

Shown(j) ==
    IF j \in DOMAIN completed THEN completed[j]
    ELSE [phase |-> Phase(exec[j].state), tries |-> AttemptCount(j)]

(* complete, which tests call: the job has succeeded, whatever its state, its *)
(* attempts and its row were.  A pending row can still queue it again.        *)
Complete(j) ==
    /\ runtime = "memory"
    /\ exec[j].state # "absent"
    /\ exec' = [exec EXCEPT ![j] =
           [@ EXCEPT !.state = "succeeded", !.owner = None, !.lease = None]]
    /\ completed' = [k \in DOMAIN completed \cup {j} |-> Shown(k)]
    /\ UNCHANGED <<schedvars, outbox, sent, claims>>

-----------------------------------------------------------------------------
(* What one batch of at most Limit of the rows in S may be. *)
Batches(S) == {B \in SUBSET S : Cardinality(B) = Min({Limit, Cardinality(S)})}

Rows(state) ==
    {r \in Jobs \X (1..MaxAttempts) : outbox[r[1]][r[2]].state = state}

(* One failed publish: the row waits, or gives up. *)
Unpublished(row) ==
    LET failures == row.failures + 1
    IN  [row EXCEPT
            !.failures = failures,
            !.state = IF failures >= MaxPublish THEN "failed" ELSE @,
            !.available = IF failures >= MaxPublish THEN @
                          ELSE now + Min({DelayCap, 2 ^ (failures - 1)})]

RequeuedByAny(j, delivered) == \E n \in 1..MaxAttempts : <<j, n>> \in delivered

(* Only the message of the next attempt makes a job queued. *)
Requeued(j, delivered) == <<j, AttemptCount(j) + 1>> \in delivered

(* relay_due: the messages in delivered reach the queue, the others fail. *)
RelayDue(delivered) ==
    /\ runtime = "memory"
    /\ \E batch \in Batches({r \in Rows("pending") :
                                outbox[r[1]][r[2]].available <= now}) :
          /\ batch # {}
          /\ delivered \subseteq batch
          /\ outbox' = [j \in Jobs |-> [n \in 1..MaxAttempts |->
                 IF <<j, n>> \in delivered
                 THEN [outbox[j][n] EXCEPT !.state = "published"]
                 ELSE IF <<j, n>> \in batch THEN Unpublished(outbox[j][n])
                 ELSE outbox[j][n]]]
    /\ exec' = [j \in Jobs |->
           IF Requeued(j, delivered)
           THEN [exec[j] EXCEPT !.state = "queued"] ELSE exec[j]]
    /\ sent' = sent \cup delivered
    /\ UNCHANGED <<schedvars, claims, completed>>

(* rebuild_outbox: the queue was lost; published rows are pending again. *)
RebuildOutbox ==
    /\ runtime = "memory"
    /\ \E batch \in Batches(Rows("published")) :
          /\ batch # {}
          /\ outbox' = [j \in Jobs |-> [n \in 1..MaxAttempts |->
                 IF <<j, n>> \notin batch THEN outbox[j][n]
                 ELSE IF outbox[j][n].failures >= MaxPublish
                 THEN [outbox[j][n] EXCEPT !.state = "failed"]
                 ELSE [outbox[j][n] EXCEPT !.state = "pending"]]]
    /\ UNCHANGED <<schedvars, exec, sent, claims, completed>>

ReapExpired ==
    /\ runtime = "memory"
    /\ \E batch \in Batches({j \in Jobs : Expired(j)}) :
          batch # {} /\ AbandonAll(batch)
    /\ UNCHANGED <<schedvars, sent, claims, completed>>

Messages == {m \in Jobs \X (1..MaxAttempts) : m \in sent}

Next ==
    \/ \E kind \in {"one_shot", "fixed_interval"}, first \in 0..MaxTime :
          AddSchedule(kind, first) /\ UNCHANGED memvars
    \/ \E l \in Loops : ClaimDue(l) /\ UNCHANGED memvars
    \/ \E l \in Loops, i \in DOMAIN schedules : CommitSlot(l, i)
    \/ \E l \in Loops : TickLost(l) /\ UNCHANGED memvars
    \/ ScheduleTick
    \/ \E j \in Submitted : Submit(j)
    \/ \E delivered \in SUBSET Rows("pending") : RelayDue(delivered)
    \/ RebuildOutbox
    \/ \E w \in Workers, m \in Messages : Claim(w, m[1], m[2])
    \/ \E w \in Workers, m \in Messages : RecordOutcome(w, m[1], m[2])
    \/ ReapExpired
    \/ \E j \in Jobs : Complete(j)
    \/ Tick /\ UNCHANGED memvars

Spec == Init /\ [][Next]_vars

-----------------------------------------------------------------------------
(* Properties. *)

(* With overlapping loops that may die at any point, in either runtime, the   *)
(* executions of a schedule are those of the instants it has been through:    *)
(* none is lost, none is skipped when the scheduler is behind, none is early. *)
SlotsAreExact ==
    \A i \in DOMAIN schedules :
        {t \in 0..MaxTime : exec[<<i, t>>].state # "absent"} = Planned(i)

(* The attempts of a job that no test completed tell its state: all but the   *)
(* last ended in a way that is retried, and the last ended as the job did or  *)
(* is the one that runs, for whose successor no message was sent yet.         *)
AttemptsTellTheState ==
    \A j \in Jobs \ DOMAIN completed :
        LET tries == exec[j].attempts
            last == IF tries = <<>> THEN "none" ELSE tries[Len(tries)]
            retried == {"transient_failure", "abandoned"}
        IN  /\ \A n \in 1..(Len(tries) - 1) : tries[n] \in retried
            /\ exec[j].state = "running" => <<j, Len(tries) + 1>> \notin sent
            /\ CASE exec[j].state \in {"absent", "pending"} -> tries = <<>>
                 [] exec[j].state = "queued" -> last \in {"none"} \cup retried
                 [] exec[j].state = "retry_wait" -> last \in retried
                 [] exec[j].state \in {"running", "succeeded"} -> last = exec[j].state
                 [] exec[j].state = "failed" ->
                        \/ last = "permanent_failure"
                        \/ last \in retried /\ Len(tries) = MaxAttempts

Lifecycle == INSTANCE JobLifecycle WITH
    phase <- [j \in Jobs |-> Shown(j).phase],
    tries <- [j \in Jobs |-> Shown(j).tries]

(* Up to the moment a test calls complete() on a job, the in-memory runtime   *)
(* takes it through the lifecycle that the durable one keeps, whatever        *)
(* happens to the other jobs, completed ones included.                        *)
KeepsLifecycle == Lifecycle!Spec
=============================================================================
