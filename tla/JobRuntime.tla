----------------------------- MODULE JobRuntime -----------------------------
(***************************************************************************)
(* The durable job runtime: PostgreSQL rows (job_executions, job_attempts, *)
(* job_outbox_messages), the Redis/RQ transport, the workers that claim    *)
(* and run jobs, and the scheduler passes that reclaim, reap and relay.    *)
(*                                                                         *)
(* A database transaction is one step unless another process can observe   *)
(* it half done.  The one that can is the relay's second transaction       *)
(* (_finish_outbox): it reads the execution without a lock, updates it     *)
(* under an optimistic version check and holds its row lock until commit,  *)
(* while workers read the row FOR UPDATE SKIP LOCKED.  It is three steps.  *)
(*                                                                         *)
(* Instants are kept as countdowns: a field holds the ticks left until     *)
(* lease_until or available_at, so "lease_until <= now" is "lease = 0" and *)
(* time needs no bound.                                                    *)
(***************************************************************************)
EXTENDS Integers, FiniteSets

CONSTANTS
    Jobs,         \* job identities (job_type, logical_target, idempotency_key)
    Workers,      \* RQ work horses; worker_id is rq:<host>:<pid>
    Passes,       \* concurrent scheduler_once loops, each with its own relay
    Nobody,       \* a null lease_owner
    MaxAttempts,  \* max_attempts of a submission (1..10 in the code)
    MaxPublish,   \* bound of publish_attempts (100 in the code)
    JobLease,     \* lease_seconds of a claim, in ticks
    OutboxLease,  \* outbox_lease_seconds, in ticks
    DelayCap,     \* cap of every backoff (300 seconds in the code), in ticks
    Limit         \* batch limit of reclaim, reap, rebuild and claim_outbox

ASSUME ConstantsAssumption ==
    /\ MaxAttempts \in Nat \ {0}
    /\ MaxPublish \in Nat \ {0}
    /\ JobLease \in Nat \ {0}
    /\ OutboxLease \in Nat \ {0}
    /\ DelayCap \in Nat \ {0}
    /\ Limit \in Nat \ {0}
    /\ Nobody \notin Workers
    /\ Nobody \notin Passes

VARIABLES
    exec,      \* job_executions, one row per identity
    attempts,  \* job_attempts, by (execution, ordinal)
    outbox,    \* job_outbox_messages, by (execution, attempt_number)
    queue,     \* copies of each message waiting in the transport
    worker,    \* the message each worker holds and what it does with it
    pass,      \* where each scheduler pass is
    effects    \* executions whose handler has committed its own effect

vars == <<exec, attempts, outbox, queue, worker, pass, effects>>

-----------------------------------------------------------------------------
(* Rows                                                                    *)

Messages == Jobs \X (1..MaxAttempts)
NoMessage == <<Nobody, 0>>

ExecStates ==
    {"absent", "pending", "queued", "running", "retry_wait",
     "succeeded", "failed"}
Terminal == {"succeeded", "failed"}
Waiting == {"pending", "queued", "retry_wait"}
AttemptStates ==
    {"absent", "running", "succeeded", "transient_failure",
     "permanent_failure", "abandoned"}
OutboxStates == {"absent", "pending", "publishing", "published", "failed"}

JobExecution ==
    [state : ExecStates, attempt_count : 0..MaxAttempts,
     lease_owner : Workers \cup {Nobody}, lease : 0..JobLease,
     wait : 0..DelayCap]

JobOutboxMessage ==
    [state : OutboxStates, lease_owner : Passes \cup {Nobody},
     lease : 0..OutboxLease, wait : 0..DelayCap,
     publish_attempts : 0..MaxPublish]

NoExecution ==
    [state |-> "absent", attempt_count |-> 0, lease_owner |-> Nobody,
     lease |-> 0, wait |-> 0]

NoOutbox ==
    [state |-> "absent", lease_owner |-> Nobody, lease |-> 0, wait |-> 0,
     publish_attempts |-> 0]

NewExecution ==
    [state |-> "pending", attempt_count |-> 0, lease_owner |-> Nobody,
     lease |-> 0, wait |-> 0]

NewOutbox(delay) ==
    [state |-> "pending", lease_owner |-> Nobody, lease |-> 0, wait |-> delay,
     publish_attempts |-> 0]

Dispatch(j) == <<j, exec[j].attempt_count + 1>>
Current(j) == <<j, exec[j].attempt_count>>

(* LIMIT n: any n of the rows that qualify, or all of them.               *)
Batch(rows) ==
    {S \in SUBSET rows :
        Cardinality(S) = IF Cardinality(rows) < Limit THEN Cardinality(rows)
                                                      ELSE Limit}

WorkerRecord == [pc : {"idle", "claiming", "handling"}, msg : Messages \cup {NoMessage}]
PassRecord ==
    [pc : {"reclaim", "reap", "relay", "publish", "finish", "flush", "commit"},
     batch : SUBSET Messages, msg : Messages \cup {NoMessage}, sent : BOOLEAN]

TypeOK ==
    /\ exec \in [Jobs -> JobExecution]
    /\ attempts \in [Messages -> AttemptStates]
    /\ outbox \in [Messages -> JobOutboxMessage]
    /\ queue \in [Messages -> Nat]
    /\ worker \in [Workers -> WorkerRecord]
    /\ pass \in [Passes -> PassRecord]
    /\ effects \subseteq Jobs

Idle == [pc |-> "idle", msg |-> NoMessage]
PassStart == [pc |-> "reclaim", batch |-> {}, msg |-> NoMessage, sent |-> FALSE]

Init ==
    /\ exec = [j \in Jobs |-> NoExecution]
    /\ attempts = [m \in Messages |-> "absent"]
    /\ outbox = [m \in Messages |-> NoOutbox]
    /\ queue = [m \in Messages |-> 0]
    /\ worker = [w \in Workers |-> Idle]
    /\ pass = [p \in Passes |-> PassStart]
    /\ effects = {}

-----------------------------------------------------------------------------
(* Row locks held by a relay whose second transaction is open: the outbox  *)
(* row from its FOR UPDATE read, the execution row from the flushed UPDATE.*)

LockedRows == {pass[p].msg : p \in {q \in Passes : pass[q].pc \in {"flush", "commit"}}}
ExecutionLocked(j) == \E p \in Passes : pass[p].pc = "commit" /\ pass[p].msg[1] = j

-----------------------------------------------------------------------------
(* Submission                                                              *)

(* submit: the row and its first dispatch in one transaction.  A second    *)
(* submission of the identity finds the row, or loses on the unique        *)
(* constraint and reads the winner: neither writes anything.               *)
Submit(j) ==
    /\ exec[j].state = "absent"
    /\ exec' = [exec EXCEPT ![j] = NewExecution]
    /\ outbox' = [outbox EXCEPT ![<<j, 1>>] = NewOutbox(0)]
    /\ UNCHANGED <<attempts, queue, worker, pass, effects>>

-----------------------------------------------------------------------------
(* Workers                                                                 *)

(* RQ hands one copy of a message to one worker; the copy leaves Redis.    *)
Dequeue(w, m) ==
    /\ worker[w].pc = "idle"
    /\ queue[m] > 0
    /\ queue' = [queue EXCEPT ![m] = @ - 1]
    /\ worker' = [worker EXCEPT ![w] = [pc |-> "claiming", msg |-> m]]
    /\ UNCHANGED <<exec, attempts, outbox, pass, effects>>

(* Mutant: any attempt number is taken for the next one.                   *)
AnyAttemptValid(m) ==
    LET e == exec[m[1]] IN
    m[2] <= e.attempt_count + 1 /\ e.state \in Waiting /\ e.wait = 0

(* Mutant: redelivery of the attempt already running is taken as valid.    *)
RunningAttemptValid(m) ==
    LET e == exec[m[1]] IN
    m[2] >= e.attempt_count /\ e.state \notin Terminal /\ e.wait = 0

(* The message is the next attempt of a job that may run now.              *)
ValidMessage(m) ==
    LET e == exec[m[1]] IN
    /\ m[2] = e.attempt_count + 1
    /\ e.state \in Waiting
    /\ e.wait = 0

(* claim reads the row FOR UPDATE SKIP LOCKED: a locked row reads as none. *)
Claimable(m) == ValidMessage(m) /\ ~ExecutionLocked(m[1])

Claim(w) ==
    LET m == worker[w].msg IN
    /\ worker[w].pc = "claiming"
    /\ Claimable(m)
    /\ exec' = [exec EXCEPT ![m[1]] =
                    [state |-> "running", attempt_count |-> m[2],
                     lease_owner |-> w, lease |-> JobLease, wait |-> 0]]
    /\ attempts' = [attempts EXCEPT ![m] = "running"]
    /\ worker' = [worker EXCEPT ![w] = [pc |-> "handling", msg |-> m]]
    /\ UNCHANGED <<outbox, queue, pass, effects>>

(* claim returned None: process returns False and RQ counts the message as *)
(* done.  A claim that finds an expired running row abandons it, but the   *)
(* caller rolls that transaction back, so nothing is written here either.  *)
ClaimRefused(w) ==
    /\ worker[w].pc = "claiming"
    /\ ~Claimable(worker[w].msg)
    /\ worker' = [worker EXCEPT ![w] = Idle]
    /\ UNCHANGED <<exec, attempts, outbox, queue, pass, effects>>

(* The handler commits its own effect, in a session of its own.            *)
HandlerEffect(w) ==
    /\ worker[w].pc = "handling"
    /\ worker[w].msg[1] \notin effects
    /\ effects' = effects \cup {worker[w].msg[1]}
    /\ UNCHANGED <<exec, attempts, outbox, queue, worker, pass>>

(* Mutant: the lease's end is not compared with the clock.                 *)
LateOutcomeAccepted(w) ==
    LET e == exec[worker[w].msg[1]] IN
    /\ e.state = "running"
    /\ e.attempt_count = worker[w].msg[2]
    /\ e.lease_owner = w

(* record_outcome accepts only the current attempt of the lease owner,     *)
(* while the lease has time left.                                          *)
OutcomeAccepted(w) ==
    LET m == worker[w].msg
        e == exec[m[1]]
    IN  /\ attempts[m] # "absent"
        /\ e.state = "running"
        /\ e.attempt_count = m[2]
        /\ e.lease_owner = w
        /\ e.lease > 0

Released(e, state, delay) ==
    [state |-> state, attempt_count |-> e.attempt_count,
     lease_owner |-> Nobody, lease |-> 0, wait |-> delay]

RecordSuccess(w) ==
    LET m == worker[w].msg IN
    /\ worker[w].pc = "handling"
    /\ m[1] \in effects
    /\ OutcomeAccepted(w)
    /\ attempts' = [attempts EXCEPT ![m] = "succeeded"]
    /\ exec' = [exec EXCEPT ![m[1]] = Released(@, "succeeded", @.wait)]
    /\ worker' = [worker EXCEPT ![w] = Idle]
    /\ UNCHANGED <<outbox, queue, pass, effects>>

(* _retry_delay: the handler's retry_after, or 2^(attempt - 1), both capped.*)
RetryDelays == 0..DelayCap

(* A transient failure with attempts left: the retry row and its dispatch. *)
RecordRetry(w) ==
    LET m == worker[w].msg IN
    /\ worker[w].pc = "handling"
    /\ OutcomeAccepted(w)
    /\ exec[m[1]].attempt_count < MaxAttempts
    /\ attempts' = [attempts EXCEPT ![m] = "transient_failure"]
    /\ \E delay \in RetryDelays :
          /\ exec' = [exec EXCEPT ![m[1]] = Released(@, "retry_wait", delay)]
          /\ outbox' = [outbox EXCEPT ![Dispatch(m[1])] = NewOutbox(delay)]
    /\ worker' = [worker EXCEPT ![w] = Idle]
    /\ UNCHANGED <<queue, pass, effects>>

(* A permanent or unclassified failure, an unregistered handler, or a      *)
(* transient failure of the last attempt.                                  *)
RecordFailure(w) ==
    LET m == worker[w].msg IN
    /\ worker[w].pc = "handling"
    /\ OutcomeAccepted(w)
    /\ \/ attempts' = [attempts EXCEPT ![m] = "permanent_failure"]
       \/ /\ exec[m[1]].attempt_count = MaxAttempts
          /\ attempts' = [attempts EXCEPT ![m] = "transient_failure"]
    /\ exec' = [exec EXCEPT ![m[1]] = Released(@, "failed", @.wait)]
    /\ worker' = [worker EXCEPT ![w] = Idle]
    /\ UNCHANGED <<outbox, queue, pass, effects>>

(* A late outcome is dropped: rollback, current snapshot returned.         *)
OutcomeDiscarded(w) ==
    /\ worker[w].pc = "handling"
    /\ ~OutcomeAccepted(w)
    /\ worker' = [worker EXCEPT ![w] = Idle]
    /\ UNCHANGED <<exec, attempts, outbox, queue, pass, effects>>

(* The process dies, or record_outcome raises.  RQ does not redeliver.     *)
WorkerCrash(w) ==
    /\ worker[w].pc # "idle"
    /\ worker' = [worker EXCEPT ![w] = Idle]
    /\ UNCHANGED <<exec, attempts, outbox, queue, pass, effects>>

-----------------------------------------------------------------------------
(* Scheduler passes                                                        *)

(* A row as it stands once a relay lets go of it.                          *)
Unleased(row, state, delay) ==
    [state |-> state, lease_owner |-> Nobody, lease |-> 0, wait |-> delay,
     publish_attempts |-> row.publish_attempts]

PassAt(p, pc) ==
    [pc |-> pc, batch |-> pass[p].batch, msg |-> pass[p].msg, sent |-> pass[p].sent]

(* Mutant: exhausted rows are offered to the relay again.                  *)
AlwaysReopened(row) == Unleased(row, "pending", row.wait)

(* A row whose publish attempts are used up can only fail.                 *)
Reopened(row) ==
    Unleased(row, IF row.publish_attempts >= MaxPublish THEN "failed" ELSE "pending",
             row.wait)

(* Mutant: only rows without an owner are reclaimed.                       *)
ExpiredUnowned ==
    {m \in Messages \ LockedRows :
        outbox[m].state = "publishing" /\ outbox[m].lease_owner = Nobody}

ExpiredRows ==
    {m \in Messages \ LockedRows :
        outbox[m].state = "publishing" /\ outbox[m].lease = 0}

ReopenRows(S) ==
    [m \in Messages |-> IF m \in S THEN Reopened(outbox[m]) ELSE outbox[m]]

(* scheduler_once, step 1: outbox leases of relays that died.              *)
PassReclaim(p) ==
    /\ pass[p].pc = "reclaim"
    /\ \E S \in Batch(ExpiredRows) : outbox' = ReopenRows(S)
    /\ pass' = [pass EXCEPT ![p] = PassAt(p, "reap")]
    /\ UNCHANGED <<exec, attempts, queue, worker, effects>>

(* Mutant: the lease is looked at, not the state.                          *)
ExpiredAnyState(j) == exec[j].state # "absent" /\ exec[j].lease = 0

Expired(j) == exec[j].state = "running" /\ exec[j].lease = 0

(* Mutant: one attempt too many is granted.                                *)
AbandonedOffByOne(e) ==
    Released(e, IF e.attempt_count <= MaxAttempts THEN "retry_wait" ELSE "failed", 0)

(* abandon: back to retry_wait with a new dispatch, or failed for good.    *)
Abandoned(e) ==
    Released(e, IF e.attempt_count < MaxAttempts THEN "retry_wait" ELSE "failed", 0)

(* scheduler_once, step 2: executions whose lease ran out.                 *)
PassReap(p) ==
    /\ pass[p].pc = "reap"
    /\ \E S \in Batch({j \in Jobs : Expired(j)}) :
          /\ exec' = [j \in Jobs |-> IF j \in S THEN Abandoned(exec[j]) ELSE exec[j]]
          /\ attempts' = [m \in Messages |->
                            IF m[1] \in S /\ m = Current(m[1]) /\ attempts[m] = "running"
                            THEN "abandoned" ELSE attempts[m]]
          /\ outbox' = [m \in Messages |->
                            IF m[1] \in S /\ m = Dispatch(m[1])
                            THEN NewOutbox(0) ELSE outbox[m]]
    /\ pass' = [pass EXCEPT ![p] = PassAt(p, "relay")]
    /\ UNCHANGED <<queue, worker, effects>>

DueRows(rows) ==
    {m \in Messages \ LockedRows :
        /\ rows[m].state = "pending"
        /\ rows[m].wait = 0
        /\ rows[m].publish_attempts < MaxPublish}

ClaimedRow(row, p) ==
    [state |-> "publishing", lease_owner |-> p, lease |-> OutboxLease,
     wait |-> row.wait, publish_attempts |-> row.publish_attempts + 1]

(* relay_due, first transaction: reclaim again, then lease the due rows.   *)
RelayClaim(p) ==
    /\ pass[p].pc = "relay"
    /\ \E R \in Batch(ExpiredRows) :
          LET rows == ReopenRows(R) IN
          \E S \in Batch(DueRows(rows)) :
             /\ outbox' = [m \in Messages |->
                              IF m \in S THEN ClaimedRow(rows[m], p) ELSE rows[m]]
             /\ pass' = [pass EXCEPT ![p] =
                            IF S = {} THEN PassStart
                            ELSE [pc |-> "publish", batch |-> S,
                                  msg |-> NoMessage, sent |-> FALSE]]
    /\ UNCHANGED <<exec, attempts, queue, worker, effects>>

(* Go on with the next message of the batch, or end the pass.              *)
NextMessage(p) ==
    pass' = [pass EXCEPT ![p] =
                IF pass[p].batch = {} THEN PassStart
                ELSE [pc |-> "publish", batch |-> pass[p].batch,
                      msg |-> NoMessage, sent |-> FALSE]]

(* publish outside any transaction.  An exception may hide an enqueue that *)
(* did happen.                                                             *)
RelayPublish(p, m) ==
    /\ pass[p].pc = "publish"
    /\ m \in pass[p].batch
    /\ \E enqueued \in BOOLEAN, sent \in BOOLEAN :
          /\ sent => enqueued
          /\ queue' = IF enqueued THEN [queue EXCEPT ![m] = @ + 1] ELSE queue
          /\ pass' = [pass EXCEPT ![p] = [pc |-> "finish", batch |-> pass[p].batch \ {m},
                                          msg |-> m, sent |-> sent]]
    /\ UNCHANGED <<exec, attempts, outbox, worker, effects>>

(* _finish_outbox proceeds only on a row this pass still leases.           *)
StillLeased(p) ==
    LET row == outbox[pass[p].msg] IN
    /\ pass[p].msg \notin LockedRows
    /\ row.state = "publishing"
    /\ row.lease_owner = p
    /\ row.lease > 0

FinishLost(p) ==
    /\ pass[p].pc = "finish"
    /\ ~StillLeased(p)
    /\ NextMessage(p)
    /\ UNCHANGED <<exec, attempts, outbox, queue, worker, effects>>

Backoff(publishes) ==
    IF 2 ^ (publishes - 1) > DelayCap THEN DelayCap ELSE 2 ^ (publishes - 1)

(* mark_outbox_failed: back off, or give the row up.                       *)
FinishFailed(p) ==
    LET m == pass[p].msg IN
    /\ pass[p].pc = "finish"
    /\ ~pass[p].sent
    /\ StillLeased(p)
    /\ IF outbox[m].publish_attempts >= MaxPublish
       THEN outbox' = [outbox EXCEPT ![m] = Unleased(@, "failed", @.wait)]
       ELSE \E delay \in 0..DelayCap :
                /\ delay = Backoff(outbox[m].publish_attempts)
                /\ outbox' = [outbox EXCEPT ![m] = Unleased(@, "pending", delay)]
    /\ NextMessage(p)
    /\ UNCHANGED <<exec, attempts, queue, worker, effects>>

PublishedRow(row) == Unleased(row, "published", row.wait)

(* mark_outbox_published when the execution read is not pending.           *)
FinishPublished(p) ==
    LET m == pass[p].msg IN
    /\ pass[p].pc = "finish"
    /\ pass[p].sent
    /\ StillLeased(p)
    /\ exec[m[1]].state # "pending"
    /\ outbox' = [outbox EXCEPT ![m] = PublishedRow(@)]
    /\ NextMessage(p)
    /\ UNCHANGED <<exec, attempts, queue, worker, effects>>

(* The execution read is pending: the UPDATE to queued is still to be sent.*)
FinishReadPending(p) ==
    /\ pass[p].pc = "finish"
    /\ pass[p].sent
    /\ StillLeased(p)
    /\ exec[pass[p].msg[1]].state = "pending"
    /\ pass' = [pass EXCEPT ![p] = PassAt(p, "flush")]
    /\ UNCHANGED <<exec, attempts, outbox, queue, worker, effects>>

(* UPDATE ... WHERE version = the one read.  No row goes back to pending,  *)
(* so the version still matches exactly when the row still is pending.     *)
FinishFlush(p) ==
    /\ pass[p].pc = "flush"
    /\ exec[pass[p].msg[1]].state = "pending"
    /\ ~ExecutionLocked(pass[p].msg[1])
    /\ pass' = [pass EXCEPT ![p] = PassAt(p, "commit")]
    /\ UNCHANGED <<exec, attempts, outbox, queue, worker, effects>>

(* StaleDataError: relay_due raises and the pass ends, its other rows      *)
(* still publishing.                                                       *)
FinishStale(p) ==
    /\ pass[p].pc = "flush"
    /\ exec[pass[p].msg[1]].state # "pending"
    /\ pass' = [pass EXCEPT ![p] = PassStart]
    /\ UNCHANGED <<exec, attempts, outbox, queue, worker, effects>>

FinishCommit(p) ==
    LET m == pass[p].msg IN
    /\ pass[p].pc = "commit"
    /\ outbox' = [outbox EXCEPT ![m] = PublishedRow(@)]
    /\ exec' = [exec EXCEPT ![m[1]] = Released(@, "queued", @.wait)]
    /\ NextMessage(p)
    /\ UNCHANGED <<attempts, queue, worker, effects>>

(* The scheduler process dies; an open transaction is rolled back.         *)
PassCrash(p) ==
    /\ pass[p] # PassStart
    /\ pass' = [pass EXCEPT ![p] = PassStart]
    /\ UNCHANGED <<exec, attempts, outbox, queue, worker, effects>>

(* rebuild_outbox: published rows go back to the relay, whatever became of *)
(* their execution.  An operator's step: no process of the system runs it. *)
Rebuild ==
    /\ \E S \in Batch({m \in Messages : outbox[m].state = "published"}) :
          S # {} /\ outbox' = ReopenRows(S)
    /\ UNCHANGED <<exec, attempts, queue, worker, pass, effects>>

-----------------------------------------------------------------------------
(* Environment                                                             *)

(* Redis restarts empty.                                                   *)
RedisLoss ==
    /\ \E m \in Messages : queue[m] > 0
    /\ queue' = [m \in Messages |-> 0]
    /\ UNCHANGED <<exec, attempts, outbox, worker, pass, effects>>

Minus1(n) == IF n = 0 THEN 0 ELSE n - 1
LaterExecution(e) ==
    [state |-> e.state, attempt_count |-> e.attempt_count,
     lease_owner |-> e.lease_owner, lease |-> Minus1(e.lease), wait |-> Minus1(e.wait)]
LaterRow(row) ==
    [state |-> row.state, lease_owner |-> row.lease_owner,
     lease |-> Minus1(row.lease), wait |-> Minus1(row.wait),
     publish_attempts |-> row.publish_attempts]

Tick ==
    /\ \/ \E j \in Jobs : exec[j].lease > 0 \/ exec[j].wait > 0
       \/ \E m \in Messages : outbox[m].lease > 0 \/ outbox[m].wait > 0
    /\ exec' = [j \in Jobs |-> LaterExecution(exec[j])]
    /\ outbox' = [m \in Messages |-> LaterRow(outbox[m])]
    /\ UNCHANGED <<attempts, queue, worker, pass, effects>>

-----------------------------------------------------------------------------
(* Specifications                                                          *)

WorkerStep(w) ==
    \/ \E m \in Messages : Dequeue(w, m)
    \/ Claim(w) \/ ClaimRefused(w)
    \/ HandlerEffect(w)
    \/ RecordSuccess(w) \/ RecordRetry(w) \/ RecordFailure(w) \/ OutcomeDiscarded(w)

RelayStep(p) ==
    \/ RelayClaim(p)
    \/ \E m \in Messages : RelayPublish(p, m)
    \/ FinishLost(p) \/ FinishFailed(p) \/ FinishPublished(p)
    \/ FinishReadPending(p) \/ FinishFlush(p) \/ FinishStale(p) \/ FinishCommit(p)

PassStep(p) == PassReclaim(p) \/ PassReap(p) \/ RelayStep(p)

(* What the deployed processes do, and what may befall them.               *)
DeployedNext ==
    \/ \E j \in Jobs : Submit(j)
    \/ \E w \in Workers : WorkerStep(w) \/ WorkerCrash(w)
    \/ \E p \in Passes : PassStep(p) \/ PassCrash(p)
    \/ RedisLoss
    \/ Tick

Next == DeployedNext \/ Rebuild

Spec == Init /\ [][Next]_vars

(* Workers and the scheduler loop keep running and time passes.  A pass    *)
(* may die any number of times, but not every time before its relay runs.  *)
(* Nothing makes an operator rebuild the outbox.                           *)
ProcessFairness ==
    /\ \A w \in Workers : WF_vars(WorkerStep(w))
    /\ \A p \in Passes :
          WF_vars(PassStep(p)) /\ SF_vars(PassReap(p)) /\ SF_vars(RelayClaim(p))
    /\ WF_vars(Tick)

FairSpec == Spec /\ ProcessFairness

-----------------------------------------------------------------------------
(* Safety                                                                  *)

(* An execution has a dispatch row for every attempt made and, exactly     *)
(* while it waits for one, for the next attempt: create_execution,         *)
(* schedule_retry and abandon never leave waiting work without a row the   *)
(* relay can find, and never collide with the unique key of a row.         *)
DispatchRows ==
    \A m \in Messages :
        LET e == exec[m[1]] IN
        outbox[m].state # "absent" <=>
            \/ e.state # "absent" /\ m[2] <= e.attempt_count
            \/ e.state \in Waiting /\ m[2] = e.attempt_count + 1

(* What the row of attempt m[2] tells, given the execution row.            *)
AttemptRow(m) ==
    LET e == exec[m[1]] IN
    /\ attempts[m] = "absent" <=> m[2] > e.attempt_count
    /\ m[2] < e.attempt_count => attempts[m] \in {"transient_failure", "abandoned"}
    /\ m[2] = e.attempt_count =>
         /\ e.state \in {"running", "succeeded", "retry_wait", "failed"}
         /\ e.state = "running" => attempts[m] = "running"
         /\ e.state = "succeeded" => attempts[m] = "succeeded"
         /\ e.state = "retry_wait" =>
              m[2] < MaxAttempts /\ attempts[m] \in {"transient_failure", "abandoned"}
         /\ e.state = "failed" =>
              \/ attempts[m] = "permanent_failure"
              \/ m[2] = MaxAttempts /\ attempts[m] \in {"transient_failure", "abandoned"}

(* The attempt rows are the history of the execution row: one row per      *)
(* counted attempt, all but the last closed as retried, and the last one   *)
(* closed the way the execution was.                                       *)
AttemptHistory == \A m \in Messages : AttemptRow(m)

(* However often a message is delivered, an attempt is run by one worker.  *)
OneRunnerPerAttempt ==
    \A v, w \in Workers :
        /\ worker[v].pc = "handling"
        /\ worker[w].pc = "handling"
        /\ worker[v].msg = worker[w].msg
        => v = w

(* A row offered to the relay can be claimed by it: no pending row has     *)
(* used up its publish attempts, where claim_outbox would never see it.    *)
NoDeadPendingRow ==
    \A m \in Messages :
        /\ outbox[m].state = "pending" => outbox[m].publish_attempts < MaxPublish
        /\ outbox[m].state = "publishing" <=> outbox[m].lease_owner # Nobody

(* A dispatch row is published together with the move to queued, so a job  *)
(* still pending has a row the relay is not done with.                     *)
PendingIsUnpublished ==
    \A m \in Messages : exec[m[1]].state = "pending" => outbox[m].state # "published"

-----------------------------------------------------------------------------
(* What makes the safety properties inductive                              *)

(* A process in the middle of something has a message to do it to.         *)
ProcessMessages ==
    /\ \A w \in Workers : worker[w].pc # "idle" => worker[w].msg \in Messages
    /\ \A p \in Passes :
          pass[p].pc \in {"finish", "flush", "commit"} => pass[p].msg \in Messages

(* A running handler is an attempt the execution has counted.              *)
RunsAreCounted ==
    \A w \in Workers : worker[w].pc = "handling" => attempts[worker[w].msg] # "absent"

(* While a relay's second transaction is open nobody else touches the row  *)
(* it locked, and once it has locked the execution that stays pending.     *)
RelayLocks ==
    /\ \A p \in Passes : pass[p].pc \in {"flush", "commit"} =>
          outbox[pass[p].msg].state = "publishing" /\ outbox[pass[p].msg].lease_owner = p
    /\ \A p \in Passes : pass[p].pc = "commit" => exec[pass[p].msg[1]].state = "pending"
    /\ \A p, q \in Passes :
          /\ pass[p].pc = "commit"
          /\ pass[q].pc = "commit"
          /\ pass[p].msg[1] = pass[q].msg[1]
          => p = q

(* A claim counts its attempt and clears available_at, an outcome clears   *)
(* the lease: nothing counts down on a finished execution.                 *)
ClosedAtRest ==
    \A j \in Jobs :
        /\ exec[j].state = "running" => exec[j].attempt_count > 0 /\ exec[j].wait = 0
        /\ exec[j].state \in Terminal => exec[j].wait = 0 /\ exec[j].lease = 0

TypeInv == TypeOK /\ ProcessMessages

IInv ==
    /\ TypeInv
    /\ RunsAreCounted
    /\ RelayLocks
    /\ DispatchRows
    /\ AttemptHistory
    /\ NoDeadPendingRow
    /\ PendingIsUnpublished

-----------------------------------------------------------------------------
(* Action properties                                                       *)

(* Terminal replay: redelivery, rebuild, late outcomes and reaping leave a *)
(* finished execution and its attempts as they are.                        *)
TerminalIsFinal ==
    [][\A j \in Jobs : exec[j].state \in Terminal =>
            /\ exec'[j] = exec[j]
            /\ \A n \in 1..MaxAttempts : attempts'[<<j, n>>] = attempts[<<j, n>>]]_vars

(* Attempt rows are never updated after they leave running.                *)
AttemptsAppendOnly ==
    [][\A m \in Messages :
            attempts[m] \notin {"absent", "running"} => attempts'[m] = attempts[m]]_vars

(* An execution leaves running only through the worker that owns it, in    *)
(* time, or by reaping once the lease is over: a worker that lost its      *)
(* lease decides nothing.                                                  *)
FencedOutcome ==
    [][\A j \in Jobs : exec[j].state = "running" /\ exec'[j].state # "running" =>
            \/ /\ exec[j].lease = 0
               /\ attempts'[Current(j)] = "abandoned"
            \/ /\ exec[j].lease > 0
               /\ worker[exec[j].lease_owner] = [pc |-> "handling", msg |-> Current(j)]
               /\ worker'[exec[j].lease_owner] = Idle]_vars

-----------------------------------------------------------------------------
(* Liveness                                                                *)

Settled(j) ==
    \/ exec[j].state \in Terminal
    \/ \E n \in 1..MaxAttempts : <<j, n>> = Dispatch(j) /\ outbox[<<j, n>>].state = "failed"

(* The job waits, its dispatch counts as published, and no copy of the     *)
(* message is left: Redis lost it, or a worker took it and could not claim.*)
(* The deployed processes never look at such a row again.                  *)
Stranded(j) ==
    /\ exec[j].state \in Waiting
    /\ \E n \in 1..MaxAttempts :
         /\ <<j, n>> = Dispatch(j)
         /\ outbox[<<j, n>>].state = "published"
         /\ queue[<<j, n>>] = 0
         /\ \A w \in Workers : worker[w].msg # <<j, n>>

(* With the deployed processes alone a submitted job comes to an end: it   *)
(* finishes, its dispatch is given up after MaxPublish publish attempts,   *)
(* or its published message is lost.  Crashes of workers and passes, lost  *)
(* leases, failing publishes and aborted relays delay it, no more; and a   *)
(* job that a rebuild brings back comes to an end again.                   *)
EventuallySettled ==
    \A j \in Jobs : exec[j].state # "absent" ~> Settled(j) \/ Stranded(j)

=============================================================================
