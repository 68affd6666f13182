-------------------------- MODULE JobRuntimeProofs --------------------------
(* Proofs about the job runtime, for any number of jobs, workers and       *)
(* scheduler passes, any bounds and any lease lengths.                     *)
EXTENDS JobRuntimeRefinement, TLAPS

USE ConstantsAssumption

-----------------------------------------------------------------------------
(* Rows                                                                    *)

(* LIMIT picks from the rows that qualify.                                 *)
LEMMA BatchIsSubset ==
    ASSUME NEW rows, NEW S \in Batch(rows)
    PROVE  S \subseteq rows
BY DEF Batch

(* finish_attempt and abandon leave a well-formed execution row.           *)
LEMMA ReleasedType ==
    ASSUME NEW e \in JobExecution, NEW state \in ExecStates,
           NEW delay \in 0..DelayCap
    PROVE  /\ Released(e, state, delay) \in JobExecution
           /\ Released(e, state, delay).state = state
           /\ Released(e, state, delay).attempt_count = e.attempt_count
           /\ Released(e, state, delay).wait = delay
BY DEF Released, JobExecution

LEMMA AbandonedType ==
    ASSUME NEW e \in JobExecution
    PROVE  /\ Abandoned(e) \in JobExecution
           /\ Abandoned(e).state =
                IF e.attempt_count < MaxAttempts THEN "retry_wait" ELSE "failed"
           /\ Abandoned(e).attempt_count = e.attempt_count
<1>1. 0 \in 0..DelayCap
  OBVIOUS
<1>2. (IF e.attempt_count < MaxAttempts THEN "retry_wait" ELSE "failed") \in ExecStates
  BY DEF ExecStates
<1> QED
  BY <1>1, <1>2, ReleasedType DEF Abandoned

(* A dispatch row starts pending, unleased and with no publish attempt.    *)
LEMMA NewOutboxType ==
    ASSUME NEW delay \in 0..DelayCap
    PROVE  /\ NewOutbox(delay) \in JobOutboxMessage
           /\ NewOutbox(delay).state = "pending"
           /\ NewOutbox(delay).lease_owner = Nobody
           /\ NewOutbox(delay).publish_attempts = 0
BY DEF NewOutbox, JobOutboxMessage, OutboxStates

(* A reopened row is pending with attempts left, or failed; never leased.  *)
LEMMA ReopenedType ==
    ASSUME NEW row \in JobOutboxMessage
    PROVE  /\ Reopened(row) \in JobOutboxMessage
           /\ Reopened(row).state \in {"pending", "failed"}
           /\ Reopened(row).state = "pending" => Reopened(row).publish_attempts < MaxPublish
           /\ Reopened(row).lease_owner = Nobody
BY DEF Reopened, Unleased, JobOutboxMessage, OutboxStates

LEMMA ClaimedRowType ==
    ASSUME NEW row \in JobOutboxMessage, row.publish_attempts < MaxPublish,
           NEW p \in Passes
    PROVE  /\ ClaimedRow(row, p) \in JobOutboxMessage
           /\ ClaimedRow(row, p).state = "publishing"
           /\ ClaimedRow(row, p).lease_owner = p
BY DEF ClaimedRow, JobOutboxMessage, OutboxStates

LEMMA PublishedRowType ==
    ASSUME NEW row \in JobOutboxMessage
    PROVE  /\ PublishedRow(row) \in JobOutboxMessage
           /\ PublishedRow(row).state = "published"
           /\ PublishedRow(row).lease_owner = Nobody
BY DEF PublishedRow, Unleased, JobOutboxMessage, OutboxStates

(* Reopening a batch keeps every row well-formed and touches no other row. *)
LEMMA ReopenRowsType ==
    ASSUME TypeOK, NEW S \in SUBSET Messages
    PROVE  /\ ReopenRows(S) \in [Messages -> JobOutboxMessage]
           /\ \A m \in Messages \ S : ReopenRows(S)[m] = outbox[m]
           /\ \A m \in S : ReopenRows(S)[m] = Reopened(outbox[m])
<1>1. \A m \in Messages : outbox[m] \in JobOutboxMessage
  BY DEF TypeOK
<1> QED
  BY <1>1, ReopenedType DEF ReopenRows

-----------------------------------------------------------------------------
(* Types                                                                   *)

(* Going on to the next message keeps a pass well-formed, with none open.  *)
LEMMA NextMessageType ==
    ASSUME TypeOK, NEW p \in Passes, NextMessage(p)
    PROVE  /\ pass' \in [Passes -> PassRecord]
           /\ pass'[p].pc \in {"reclaim", "publish"}
           /\ \A q \in Passes : q # p => pass'[q] = pass[q]
BY DEF TypeOK, NextMessage, PassRecord, PassStart

LEMMA PassAtType ==
    ASSUME TypeOK, NEW p \in Passes,
           NEW pc \in {"reclaim", "reap", "relay", "publish", "finish", "flush", "commit"}
    PROVE  /\ PassAt(p, pc) \in PassRecord
           /\ PassAt(p, pc).pc = pc
           /\ PassAt(p, pc).msg = pass[p].msg
BY DEF TypeOK, PassAt, PassRecord

LEMMA ConstantTypes ==
    /\ NewExecution \in JobExecution
    /\ NoExecution \in JobExecution
    /\ NoOutbox \in JobOutboxMessage
    /\ Idle \in WorkerRecord
    /\ PassStart \in PassRecord
BY DEF NewExecution, NoExecution, NoOutbox, JobExecution, ExecStates, JobOutboxMessage,
       OutboxStates, Idle, WorkerRecord, PassStart, PassRecord

LEMMA ExecutionRow ==
    ASSUME TypeOK, NEW j \in Jobs
    PROVE  /\ exec[j] \in JobExecution
           /\ exec[j].state \in ExecStates
           /\ exec[j].attempt_count \in 0..MaxAttempts
           /\ exec[j].wait \in 0..DelayCap
           /\ exec[j].lease \in 0..JobLease
BY DEF TypeOK, JobExecution

LEMMA OutboxRow ==
    ASSUME TypeOK, NEW m \in Messages
    PROVE  /\ outbox[m] \in JobOutboxMessage
           /\ outbox[m].state \in OutboxStates
           /\ outbox[m].wait \in 0..DelayCap
           /\ outbox[m].publish_attempts \in 0..MaxPublish
BY DEF TypeOK, JobOutboxMessage

(* Worker steps preserve the types.                                        *)
LEMMA WorkerTypes ==
    ASSUME TypeInv, NEW w \in Workers, WorkerStep(w) \/ WorkerCrash(w)
    PROVE  TypeInv'
<1> USE DEF TypeInv, TypeOK, ProcessMessages
<1>0. worker[w].pc # "idle" => /\ worker[w].msg \in Messages
                               /\ worker[w].msg[1] \in Jobs
                               /\ worker[w].msg[2] \in 1..MaxAttempts
  BY DEF Messages
<1>1. ASSUME NEW m \in Messages, Dequeue(w, m) PROVE TypeInv'
  <2>1. [pc |-> "claiming", msg |-> m] \in WorkerRecord
    BY DEF WorkerRecord
  <2> QED
    BY <1>1, <2>1 DEF Dequeue
<1>2. CASE Claim(w)
  <2> DEFINE m == worker[w].msg
  <2>1. [state |-> "running", attempt_count |-> m[2], lease_owner |-> w,
         lease |-> JobLease, wait |-> 0] \in JobExecution
    BY <1>0, <1>2 DEF Claim, JobExecution, ExecStates
  <2>2. [pc |-> "handling", msg |-> m] \in WorkerRecord
    BY <1>0, <1>2 DEF Claim, WorkerRecord
  <2>3. "running" \in AttemptStates
    BY DEF AttemptStates
  <2> QED
    BY <1>0, <1>2, <2>1, <2>2, <2>3 DEF Claim
<1>3. CASE ClaimRefused(w) \/ OutcomeDiscarded(w) \/ WorkerCrash(w)
  BY <1>3, ConstantTypes DEF ClaimRefused, OutcomeDiscarded, WorkerCrash, Idle
<1>4. CASE HandlerEffect(w)
  BY <1>0, <1>4 DEF HandlerEffect
<1>5. CASE RecordSuccess(w)
  <2> DEFINE j == worker[w].msg[1]
  <2>0. exec[j] \in JobExecution /\ exec[j].wait \in 0..DelayCap /\ "succeeded" \in ExecStates
    BY <1>0, <1>5, ExecutionRow DEF RecordSuccess, ExecStates
  <2>1. Released(exec[j], "succeeded", exec[j].wait) \in JobExecution
    BY <2>0, ReleasedType
  <2>2. exec' \in [Jobs -> JobExecution]
    BY <1>0, <1>5, <2>1 DEF RecordSuccess
  <2>3. attempts' \in [Messages -> AttemptStates]
    BY <1>0, <1>5 DEF RecordSuccess, AttemptStates
  <2>4. worker' = [worker EXCEPT ![w] = Idle]
    BY <1>5 DEF RecordSuccess
  <2>5. worker' \in [Workers -> WorkerRecord] /\ ProcessMessages'
    BY <1>5, <2>4, ConstantTypes DEF RecordSuccess, Idle
  <2> QED
    BY <1>0, <1>5, <2>1, <2>2, <2>3, <2>5 DEF RecordSuccess
<1>6. CASE RecordRetry(w)
  <2> DEFINE j == worker[w].msg[1]
  <2>1. PICK delay \in 0..DelayCap :
            /\ exec' = [exec EXCEPT ![j] = Released(@, "retry_wait", delay)]
            /\ outbox' = [outbox EXCEPT ![Dispatch(j)] = NewOutbox(delay)]
    BY <1>6 DEF RecordRetry, RetryDelays
  <2>0. exec[j] \in JobExecution /\ "retry_wait" \in ExecStates
    BY <1>0, <1>6, ExecutionRow DEF RecordRetry, ExecStates
  <2>2. Released(exec[j], "retry_wait", delay) \in JobExecution
    BY <2>0, ReleasedType
  <2>3. exec' \in [Jobs -> JobExecution]
    BY <1>0, <1>6, <2>1, <2>2 DEF RecordRetry
  <2>4. attempts' \in [Messages -> AttemptStates]
    BY <1>0, <1>6 DEF RecordRetry, AttemptStates
  <2>5. worker' = [worker EXCEPT ![w] = Idle]
    BY <1>6 DEF RecordRetry
  <2>6. worker' \in [Workers -> WorkerRecord] /\ ProcessMessages'
    BY <1>6, <2>5, ConstantTypes DEF RecordRetry, Idle
  <2> QED
    BY <1>0, <1>6, <2>1, <2>3, <2>4, <2>6, NewOutboxType DEF RecordRetry
<1>7. CASE RecordFailure(w)
  <2> DEFINE j == worker[w].msg[1]
  <2>0. exec[j] \in JobExecution /\ exec[j].wait \in 0..DelayCap /\ "failed" \in ExecStates
    BY <1>0, <1>7, ExecutionRow DEF RecordFailure, ExecStates
  <2>1. Released(exec[j], "failed", exec[j].wait) \in JobExecution
    BY <2>0, ReleasedType
  <2>2. exec' \in [Jobs -> JobExecution]
    BY <1>0, <1>7, <2>1 DEF RecordFailure
  <2>3. attempts' \in [Messages -> AttemptStates]
    BY <1>0, <1>7 DEF RecordFailure, AttemptStates
  <2>4. worker' = [worker EXCEPT ![w] = Idle]
    BY <1>7 DEF RecordFailure
  <2>5. worker' \in [Workers -> WorkerRecord] /\ ProcessMessages'
    BY <1>7, <2>4, ConstantTypes DEF RecordFailure, Idle
  <2> QED
    BY <1>0, <1>7, <2>1, <2>2, <2>3, <2>5 DEF RecordFailure
<1> QED
  BY <1>1, <1>2, <1>3, <1>4, <1>5, <1>6, <1>7 DEF WorkerStep

(* Letting a row go keeps it well-formed.                                  *)
LEMMA UnleasedType ==
    ASSUME NEW row \in JobOutboxMessage, NEW state \in OutboxStates,
           NEW delay \in 0..DelayCap
    PROVE  /\ Unleased(row, state, delay) \in JobOutboxMessage
           /\ Unleased(row, state, delay).state = state
           /\ Unleased(row, state, delay).lease_owner = Nobody
           /\ Unleased(row, state, delay).publish_attempts = row.publish_attempts
BY DEF Unleased, JobOutboxMessage

(* What the relay's first transaction does to the rows: R reopened, then S *)
(* leased to p.                                                            *)
RelayClaimEffect(p, R, S) ==
    /\ outbox' \in [Messages -> JobOutboxMessage]
    /\ \A m \in S : /\ ReopenRows(R)[m].state = "pending"
                    /\ m \notin LockedRows
                    /\ outbox'[m].state = "publishing"
                    /\ outbox'[m].lease_owner = p
    /\ \A m \in R \ S : outbox'[m] = Reopened(outbox[m])
    /\ \A m \in Messages \ (R \cup S) : outbox'[m] = outbox[m]
    /\ pass' = [pass EXCEPT ![p] =
                  IF S = {} THEN PassStart
                  ELSE [pc |-> "publish", batch |-> S, msg |-> NoMessage, sent |-> FALSE]]

LEMMA RelayClaimRows ==
    ASSUME TypeOK, NEW p \in Passes, RelayClaim(p)
    PROVE  \E R \in SUBSET ExpiredRows, S \in SUBSET Messages : RelayClaimEffect(p, R, S)
<1>1. PICK R \in Batch(ExpiredRows) :
          \E S \in Batch(DueRows(ReopenRows(R))) :
             /\ outbox' = [m \in Messages |-> IF m \in S THEN ClaimedRow(ReopenRows(R)[m], p)
                                                         ELSE ReopenRows(R)[m]]
             /\ pass' = [pass EXCEPT ![p] =
                            IF S = {} THEN PassStart
                            ELSE [pc |-> "publish", batch |-> S,
                                  msg |-> NoMessage, sent |-> FALSE]]
  BY DEF RelayClaim
<1>2. PICK S \in Batch(DueRows(ReopenRows(R))) :
             /\ outbox' = [m \in Messages |-> IF m \in S THEN ClaimedRow(ReopenRows(R)[m], p)
                                                         ELSE ReopenRows(R)[m]]
             /\ pass' = [pass EXCEPT ![p] =
                            IF S = {} THEN PassStart
                            ELSE [pc |-> "publish", batch |-> S,
                                  msg |-> NoMessage, sent |-> FALSE]]
  BY <1>1
<1>3. R \in SUBSET ExpiredRows /\ R \in SUBSET Messages
  BY BatchIsSubset DEF ExpiredRows
<1>4. S \subseteq DueRows(ReopenRows(R))
  BY BatchIsSubset
<1>5. /\ S \in SUBSET Messages
      /\ \A m \in S : /\ ReopenRows(R)[m].state = "pending"
                      /\ ReopenRows(R)[m].publish_attempts < MaxPublish
                      /\ m \notin LockedRows
  BY <1>4 DEF DueRows
<1>6. /\ ReopenRows(R) \in [Messages -> JobOutboxMessage]
      /\ \A m \in Messages \ R : ReopenRows(R)[m] = outbox[m]
      /\ \A m \in R : ReopenRows(R)[m] = Reopened(outbox[m])
  BY <1>3, ReopenRowsType
<1>7. \A m \in S : /\ ClaimedRow(ReopenRows(R)[m], p) \in JobOutboxMessage
                   /\ ClaimedRow(ReopenRows(R)[m], p).state = "publishing"
                   /\ ClaimedRow(ReopenRows(R)[m], p).lease_owner = p
  BY <1>5, <1>6, ClaimedRowType
<1>8. outbox' \in [Messages -> JobOutboxMessage]
  BY <1>2, <1>5, <1>6, <1>7
<1>9. /\ \A m \in S : outbox'[m] = ClaimedRow(ReopenRows(R)[m], p)
      /\ \A m \in Messages \ S : outbox'[m] = ReopenRows(R)[m]
  BY <1>2, <1>5
<1>10. RelayClaimEffect(p, R, S)
  BY <1>2, <1>3, <1>5, <1>6, <1>7, <1>8, <1>9 DEF RelayClaimEffect
<1> QED
  BY <1>3, <1>5, <1>10

(* What reaping does: the rows of the executions in S, all of them expired.*)
ReapEffect(S) ==
    /\ \A j \in S : Expired(j)
    /\ exec' = [j \in Jobs |-> IF j \in S THEN Abandoned(exec[j]) ELSE exec[j]]
    /\ attempts' = [m \in Messages |->
                      IF m[1] \in S /\ m = Current(m[1]) /\ attempts[m] = "running"
                      THEN "abandoned" ELSE attempts[m]]
    /\ outbox' = [m \in Messages |->
                      IF m[1] \in S /\ m = Dispatch(m[1])
                      THEN NewOutbox(0) ELSE outbox[m]]

LEMMA ReapRows ==
    ASSUME NEW p \in Passes, PassReap(p)
    PROVE  \E S \in SUBSET Jobs : ReapEffect(S)
<1>1. PICK S \in Batch({j \in Jobs : Expired(j)}) :
              /\ exec' = [j \in Jobs |-> IF j \in S THEN Abandoned(exec[j]) ELSE exec[j]]
              /\ attempts' = [m \in Messages |->
                    IF m[1] \in S /\ m = Current(m[1]) /\ attempts[m] = "running"
                    THEN "abandoned" ELSE attempts[m]]
              /\ outbox' = [m \in Messages |->
                    IF m[1] \in S /\ m = Dispatch(m[1])
                    THEN NewOutbox(0) ELSE outbox[m]]
  BY DEF PassReap
<1>2. S \subseteq {j \in Jobs : Expired(j)}
  BY BatchIsSubset
<1>3. ReapEffect(S)
  BY <1>1, <1>2 DEF ReapEffect
<1> QED
  BY <1>2, <1>3

(* Steps of a scheduler pass preserve the types.                           *)
LEMMA PassTypes ==
    ASSUME TypeInv, NEW p \in Passes, PassStep(p) \/ PassCrash(p)
    PROVE  TypeInv'
<1> USE DEF TypeInv, TypeOK, ProcessMessages
<1>0. pass[p].pc \in {"finish", "flush", "commit"} =>
          pass[p].msg \in Messages /\ pass[p].msg[1] \in Jobs
  BY DEF Messages
<1>1. CASE PassReclaim(p)
  <2>1. PICK S \in Batch(ExpiredRows) : outbox' = ReopenRows(S)
    BY <1>1 DEF PassReclaim
  <2>2. S \in SUBSET Messages
    BY BatchIsSubset DEF ExpiredRows
  <2>3. outbox' \in [Messages -> JobOutboxMessage]
    BY <2>1, <2>2, ReopenRowsType
  <2>4. PassAt(p, "reap") \in PassRecord /\ PassAt(p, "reap").pc = "reap"
    BY PassAtType
  <2> QED
    BY <1>1, <2>3, <2>4 DEF PassReclaim
<1>2. CASE PassReap(p)
  <2>1. PICK S \in SUBSET Jobs : ReapEffect(S)
    BY <1>2, ReapRows
  <2>2. exec' \in [Jobs -> JobExecution]
    BY <2>1, AbandonedType, ExecutionRow DEF ReapEffect
  <2>3. attempts' \in [Messages -> AttemptStates]
    BY <2>1 DEF ReapEffect, AttemptStates
  <2>4. outbox' \in [Messages -> JobOutboxMessage]
    <3>1. NewOutbox(0) \in JobOutboxMessage
      BY NewOutboxType
    <3> QED
      BY <2>1, <3>1, OutboxRow DEF ReapEffect
  <2>5. PassAt(p, "relay") \in PassRecord /\ PassAt(p, "relay").pc = "relay"
    BY PassAtType
  <2> QED
    BY <1>2, <2>2, <2>3, <2>4, <2>5 DEF PassReap
<1>3. CASE RelayClaim(p)
  <2>1. PICK R \in SUBSET ExpiredRows, S \in SUBSET Messages : RelayClaimEffect(p, R, S)
    BY <1>3, RelayClaimRows
  <2>2. [pc |-> "publish", batch |-> S, msg |-> NoMessage, sent |-> FALSE] \in PassRecord
    BY DEF PassRecord
  <2> QED
    BY <1>3, <2>1, <2>2, ConstantTypes DEF RelayClaim, RelayClaimEffect, PassStart
<1>4. ASSUME NEW m \in Messages, RelayPublish(p, m) PROVE TypeInv'
  <2>1. PICK sent \in BOOLEAN :
          pass' = [pass EXCEPT ![p] = [pc |-> "finish", batch |-> pass[p].batch \ {m},
                                       msg |-> m, sent |-> sent]]
    BY <1>4 DEF RelayPublish
  <2>2. queue' \in [Messages -> Nat]
    BY <1>4 DEF RelayPublish
  <2>3. [pc |-> "finish", batch |-> pass[p].batch \ {m}, msg |-> m, sent |-> sent]
            \in PassRecord
    BY DEF PassRecord
  <2> QED
    BY <1>4, <2>1, <2>2, <2>3 DEF RelayPublish
<1>5. CASE FinishLost(p)
  BY <1>5, NextMessageType DEF FinishLost
<1>6. CASE FinishFailed(p)
  <2> DEFINE m == pass[p].msg
  <2>1. m \in Messages /\ outbox[m] \in JobOutboxMessage /\ outbox[m].wait \in 0..DelayCap
    BY <1>0, <1>6, OutboxRow DEF FinishFailed
  <2>2. \A delay \in 0..DelayCap : /\ Unleased(outbox[m], "pending", delay) \in JobOutboxMessage
                                   /\ Unleased(outbox[m], "failed", delay) \in JobOutboxMessage
    BY <2>1, UnleasedType DEF OutboxStates
  <2>3. outbox' \in [Messages -> JobOutboxMessage]
    BY <1>6, <2>1, <2>2 DEF FinishFailed
  <2> QED
    BY <1>6, <2>3, NextMessageType DEF FinishFailed
<1>7. CASE FinishPublished(p)
  <2>1. outbox' \in [Messages -> JobOutboxMessage]
    BY <1>0, <1>7, OutboxRow, PublishedRowType DEF FinishPublished
  <2> QED
    BY <1>7, <2>1, NextMessageType DEF FinishPublished
<1>8. CASE FinishReadPending(p) \/ FinishFlush(p)
  <2>1. \A pc \in {"flush", "commit"} : /\ PassAt(p, pc) \in PassRecord
                                        /\ PassAt(p, pc).msg = pass[p].msg
    BY PassAtType
  <2> QED
    BY <1>0, <1>8, <2>1 DEF FinishReadPending, FinishFlush
<1>9. CASE FinishStale(p) \/ PassCrash(p)
  <2>1. /\ pass' = [pass EXCEPT ![p] = PassStart]
        /\ UNCHANGED <<exec, attempts, outbox, queue, worker, effects>>
    BY <1>9 DEF FinishStale, PassCrash
  <2>2. PassStart.pc = "reclaim"
    BY DEF PassStart
  <2> QED
    BY <2>1, <2>2, ConstantTypes
<1>10. CASE FinishCommit(p)
  <2> DEFINE m == pass[p].msg
  <2>1. /\ m \in Messages
        /\ m[1] \in Jobs
        /\ exec[m[1]] \in JobExecution
        /\ exec[m[1]].wait \in 0..DelayCap
        /\ "queued" \in ExecStates
    BY <1>0, <1>10, ExecutionRow DEF FinishCommit, ExecStates
  <2>2. Released(exec[m[1]], "queued", exec[m[1]].wait) \in JobExecution
    BY <2>1, ReleasedType
  <2>3. exec' \in [Jobs -> JobExecution]
    BY <1>10, <2>1, <2>2 DEF FinishCommit
  <2>4. outbox' \in [Messages -> JobOutboxMessage]
    BY <1>10, <2>1, OutboxRow, PublishedRowType DEF FinishCommit
  <2> QED
    BY <1>10, <2>3, <2>4, NextMessageType DEF FinishCommit
<1> QED
  BY <1>1, <1>2, <1>3, <1>4, <1>5, <1>6, <1>7, <1>8, <1>9, <1>10 DEF PassStep, RelayStep

(* A tick changes countdowns only.                                         *)
LEMMA LaterRowType ==
    ASSUME NEW row \in JobOutboxMessage
    PROVE  /\ LaterRow(row) \in JobOutboxMessage
           /\ LaterRow(row).state = row.state
           /\ LaterRow(row).lease_owner = row.lease_owner
           /\ LaterRow(row).publish_attempts = row.publish_attempts
BY DEF LaterRow, Minus1, JobOutboxMessage

LEMMA LaterExecutionType ==
    ASSUME NEW e \in JobExecution
    PROVE  /\ LaterExecution(e) \in JobExecution
           /\ LaterExecution(e).state = e.state
           /\ LaterExecution(e).attempt_count = e.attempt_count
           /\ LaterExecution(e).lease_owner = e.lease_owner
BY DEF LaterExecution, Minus1, JobExecution

(* Rebuilding reopens published rows only.                                 *)
LEMMA RebuildRows ==
    ASSUME Rebuild
    PROVE  \E S \in SUBSET Messages : /\ \A m \in S : outbox[m].state = "published"
                                      /\ outbox' = ReopenRows(S)
<1>1. PICK S \in Batch({m \in Messages : outbox[m].state = "published"}) :
          outbox' = ReopenRows(S)
  BY DEF Rebuild
<1>2. S \subseteq {m \in Messages : outbox[m].state = "published"}
  BY BatchIsSubset
<1> QED
  BY <1>1, <1>2

(* Submission, loss of Redis, rebuild and time preserve the types.         *)
LEMMA EnvironmentTypes ==
    ASSUME TypeInv, (\E j \in Jobs : Submit(j)) \/ RedisLoss \/ Rebuild \/ Tick
    PROVE  TypeInv'
<1> USE DEF TypeInv, TypeOK, ProcessMessages
<1>1. ASSUME NEW j \in Jobs, Submit(j) PROVE TypeInv'
  <2>1. NewOutbox(0) \in JobOutboxMessage
    BY NewOutboxType
  <2> QED
    BY <1>1, <2>1, ConstantTypes DEF Submit
<1>2. CASE RedisLoss
  BY <1>2 DEF RedisLoss
<1>3. CASE Rebuild
  <2>1. PICK S \in SUBSET Messages : outbox' = ReopenRows(S)
    BY <1>3, RebuildRows
  <2>2. outbox' \in [Messages -> JobOutboxMessage]
    BY <2>1, ReopenRowsType
  <2> QED
    BY <1>3, <2>2 DEF Rebuild
<1>4. CASE Tick
  <2>1. exec' \in [Jobs -> JobExecution]
    BY <1>4, ExecutionRow, LaterExecutionType DEF Tick
  <2>2. outbox' \in [Messages -> JobOutboxMessage]
    BY <1>4, OutboxRow, LaterRowType DEF Tick
  <2> QED
    BY <1>4, <2>1, <2>2 DEF Tick
<1> QED
  BY <1>1, <1>2, <1>3, <1>4

(* The actions of Next, grouped as the lemmas above group them.            *)
LEMMA NextCases ==
    Next <=> \/ \E w \in Workers : WorkerStep(w) \/ WorkerCrash(w)
             \/ \E p \in Passes : PassStep(p) \/ PassCrash(p)
             \/ (\E j \in Jobs : Submit(j)) \/ RedisLoss \/ Rebuild \/ Tick
BY DEF Next, DeployedNext

LEMMA TypeStep ==
    TypeInv /\ [Next]_vars => TypeInv'
<1> SUFFICES ASSUME TypeInv, [Next]_vars PROVE TypeInv'
  OBVIOUS
<1>1. CASE Next
  BY <1>1, NextCases, WorkerTypes, PassTypes, EnvironmentTypes
<1>2. CASE UNCHANGED vars
  BY <1>2 DEF vars, TypeInv, TypeOK, ProcessMessages
<1> QED
  BY <1>1, <1>2

LEMMA TypeInit ==
    Init => TypeInv
<1> SUFFICES ASSUME Init PROVE TypeInv
  OBVIOUS
<1>1. TypeOK
  BY ConstantTypes DEF Init, TypeOK, AttemptStates
<1>2. ProcessMessages
  BY DEF Init, ProcessMessages, Idle, PassStart
<1> QED
  BY <1>1, <1>2 DEF TypeInv

(* Rows, queue and processes always hold values of their types: no counter *)
(* leaves the range its database constraint allows.                        *)
THEOREM TypeCorrect ==
    Spec => []TypeOK
<1>1. Spec => []TypeInv
  BY TypeInit, TypeStep, PTL DEF Spec
<1>2. TypeInv => TypeOK
  BY DEF TypeInv
<1> QED
  BY <1>1, <1>2, PTL

-----------------------------------------------------------------------------
(* The inductive invariant                                                 *)

LEMMA InductiveInit ==
    Init => IInv
<1> SUFFICES ASSUME Init PROVE IInv
  OBVIOUS
<1>1. TypeInv
  BY TypeInit
<1>2. RunsAreCounted /\ RelayLocks
  BY DEF Init, RunsAreCounted, RelayLocks, Idle, PassStart
<1>3. \A m \in Messages : /\ m[1] \in Jobs
                          /\ m[2] \in 1..MaxAttempts
                          /\ exec[m[1]] = NoExecution
                          /\ outbox[m] = NoOutbox
                          /\ attempts[m] = "absent"
  BY DEF Init, Messages
<1>4. DispatchRows /\ PendingIsUnpublished /\ NoDeadPendingRow
  BY <1>3 DEF DispatchRows, PendingIsUnpublished, NoDeadPendingRow, NoExecution, NoOutbox, Waiting
<1>5. AttemptHistory
  BY <1>3 DEF AttemptHistory, AttemptRow, NoExecution
<1> QED
  BY <1>1, <1>2, <1>4, <1>5 DEF IInv

(* Workers that only pick up or drop a message leave every row alone.      *)
LEMMA FrameInductive ==
    ASSUME IInv, TypeInv', RunsAreCounted', UNCHANGED <<exec, attempts, outbox, pass>>
    PROVE  IInv'
BY DEF IInv, RelayLocks, DispatchRows, AttemptHistory, AttemptRow, NoDeadPendingRow,
       PendingIsUnpublished

LEMMA MessageParts ==
    ASSUME NEW m \in Messages
    PROVE  /\ m[1] \in Jobs
           /\ m[2] \in 1..MaxAttempts
           /\ m = <<m[1], m[2]>>
BY DEF Messages

(* claim: the next attempt becomes the current one.                        *)
LEMMA ClaimInductive ==
    ASSUME IInv, NEW w \in Workers, Claim(w), TypeInv'
    PROVE  IInv'
<1> DEFINE m == worker[w].msg
<1>1. /\ m \in Messages
      /\ m[1] \in Jobs
      /\ m[2] \in 1..MaxAttempts
      /\ m[2] = exec[m[1]].attempt_count + 1
      /\ exec[m[1]].state \in Waiting
      /\ ~ExecutionLocked(m[1])
  BY MessageParts DEF Claim, Claimable, ValidMessage, IInv, TypeInv, ProcessMessages
<1>2. /\ exec'[m[1]].state = "running"
      /\ exec'[m[1]].attempt_count = m[2]
      /\ \A j \in Jobs : j # m[1] => exec'[j] = exec[j]
  BY <1>1 DEF Claim, IInv, TypeInv, TypeOK
<1>3. /\ attempts'[m] = "running"
      /\ \A n \in Messages : n # m => attempts'[n] = attempts[n]
      /\ UNCHANGED <<outbox, pass>>
  BY <1>1 DEF Claim, IInv, TypeInv, TypeOK
<1>4. /\ worker'[w].msg = m
      /\ \A v \in Workers : v # w => worker'[v] = worker[v]
  BY DEF Claim, IInv, TypeInv, TypeOK
<1>5. RunsAreCounted'
  BY <1>1, <1>3, <1>4 DEF IInv, RunsAreCounted, TypeInv, ProcessMessages
<1>6. RelayLocks'
  <2>1. \A p \in Passes : pass[p].pc = "commit" => pass[p].msg[1] # m[1] /\ pass[p].msg[1] \in Jobs
    BY <1>1, MessageParts DEF ExecutionLocked, IInv, TypeInv, ProcessMessages
  <2> QED
    BY <1>2, <1>3, <2>1 DEF IInv, RelayLocks
<1>7. \A n \in Messages : n[1] \in Jobs /\ n[2] \in 1..MaxAttempts /\ (n[1] = m[1] /\ n[2] = m[2] => n = m)
  BY <1>1, MessageParts
<1>8. exec[m[1]].attempt_count \in 0..MaxAttempts
  BY <1>1, ExecutionRow DEF IInv, TypeInv
<1>9. DispatchRows'
  BY <1>1, <1>2, <1>3, <1>7, <1>8 DEF IInv, DispatchRows, Waiting
<1>10. AttemptHistory'
  BY <1>1, <1>2, <1>3, <1>7, <1>8, SMTT(60) DEF IInv, AttemptHistory, AttemptRow, Waiting
<1>11. NoDeadPendingRow' /\ PendingIsUnpublished'
  BY <1>2, <1>3, <1>7 DEF IInv, NoDeadPendingRow, PendingIsUnpublished
<1> QED
  BY <1>5, <1>6, <1>9, <1>10, <1>11 DEF IInv

(* What an accepted outcome knows about the row it closes.                 *)
LEMMA AcceptedOutcome ==
    ASSUME IInv, NEW w \in Workers, worker[w].pc = "handling", OutcomeAccepted(w)
    PROVE  /\ worker[w].msg \in Messages
           /\ worker[w].msg[1] \in Jobs
           /\ worker[w].msg[2] \in 1..MaxAttempts
           /\ exec[worker[w].msg[1]].state = "running"
           /\ exec[worker[w].msg[1]].attempt_count = worker[w].msg[2]
           /\ exec[worker[w].msg[1]] \in JobExecution
           /\ exec[worker[w].msg[1]].wait \in 0..DelayCap
BY MessageParts, ExecutionRow DEF OutcomeAccepted, IInv, TypeInv, ProcessMessages

(* Rows of other jobs, and the relays, when the execution j leaves running.*)
LEMMA LeavingRunning ==
    ASSUME IInv, NEW j \in Jobs, exec[j].state = "running",
           \A i \in Jobs : i # j => exec'[i] = exec[i],
           UNCHANGED pass,
           \A m \in Messages : outbox[m].state = "publishing" => outbox'[m] = outbox[m]
    PROVE  RelayLocks'
<1>1. \A p \in Passes : pass[p].pc \in {"flush", "commit"} =>
          pass[p].msg \in Messages /\ pass[p].msg[1] \in Jobs
  BY MessageParts DEF IInv, TypeInv, ProcessMessages
<1>2. \A p \in Passes : pass[p].pc = "commit" => pass[p].msg[1] # j
  BY DEF IInv, RelayLocks
<1> QED
  BY <1>1, <1>2 DEF IInv, RelayLocks

(* record_outcome with a final verdict.                                    *)
LEMMA FinishInductive ==
    ASSUME IInv, NEW w \in Workers, RecordSuccess(w) \/ RecordFailure(w), TypeInv'
    PROVE  IInv'
<1> DEFINE m == worker[w].msg
           j == m[1]
<1>1. /\ m \in Messages
      /\ j \in Jobs
      /\ m[2] \in 1..MaxAttempts
      /\ exec[j].state = "running"
      /\ exec[j].attempt_count = m[2]
      /\ exec[j] \in JobExecution
      /\ exec[j].wait \in 0..DelayCap
  BY AcceptedOutcome DEF RecordSuccess, RecordFailure
<1>2. \E final \in Terminal :
          /\ exec' = [exec EXCEPT ![j] = Released(exec[j], final, exec[j].wait)]
          /\ attempts'[m] # "absent"
          /\ final = "succeeded" => attempts'[m] = "succeeded"
          /\ final = "failed" => \/ attempts'[m] = "permanent_failure"
                                 \/ m[2] = MaxAttempts /\ attempts'[m] = "transient_failure"
  <2>1. CASE RecordSuccess(w)
    BY <1>1, <2>1 DEF RecordSuccess, Terminal, IInv, TypeInv, TypeOK
  <2>2. CASE RecordFailure(w)
    BY <1>1, <2>2 DEF RecordFailure, Terminal, IInv, TypeInv, TypeOK
  <2> QED
    BY <2>1, <2>2
<1>3. /\ \A n \in Messages : n # m => attempts'[n] = attempts[n]
      /\ worker' = [worker EXCEPT ![w] = Idle]
      /\ UNCHANGED <<outbox, pass>>
  BY DEF RecordSuccess, RecordFailure, IInv, TypeInv, TypeOK
<1>4. PICK final \in Terminal :
          /\ exec' = [exec EXCEPT ![j] = Released(exec[j], final, exec[j].wait)]
          /\ attempts'[m] # "absent"
          /\ final = "succeeded" => attempts'[m] = "succeeded"
          /\ final = "failed" => \/ attempts'[m] = "permanent_failure"
                                 \/ m[2] = MaxAttempts /\ attempts'[m] = "transient_failure"
  BY <1>2
<1>5. /\ exec'[j].state = final
      /\ exec'[j].attempt_count = m[2]
      /\ \A i \in Jobs : i # j => exec'[i] = exec[i]
  <2>1. exec \in [Jobs -> JobExecution]
    BY DEF IInv, TypeInv, TypeOK
  <2>2. exec'[j] = Released(exec[j], final, exec[j].wait)
    BY <1>1, <1>4, <2>1
  <2>3. exec'[j].state = final /\ exec'[j].attempt_count = exec[j].attempt_count
    BY <2>2 DEF Released
  <2> QED
    BY <1>1, <1>4, <2>1, <2>3
<1>6. \A n \in Messages : n[1] \in Jobs /\ n[2] \in 1..MaxAttempts /\ (n[1] = j /\ n[2] = m[2] => n = m)
  BY <1>1, MessageParts
<1>7. RunsAreCounted'
  BY <1>1, <1>3, <1>4 DEF IInv, RunsAreCounted, TypeInv, TypeOK, ProcessMessages, Idle
<1>8. RelayLocks'
  BY <1>1, <1>3, <1>5, LeavingRunning
<1>9. DispatchRows' /\ PendingIsUnpublished' /\ NoDeadPendingRow'
  BY <1>1, <1>3, <1>5, <1>6
  DEF IInv, DispatchRows, PendingIsUnpublished, NoDeadPendingRow, Waiting, Terminal
<1>10. AttemptHistory'
  <2>1. \A n \in Messages : n[1] # j =>
            exec'[n[1]] = exec[n[1]] /\ attempts'[n] = attempts[n]
    BY <1>3, <1>5, <1>6
  <2>2. \A n \in Messages : n[1] = j =>
            /\ exec'[n[1]].attempt_count = exec[n[1]].attempt_count
            /\ exec[n[1]].attempt_count = m[2]
            /\ exec'[n[1]].state = final
            /\ n[2] # m[2] => attempts'[n] = attempts[n]
            /\ n[2] = m[2] => n = m
    BY <1>1, <1>3, <1>5, <1>6
  <2>3. final = "succeeded" \/ final = "failed"
    BY DEF Terminal
  <2>4. ASSUME NEW n \in Messages, n[1] = j
        PROVE  /\ attempts'[n] = "absent" <=> n[2] > m[2]
               /\ n[2] < m[2] => attempts'[n] \in {"transient_failure", "abandoned"}
               /\ n[2] = m[2] => n = m
    <3>1. /\ attempts[n] = "absent" <=> n[2] > m[2]
          /\ n[2] < m[2] => attempts[n] \in {"transient_failure", "abandoned"}
      BY <1>1, <2>4 DEF IInv, AttemptHistory, AttemptRow
    <3>2. n[2] \in 1..MaxAttempts
      BY <1>6
    <3> QED
      BY <1>1, <1>4, <2>2, <2>4, <3>1, <3>2
  <2>5. ASSUME NEW n \in Messages PROVE AttemptRow(n)'
    <3>1. CASE n[1] # j
      BY <2>1, <3>1 DEF IInv, AttemptHistory, AttemptRow
    <3>2. CASE n[1] = j
      BY <1>1, <1>4, <2>2, <2>3, <2>4, <3>2 DEF AttemptRow
    <3> QED
      BY <3>1, <3>2
  <2> QED
    BY <2>5 DEF AttemptHistory
<1> QED
  BY <1>7, <1>8, <1>9, <1>10 DEF IInv

(* record_outcome with a retry: the next dispatch row did not exist.       *)
LEMMA RetryInductive ==
    ASSUME IInv, NEW w \in Workers, RecordRetry(w), TypeInv'
    PROVE  IInv'
<1> DEFINE m == worker[w].msg
           j == m[1]
           d == <<j, m[2] + 1>>
<1>1. /\ m \in Messages
      /\ j \in Jobs
      /\ m[2] \in 1..MaxAttempts
      /\ exec[j].state = "running"
      /\ exec[j].attempt_count = m[2]
      /\ exec[j] \in JobExecution
  BY AcceptedOutcome DEF RecordRetry
<1>2. m[2] < MaxAttempts
  BY <1>1 DEF RecordRetry
<1>3. d \in Messages /\ d = Dispatch(j) /\ d[1] = j /\ d[2] = m[2] + 1
  BY <1>1, <1>2 DEF Messages, Dispatch
<1>4. PICK delay \in 0..DelayCap :
          /\ exec' = [exec EXCEPT ![j] = Released(exec[j], "retry_wait", delay)]
          /\ outbox' = [outbox EXCEPT ![d] = NewOutbox(delay)]
  BY <1>3 DEF RecordRetry, RetryDelays
<1>5. /\ exec'[j].state = "retry_wait"
      /\ exec'[j].attempt_count = m[2]
      /\ \A i \in Jobs : i # j => exec'[i] = exec[i]
  <2>1. exec \in [Jobs -> JobExecution]
    BY DEF IInv, TypeInv, TypeOK
  <2>2. exec'[j] = Released(exec[j], "retry_wait", delay)
    BY <1>1, <1>4, <2>1
  <2>3. exec'[j].state = "retry_wait" /\ exec'[j].attempt_count = exec[j].attempt_count
    BY <2>2 DEF Released
  <2> QED
    BY <1>1, <1>4, <2>1, <2>3
<1>6. /\ outbox'[d].state = "pending"
      /\ outbox'[d].lease_owner = Nobody
      /\ outbox'[d].publish_attempts = 0
      /\ \A n \in Messages : n # d => outbox'[n] = outbox[n]
  BY <1>3, <1>4, NewOutboxType DEF IInv, TypeInv, TypeOK
<1>7. /\ attempts'[m] = "transient_failure"
      /\ \A n \in Messages : n # m => attempts'[n] = attempts[n]
      /\ worker' = [worker EXCEPT ![w] = Idle]
      /\ UNCHANGED pass
  BY <1>1 DEF RecordRetry, IInv, TypeInv, TypeOK
<1>8. \A n \in Messages : /\ n[1] \in Jobs
                          /\ n[2] \in 1..MaxAttempts
                          /\ n[1] = j /\ n[2] = m[2] => n = m
                          /\ n[1] = j /\ n[2] = m[2] + 1 => n = d
  BY <1>1, <1>3, MessageParts
<1>9. outbox[d].state = "absent"
  BY <1>1, <1>3 DEF IInv, DispatchRows, Waiting
<1>10. RunsAreCounted'
  BY <1>1, <1>7 DEF IInv, RunsAreCounted, TypeInv, TypeOK, ProcessMessages, Idle
<1>11. RelayLocks'
  BY <1>1, <1>5, <1>6, <1>7, <1>9, LeavingRunning
<1>12. DispatchRows'
  BY <1>1, <1>3, <1>5, <1>6, <1>8 DEF IInv, DispatchRows, Waiting
<1>13. PendingIsUnpublished' /\ NoDeadPendingRow'
  BY <1>1, <1>3, <1>5, <1>6, <1>8 DEF IInv, PendingIsUnpublished, NoDeadPendingRow
<1>14. AttemptHistory'
  BY <1>1, <1>2, <1>5, <1>7, <1>8, SMTT(60) DEF IInv, AttemptHistory, AttemptRow
<1> QED
  BY <1>10, <1>11, <1>12, <1>13, <1>14 DEF IInv

LEMMA WorkerInductive ==
    ASSUME IInv, NEW w \in Workers, WorkerStep(w) \/ WorkerCrash(w)
    PROVE  IInv'
<1>0. TypeInv'
  BY WorkerTypes DEF IInv
<1>1. ASSUME NEW m \in Messages, Dequeue(w, m) PROVE IInv'
  <2>1. RunsAreCounted'
    BY <1>1 DEF Dequeue, IInv, RunsAreCounted, TypeInv, TypeOK
  <2> QED
    BY <1>0, <1>1, <2>1, FrameInductive DEF Dequeue
<1>2. CASE Claim(w)
  BY <1>0, <1>2, ClaimInductive
<1>3. CASE ClaimRefused(w) \/ OutcomeDiscarded(w) \/ WorkerCrash(w)
  <2>1. worker' = [worker EXCEPT ![w] = Idle] /\ UNCHANGED <<exec, attempts, outbox, pass>>
    BY <1>3 DEF ClaimRefused, OutcomeDiscarded, WorkerCrash
  <2>2. RunsAreCounted'
    BY <2>1 DEF IInv, RunsAreCounted, TypeInv, TypeOK, Idle
  <2> QED
    BY <1>0, <2>1, <2>2, FrameInductive
<1>4. CASE HandlerEffect(w)
  <2>1. RunsAreCounted'
    BY <1>4 DEF HandlerEffect, IInv, RunsAreCounted
  <2> QED
    BY <1>0, <1>4, <2>1, FrameInductive DEF HandlerEffect
<1>5. CASE RecordSuccess(w) \/ RecordFailure(w)
  BY <1>0, <1>5, FinishInductive
<1>6. CASE RecordRetry(w)
  BY <1>0, <1>6, RetryInductive
<1> QED
  BY <1>1, <1>2, <1>3, <1>4, <1>5, <1>6 DEF WorkerStep

(* Outbox rows that change while executions and attempts do not: existing, *)
(* unlocked rows, left in a state the relay can go on from.                *)
LEMMA RelayRowsInductive ==
    ASSUME IInv, TypeInv', UNCHANGED <<exec, attempts, worker>>,
           \A m \in Messages :
              \/ outbox'[m] = outbox[m]
              \/ /\ m \notin LockedRows
                 /\ outbox[m].state # "absent"
                 /\ outbox'[m].state # "absent"
                 /\ outbox'[m].state = "pending" => outbox'[m].publish_attempts < MaxPublish
                 /\ outbox'[m].state = "publishing" <=> outbox'[m].lease_owner # Nobody
                 /\ exec[m[1]].state = "pending" => outbox'[m].state # "published",
           \A q \in Passes : pass'[q].pc \in {"flush", "commit"} => pass'[q] = pass[q]
    PROVE  IInv'
<1>1. RunsAreCounted' /\ AttemptHistory'
  BY DEF IInv, RunsAreCounted, AttemptHistory, AttemptRow
<1>2. \A q \in Passes : pass'[q].pc \in {"flush", "commit"} =>
          outbox'[pass[q].msg] = outbox[pass[q].msg]
  BY DEF IInv, TypeInv, ProcessMessages, LockedRows
<1>3. RelayLocks'
  BY <1>2 DEF IInv, RelayLocks
<1>4. DispatchRows'
  BY DEF IInv, DispatchRows
<1>5. NoDeadPendingRow' /\ PendingIsUnpublished'
  BY DEF IInv, NoDeadPendingRow, PendingIsUnpublished
<1> QED
  BY <1>1, <1>3, <1>4, <1>5 DEF IInv

(* Reopening rows that are publishing and unlocked, or published.          *)
LEMMA ReopenedRow ==
    ASSUME IInv, NEW m \in Messages, outbox'[m] = Reopened(outbox[m])
    PROVE  /\ outbox'[m].state # "absent"
           /\ outbox'[m].state = "pending" => outbox'[m].publish_attempts < MaxPublish
           /\ outbox'[m].state = "publishing" <=> outbox'[m].lease_owner # Nobody
           /\ outbox'[m].state # "published"
BY ReopenedType, OutboxRow DEF IInv, TypeInv

LEMMA ReclaimInductive ==
    ASSUME IInv, NEW p \in Passes, PassReclaim(p), TypeInv'
    PROVE  IInv'
<1>1. PICK S \in Batch(ExpiredRows) : outbox' = ReopenRows(S)
  BY DEF PassReclaim
<1>2. S \in SUBSET Messages /\ \A m \in S : m \notin LockedRows /\ outbox[m].state = "publishing"
  BY BatchIsSubset DEF ExpiredRows
<1>3. /\ \A m \in Messages \ S : outbox'[m] = outbox[m]
      /\ \A m \in S : outbox'[m] = Reopened(outbox[m])
  BY <1>1, <1>2, ReopenRowsType DEF IInv, TypeInv
<1>4. \A q \in Passes : pass'[q].pc \in {"flush", "commit"} => pass'[q] = pass[q]
  <2>1. PassAt(p, "reap").pc = "reap"
    BY PassAtType DEF IInv, TypeInv
  <2> QED
    BY <2>1 DEF PassReclaim, IInv, TypeInv, TypeOK
<1>5. UNCHANGED <<exec, attempts, worker>>
  BY DEF PassReclaim
<1> QED
  BY <1>2, <1>3, <1>4, <1>5, ReopenedRow, RelayRowsInductive

LEMMA RelayClaimInductive ==
    ASSUME IInv, NEW p \in Passes, RelayClaim(p), TypeInv'
    PROVE  IInv'
<1>1. PICK R \in SUBSET ExpiredRows, S \in SUBSET Messages : RelayClaimEffect(p, R, S)
  BY RelayClaimRows DEF IInv, TypeInv
<1>2. R \in SUBSET Messages /\ \A m \in R : m \notin LockedRows /\ outbox[m].state = "publishing"
  BY DEF ExpiredRows
<1>3. \A m \in S : m \notin LockedRows /\ outbox[m].state # "absent"
  <2>1. \A m \in S : ReopenRows(R)[m].state = "pending" /\ m \notin LockedRows
    BY <1>1 DEF RelayClaimEffect
  <2>2. \A m \in Messages \ R : ReopenRows(R)[m] = outbox[m]
    BY <1>2, ReopenRowsType DEF IInv, TypeInv
  <2> QED
    BY <1>2, <2>1, <2>2
<1>4. \A m \in S : outbox'[m].state = "publishing" /\ outbox'[m].lease_owner # Nobody
  BY <1>1 DEF RelayClaimEffect
<1>5. /\ \A m \in R \ S : outbox'[m] = Reopened(outbox[m])
      /\ \A m \in Messages \ (R \cup S) : outbox'[m] = outbox[m]
  BY <1>1 DEF RelayClaimEffect
<1>6. \A q \in Passes : pass'[q].pc \in {"flush", "commit"} => pass'[q] = pass[q]
  BY <1>1 DEF RelayClaimEffect, PassStart, IInv, TypeInv, TypeOK
<1>7. UNCHANGED <<exec, attempts, worker>>
  BY DEF RelayClaim
<1> QED
  BY <1>2, <1>3, <1>4, <1>5, <1>6, <1>7, ReopenedRow, RelayRowsInductive

(* Publishing, and the ways a message is finished that leave its execution *)
(* alone.                                                                  *)
LEMMA RelayFinishInductive ==
    ASSUME IInv, NEW p \in Passes, TypeInv',
           \/ \E m \in Messages : RelayPublish(p, m)
           \/ FinishLost(p) \/ FinishFailed(p) \/ FinishPublished(p)
           \/ FinishStale(p) \/ PassCrash(p)
    PROVE  IInv'
<1>0. TypeOK
  BY DEF IInv, TypeInv
<1>1. UNCHANGED <<exec, attempts, worker>>
  BY DEF RelayPublish, FinishLost, FinishFailed, FinishPublished, FinishStale, PassCrash
<1>2. \A q \in Passes : pass'[q].pc \in {"flush", "commit"} => pass'[q] = pass[q]
  <2>1. ASSUME NEW m \in Messages, RelayPublish(p, m)
        PROVE  \A q \in Passes : pass'[q].pc \in {"flush", "commit"} => pass'[q] = pass[q]
    BY <1>0, <2>1 DEF RelayPublish, TypeOK
  <2>2. CASE FinishLost(p) \/ FinishFailed(p) \/ FinishPublished(p)
    BY <1>0, <2>2, NextMessageType DEF FinishLost, FinishFailed, FinishPublished
  <2>3. CASE FinishStale(p) \/ PassCrash(p)
    <3>1. pass' = [pass EXCEPT ![p] = PassStart] /\ PassStart.pc = "reclaim"
      BY <2>3 DEF FinishStale, PassCrash, PassStart
    <3> QED
      BY <1>0, <3>1 DEF TypeOK
  <2> QED
    BY <2>1, <2>2, <2>3
<1>3. CASE UNCHANGED outbox
  BY <1>1, <1>2, <1>3, RelayRowsInductive
<1>4. CASE FinishFailed(p) \/ FinishPublished(p)
  <2> DEFINE m == pass[p].msg
  <2>1. /\ m \in Messages
        /\ m \notin LockedRows
        /\ outbox[m].state = "publishing"
    BY <1>4 DEF FinishFailed, FinishPublished, StillLeased, IInv, TypeInv, ProcessMessages
  <2>2. outbox[m] \in JobOutboxMessage
    BY <1>0, <2>1, OutboxRow
  <2>3. \A n \in Messages : n # m => outbox'[n] = outbox[n]
    BY <1>0, <1>4 DEF FinishFailed, FinishPublished, TypeOK
  <2>4. /\ outbox'[m].state \in {"pending", "failed", "published"}
        /\ outbox'[m].lease_owner = Nobody
        /\ outbox'[m].state = "pending" => outbox'[m].publish_attempts < MaxPublish
        /\ exec[m[1]].state = "pending" => outbox'[m].state # "published"
    <3>1. CASE FinishPublished(p)
      <4>1. outbox'[m] = PublishedRow(outbox[m]) /\ exec[m[1]].state # "pending"
        BY <1>0, <2>1, <3>1 DEF FinishPublished, TypeOK
      <4> QED
        BY <2>2, <4>1, PublishedRowType
    <3>2. CASE FinishFailed(p) /\ outbox[m].publish_attempts >= MaxPublish
      <4>1. outbox'[m] = Unleased(outbox[m], "failed", outbox[m].wait)
        BY <1>0, <2>1, <3>2 DEF FinishFailed, TypeOK
      <4> QED
        BY <4>1 DEF Unleased
    <3>3. CASE FinishFailed(p) /\ ~(outbox[m].publish_attempts >= MaxPublish)
      <4>1. PICK delay \in 0..DelayCap : outbox'[m] = Unleased(outbox[m], "pending", delay)
        BY <1>0, <2>1, <3>3 DEF FinishFailed, TypeOK
      <4>2. /\ outbox'[m].state = "pending"
            /\ outbox'[m].lease_owner = Nobody
            /\ outbox'[m].publish_attempts = outbox[m].publish_attempts
        BY <4>1 DEF Unleased
      <4>3. outbox[m].publish_attempts \in 0..MaxPublish
        BY <1>0, <2>1, OutboxRow
      <4> QED
        BY <3>3, <4>2, <4>3
    <3> QED
      BY <1>4, <3>1, <3>2, <3>3
  <2> QED
    BY <1>1, <1>2, <2>1, <2>3, <2>4, RelayRowsInductive
<1> QED
  BY <1>3, <1>4 DEF RelayPublish, FinishLost, FinishStale, PassCrash

(* The relay's second transaction up to its commit: only locks are taken.  *)
LEMMA RelayLockInductive ==
    ASSUME IInv, NEW p \in Passes, TypeInv', FinishReadPending(p) \/ FinishFlush(p)
    PROVE  IInv'
<1> DEFINE m == pass[p].msg
<1>1. /\ UNCHANGED <<exec, attempts, outbox, worker>>
      /\ \E pc \in {"flush", "commit"} : pass' = [pass EXCEPT ![p] = PassAt(p, pc)]
  BY DEF FinishReadPending, FinishFlush
<1>2. /\ m \in Messages
      /\ exec[m[1]].state = "pending"
      /\ outbox[m].state = "publishing"
      /\ outbox[m].lease_owner = p
  BY DEF FinishReadPending, FinishFlush, StillLeased, IInv, TypeInv, ProcessMessages, RelayLocks
<1>3. /\ pass'[p].msg = m
      /\ \A q \in Passes : q # p => pass'[q] = pass[q]
  BY <1>1, PassAtType DEF IInv, TypeInv, TypeOK
<1>4. pass'[p].pc = "commit" =>
          \A q \in Passes : pass[q].pc = "commit" => pass[q].msg[1] # m[1]
  <2>1. CASE FinishReadPending(p)
    <3>1. PassAt(p, "flush").pc = "flush"
      BY PassAtType DEF IInv, TypeInv
    <3> QED
      BY <2>1, <3>1 DEF FinishReadPending, IInv, TypeInv, TypeOK
  <2>2. CASE FinishFlush(p)
    BY <2>2 DEF FinishFlush, ExecutionLocked
  <2> QED
    BY <2>1, <2>2
<1>5. RelayLocks'
  BY <1>1, <1>2, <1>3, <1>4 DEF IInv, RelayLocks
<1>6. /\ RunsAreCounted' /\ AttemptHistory' /\ DispatchRows'
      /\ NoDeadPendingRow' /\ PendingIsUnpublished'
  BY <1>1 DEF IInv, RunsAreCounted, AttemptHistory, AttemptRow, DispatchRows, NoDeadPendingRow,
              PendingIsUnpublished
<1> QED
  BY <1>5, <1>6 DEF IInv

(* The commit of mark_outbox_published: the execution it locked is queued, *)
(* the row published.                                                      *)
LEMMA RelayCommitInductive ==
    ASSUME IInv, NEW p \in Passes, TypeInv', FinishCommit(p)
    PROVE  IInv'
<1> DEFINE m == pass[p].msg
           j == m[1]
<1>0. TypeOK
  BY DEF IInv, TypeInv
<1>1. /\ m \in Messages
      /\ j \in Jobs
      /\ exec[j].state = "pending"
      /\ outbox[m].state = "publishing"
      /\ outbox[m].lease_owner = p
  BY MessageParts DEF FinishCommit, IInv, TypeInv, ProcessMessages, RelayLocks
<1>2. /\ exec'[j] = Released(exec[j], "queued", exec[j].wait)
      /\ \A i \in Jobs : i # j => exec'[i] = exec[i]
  BY <1>0, <1>1 DEF FinishCommit, TypeOK
<1>3. exec'[j].state = "queued" /\ exec'[j].attempt_count = exec[j].attempt_count
  BY <1>2 DEF Released
<1>4. /\ outbox'[m].state = "published"
      /\ outbox'[m].lease_owner = Nobody
      /\ \A n \in Messages : n # m => outbox'[n] = outbox[n]
  BY <1>0, <1>1, OutboxRow, PublishedRowType DEF FinishCommit, TypeOK
<1>5. /\ UNCHANGED <<attempts, worker>>
      /\ pass'[p].pc \in {"reclaim", "publish"}
      /\ \A q \in Passes : q # p => pass'[q] = pass[q]
  BY <1>0, NextMessageType DEF FinishCommit
<1>6. \A q \in Passes : q # p /\ pass[q].pc \in {"flush", "commit"} =>
          /\ pass[q].msg \in Messages
          /\ pass[q].msg[1] \in Jobs
          /\ pass[q].msg # m
          /\ pass[q].pc = "commit" => pass[q].msg[1] # j
  BY <1>1, MessageParts DEF FinishCommit, IInv, TypeInv, ProcessMessages, RelayLocks
<1>7. RelayLocks'
  BY <1>2, <1>4, <1>5, <1>6 DEF IInv, RelayLocks
<1>8. \A n \in Messages : n[1] \in Jobs /\ n[2] \in 1..MaxAttempts
  BY MessageParts
<1>9. RunsAreCounted' /\ NoDeadPendingRow' /\ PendingIsUnpublished'
  BY <1>1, <1>2, <1>3, <1>4, <1>5, <1>8
  DEF IInv, RunsAreCounted, NoDeadPendingRow, PendingIsUnpublished
<1>10. DispatchRows'
  BY <1>1, <1>2, <1>3, <1>4, <1>8 DEF IInv, DispatchRows, Waiting
<1>11. AttemptHistory'
  BY <1>1, <1>2, <1>3, <1>5, <1>8 DEF IInv, AttemptHistory, AttemptRow
<1> QED
  BY <1>7, <1>9, <1>10, <1>11 DEF IInv

(* Reaping: every execution taken back was running, so no relay holds it   *)
(* and its next dispatch row did not exist.                                *)
LEMMA ReapInductive ==
    ASSUME IInv, NEW p \in Passes, TypeInv', PassReap(p)
    PROVE  IInv'
<1>0. TypeOK
  BY DEF IInv, TypeInv
<1>1. PICK S \in SUBSET Jobs : ReapEffect(S)
  BY ReapRows
<1>2. \A j \in S : /\ exec[j].state = "running"
                   /\ exec'[j].state = IF exec[j].attempt_count < MaxAttempts
                                       THEN "retry_wait" ELSE "failed"
                   /\ exec'[j].attempt_count = exec[j].attempt_count
  <2>1. \A j \in S : exec'[j] = Abandoned(exec[j]) /\ exec[j].state = "running"
    BY <1>1 DEF ReapEffect, Expired
  <2> QED
    BY <1>0, <2>1, ExecutionRow, AbandonedType
<1>3. \A j \in Jobs \ S : exec'[j] = exec[j]
  BY <1>1 DEF ReapEffect
<1>4. \A m \in Messages : /\ m[1] \in Jobs
                          /\ m[2] \in 1..MaxAttempts
                          /\ m = Current(m[1]) <=> m[2] = exec[m[1]].attempt_count
                          /\ m = Dispatch(m[1]) <=> m[2] = exec[m[1]].attempt_count + 1
                          /\ exec[m[1]].attempt_count \in 0..MaxAttempts
  BY <1>0, MessageParts, ExecutionRow DEF Current, Dispatch
<1>5. \A m \in Messages : attempts'[m] =
          IF m[1] \in S /\ m[2] = exec[m[1]].attempt_count THEN "abandoned" ELSE attempts[m]
  <2>1. \A m \in Messages : m[1] \in S /\ m[2] = exec[m[1]].attempt_count =>
            attempts[m] = "running"
    BY <1>2 DEF IInv, AttemptHistory, AttemptRow
  <2> QED
    BY <1>1, <1>4, <2>1 DEF ReapEffect
<1>6. \A m \in Messages :
          outbox'[m] = IF m[1] \in S /\ m[2] = exec[m[1]].attempt_count + 1
                       THEN NewOutbox(0) ELSE outbox[m]
  BY <1>1, <1>4 DEF ReapEffect
<1>7. /\ NewOutbox(0).state = "pending"
      /\ NewOutbox(0).lease_owner = Nobody
      /\ NewOutbox(0).publish_attempts = 0
  BY NewOutboxType
<1>8. \A m \in Messages : m[1] \in S /\ m[2] = exec[m[1]].attempt_count + 1 =>
          outbox[m].state = "absent"
  BY <1>2, <1>4 DEF IInv, DispatchRows, Waiting
<1>9. UNCHANGED worker
  BY DEF PassReap
<1>10. RunsAreCounted'
  BY <1>5, <1>9 DEF IInv, RunsAreCounted, TypeInv, ProcessMessages
<1>11. RelayLocks'
  <2>1. \A q \in Passes : pass'[q].pc \in {"flush", "commit"} => pass'[q] = pass[q]
    <3>1. PassAt(p, "relay").pc = "relay"
      BY <1>0, PassAtType
    <3> QED
      BY <1>0, <3>1 DEF PassReap, TypeOK
  <2>2. \A q \in Passes : pass[q].pc \in {"flush", "commit"} =>
            /\ pass[q].msg \in Messages
            /\ outbox'[pass[q].msg] = outbox[pass[q].msg]
    BY <1>6, <1>8 DEF IInv, RelayLocks, TypeInv, ProcessMessages
  <2>3. \A q \in Passes : pass[q].pc = "commit" => exec'[pass[q].msg[1]] = exec[pass[q].msg[1]]
    BY <1>2, <1>3, <1>4, <2>2 DEF IInv, RelayLocks
  <2> QED
    BY <2>1, <2>2, <2>3 DEF IInv, RelayLocks
<1>12. DispatchRows'
  BY <1>2, <1>3, <1>4, <1>6, <1>7 DEF IInv, DispatchRows, Waiting
<1>13. NoDeadPendingRow' /\ PendingIsUnpublished'
  BY <1>2, <1>3, <1>4, <1>6, <1>7 DEF IInv, NoDeadPendingRow, PendingIsUnpublished
<1>14. AttemptHistory'
  BY <1>2, <1>3, <1>4, <1>5, SMTT(60) DEF IInv, AttemptHistory, AttemptRow
<1> QED
  BY <1>10, <1>11, <1>12, <1>13, <1>14 DEF IInv

LEMMA PassInductive ==
    ASSUME IInv, NEW p \in Passes, PassStep(p) \/ PassCrash(p)
    PROVE  IInv'
<1>1. TypeInv'
  BY PassTypes DEF IInv
<1> QED
  BY <1>1, ReclaimInductive, ReapInductive, RelayClaimInductive, RelayFinishInductive,
     RelayLockInductive, RelayCommitInductive DEF PassStep, RelayStep

(* Submission, loss of Redis, rebuild and time.                            *)
LEMMA EnvironmentInductive ==
    ASSUME IInv, (\E j \in Jobs : Submit(j)) \/ RedisLoss \/ Rebuild \/ Tick
    PROVE  IInv'
<1>0. TypeOK /\ TypeInv'
  BY EnvironmentTypes DEF IInv, TypeInv
<1>1. ASSUME NEW j \in Jobs, Submit(j) PROVE IInv'
  <2> DEFINE d == <<j, 1>>
  <2>1. d \in Messages /\ d[1] = j /\ d[2] = 1 /\ exec[j].state = "absent"
    BY <1>1 DEF Submit, Messages
  <2>2. /\ exec'[j].state = "pending"
        /\ exec'[j].attempt_count = 0
        /\ \A i \in Jobs : i # j => exec'[i] = exec[i]
    BY <1>0, <1>1 DEF Submit, NewExecution, TypeOK
  <2>3. /\ outbox'[d].state = "pending"
        /\ outbox'[d].lease_owner = Nobody
        /\ outbox'[d].publish_attempts = 0
        /\ \A n \in Messages : n # d => outbox'[n] = outbox[n]
    BY <1>0, <1>1, <2>1, NewOutboxType DEF Submit, TypeOK
  <2>4. \A n \in Messages : /\ n[1] \in Jobs
                            /\ n[2] \in 1..MaxAttempts
                            /\ n[1] = j /\ n[2] = 1 => n = d
                            /\ exec[n[1]].attempt_count \in 0..MaxAttempts
    BY <1>0, MessageParts, ExecutionRow
  <2>5. UNCHANGED <<attempts, worker, pass>>
    BY <1>1 DEF Submit
  <2>6. \A n \in Messages : n[1] = j => outbox[n].state = "absent" /\ attempts[n] = "absent"
    <3>1. exec[j].attempt_count \in 0..MaxAttempts
      BY <1>0, ExecutionRow
    <3>2. ASSUME exec[j].attempt_count # 0 PROVE FALSE
      <4>1. <<j, exec[j].attempt_count>> \in Messages
        BY <3>1, <3>2 DEF Messages
      <4> QED
        BY <2>1, <4>1 DEF IInv, AttemptHistory, AttemptRow
    <3> QED
      BY <2>1, <2>4, <3>2 DEF IInv, DispatchRows, AttemptHistory, AttemptRow, Waiting
  <2>7. RunsAreCounted'
    BY <2>5 DEF IInv, RunsAreCounted
  <2>8. RelayLocks'
    <3>1. \A q \in Passes : pass[q].pc \in {"flush", "commit"} =>
              pass[q].msg \in Messages /\ pass[q].msg[1] \in Jobs /\ pass[q].msg[1] # j
      BY <2>4, <2>6 DEF IInv, RelayLocks, TypeInv, ProcessMessages
    <3> QED
      BY <2>1, <2>2, <2>3, <2>5, <3>1 DEF IInv, RelayLocks
  <2>9. DispatchRows'
    BY <2>1, <2>2, <2>3, <2>4, <2>6 DEF IInv, DispatchRows, Waiting
  <2>10. NoDeadPendingRow' /\ PendingIsUnpublished'
    BY <2>1, <2>2, <2>3, <2>4, <2>6 DEF IInv, NoDeadPendingRow, PendingIsUnpublished
  <2>11. AttemptHistory'
    BY <2>2, <2>4, <2>5, <2>6 DEF IInv, AttemptHistory, AttemptRow
  <2> QED
    BY <1>0, <2>7, <2>8, <2>9, <2>10, <2>11 DEF IInv
<1>2. CASE RedisLoss
  <2>1. RunsAreCounted'
    BY <1>2 DEF RedisLoss, IInv, RunsAreCounted
  <2> QED
    BY <1>0, <1>2, <2>1, FrameInductive DEF RedisLoss
<1>3. CASE Rebuild
  <2>1. PICK S \in SUBSET Messages : /\ \A m \in S : outbox[m].state = "published"
                                     /\ outbox' = ReopenRows(S)
    BY <1>3, RebuildRows
  <2>2. /\ \A m \in Messages \ S : outbox'[m] = outbox[m]
        /\ \A m \in S : outbox'[m] = Reopened(outbox[m])
    BY <1>0, <2>1, ReopenRowsType
  <2>3. \A m \in S : m \notin LockedRows
    BY <2>1 DEF LockedRows, IInv, RelayLocks
  <2>4. UNCHANGED <<exec, attempts, worker, pass>>
    BY <1>3 DEF Rebuild
  <2> QED
    BY <1>0, <2>1, <2>2, <2>3, <2>4, ReopenedRow, RelayRowsInductive
<1>4. CASE Tick
  <2>1. \A j \in Jobs : /\ exec'[j].state = exec[j].state
                        /\ exec'[j].attempt_count = exec[j].attempt_count
    BY <1>0, <1>4, ExecutionRow, LaterExecutionType DEF Tick
  <2>2. \A m \in Messages : /\ outbox'[m].state = outbox[m].state
                            /\ outbox'[m].lease_owner = outbox[m].lease_owner
                            /\ outbox'[m].publish_attempts = outbox[m].publish_attempts
                            /\ m[1] \in Jobs
    BY <1>0, <1>4, OutboxRow, LaterRowType, MessageParts DEF Tick
  <2>3. UNCHANGED <<attempts, worker, pass>>
    BY <1>4 DEF Tick
  <2>4. RelayLocks'
    BY <2>1, <2>2, <2>3 DEF IInv, RelayLocks, TypeInv, ProcessMessages
  <2>5. DispatchRows' /\ NoDeadPendingRow' /\ PendingIsUnpublished'
    BY <2>1, <2>2 DEF IInv, DispatchRows, NoDeadPendingRow, PendingIsUnpublished
  <2>6. AttemptHistory' /\ RunsAreCounted'
    BY <2>1, <2>2, <2>3 DEF IInv, AttemptHistory, AttemptRow, RunsAreCounted
  <2> QED
    BY <1>0, <2>4, <2>5, <2>6 DEF IInv
<1> QED
  BY <1>1, <1>2, <1>3, <1>4

LEMMA InductiveStep ==
    IInv /\ [Next]_vars => IInv'
<1> SUFFICES ASSUME IInv, [Next]_vars PROVE IInv'
  OBVIOUS
<1>1. CASE Next
  BY <1>1, NextCases, WorkerInductive, PassInductive, EnvironmentInductive
<1>2. CASE UNCHANGED vars
  <2>1. TypeInv'
    BY TypeStep DEF IInv
  <2>2. RunsAreCounted'
    BY <1>2 DEF vars, IInv, RunsAreCounted
  <2> QED
    BY <1>2, <2>1, <2>2, FrameInductive DEF vars
<1> QED
  BY <1>1, <1>2

LEMMA Invariance ==
    Spec => []IInv
BY InductiveInit, InductiveStep, PTL DEF Spec

(* Between submission and the last outcome an execution never waits        *)
(* without a dispatch row, and no dispatch row is created twice.           *)
THEOREM DispatchRowsInvariant ==
    Spec => []DispatchRows
<1>1. IInv => DispatchRows
  BY DEF IInv
<1> QED
  BY <1>1, Invariance, PTL

(* The attempt rows tell the history of the execution row.                 *)
THEOREM AttemptHistoryInvariant ==
    Spec => []AttemptHistory
<1>1. IInv => AttemptHistory
  BY DEF IInv
<1> QED
  BY <1>1, Invariance, PTL

(* A pending row can be claimed, a publishing one has an owner.            *)
THEOREM NoDeadPendingRowInvariant ==
    Spec => []NoDeadPendingRow
<1>1. IInv => NoDeadPendingRow
  BY DEF IInv
<1> QED
  BY <1>1, Invariance, PTL

(* A row is published together with the move to queued.                    *)
THEOREM PendingIsUnpublishedInvariant ==
    Spec => []PendingIsUnpublished
<1>1. IInv => PendingIsUnpublished
  BY DEF IInv
<1> QED
  BY <1>1, Invariance, PTL

-----------------------------------------------------------------------------
(* One runner per attempt                                                  *)

(* A worker starts to handle a message by a claim, and in no other way.    *)
LEMMA HandlingByClaim ==
    ASSUME TypeInv, Next
    PROVE  \/ \E w \in Workers : Claim(w)
           \/ \A w \in Workers : worker'[w].pc = "handling" => worker'[w] = worker[w]
<1>1. ASSUME NEW w \in Workers, WorkerStep(w) \/ WorkerCrash(w), ~Claim(w)
      PROVE  \A v \in Workers : worker'[v].pc = "handling" => worker'[v] = worker[v]
  <2>1. CASE HandlerEffect(w)
    BY <2>1 DEF HandlerEffect
  <2>2. CASE \E m \in Messages : Dequeue(w, m)
    BY <2>2 DEF Dequeue, TypeInv, TypeOK
  <2>3. CASE worker' = [worker EXCEPT ![w] = Idle]
    BY <2>3 DEF Idle, TypeInv, TypeOK
  <2> QED
    BY <1>1, <2>1, <2>2, <2>3
    DEF WorkerStep, WorkerCrash, ClaimRefused, OutcomeDiscarded, RecordSuccess,
        RecordRetry, RecordFailure
<1>2. ASSUME NEW p \in Passes, PassStep(p) \/ PassCrash(p)
      PROVE  UNCHANGED worker
  BY <1>2 DEF PassStep, PassCrash, PassReclaim, PassReap, RelayStep, RelayClaim, RelayPublish,
              FinishLost, FinishFailed, FinishPublished, FinishReadPending, FinishFlush,
              FinishStale, FinishCommit
<1>3. ASSUME (\E j \in Jobs : Submit(j)) \/ RedisLoss \/ Rebuild \/ Tick
      PROVE  UNCHANGED worker
  BY <1>3 DEF Submit, RedisLoss, Rebuild, Tick
<1> QED
  BY <1>1, <1>2, <1>3, NextCases

(* However often a message is published, redelivered or rebuilt, no two    *)
(* workers run the same attempt.                                           *)
THEOREM OneRunnerPerAttemptInvariant ==
    Spec => []OneRunnerPerAttempt
<1>1. Init => OneRunnerPerAttempt
  BY DEF Init, OneRunnerPerAttempt, Idle
<1>2. IInv /\ OneRunnerPerAttempt /\ [Next]_vars => OneRunnerPerAttempt'
  <2> SUFFICES ASSUME IInv, OneRunnerPerAttempt, [Next]_vars
               PROVE  OneRunnerPerAttempt'
    OBVIOUS
  <2>1. ASSUME NEW w \in Workers, Claim(w) PROVE OneRunnerPerAttempt'
    <3> DEFINE m == worker[w].msg
    <3>1. m \in Messages /\ m[2] = exec[m[1]].attempt_count + 1
      BY <2>1 DEF Claim, Claimable, ValidMessage, IInv, TypeInv, ProcessMessages
    <3>2. exec[m[1]].attempt_count \in 0..MaxAttempts
      BY <3>1, MessageParts, ExecutionRow DEF IInv, TypeInv
    <3>3. attempts[m] = "absent"
      BY <3>1, <3>2 DEF IInv, AttemptHistory, AttemptRow
    <3>4. \A v \in Workers : worker[v].pc = "handling" => worker[v].msg # m
      BY <3>3 DEF IInv, RunsAreCounted
    <3>5. /\ worker'[w].msg = m
          /\ \A v \in Workers : v # w => worker'[v] = worker[v]
      BY <2>1 DEF Claim, IInv, TypeInv, TypeOK
    <3> QED
      BY <3>4, <3>5 DEF OneRunnerPerAttempt
  <2>2. ASSUME \A w \in Workers : worker'[w].pc = "handling" => worker'[w] = worker[w]
        PROVE  OneRunnerPerAttempt'
    BY <2>2 DEF OneRunnerPerAttempt
  <2>3. CASE UNCHANGED vars
    BY <2>3 DEF vars, OneRunnerPerAttempt
  <2> QED
    BY <2>1, <2>2, <2>3, HandlingByClaim DEF IInv
<1> QED
  BY <1>1, <1>2, Invariance, PTL DEF Spec

-----------------------------------------------------------------------------
(* Which steps change executions and attempts                              *)

(* Every other step leaves attempts, states and attempt counts alone.      *)
LEMMA StepKinds ==
    ASSUME TypeInv, Next
    PROVE  \/ \E j \in Jobs : Submit(j)
           \/ \E w \in Workers : \/ Claim(w)
                                 \/ RecordSuccess(w) \/ RecordFailure(w)
                                 \/ RecordRetry(w)
           \/ \E p \in Passes : PassReap(p)
           \/ \E p \in Passes : FinishCommit(p)
           \/ Tick
           \/ UNCHANGED <<exec, attempts>>
<1>1. ASSUME NEW w \in Workers, WorkerStep(w) \/ WorkerCrash(w)
      PROVE  \/ Claim(w) \/ RecordSuccess(w) \/ RecordFailure(w) \/ RecordRetry(w)
             \/ UNCHANGED <<exec, attempts>>
  BY <1>1 DEF WorkerStep, WorkerCrash, ClaimRefused, OutcomeDiscarded, HandlerEffect, Dequeue
<1>2. ASSUME NEW p \in Passes, PassStep(p) \/ PassCrash(p)
      PROVE  PassReap(p) \/ FinishCommit(p) \/ UNCHANGED <<exec, attempts>>
  BY <1>2 DEF PassStep, PassCrash, PassReclaim, RelayStep, RelayClaim, RelayPublish,
              FinishLost, FinishFailed, FinishPublished, FinishReadPending, FinishFlush,
              FinishStale
<1>3. ASSUME RedisLoss \/ Rebuild
      PROVE  UNCHANGED <<exec, attempts>>
  BY <1>3 DEF RedisLoss, Rebuild
<1> QED
  BY <1>1, <1>2, <1>3, NextCases

(* The rows an outcome writes.                                             *)
OutcomeRows(w, state, verdict, delay) ==
    /\ exec' = [exec EXCEPT ![worker[w].msg[1]] =
                    Released(exec[worker[w].msg[1]], state, delay)]
    /\ attempts' = [attempts EXCEPT ![worker[w].msg] = verdict]
    /\ worker' = [worker EXCEPT ![w] = Idle]

LEMMA OutcomeEffect ==
    ASSUME IInv, NEW w \in Workers,
           RecordSuccess(w) \/ RecordFailure(w) \/ RecordRetry(w)
    PROVE  /\ worker[w].pc = "handling"
           /\ OutcomeAccepted(w)
           /\ \E state \in {"succeeded", "failed", "retry_wait"}, verdict \in AttemptStates,
                 delay \in 0..DelayCap :
                /\ OutcomeRows(w, state, verdict, delay)
                /\ state = "retry_wait" => exec[worker[w].msg[1]].attempt_count < MaxAttempts
                /\ state # "retry_wait" => delay = exec[worker[w].msg[1]].wait
<1>1. worker[w].pc = "handling" /\ OutcomeAccepted(w)
  BY DEF RecordSuccess, RecordFailure, RecordRetry
<1>2. exec[worker[w].msg[1]].wait \in 0..DelayCap
  BY <1>1, AcceptedOutcome
<1>3. CASE RecordSuccess(w)
  <2>1. "succeeded" \in AttemptStates
    BY DEF AttemptStates
  <2>2. OutcomeRows(w, "succeeded", "succeeded", exec[worker[w].msg[1]].wait)
    BY <1>3 DEF RecordSuccess, OutcomeRows
  <2> QED
    BY <1>1, <1>2, <2>1, <2>2
<1>4. CASE RecordFailure(w)
  <2>1. PICK verdict \in {"permanent_failure", "transient_failure"} :
            attempts' = [attempts EXCEPT ![worker[w].msg] = verdict]
    BY <1>4 DEF RecordFailure
  <2>2. verdict \in AttemptStates
    BY <2>1 DEF AttemptStates
  <2>3. OutcomeRows(w, "failed", verdict, exec[worker[w].msg[1]].wait)
    BY <1>4, <2>1 DEF RecordFailure, OutcomeRows
  <2> QED
    BY <1>1, <1>2, <2>2, <2>3
<1>5. CASE RecordRetry(w)
  <2>1. PICK delay \in 0..DelayCap :
            exec' = [exec EXCEPT ![worker[w].msg[1]] =
                        Released(exec[worker[w].msg[1]], "retry_wait", delay)]
    BY <1>5 DEF RecordRetry, RetryDelays
  <2>2. "transient_failure" \in AttemptStates
    BY DEF AttemptStates
  <2>3. OutcomeRows(w, "retry_wait", "transient_failure", delay)
    BY <1>5, <2>1 DEF RecordRetry, OutcomeRows
  <2>4. exec[worker[w].msg[1]].attempt_count < MaxAttempts
    BY <1>5 DEF RecordRetry
  <2> QED
    BY <1>1, <2>2, <2>3, <2>4
<1> QED
  BY <1>3, <1>4, <1>5

(* What can become of one execution row and its attempts in a step.        *)
Kept(j) ==
    /\ exec'[j] = exec[j]
    /\ \A n \in 1..MaxAttempts : attempts'[<<j, n>>] = attempts[<<j, n>>]

Accepted(j) ==
    exec[j].state = "absent" /\ exec'[j] = NewExecution /\ UNCHANGED attempts

Claimed(j) ==
    /\ exec[j].state \in Waiting
    /\ exec'[j].state = "running"
    /\ exec'[j].wait = 0
    /\ exec'[j].attempt_count = exec[j].attempt_count + 1
    /\ \A m \in Messages : m # Dispatch(j) => attempts'[m] = attempts[m]
    /\ Dispatch(j) \in Messages => attempts[Dispatch(j)] = "absent"

Queued(j) ==
    exec[j].state = "pending" /\ exec'[j].state = "queued" /\ UNCHANGED attempts

Closed(j, w) ==
    /\ exec[j].state = "running"
    /\ exec[j].lease > 0
    /\ exec[j].lease_owner = w
    /\ worker[w] = [pc |-> "handling", msg |-> Current(j)]
    /\ worker'[w] = Idle
    /\ \E state \in {"succeeded", "failed", "retry_wait"}, delay \in 0..DelayCap :
          /\ exec'[j] = Released(exec[j], state, delay)
          /\ state # "retry_wait" => delay = exec[j].wait
    /\ \A m \in Messages : m # Current(j) => attempts'[m] = attempts[m]

Reaped(j) ==
    /\ exec[j].state = "running"
    /\ exec[j].lease = 0
    /\ exec'[j] = Abandoned(exec[j])
    /\ \A m \in Messages : m[1] = j =>
          attempts'[m] = IF m = Current(j) THEN "abandoned" ELSE attempts[m]

Aged(j) ==
    exec'[j] = LaterExecution(exec[j]) /\ UNCHANGED attempts

JobSteps(j) ==
    \/ Kept(j) \/ Accepted(j) \/ Claimed(j) \/ Queued(j)
    \/ (\E w \in Workers : Closed(j, w)) \/ Reaped(j) \/ Aged(j)

LEMMA OneJobSteps ==
    ASSUME IInv, Next, NEW j \in Jobs
    PROVE  JobSteps(j)
<1>0. TypeOK /\ TypeInv
  BY DEF IInv, TypeInv
<1>1. \A n \in 1..MaxAttempts : <<j, n>> \in Messages /\ <<j, n>>[1] = j
  BY DEF Messages
<1>2. ASSUME NEW i \in Jobs, Submit(i) PROVE JobSteps(j)
  BY <1>0, <1>2 DEF Submit, JobSteps, Kept, Accepted, TypeOK
<1>3. ASSUME NEW w \in Workers, Claim(w) PROVE JobSteps(j)
  <2> DEFINE m == worker[w].msg
  <2>1. /\ m \in Messages
        /\ m[1] \in Jobs
        /\ m[2] = exec[m[1]].attempt_count + 1
        /\ m = Dispatch(m[1])
        /\ exec[m[1]].state \in Waiting
    BY <1>3, MessageParts
    DEF Claim, Claimable, ValidMessage, IInv, TypeInv, ProcessMessages, Dispatch
  <2>2. exec[m[1]].attempt_count \in 0..MaxAttempts
    BY <1>0, <2>1, ExecutionRow
  <2>3. attempts[m] = "absent"
    BY <2>1, <2>2 DEF IInv, AttemptHistory, AttemptRow
  <2>4. /\ \A n \in Messages : n # m => attempts'[n] = attempts[n]
        /\ \A i \in Jobs : i # m[1] => exec'[i] = exec[i]
        /\ exec'[m[1]].state = "running"
        /\ exec'[m[1]].wait = 0
        /\ exec'[m[1]].attempt_count = m[2]
    BY <1>0, <1>3, <2>1 DEF Claim, TypeOK
  <2>5. CASE j = m[1]
    BY <2>1, <2>3, <2>4, <2>5 DEF JobSteps, Claimed
  <2>6. CASE j # m[1]
    BY <1>1, <2>4, <2>6 DEF JobSteps, Kept
  <2> QED
    BY <2>5, <2>6
<1>4. ASSUME NEW w \in Workers, RecordSuccess(w) \/ RecordFailure(w) \/ RecordRetry(w)
      PROVE  JobSteps(j)
  <2> DEFINE m == worker[w].msg
  <2>1. PICK state \in {"succeeded", "failed", "retry_wait"}, verdict \in AttemptStates,
             delay \in 0..DelayCap :
                /\ OutcomeRows(w, state, verdict, delay)
                /\ state # "retry_wait" => delay = exec[m[1]].wait
    BY <1>4, OutcomeEffect
  <2>2. worker[w].pc = "handling" /\ OutcomeAccepted(w)
    BY <1>4, OutcomeEffect
  <2>3. /\ m \in Messages
        /\ m[1] \in Jobs
        /\ m[2] \in 1..MaxAttempts
        /\ exec[m[1]].state = "running"
        /\ m = Current(m[1])
        /\ exec[m[1]].lease > 0
        /\ exec[m[1]].lease_owner = w
    BY <2>2, AcceptedOutcome, MessageParts DEF Current, OutcomeAccepted
  <2>4. worker[w] = [pc |-> "handling", msg |-> m]
    BY <1>0, <2>2 DEF TypeOK, WorkerRecord
  <2>5. /\ exec'[m[1]] = Released(exec[m[1]], state, delay)
        /\ \A i \in Jobs : i # m[1] => exec'[i] = exec[i]
        /\ \A n \in Messages : n # m => attempts'[n] = attempts[n]
        /\ worker'[w] = Idle
    BY <1>0, <2>1, <2>3 DEF OutcomeRows, TypeOK
  <2>6. CASE j = m[1]
    <3>1. Closed(j, w)
      BY <2>1, <2>3, <2>4, <2>5, <2>6 DEF Closed
    <3> QED
      BY <3>1 DEF JobSteps
  <2>7. CASE j # m[1]
    BY <1>1, <2>3, <2>5, <2>7 DEF JobSteps, Kept
  <2> QED
    BY <2>6, <2>7
<1>5. ASSUME NEW p \in Passes, PassReap(p) PROVE JobSteps(j)
  <2>1. PICK S \in SUBSET Jobs : ReapEffect(S)
    BY <1>5, ReapRows
  <2>2. CASE j \in S
    <3>1. exec[j].state = "running" /\ exec[j].lease = 0 /\ exec'[j] = Abandoned(exec[j])
      BY <2>1, <2>2 DEF ReapEffect, Expired
    <3>2. \A m \in Messages : m[1] = j /\ m = Current(j) => attempts[m] = "running"
      BY <3>1 DEF IInv, AttemptHistory, AttemptRow, Current
    <3>3. Reaped(j)
      BY <2>1, <2>2, <3>1, <3>2 DEF ReapEffect, Reaped
    <3> QED
      BY <3>3 DEF JobSteps
  <2>3. CASE j \notin S
    BY <1>1, <2>1, <2>3 DEF ReapEffect, JobSteps, Kept
  <2> QED
    BY <2>2, <2>3
<1>6. ASSUME NEW p \in Passes, FinishCommit(p) PROVE JobSteps(j)
  <2> DEFINE i == pass[p].msg[1]
  <2>1. i \in Jobs /\ exec[i].state = "pending"
    BY <1>6, MessageParts DEF FinishCommit, IInv, TypeInv, ProcessMessages, RelayLocks
  <2>2. exec' = [exec EXCEPT ![i] = Released(exec[i], "queued", exec[i].wait)]
        /\ UNCHANGED attempts
    BY <1>6 DEF FinishCommit
  <2>3. /\ \A k \in Jobs : k # i => exec'[k] = exec[k]
        /\ exec'[i].state = "queued"
    BY <1>0, <2>1, <2>2 DEF TypeOK, Released
  <2> QED
    BY <2>1, <2>2, <2>3 DEF JobSteps, Kept, Queued
<1>7. CASE Tick
  BY <1>7 DEF Tick, JobSteps, Aged
<1>8. CASE UNCHANGED <<exec, attempts>>
  BY <1>8 DEF JobSteps, Kept
<1> QED
  BY <1>0, <1>2, <1>3, <1>4, <1>5, <1>6, <1>7, <1>8, StepKinds

(* A finished execution has nothing left to count down.                    *)
LEMMA ClosedAtRestInvariance ==
    Spec => []ClosedAtRest
<1>1. Init => ClosedAtRest
  BY DEF Init, ClosedAtRest, NoExecution, Terminal
<1>2. IInv /\ ClosedAtRest /\ [Next]_vars => ClosedAtRest'
  <2> SUFFICES ASSUME IInv, ClosedAtRest, Next, NEW j \in Jobs
               PROVE  /\ exec'[j].state = "running" =>
                            exec'[j].attempt_count > 0 /\ exec'[j].wait = 0
                      /\ exec'[j].state \in Terminal =>
                            exec'[j].wait = 0 /\ exec'[j].lease = 0
    BY DEF vars, ClosedAtRest
  <2>1. JobSteps(j)
    BY OneJobSteps
  <2>2. /\ exec[j] \in JobExecution
        /\ exec[j].attempt_count \in 0..MaxAttempts
        /\ exec[j].state = "running" => exec[j].attempt_count > 0 /\ exec[j].wait = 0
        /\ exec[j].state \in Terminal => exec[j].wait = 0 /\ exec[j].lease = 0
    BY ExecutionRow DEF IInv, TypeInv, ClosedAtRest
  <2>3. CASE Kept(j) \/ Claimed(j) \/ Queued(j)
    BY <2>2, <2>3 DEF Kept, Claimed, Queued, Terminal
  <2>4. CASE Accepted(j)
    BY <2>4 DEF Accepted, NewExecution, Terminal
  <2>5. ASSUME NEW w \in Workers, Closed(j, w)
        PROVE  /\ exec'[j].state # "running"
               /\ exec'[j].state \in Terminal => exec'[j].wait = 0 /\ exec'[j].lease = 0
    BY <2>2, <2>5 DEF Closed, Released, Terminal
  <2>6. CASE Reaped(j)
    BY <2>2, <2>6 DEF Reaped, Abandoned, Released, Terminal
  <2>7. CASE Aged(j)
    BY <2>2, <2>7 DEF Aged, LaterExecution, Minus1
  <2> QED
    BY <2>1, <2>3, <2>4, <2>5, <2>6, <2>7 DEF JobSteps
<1> QED
  BY <1>1, <1>2, Invariance, PTL DEF Spec

-----------------------------------------------------------------------------
(* Action properties                                                       *)

(* A finished execution and its attempts never change again.               *)
THEOREM TerminalIsFinalHolds ==
    Spec => TerminalIsFinal
<1> DEFINE A == \A j \in Jobs : exec[j].state \in Terminal =>
                    /\ exec'[j] = exec[j]
                    /\ \A n \in 1..MaxAttempts : attempts'[<<j, n>>] = attempts[<<j, n>>]
<1>1. IInv /\ ClosedAtRest /\ [Next]_vars => [A]_vars
  <2> SUFFICES ASSUME IInv, ClosedAtRest, Next, NEW j \in Jobs, exec[j].state \in Terminal
               PROVE  Kept(j)
    BY DEF vars, Kept
  <2>1. JobSteps(j)
    BY OneJobSteps
  <2>2. CASE Aged(j)
    <3>1. exec[j] \in JobExecution /\ exec[j].lease = 0 /\ exec[j].wait = 0
      BY ExecutionRow DEF IInv, TypeInv, ClosedAtRest
    <3>2. LaterExecution(exec[j]) = exec[j]
      BY <3>1 DEF LaterExecution, Minus1, JobExecution
    <3> QED
      BY <2>2, <3>2 DEF Aged, Kept
  <2> QED
    BY <2>1, <2>2 DEF JobSteps, Accepted, Claimed, Queued, Closed, Reaped, Terminal, Waiting
<1>2. Spec => [][A]_vars
  BY <1>1, Invariance, ClosedAtRestInvariance, PTL DEF Spec
<1> QED
  BY <1>2 DEF TerminalIsFinal

(* Attempt rows are closed once.                                           *)
THEOREM AttemptsAppendOnlyHolds ==
    Spec => AttemptsAppendOnly
<1> DEFINE A == \A m \in Messages :
                    attempts[m] \notin {"absent", "running"} => attempts'[m] = attempts[m]
<1>1. IInv /\ [Next]_vars => [A]_vars
  <2> SUFFICES ASSUME IInv, Next, NEW m \in Messages, attempts[m] \notin {"absent", "running"}
               PROVE  attempts'[m] = attempts[m]
    BY DEF vars
  <2>1. m[1] \in Jobs /\ m[2] \in 1..MaxAttempts /\ m = <<m[1], m[2]>>
    BY MessageParts
  <2>2. JobSteps(m[1])
    BY <2>1, OneJobSteps
  <2>3. exec[m[1]].state = "running" => m # Current(m[1])
    BY <2>1 DEF IInv, AttemptHistory, AttemptRow, Current
  <2>4. CASE Kept(m[1])
    BY <2>1, <2>4 DEF Kept
  <2>5. CASE Accepted(m[1]) \/ Queued(m[1]) \/ Aged(m[1])
    BY <2>5 DEF Accepted, Queued, Aged
  <2>6. CASE Claimed(m[1])
    BY <2>6 DEF Claimed
  <2>7. ASSUME NEW w \in Workers, Closed(m[1], w) PROVE attempts'[m] = attempts[m]
    BY <2>3, <2>7 DEF Closed
  <2>8. CASE Reaped(m[1])
    BY <2>3, <2>8 DEF Reaped
  <2> QED
    BY <2>2, <2>4, <2>5, <2>6, <2>7, <2>8 DEF JobSteps
<1>2. Spec => [][A]_vars
  BY <1>1, Invariance, PTL DEF Spec
<1> QED
  BY <1>2 DEF AttemptsAppendOnly

(* Only the owner in time, or the reaper once the lease is over, ends an   *)
(* attempt.                                                                *)
THEOREM FencedOutcomeHolds ==
    Spec => FencedOutcome
<1> DEFINE A == \A j \in Jobs : exec[j].state = "running" /\ exec'[j].state # "running" =>
            \/ /\ exec[j].lease = 0
               /\ attempts'[Current(j)] = "abandoned"
            \/ /\ exec[j].lease > 0
               /\ worker[exec[j].lease_owner] = [pc |-> "handling", msg |-> Current(j)]
               /\ worker'[exec[j].lease_owner] = Idle
<1>1. IInv /\ ClosedAtRest /\ [Next]_vars => [A]_vars
  <2> SUFFICES ASSUME IInv, ClosedAtRest, Next, NEW j \in Jobs,
                      exec[j].state = "running", exec'[j].state # "running"
               PROVE  \/ /\ exec[j].lease = 0
                         /\ attempts'[Current(j)] = "abandoned"
                      \/ /\ exec[j].lease > 0
                         /\ worker[exec[j].lease_owner] = [pc |-> "handling", msg |-> Current(j)]
                         /\ worker'[exec[j].lease_owner] = Idle
    BY DEF vars
  <2>1. JobSteps(j)
    BY OneJobSteps
  <2>2. Current(j) \in Messages /\ Current(j)[1] = j
    BY ExecutionRow DEF IInv, TypeInv, ClosedAtRest, Current, Messages
  <2>3. ~Kept(j) /\ ~Accepted(j) /\ ~Claimed(j) /\ ~Queued(j)
    BY DEF Kept, Accepted, Claimed, Queued, Waiting
  <2>4. ~Aged(j)
    BY DEF Aged, LaterExecution
  <2>5. CASE Reaped(j)
    BY <2>2, <2>5 DEF Reaped
  <2>6. ASSUME NEW w \in Workers, Closed(j, w)
        PROVE  /\ exec[j].lease > 0
               /\ worker[exec[j].lease_owner] = [pc |-> "handling", msg |-> Current(j)]
               /\ worker'[exec[j].lease_owner] = Idle
    BY <2>6 DEF Closed
  <2> QED
    BY <2>1, <2>3, <2>4, <2>5, <2>6 DEF JobSteps
<1>2. Spec => [][A]_vars
  BY <1>1, Invariance, ClosedAtRestInvariance, PTL DEF Spec
<1> QED
  BY <1>2 DEF FencedOutcome

-----------------------------------------------------------------------------
(* The runtime implements the lifecycle                                    *)

LEMMA LifecycleInit ==
    Init => Lifecycle!Init
<1> SUFFICES ASSUME Init PROVE Lifecycle!Init
  OBVIOUS
<1>1. \A j \in Jobs : exec[j].state = "absent" /\ exec[j].attempt_count = 0
  BY DEF Init, NoExecution
<1>2. Phase("absent") = "absent"
  BY DEF Phase, Waiting
<1> QED
  BY <1>1, <1>2 DEF Lifecycle!Init

(* Rows whose phase and count are unchanged: the caller sees nothing.      *)
LEMMA LifecycleStutter ==
    ASSUME \A j \in Jobs : /\ Phase(exec'[j].state) = Phase(exec[j].state)
                           /\ exec'[j].attempt_count = exec[j].attempt_count
    PROVE  UNCHANGED Lifecycle!vars
BY DEF Lifecycle!vars

(* The lifecycle step of a new submission, and of a claim.                 *)
LEMMA AcceptStep ==
    ASSUME NEW j \in Jobs, \A i \in Jobs : i # j => exec'[i] = exec[i],
           exec[j].state = "absent", Phase(exec'[j].state) = "waiting",
           exec'[j].attempt_count = exec[j].attempt_count
    PROVE  Lifecycle!Next
<1>1. Phase(exec[j].state) = "absent"
  BY DEF Phase, Waiting
<1>2. \A i \in Jobs : exec'[i].attempt_count = exec[i].attempt_count
  OBVIOUS
<1>3. Lifecycle!Accept(j)
  BY <1>1, <1>2 DEF Lifecycle!Accept
<1> QED
  BY <1>3 DEF Lifecycle!Next

LEMMA StartStep ==
    ASSUME NEW j \in Jobs, \A i \in Jobs : i # j => exec'[i] = exec[i],
           exec[j].state \in Waiting, exec'[j].state = "running",
           exec'[j].attempt_count = exec[j].attempt_count + 1,
           exec[j].attempt_count < MaxAttempts
    PROVE  Lifecycle!Next
<1>1. Phase(exec[j].state) = "waiting" /\ Phase(exec'[j].state) = "running"
  BY DEF Phase, Waiting
<1>2. Lifecycle!Start(j)
  BY <1>1 DEF Lifecycle!Start
<1> QED
  BY <1>2 DEF Lifecycle!Next

LEMMA LifecycleStep ==
    IInv /\ [Next]_vars => [Lifecycle!Next]_(Lifecycle!vars)
<1> SUFFICES ASSUME IInv, [Next]_vars
             PROVE  Lifecycle!Next \/ UNCHANGED Lifecycle!vars
  OBVIOUS
<1>0. TypeOK /\ TypeInv
  BY DEF IInv, TypeInv
<1>a. /\ \A state \in Waiting : Phase(state) = "waiting"
      /\ Phase("running") = "running"
      /\ Phase("succeeded") = "succeeded"
      /\ Phase("failed") = "failed"
      /\ Phase("absent") = "absent"
  BY DEF Phase, Waiting
<1>1. ASSUME NEW j \in Jobs, Submit(j) PROVE Lifecycle!Next
  <2>1. /\ \A i \in Jobs : i # j => exec'[i] = exec[i]
        /\ exec'[j].state = "pending"
        /\ exec'[j].attempt_count = 0
        /\ exec[j].state = "absent"
    BY <1>0, <1>1 DEF Submit, NewExecution, TypeOK
  <2>2. exec[j].attempt_count = 0
    <3>1. exec[j].attempt_count \in 0..MaxAttempts
      BY <1>0, ExecutionRow
    <3>2. ASSUME exec[j].attempt_count # 0 PROVE FALSE
      <4>1. <<j, exec[j].attempt_count>> \in Messages
        BY <3>1, <3>2 DEF Messages
      <4> QED
        BY <2>1, <4>1 DEF IInv, AttemptHistory, AttemptRow
    <3> QED
      BY <3>2
  <2>3. Phase(exec'[j].state) = "waiting"
    BY <1>a, <2>1 DEF Waiting
  <2> QED
    BY <2>1, <2>2, <2>3, AcceptStep
<1>2. ASSUME NEW w \in Workers, Claim(w) PROVE Lifecycle!Next
  <2> DEFINE m == worker[w].msg
             j == m[1]
  <2>1. /\ m \in Messages
        /\ j \in Jobs
        /\ m[2] \in 1..MaxAttempts
        /\ m[2] = exec[j].attempt_count + 1
        /\ exec[j].state \in Waiting
    BY <1>2, MessageParts DEF Claim, Claimable, ValidMessage, IInv, TypeInv, ProcessMessages
  <2>2. /\ \A i \in Jobs : i # j => exec'[i] = exec[i]
        /\ exec'[j].state = "running"
        /\ exec'[j].attempt_count = exec[j].attempt_count + 1
    BY <1>0, <1>2, <2>1 DEF Claim, TypeOK
  <2>3. exec[j].attempt_count \in 0..MaxAttempts /\ exec[j].attempt_count < MaxAttempts
    BY <1>0, <2>1, ExecutionRow
  <2> QED
    BY <2>1, <2>2, <2>3, StartStep
<1>3. ASSUME NEW w \in Workers, RecordSuccess(w) \/ RecordFailure(w) \/ RecordRetry(w)
      PROVE  Lifecycle!Next
  <2> DEFINE j == worker[w].msg[1]
  <2>1. PICK state \in {"succeeded", "failed", "retry_wait"}, verdict \in AttemptStates,
             delay \in 0..DelayCap :
                /\ OutcomeRows(w, state, verdict, delay)
                /\ state = "retry_wait" => exec[j].attempt_count < MaxAttempts
    BY <1>3, OutcomeEffect
  <2>2. j \in Jobs /\ exec[j].state = "running"
    BY <1>3, OutcomeEffect, AcceptedOutcome
  <2>3. /\ \A i \in Jobs : i # j => exec'[i] = exec[i]
        /\ exec'[j].state = state
        /\ exec'[j].attempt_count = exec[j].attempt_count
    BY <1>0, <2>1, <2>2 DEF OutcomeRows, Released, TypeOK
  <2>4. CASE state = "retry_wait"
    <3>1. Phase(exec'[j].state) = "waiting"
      BY <1>a, <2>3, <2>4 DEF Waiting
    <3>2. Lifecycle!Retry(j)
      BY <1>a, <2>1, <2>2, <2>3, <2>4, <3>1 DEF Lifecycle!Retry
    <3> QED
      BY <2>2, <3>2 DEF Lifecycle!Next
  <2>5. CASE state # "retry_wait"
    <3>1. state \in {"succeeded", "failed"} /\ Phase(exec'[j].state) = state
      BY <1>a, <2>3, <2>5
    <3>2. Lifecycle!Finish(j)
      BY <1>a, <2>2, <2>3, <3>1 DEF Lifecycle!Finish
    <3> QED
      BY <2>2, <3>2 DEF Lifecycle!Next
  <2> QED
    BY <2>4, <2>5
<1>4. ASSUME NEW p \in Passes, PassReap(p) PROVE Lifecycle!Next
  <2>1. PICK S \in SUBSET Jobs : ReapEffect(S)
    BY <1>4, ReapRows
  <2>2. \A j \in S : /\ exec[j].state = "running"
                     /\ exec'[j].state = IF exec[j].attempt_count < MaxAttempts
                                         THEN "retry_wait" ELSE "failed"
                     /\ exec'[j].attempt_count = exec[j].attempt_count
    <3>1. \A j \in S : exec'[j] = Abandoned(exec[j]) /\ exec[j].state = "running"
      BY <2>1 DEF ReapEffect, Expired
    <3> QED
      BY <1>0, <3>1, ExecutionRow, AbandonedType
  <2>3. \A j \in Jobs \ S : exec'[j] = exec[j]
    BY <2>1 DEF ReapEffect
  <2>4. \A j \in S : /\ Phase(exec[j].state) = "running"
                     /\ Phase(exec'[j].state) = IF exec[j].attempt_count < MaxAttempts
                                                THEN "waiting" ELSE "failed"
    BY <1>a, <2>2 DEF Waiting
  <2>5. Lifecycle!Interrupt(S)
    BY <2>2, <2>3, <2>4 DEF Lifecycle!Interrupt
  <2> QED
    BY <2>5 DEF Lifecycle!Next
<1>5. ASSUME NEW p \in Passes, FinishCommit(p) PROVE UNCHANGED Lifecycle!vars
  <2> DEFINE i == pass[p].msg[1]
  <2>1. i \in Jobs /\ exec[i].state = "pending"
    BY <1>5, MessageParts DEF FinishCommit, IInv, TypeInv, ProcessMessages, RelayLocks
  <2>2. /\ \A k \in Jobs : k # i => exec'[k] = exec[k]
        /\ exec'[i].state = "queued"
        /\ exec'[i].attempt_count = exec[i].attempt_count
    BY <1>0, <1>5, <2>1 DEF FinishCommit, TypeOK, Released
  <2>3. Phase(exec'[i].state) = Phase(exec[i].state)
    BY <1>a, <2>1, <2>2 DEF Waiting
  <2> QED
    BY <2>2, <2>3, LifecycleStutter
<1>6. CASE Tick
  <2>1. \A j \in Jobs : /\ exec'[j].state = exec[j].state
                        /\ exec'[j].attempt_count = exec[j].attempt_count
    BY <1>0, <1>6, ExecutionRow, LaterExecutionType DEF Tick
  <2> QED
    BY <2>1, LifecycleStutter
<1>7. CASE UNCHANGED exec
  BY <1>7, LifecycleStutter
<1> QED
  BY <1>0, <1>1, <1>2, <1>3, <1>4, <1>5, <1>6, <1>7, StepKinds DEF vars

(* Refinement: through every crash, duplicate, loss and rebuild a caller   *)
(* sees a job accepted once, tried at most MaxAttempts times, and ended    *)
(* once.                                                                   *)
THEOREM RuntimeImplementsLifecycle ==
    Spec => ImplementsLifecycle
<1>1. Spec => Lifecycle!Init /\ [][Lifecycle!Next]_(Lifecycle!vars)
  BY LifecycleInit, LifecycleStep, Invariance, PTL DEF Spec
<1> QED
  BY <1>1 DEF ImplementsLifecycle, Lifecycle!Spec
=============================================================================
