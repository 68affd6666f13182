----------------------- MODULE BronzeIngestionProofs ------------------------
(* Proofs about Bronze ingestion, for any number of batches, files,        *)
(* clients, workers and attempts.                                          *)
EXTENDS BronzeIngestion, FiniteSetTheorems, TLAPS

-----------------------------------------------------------------------------
(* The inductive invariant                                                 *)

(* What an attempt has to reject among the items before item n.            *)
InvalidBefore(f, n) == {i \in Invalid(f) : i < n}
ErrorsBefore(f, n) == IF n > Len(Records[f]) + 1 THEN n - 1 - Len(Records[f]) ELSE 0
RejectsBefore(f, n) == Cardinality(InvalidBefore(f, n)) + ErrorsBefore(f, n)

CapturedBefore(f, n) ==
    \A i \in 1..Len(Records[f]) :
        i < n /\ Records[f][i] \in Valid => snapshots[Records[f][i]] # Nobody

Complete(b, f) ==
    /\ \A k \in ValidKeys(f) : snapshots[k] # Nobody
    /\ rejected[b] >= Rejects(f)

(* The counts of a run or of an attempt do not exceed the rows of batch b. *)
Covered(b, counts) ==
    /\ counts.accepted <= Cardinality(SnapshotsOf(b))
    /\ counts.quarantined <= rejected[b]

Loaded == {"mark", "read", "record", "insert", "save", "fail", "publish"}

(* A request under way names a batch and a file.                           *)
RequestsAreNamed ==
    \A c \in Clients : client[c].pc # "idle" =>
        client[c].batch \in Batches /\ client[c].file \in Files

(* A run that exists has a file, and is covered by its rows.               *)
RunsHaveFiles ==
    \A b \in Batches :
        /\ runs[b].state # "absent" => runs[b].file \in Files
        /\ Covered(b, runs[b].counts)

(* Only valid keys are captured, and finitely many at any time.            *)
CapturedAreValid ==
    /\ \A k \in Keys : snapshots[k] # Nobody => k \in Valid
    /\ \A b \in Batches : IsFiniteSet(SnapshotsOf(b))

(* A handler's copy of the run is of a run that exists and has its file.   *)
CopyAgrees(w) ==
    /\ worker[w].pc # "idle" => worker[w].batch \in Batches
    /\ worker[w].pc \in Loaded =>
          /\ runs[worker[w].batch].state # "absent"
          /\ worker[w].run.file = runs[worker[w].batch].file
          /\ Covered(worker[w].batch, worker[w].run.counts)

(* What is about to be inserted is a valid record.                         *)
InsertIsValid(w) == worker[w].pc = "insert" => ~IsParseError(w) /\ Key(w) \in Valid

(* What an attempt did so far: everything before its next item is captured *)
(* or rejected, and counted.                                               *)
Progress(w) ==
    LET f == worker[w].run.file  b == worker[w].batch IN
    worker[w].pc \in {"mark", "read", "record", "insert"} =>
        /\ worker[w].next <= Total(f) + 1
        /\ CapturedBefore(f, worker[w].next)
        /\ worker[w].seen \subseteq SnapshotsOf(b)
        /\ worker[w].counts.accepted = Cardinality(worker[w].seen)
        /\ worker[w].counts.quarantined = RejectsBefore(f, worker[w].next)
        /\ worker[w].counts.quarantined <= rejected[b]
        /\ InsertIsValid(w)

(* An attempt that has not loaded its run has done nothing.                *)
Fresh(w) ==
    worker[w].pc \in {"load", "mark", "read"} =>
        worker[w].next = 1 /\ worker[w].seen = {} /\ worker[w].counts = NoCounts

(* A copy that says succeeded, about to be saved or handed on, is of a     *)
(* file that was captured to the end.                                      *)
SavedIsComplete(w) ==
    /\ worker[w].pc = "save" => worker[w].run.state = "succeeded"
    /\ worker[w].pc \in {"save", "publish"} /\ worker[w].run.state = "succeeded" =>
          Complete(worker[w].batch, worker[w].run.file)

AttemptsAreRight ==
    \A w \in Workers : CopyAgrees(w) /\ Fresh(w) /\ Progress(w) /\ SavedIsComplete(w)

HandedOnExists == \A b \in normalize : runs[b].state # "absent"

IInv ==
    /\ TypeOK
    /\ RequestsAreNamed
    /\ RunsHaveFiles
    /\ CapturedAreValid
    /\ AttemptsAreRight
    /\ HandedOnExists
    /\ SucceededRunIsComplete
    /\ NormalizeAfterCapture

-----------------------------------------------------------------------------
(* Records                                                                 *)

LEMMA RecordTypes ==
    /\ NoCounts \in RunCounts
    /\ NoRun \in ImportRun
    /\ \A f \in Files : NewRun(f) \in ImportRun
    /\ ClientIdle \in SubmitCall
    /\ WorkerIdle \in Attempt
<1>1. NoCounts \in RunCounts
  BY DEF NoCounts, RunCounts
<1>2. NoRun \in ImportRun
  BY <1>1 DEF NoRun, ImportRun, RunStates
<1>3. \A f \in Files : NewRun(f) \in ImportRun
  BY <1>1 DEF NewRun, ImportRun, RunStates
<1>4. ClientIdle \in SubmitCall
  BY DEF ClientIdle, SubmitCall
<1>5. WorkerIdle \in Attempt
  BY <1>1, <1>2 DEF WorkerIdle, Attempt
<1> QED
  BY <1>1, <1>2, <1>3, <1>4, <1>5

(* Only the place of one attempt changes.                                  *)
LEMMA AtMoves ==
    ASSUME TypeOK, NEW w \in Workers,
           NEW pc \in {"load", "mark", "read", "record", "insert", "save", "fail",
                       "publish", "report"},
           At(w, pc)
    PROVE  /\ worker' \in [Workers -> Attempt]
           /\ worker'[w].pc = pc
           /\ worker'[w].batch = worker[w].batch
           /\ worker'[w].run = worker[w].run
           /\ worker'[w].next = worker[w].next
           /\ worker'[w].seen = worker[w].seen
           /\ worker'[w].counts = worker[w].counts
           /\ \A x \in Workers : x # w => worker'[x] = worker[x]
BY DEF TypeOK, At, Attempt

LEMMA ReportingMoves ==
    ASSUME TypeOK, NEW w \in Workers,
           NEW outcome \in {"succeeded", "transient", "permanent"},
           Reporting(w, outcome)
    PROVE  /\ worker' \in [Workers -> Attempt]
           /\ worker'[w].pc = "report"
           /\ worker'[w].batch = worker[w].batch
           /\ \A x \in Workers : x # w => worker'[x] = worker[x]
<1>1. worker' = [worker EXCEPT ![w] = [@ EXCEPT !.pc = "report", !.outcome = outcome]]
  BY DEF Reporting, TypeOK, Attempt
<1>2. worker[w] \in Attempt
  BY DEF TypeOK
<1>3. [worker[w] EXCEPT !.pc = "report", !.outcome = outcome] \in Attempt
  BY <1>2 DEF Attempt
<1> QED
  BY <1>1, <1>2, <1>3 DEF TypeOK, Attempt

(* One item more is counted, under one of the counters.                    *)
LEMMA CountedMoves ==
    ASSUME TypeOK, NEW w \in Workers,
           NEW field \in {"quarantined", "duplicates"},
           Counted(w, field)
    PROVE  /\ worker' \in [Workers -> Attempt]
           /\ worker'[w].pc = worker[w].pc
           /\ worker'[w].batch = worker[w].batch
           /\ worker'[w].run = worker[w].run
           /\ worker'[w].next = worker[w].next + 1
           /\ worker'[w].seen = worker[w].seen
           /\ worker'[w].counts.accepted = worker[w].counts.accepted
           /\ field = "duplicates" =>
                 worker'[w].counts.quarantined = worker[w].counts.quarantined
           /\ field = "quarantined" =>
                 worker'[w].counts.quarantined = worker[w].counts.quarantined + 1
           /\ \A x \in Workers : x # w => worker'[x] = worker[x]
<1>1. worker[w] \in Attempt /\ worker[w].counts \in RunCounts
  BY DEF TypeOK, Attempt
<1> DEFINE counts == [worker[w].counts EXCEPT ![field] = @ + 1]
<1>2. worker' = [worker EXCEPT ![w] = [@ EXCEPT !.counts = counts, !.next = worker[w].next + 1]]
  BY DEF Counted, TypeOK, Attempt
<1>3. /\ counts \in RunCounts
      /\ counts.accepted = worker[w].counts.accepted
      /\ field = "duplicates" => counts.quarantined = worker[w].counts.quarantined
      /\ field = "quarantined" => counts.quarantined = worker[w].counts.quarantined + 1
  BY <1>1 DEF RunCounts
<1> HIDE DEF counts
<1>4. worker[w].next + 1 \in Nat \ {0}
  BY <1>1 DEF Attempt
<1> QED
  BY <1>1, <1>2, <1>3, <1>4 DEF TypeOK, Attempt

(* An attempt is reset: its worker is idle, or starts the next one.        *)
LEMMA ResetMoves ==
    ASSUME TypeOK, NEW w \in Workers, NEW a \in Attempt,
           worker' = [worker EXCEPT ![w] = a]
    PROVE  /\ worker' \in [Workers -> Attempt]
           /\ worker'[w] = a
           /\ \A x \in Workers : x # w => worker'[x] = worker[x]
BY DEF TypeOK

LEMMA StartedType ==
    ASSUME NEW b \in Batches
    PROVE  /\ [WorkerIdle EXCEPT !.pc = "load", !.batch = b] \in Attempt
           /\ [WorkerIdle EXCEPT !.pc = "load", !.batch = b].pc = "load"
           /\ [WorkerIdle EXCEPT !.pc = "load", !.batch = b].batch = b
<1>1. WorkerIdle.pc = "idle" /\ WorkerIdle \in Attempt
  BY RecordTypes DEF WorkerIdle
<1> QED
  BY <1>1 DEF Attempt

(* The copy of the run and the place change, nothing else of the attempt.  *)
LEMMA CopyMoves ==
    ASSUME TypeOK, NEW w \in Workers, NEW run \in ImportRun,
           NEW pc \in {"mark", "read", "save", "publish"},
           worker' = [worker EXCEPT ![w] = [@ EXCEPT !.pc = pc, !.run = run]]
    PROVE  /\ worker' \in [Workers -> Attempt]
           /\ worker'[w].pc = pc
           /\ worker'[w].run = run
           /\ worker'[w].batch = worker[w].batch
           /\ worker'[w].next = worker[w].next
           /\ worker'[w].seen = worker[w].seen
           /\ worker'[w].counts = worker[w].counts
           /\ \A x \in Workers : x # w => worker'[x] = worker[x]
<1>1. worker[w] \in Attempt
  BY DEF TypeOK
<1>2. [worker[w] EXCEPT !.pc = pc, !.run = run] \in Attempt
  BY <1>1 DEF Attempt
<1> QED
  BY <1>1, <1>2 DEF TypeOK, Attempt

(* A run saved with another state, or with other counts, keeps its file.   *)
LEMMA RunChanges ==
    ASSUME NEW run \in ImportRun, NEW state \in RunStates, NEW counts \in RunCounts
    PROVE  /\ [run EXCEPT !.state = state] \in ImportRun
           /\ [run EXCEPT !.state = state].state = state
           /\ [run EXCEPT !.state = state].file = run.file
           /\ [run EXCEPT !.state = state].counts = run.counts
           /\ [run EXCEPT !.state = state, !.counts = counts] \in ImportRun
           /\ [run EXCEPT !.state = state, !.counts = counts].state = state
           /\ [run EXCEPT !.state = state, !.counts = counts].file = run.file
           /\ [run EXCEPT !.state = state, !.counts = counts].counts = counts
BY DEF ImportRun

(* The key of the item that an attempt is at.                              *)
LEMMA KeyType ==
    ASSUME TypeOK, NEW w \in Workers, worker[w].run.file \in Files, ~IsParseError(w)
    PROVE  /\ worker[w].next \in 1..Len(Records[worker[w].run.file])
           /\ Key(w) \in Keys
<1>1. worker[w].next \in Nat \ {0}
  BY DEF TypeOK, Attempt
<1>2. Len(Records[worker[w].run.file]) \in Nat
  BY IngestionAssumption
<1>3. worker[w].next \in 1..Len(Records[worker[w].run.file])
  BY <1>1, <1>2 DEF IsParseError
<1> QED
  BY <1>3 DEF Keys, Key

LEMMA InsertMoves ==
    ASSUME TypeOK, NEW w \in Workers, NEW k \in Keys,
           worker' = [worker EXCEPT
               ![w].pc = "record", ![w].counts.accepted = @ + 1,
               ![w].seen = @ \cup {k}, ![w].next = @ + 1]
    PROVE  /\ worker' \in [Workers -> Attempt]
           /\ worker'[w].pc = "record"
           /\ worker'[w].run = worker[w].run
           /\ worker'[w].batch = worker[w].batch
           /\ worker'[w].next = worker[w].next + 1
           /\ worker'[w].seen = worker[w].seen \cup {k}
           /\ worker'[w].counts.accepted = worker[w].counts.accepted + 1
           /\ worker'[w].counts.quarantined = worker[w].counts.quarantined
           /\ \A x \in Workers : x # w => worker'[x] = worker[x]
<1>1. worker[w] \in Attempt /\ worker[w].counts \in RunCounts
  BY DEF TypeOK, Attempt
<1> DEFINE counts == [worker[w].counts EXCEPT !.accepted = @ + 1]
           seen == worker[w].seen \cup {k}
           next == worker[w].next + 1
<1>2. worker' = [worker EXCEPT ![w] = [@ EXCEPT !.pc = "record", !.counts = counts,
                                                !.seen = seen, !.next = next]]
  BY DEF TypeOK, Attempt
<1>3. /\ counts \in RunCounts
      /\ counts.accepted = worker[w].counts.accepted + 1
      /\ counts.quarantined = worker[w].counts.quarantined
  BY <1>1 DEF RunCounts
<1>4. seen \in SUBSET Keys /\ next \in Nat \ {0}
  BY <1>1 DEF Attempt
<1>5. seen = worker[w].seen \cup {k} /\ next = worker[w].next + 1
  OBVIOUS
<1> HIDE DEF counts, seen, next
<1>6. [worker[w] EXCEPT !.pc = "record", !.counts = counts, !.seen = seen, !.next = next] \in Attempt
  BY <1>1, <1>3, <1>4 DEF Attempt
<1> QED
  BY <1>1, <1>2, <1>3, <1>5, <1>6 DEF TypeOK, Attempt

(* The submit call moves on, its batch and file stay.                      *)
LEMMA ClientMoves ==
    ASSUME TypeOK, NEW c \in Clients, NEW pc \in {"put", "job", "create"}, ClientAt(c, pc)
    PROVE  /\ client' \in [Clients -> SubmitCall]
           /\ client'[c].batch = client[c].batch
           /\ client'[c].file = client[c].file
           /\ \A x \in Clients : x # c => client'[x] = client[x]
BY DEF TypeOK, ClientAt, SubmitCall

-----------------------------------------------------------------------------
(* Types                                                                   *)

(* The job keeps its types whatever the handler and the reaper do.         *)
LEMMA JobTypes ==
    ASSUME TypeOK, NEW b \in Batches,
           \/ Job!Accept(b) \/ Job!Start(b) \/ Job!Retry(b) \/ Job!Finish(b)
           \/ Job!Interrupt({b})
           \/ UNCHANGED <<phase, tries>>
    PROVE  /\ phase' \in [Batches -> {"absent", "waiting", "running", "succeeded", "failed"}]
           /\ tries' \in [Batches -> 0..MaxAttempts]
<1>1. CASE Job!Start(b)
  <2>1. phase' \in [Batches -> {"absent", "waiting", "running", "succeeded", "failed"}]
    BY <1>1 DEF Job!Start, TypeOK
  <2>2. tries[b] \in 0..MaxAttempts /\ tries[b] < MaxAttempts /\ MaxAttempts \in Nat
    BY <1>1, IngestionAssumption DEF Job!Start, TypeOK
  <2>3. tries[b] + 1 \in 0..MaxAttempts
    BY <2>2
  <2>4. tries' \in [Batches -> 0..MaxAttempts]
    BY <1>1, <2>3 DEF Job!Start, TypeOK
  <2> QED
    BY <2>1, <2>4
<1>2. CASE Job!Interrupt({b})
  BY <1>2 DEF Job!Interrupt, TypeOK
<1> QED
  BY <1>1, <1>2 DEF Job!Accept, Job!Retry, Job!Finish, TypeOK

(* What a request has chosen.                                              *)
LEMMA ClientNamed ==
    ASSUME IInv, NEW c \in Clients, client[c].pc # "idle"
    PROVE  client[c].batch \in Batches /\ client[c].file \in Files
BY DEF IInv, RequestsAreNamed

LEMMA ClientTypes ==
    ASSUME IInv, NEW c \in Clients, ClientStep(c) \/ ClientCrash(c)
    PROVE  TypeOK'
<1>0. TypeOK
  BY DEF IInv
<1> USE <1>0
<1>1. ASSUME NEW b \in Batches, NEW f \in Files, LookUp(c, b, f) PROVE TypeOK'
  BY <1>1 DEF LookUp, TypeOK, SubmitCall, jobVars
<1>2. CASE PutRaw(c)
  <2>1. client[c].file \in Files
    BY <1>2, ClientNamed DEF PutRaw
  <2> QED
    BY <1>2, <2>1, ClientMoves DEF PutRaw, TypeOK, jobVars
<1>3. CASE SubmitJob(c)
  <2>1. client[c].batch \in Batches
    BY <1>3, ClientNamed DEF SubmitJob
  <2>2. /\ phase' \in [Batches -> {"absent", "waiting", "running", "succeeded", "failed"}]
        /\ tries' \in [Batches -> 0..MaxAttempts]
    BY <1>3, <2>1, JobTypes DEF SubmitJob
  <2>3. client' \in [Clients -> SubmitCall]
    BY <1>3, ClientMoves DEF SubmitJob
  <2> QED
    BY <1>3, <2>2, <2>3 DEF SubmitJob, TypeOK
<1>4. CASE CreateRun(c)
  <2>1. client[c].batch \in Batches /\ client[c].file \in Files
    BY <1>4, ClientNamed DEF CreateRun
  <2>2. runs' \in [Batches -> ImportRun]
    BY <1>4, <2>1, RecordTypes DEF CreateRun, TypeOK
  <2> QED
    BY <1>4, <2>2, RecordTypes DEF CreateRun, TypeOK, jobVars
<1>5. CASE CreateConflict(c)
  BY <1>5, RecordTypes DEF CreateConflict, TypeOK, jobVars
<1>6. CASE ClientCrash(c)
  BY <1>6, RecordTypes DEF ClientCrash, TypeOK, jobVars
<1> QED
  BY <1>1, <1>2, <1>3, <1>4, <1>5, <1>6 DEF ClientStep

(* What is known of an attempt that loaded its run.                        *)
LEMMA LoadedFacts ==
    ASSUME IInv, NEW w \in Workers, worker[w].pc \in Loaded
    PROVE  /\ worker[w].batch \in Batches
           /\ worker[w].run \in ImportRun
           /\ worker[w].run.file \in Files
           /\ worker[w].run.file = runs[worker[w].batch].file
           /\ runs[worker[w].batch].state # "absent"
           /\ Covered(worker[w].batch, worker[w].run.counts)
<1>1. worker[w].pc # "idle"
  BY DEF Loaded
<1> QED
  BY <1>1 DEF IInv, AttemptsAreRight, CopyAgrees, RunsHaveFiles, TypeOK, Attempt

(* The steps of a handler on its own copy, as one update of the attempt.   *)
LEMMA MarkRunningMoves ==
    ASSUME IInv, NEW w \in Workers, MarkRunning(w)
    PROVE  \E run \in ImportRun :
              /\ run.state = "running"
              /\ run.file = worker[w].run.file
              /\ run.counts = worker[w].run.counts
              /\ SaveRun(w, run)
              /\ worker' = [worker EXCEPT ![w] = [@ EXCEPT !.pc = "read", !.run = run]]
<1>1. worker[w].run \in ImportRun /\ TypeOK /\ worker[w].run.counts \in RunCounts
  BY LoadedFacts DEF IInv, MarkRunning, Loaded, TypeOK, ImportRun
<1> DEFINE run == [worker[w].run EXCEPT !.state = "running"]
<1>2. "running" \in RunStates
  BY DEF RunStates
<1>3. /\ run \in ImportRun /\ run.state = "running"
      /\ run.file = worker[w].run.file /\ run.counts = worker[w].run.counts
  BY <1>1, <1>2, RunChanges
<1>4. SaveRun(w, run) /\ worker' = [worker EXCEPT ![w].pc = "read", ![w].run = run]
  BY DEF MarkRunning
<1> HIDE DEF run
<1>5. worker' = [worker EXCEPT ![w] = [@ EXCEPT !.pc = "read", !.run = run]]
  BY <1>1, <1>4 DEF TypeOK, Attempt
<1> QED
  BY <1>3, <1>4, <1>5

LEMMA LoadMoves ==
    ASSUME IInv, NEW w \in Workers, Load(w), ~ Reporting(w, "transient")
    PROVE  /\ worker[w].batch \in Batches
           /\ runs[worker[w].batch].state # "absent"
           /\ \E pc \in {"mark", "publish"} :
                 /\ pc = "publish" <=> runs[worker[w].batch].state \in TerminalRun
                 /\ worker' = [worker EXCEPT
                       ![w] = [@ EXCEPT !.pc = pc, !.run = runs[worker[w].batch]]]
<1>1. worker[w].batch \in Batches
  BY DEF IInv, AttemptsAreRight, CopyAgrees, Load
<1>2. TypeOK /\ runs[worker[w].batch] \in ImportRun
  BY <1>1 DEF IInv, TypeOK
<1>3. runs[worker[w].batch].state # "absent"
  BY DEF Load
<1>4. PICK pc \in {"mark", "publish"} :
          /\ pc = "publish" <=> runs[worker[w].batch].state \in TerminalRun
          /\ worker' = [worker EXCEPT ![w].run = runs[worker[w].batch], ![w].pc = pc]
  <2> DEFINE pc == IF runs[worker[w].batch].state \in TerminalRun THEN "publish" ELSE "mark"
  <2>1. worker' = [worker EXCEPT ![w].run = runs[worker[w].batch], ![w].pc = pc]
    BY DEF Load
  <2>2. pc \in {"mark", "publish"} /\ (pc = "publish" <=> runs[worker[w].batch].state \in TerminalRun)
    OBVIOUS
  <2> QED
    BY <2>1, <2>2
<1>5. worker' = [worker EXCEPT ![w] = [@ EXCEPT !.pc = pc, !.run = runs[worker[w].batch]]]
  BY <1>2, <1>4 DEF TypeOK, Attempt
<1> QED
  BY <1>1, <1>3, <1>4, <1>5

LEMMA CapturedMoves ==
    ASSUME IInv, NEW w \in Workers, Captured(w)
    PROVE  \E run \in ImportRun :
              /\ run.state = "succeeded"
              /\ run.file = worker[w].run.file
              /\ run.counts = worker[w].counts
              /\ worker' = [worker EXCEPT ![w] = [@ EXCEPT !.pc = "save", !.run = run]]
<1>1. worker[w].run \in ImportRun /\ TypeOK /\ worker[w].counts \in RunCounts
  BY LoadedFacts DEF IInv, Captured, Loaded, TypeOK, Attempt
<1> DEFINE run == [worker[w].run EXCEPT !.state = "succeeded", !.counts = worker[w].counts]
<1>2. "succeeded" \in RunStates
  BY DEF RunStates
<1>3. /\ run \in ImportRun /\ run.state = "succeeded"
      /\ run.file = worker[w].run.file /\ run.counts = worker[w].counts
  BY <1>1, <1>2 DEF ImportRun
<1>4. worker' = [worker EXCEPT ![w].pc = "save", ![w].run = run]
  BY DEF Captured
<1> HIDE DEF run
<1>5. worker' = [worker EXCEPT ![w] = [@ EXCEPT !.pc = "save", !.run = run]]
  BY <1>1, <1>4 DEF TypeOK, Attempt
<1> QED
  BY <1>3, <1>5

LEMMA WorkerTypes ==
    ASSUME IInv, NEW w \in Workers, WorkerStep(w) \/ WorkerCrash(w)
    PROVE  TypeOK'
<1>0. TypeOK
  BY DEF IInv
<1> USE <1>0
<1>1. ASSUME NEW b \in Batches, Begin(w, b) PROVE TypeOK'
  <2>1. /\ phase' \in [Batches -> {"absent", "waiting", "running", "succeeded", "failed"}]
        /\ tries' \in [Batches -> 0..MaxAttempts]
    BY <1>1, JobTypes DEF Begin
  <2>2. worker' \in [Workers -> Attempt]
    BY <1>1, StartedType, ResetMoves DEF Begin
  <2>3. holder' \in [Batches -> Workers \cup {Nobody}]
    BY <1>1 DEF Begin, TypeOK
  <2> QED
    BY <1>1, <2>1, <2>2, <2>3 DEF Begin, TypeOK
<1>2. CASE Load(w)
  <2>1. worker' \in [Workers -> Attempt]
    <3>1. CASE Reporting(w, "transient")
      BY <3>1, ReportingMoves
    <3>2. CASE ~ Reporting(w, "transient")
      <4>1. worker[w].batch \in Batches
        BY <1>2, <3>2, LoadMoves
      <4>2. runs[worker[w].batch] \in ImportRun
        BY <4>1 DEF TypeOK
      <4>3. PICK pc \in {"mark", "publish"} :
               worker' = [worker EXCEPT
                   ![w] = [@ EXCEPT !.pc = pc, !.run = runs[worker[w].batch]]]
        BY <1>2, <3>2, LoadMoves
      <4> QED
        BY <4>2, <4>3, CopyMoves
    <3> QED
      BY <3>1, <3>2
  <2> QED
    BY <1>2, <2>1 DEF Load, TypeOK, jobVars
<1>3. CASE MarkRunning(w)
  <2>1. PICK run \in ImportRun :
          /\ SaveRun(w, run)
          /\ worker' = [worker EXCEPT ![w] = [@ EXCEPT !.pc = "read", !.run = run]]
    BY <1>3, MarkRunningMoves
  <2>2. worker' \in [Workers -> Attempt]
    BY <2>1, CopyMoves
  <2>3. runs' \in [Batches -> ImportRun]
    BY <2>1 DEF SaveRun, TypeOK
  <2> QED
    BY <1>3, <2>2, <2>3 DEF MarkRunning, TypeOK, jobVars
<1>4. CASE ReadRaw(w)
  <2>1. worker' \in [Workers -> Attempt]
    BY <1>4, AtMoves, ReportingMoves DEF ReadRaw
  <2> QED
    BY <1>4, <2>1 DEF ReadRaw, TypeOK, jobVars
<1>5. CASE SkipDuplicate(w)
  BY <1>5, CountedMoves DEF SkipDuplicate, TypeOK, jobVars
<1>6. CASE Quarantine(w)
  <2>0. worker[w].batch \in Batches
    BY <1>6, LoadedFacts DEF Quarantine, Loaded
  <2>1. rejected' \in [Batches -> Nat]
    BY <1>6, <2>0 DEF Quarantine, Quarantined, TypeOK
  <2>2. worker' \in [Workers -> Attempt]
    BY <1>6, CountedMoves DEF Quarantine
  <2> QED
    BY <1>6, <2>1, <2>2 DEF Quarantine, TypeOK, jobVars
<1>7. CASE CheckedValid(w)
  BY <1>7, AtMoves DEF CheckedValid, TypeOK, jobVars
<1>8. CASE InsertSnapshot(w)
  <2>1. worker[w].pc \in Loaded /\ worker[w].pc = "insert"
    BY <1>8 DEF InsertSnapshot, Loaded
  <2>2. Key(w) \in Keys /\ worker[w].batch \in Batches
    <3>1. ~IsParseError(w)
      BY <2>1 DEF IInv, AttemptsAreRight, Progress, InsertIsValid
    <3> QED
      BY <2>1, <3>1, LoadedFacts, KeyType
  <2>3. worker' \in [Workers -> Attempt]
    BY <1>8, <2>2, InsertMoves DEF InsertSnapshot
  <2>4. snapshots' \in [Keys -> Batches \cup {Nobody}]
    BY <1>8, <2>2 DEF InsertSnapshot, TypeOK
  <2> QED
    BY <1>8, <2>3, <2>4 DEF InsertSnapshot, TypeOK, jobVars
<1>9. CASE InsertConflict(w)
  BY <1>9, AtMoves DEF InsertConflict, TypeOK, jobVars
<1>10. CASE Captured(w)
  <2>1. worker' \in [Workers -> Attempt]
    BY <1>10, CapturedMoves, CopyMoves
  <2> QED
    BY <1>10, <2>1 DEF Captured, TypeOK, jobVars
<1>11. CASE SaveSucceeded(w)
  <2>1. worker[w].run \in ImportRun
    BY DEF TypeOK, Attempt
  <2>2. runs' \in [Batches -> ImportRun]
    BY <1>11, <2>1 DEF SaveSucceeded, SaveRun, TypeOK
  <2>3. worker' \in [Workers -> Attempt]
    BY <1>11, AtMoves DEF SaveSucceeded
  <2> QED
    BY <1>11, <2>2, <2>3 DEF SaveSucceeded, TypeOK, jobVars
<1>12. CASE CaptureError(w)
  BY <1>12, AtMoves DEF CaptureError, TypeOK, jobVars
<1>13. CASE MarkFailed(w)
  <2>1. worker[w].run \in ImportRun /\ "failed" \in RunStates /\ worker[w].run.counts \in RunCounts
    BY DEF TypeOK, Attempt, RunStates, ImportRun
  <2>2. [worker[w].run EXCEPT !.state = "failed"] \in ImportRun
    BY <2>1, RunChanges
  <2>3. runs' \in [Batches -> ImportRun]
    BY <1>13, <2>2 DEF MarkFailed, SaveRun, TypeOK
  <2>4. worker' \in [Workers -> Attempt]
    BY <1>13, ReportingMoves DEF MarkFailed
  <2> QED
    BY <1>13, <2>3, <2>4 DEF MarkFailed, TypeOK, jobVars
<1>14. CASE PublishNormalize(w)
  <2>1. worker[w].batch \in Batches
    BY <1>14, LoadedFacts DEF PublishNormalize, Loaded
  <2>2. normalize' \subseteq Batches
    BY <1>14, <2>1 DEF PublishNormalize, TypeOK
  <2>3. worker' \in [Workers -> Attempt]
    BY <1>14, ReportingMoves DEF PublishNormalize
  <2> QED
    BY <1>14, <2>2, <2>3 DEF PublishNormalize, TypeOK, jobVars
<1>15. CASE HandlerError(w)
  BY <1>15, ReportingMoves DEF HandlerError, TypeOK, jobVars
<1>16. CASE Report(w)
  <2>1. worker[w].batch \in Batches
    BY <1>16 DEF Report, IInv, AttemptsAreRight, CopyAgrees
  <2>2. /\ phase' \in [Batches -> {"absent", "waiting", "running", "succeeded", "failed"}]
        /\ tries' \in [Batches -> 0..MaxAttempts]
    BY <1>16, <2>1, JobTypes DEF Report, EndJob
  <2>3. worker' \in [Workers -> Attempt]
    BY <1>16, RecordTypes, ResetMoves DEF Report
  <2>4. holder' \in [Batches -> Workers \cup {Nobody}]
    BY <1>16 DEF Report, TypeOK
  <2> QED
    BY <1>16, <2>2, <2>3, <2>4 DEF Report, TypeOK
<1>17. CASE ReportLate(w)
  BY <1>17, RecordTypes, ResetMoves DEF ReportLate, TypeOK, jobVars
<1>18. CASE WorkerCrash(w)
  BY <1>18, RecordTypes, ResetMoves DEF WorkerCrash, TypeOK, jobVars
<1> QED
  BY <1>1, <1>2, <1>3, <1>4, <1>5, <1>6, <1>7, <1>8, <1>9, <1>10, <1>11, <1>12,
     <1>13, <1>14, <1>15, <1>16, <1>17, <1>18 DEF WorkerStep

LEMMA TypeStep ==
    ASSUME IInv, [Next]_vars
    PROVE  TypeOK'
<1>1. ASSUME NEW b \in Batches, LeaseEnds(b) PROVE TypeOK'
  <2>0. TypeOK
    BY DEF IInv
  <2>1. /\ phase' \in [Batches -> {"absent", "waiting", "running", "succeeded", "failed"}]
        /\ tries' \in [Batches -> 0..MaxAttempts]
    BY <1>1, <2>0, JobTypes DEF LeaseEnds
  <2> QED
    BY <1>1, <2>0, <2>1 DEF LeaseEnds, TypeOK
<1>2. CASE UNCHANGED vars
  BY <1>2 DEF IInv, TypeOK, vars
<1> QED
  BY <1>1, <1>2, ClientTypes, WorkerTypes DEF Next

-----------------------------------------------------------------------------
(* Counting what a file makes an attempt reject                            *)

LEMMA FileSizes ==
    ASSUME NEW f \in Files
    PROVE  /\ Len(Records[f]) \in Nat /\ ParseErrors[f] \in Nat
           /\ Total(f) \in Nat /\ Total(f) = Len(Records[f]) + ParseErrors[f]
<1>1. Len(Records[f]) \in Nat /\ ParseErrors[f] \in Nat
  BY IngestionAssumption
<1> QED
  BY <1>1 DEF Total

LEMMA RejectsFinite ==
    ASSUME NEW f \in Files, NEW n \in Nat
    PROVE  /\ IsFiniteSet(InvalidBefore(f, n))
           /\ Cardinality(InvalidBefore(f, n)) \in Nat
           /\ ErrorsBefore(f, n) \in Nat
           /\ RejectsBefore(f, n) \in Nat
<1>1. IsFiniteSet(1..Len(Records[f]))
  BY FileSizes, FS_Interval
<1>2. IsFiniteSet(InvalidBefore(f, n))
  BY <1>1, FS_Subset DEF Invalid, InvalidBefore
<1>3. Cardinality(InvalidBefore(f, n)) \in Nat
  BY <1>2, FS_CardinalityType
<1>4. ErrorsBefore(f, n) \in Nat
  BY FileSizes DEF ErrorsBefore
<1> QED
  BY <1>2, <1>3, <1>4 DEF RejectsBefore

LEMMA RejectsFirst ==
    ASSUME NEW f \in Files
    PROVE  RejectsBefore(f, 1) = 0
<1>1. InvalidBefore(f, 1) = {}
  BY DEF Invalid, InvalidBefore
<1>2. Cardinality(InvalidBefore(f, 1)) = 0
  BY <1>1, FS_EmptySet
<1>3. ErrorsBefore(f, 1) = 0
  BY FileSizes DEF ErrorsBefore
<1> QED
  BY <1>2, <1>3 DEF RejectsBefore

(* A valid record adds nothing, an invalid one or a parse error one.       *)
LEMMA RejectsNext ==
    ASSUME NEW f \in Files, NEW n \in Nat \ {0}
    PROVE  /\ n <= Len(Records[f]) /\ Records[f][n] \in Valid =>
                 RejectsBefore(f, n + 1) = RejectsBefore(f, n)
           /\ n <= Len(Records[f]) /\ Records[f][n] \notin Valid =>
                 RejectsBefore(f, n + 1) = RejectsBefore(f, n) + 1
           /\ n > Len(Records[f]) => RejectsBefore(f, n + 1) = RejectsBefore(f, n) + 1
<1> DEFINE L == Len(Records[f])
<1>0. L \in Nat
  BY FileSizes
<1>1. /\ n <= L => ErrorsBefore(f, n + 1) = ErrorsBefore(f, n)
      /\ n > L => ErrorsBefore(f, n + 1) = ErrorsBefore(f, n) + 1
  <2>1. ErrorsBefore(f, n) = IF n > L + 1 THEN n - 1 - L ELSE 0
    BY DEF ErrorsBefore
  <2>2. ErrorsBefore(f, n + 1) = IF n + 1 > L + 1 THEN n + 1 - 1 - L ELSE 0
    BY DEF ErrorsBefore
  <2> HIDE DEF L
  <2> QED
    BY <1>0, <2>1, <2>2
<1>2. IsFiniteSet(InvalidBefore(f, n)) /\ Cardinality(InvalidBefore(f, n)) \in Nat
      /\ ErrorsBefore(f, n) \in Nat
  BY RejectsFinite
<1>3. CASE n <= L /\ Records[f][n] \in Valid
  <2>1. InvalidBefore(f, n + 1) = InvalidBefore(f, n)
    BY <1>3 DEF Invalid, InvalidBefore
  <2> QED
    BY <1>0, <1>1, <1>3, <2>1 DEF RejectsBefore
<1>4. CASE n <= L /\ Records[f][n] \notin Valid
  <2>1. InvalidBefore(f, n + 1) = InvalidBefore(f, n) \cup {n}
    BY <1>0, <1>4 DEF Invalid, InvalidBefore
  <2>2. n \notin InvalidBefore(f, n)
    BY DEF InvalidBefore
  <2>3. Cardinality(InvalidBefore(f, n + 1)) = Cardinality(InvalidBefore(f, n)) + 1
    BY <1>2, <2>1, <2>2, FS_AddElement
  <2> QED
    BY <1>0, <1>1, <1>2, <1>4, <2>3 DEF RejectsBefore
<1>5. CASE n > L
  <2>1. InvalidBefore(f, n + 1) = InvalidBefore(f, n)
    BY <1>0, <1>5 DEF Invalid, InvalidBefore
  <2> QED
    BY <1>0, <1>1, <1>2, <1>5, <2>1 DEF RejectsBefore
<1> QED
  BY <1>0, <1>3, <1>4, <1>5

LEMMA RejectsAll ==
    ASSUME NEW f \in Files
    PROVE  RejectsBefore(f, Total(f) + 1) = Rejects(f)
<1> DEFINE L == Len(Records[f])
           E == ParseErrors[f]
<1>0. L \in Nat /\ E \in Nat /\ Total(f) = L + E
  BY FileSizes
<1>1. InvalidBefore(f, Total(f) + 1) = Invalid(f)
  BY <1>0 DEF Invalid, InvalidBefore
<1>2. ErrorsBefore(f, Total(f) + 1) = E
  BY <1>0 DEF ErrorsBefore
<1> QED
  BY <1>1, <1>2 DEF RejectsBefore, Rejects

-----------------------------------------------------------------------------
(* What no step takes back                                                 *)

(* Which steps write what.                                                 *)
LEMMA WhoWrites ==
    ASSUME [Next]_vars
    PROVE  /\ \/ UNCHANGED runs
              \/ \E c \in Clients : CreateRun(c)
              \/ \E w \in Workers : MarkRunning(w) \/ SaveSucceeded(w) \/ MarkFailed(w)
           /\ UNCHANGED snapshots \/ \E w \in Workers : InsertSnapshot(w)
           /\ UNCHANGED rejected \/ \E w \in Workers : Quarantine(w)
           /\ UNCHANGED normalize \/ \E w \in Workers : PublishNormalize(w)
           /\ UNCHANGED client \/ \E c \in Clients : ClientStep(c) \/ ClientCrash(c)
           /\ UNCHANGED worker \/ \E w \in Workers : WorkerStep(w) \/ WorkerCrash(w)
<1>1. ASSUME NEW c \in Clients, ClientStep(c) \/ ClientCrash(c)
      PROVE  /\ UNCHANGED <<snapshots, rejected, normalize, worker>>
             /\ UNCHANGED runs \/ CreateRun(c)
  BY <1>1 DEF ClientStep, ClientCrash, LookUp, PutRaw, SubmitJob, CreateConflict, CreateRun
<1>2. ASSUME NEW w \in Workers, WorkerStep(w) \/ WorkerCrash(w)
      PROVE  /\ UNCHANGED client
             /\ UNCHANGED runs \/ MarkRunning(w) \/ SaveSucceeded(w) \/ MarkFailed(w)
             /\ UNCHANGED snapshots \/ InsertSnapshot(w)
             /\ UNCHANGED rejected \/ Quarantine(w)
             /\ UNCHANGED normalize \/ PublishNormalize(w)
  BY <1>2 DEF WorkerStep, WorkerCrash, Begin, Load, MarkRunning, ReadRaw, SkipDuplicate,
              Quarantine, CheckedValid, InsertSnapshot, InsertConflict, Captured,
              SaveSucceeded, CaptureError, MarkFailed, PublishNormalize, HandlerError,
              Report, ReportLate
<1>3. ASSUME NEW b \in Batches, LeaseEnds(b)
      PROVE  UNCHANGED <<runs, snapshots, rejected, normalize, client, worker>>
  BY <1>3 DEF LeaseEnds
<1>4. CASE UNCHANGED vars
  BY <1>4 DEF vars
<1> QED
  BY <1>1, <1>2, <1>3, <1>4 DEF Next

(* What an insert does: its key was free, is valid, and is the attempt's.  *)
LEMMA InsertFacts ==
    ASSUME IInv, NEW w \in Workers, InsertSnapshot(w)
    PROVE  /\ Key(w) \in Keys /\ Key(w) \in Valid
           /\ worker[w].batch \in Batches
           /\ worker[w].next \in 1..Len(Records[worker[w].run.file])
           /\ snapshots[Key(w)] = Nobody
           /\ snapshots' = [snapshots EXCEPT ![Key(w)] = worker[w].batch]
<1>1. worker[w].pc \in Loaded /\ worker[w].pc = "insert" /\ TypeOK
  BY DEF InsertSnapshot, Loaded, IInv
<1>2. ~IsParseError(w) /\ Key(w) \in Valid
  BY <1>1 DEF IInv, AttemptsAreRight, Progress, InsertIsValid
<1> QED
  BY <1>1, <1>2, LoadedFacts, KeyType DEF InsertSnapshot

(* A snapshot stays where it is.                                           *)
LEMMA SnapshotsStay ==
    ASSUME IInv, [Next]_vars, NEW k \in Keys, snapshots[k] # Nobody
    PROVE  snapshots'[k] = snapshots[k]
<1>1. ASSUME NEW w \in Workers, InsertSnapshot(w) PROVE snapshots'[k] = snapshots[k]
  BY <1>1, InsertFacts DEF IInv, TypeOK
<1> QED
  BY <1>1, WhoWrites

(* Quarantine rows are only added.                                         *)
LEMMA RejectedGrows ==
    ASSUME IInv, [Next]_vars, NEW b \in Batches
    PROVE  rejected[b] \in Nat /\ rejected'[b] \in Nat /\ rejected'[b] >= rejected[b]
<1>1. rejected[b] \in Nat
  BY DEF IInv, TypeOK
<1>2. ASSUME NEW w \in Workers, Quarantine(w)
      PROVE  rejected'[b] = rejected[b] \/ rejected'[b] = rejected[b] + 1
  BY <1>2 DEF IInv, TypeOK, Quarantine, Quarantined
<1>3. rejected'[b] = rejected[b] \/ rejected'[b] = rejected[b] + 1
  BY <1>2, WhoWrites
<1> QED
  BY <1>1, <1>3

(* A run that exists keeps existing, with its file.                        *)
LEMMA RunsStay ==
    ASSUME IInv, [Next]_vars, NEW b \in Batches, runs[b].state # "absent"
    PROVE  runs'[b].state # "absent" /\ runs'[b].file = runs[b].file
<1>0. TypeOK
  BY DEF IInv
<1> DEFINE Stays == runs'[b].state # "absent" /\ runs'[b].file = runs[b].file
<1>1. ASSUME NEW c \in Clients, CreateRun(c) PROVE Stays
  BY <1>0, <1>1 DEF CreateRun, TypeOK
<1>2. ASSUME NEW w \in Workers, MarkRunning(w) PROVE Stays
  <2>1. worker[w].pc \in Loaded
    BY <1>2 DEF MarkRunning, Loaded
  <2>2. PICK run \in ImportRun :
          run.state = "running" /\ run.file = worker[w].run.file /\ SaveRun(w, run)
    BY <1>2, MarkRunningMoves
  <2> QED
    BY <1>0, <2>1, <2>2, LoadedFacts DEF SaveRun, TypeOK
<1>3. ASSUME NEW w \in Workers, SaveSucceeded(w) PROVE Stays
  <2>1. worker[w].pc \in Loaded /\ worker[w].run.state = "succeeded"
    BY <1>3 DEF SaveSucceeded, Loaded, IInv, AttemptsAreRight, SavedIsComplete
  <2> QED
    BY <1>0, <1>3, <2>1, LoadedFacts DEF SaveSucceeded, SaveRun, TypeOK
<1>4. ASSUME NEW w \in Workers, MarkFailed(w) PROVE Stays
  <2>1. worker[w].pc \in Loaded
    BY <1>4 DEF MarkFailed, Loaded
  <2>2. PICK run \in ImportRun :
          run.state = "failed" /\ run.file = worker[w].run.file /\ SaveRun(w, run)
    <3>1. worker[w].run \in ImportRun /\ "failed" \in RunStates /\ worker[w].run.counts \in RunCounts
      BY <1>0 DEF TypeOK, Attempt, RunStates, ImportRun
    <3> QED
      BY <1>4, <3>1, RunChanges DEF MarkFailed
  <2> QED
    BY <1>0, <2>1, <2>2, LoadedFacts DEF SaveRun, TypeOK
<1> QED
  BY <1>1, <1>2, <1>3, <1>4, WhoWrites

(* The snapshots of a batch only grow.                                     *)
LEMMA SnapshotsOfGrow ==
    ASSUME IInv, [Next]_vars, NEW b \in Batches
    PROVE  /\ SnapshotsOf(b) \subseteq SnapshotsOf(b)'
           /\ IsFiniteSet(SnapshotsOf(b)')
           /\ Cardinality(SnapshotsOf(b)) \in Nat
           /\ Cardinality(SnapshotsOf(b)') \in Nat
           /\ Cardinality(SnapshotsOf(b)) <= Cardinality(SnapshotsOf(b)')
<1>1. IsFiniteSet(SnapshotsOf(b))
  BY DEF IInv, CapturedAreValid
<1>2. SnapshotsOf(b) \subseteq SnapshotsOf(b)'
  <2>1. b # Nobody
    BY IngestionAssumption
  <2> QED
    BY <2>1, SnapshotsStay DEF SnapshotsOf
<1>3. IsFiniteSet(SnapshotsOf(b)')
  <2>1. ASSUME NEW w \in Workers, InsertSnapshot(w)
        PROVE  SnapshotsOf(b)' \subseteq SnapshotsOf(b) \cup {Key(w)}
    BY <2>1, InsertFacts DEF SnapshotsOf, IInv, TypeOK
  <2>2. ASSUME NEW w \in Workers, InsertSnapshot(w)
        PROVE  IsFiniteSet(SnapshotsOf(b)')
    <3>1. IsFiniteSet(SnapshotsOf(b) \cup {Key(w)})
      BY <1>1, FS_AddElement
    <3> QED
      BY <2>1, <2>2, <3>1, FS_Subset
  <2>3. ASSUME UNCHANGED snapshots PROVE SnapshotsOf(b)' = SnapshotsOf(b)
    BY <2>3 DEF SnapshotsOf
  <2> QED
    BY <1>1, <2>2, <2>3, WhoWrites
<1> QED
  BY <1>1, <1>2, <1>3, FS_Subset, FS_CardinalityType

LEMMA CoveredStays ==
    ASSUME IInv, [Next]_vars, NEW b \in Batches, NEW counts \in RunCounts, Covered(b, counts)
    PROVE  Covered(b, counts)'
<1>1. /\ counts.accepted \in Nat /\ counts.quarantined \in Nat
      /\ counts.accepted <= Cardinality(SnapshotsOf(b)) /\ counts.quarantined <= rejected[b]
  BY DEF Covered, RunCounts
<1>2. counts.accepted <= Cardinality(SnapshotsOf(b)')
  BY <1>1, SnapshotsOfGrow
<1>3. counts.quarantined <= rejected'[b]
  BY <1>1, RejectedGrows
<1> QED
  BY <1>2, <1>3 DEF Covered

LEMMA CompleteStays ==
    ASSUME IInv, [Next]_vars, NEW b \in Batches, NEW f \in Files, Complete(b, f)
    PROVE  Complete(b, f)'
<1>1. Rejects(f) \in Nat
  <2>1. Total(f) + 1 \in Nat
    BY FileSizes
  <2> QED
    BY <2>1, RejectsAll, RejectsFinite
<1>2. rejected'[b] >= Rejects(f)
  BY <1>1, RejectedGrows DEF Complete
<1>3. ASSUME NEW k \in ValidKeys(f) PROVE snapshots'[k] # Nobody
  <2>1. k \in Keys
    BY IngestionAssumption DEF ValidKeys
  <2> QED
    BY <2>1, SnapshotsStay DEF Complete
<1> QED
  BY <1>2, <1>3 DEF Complete

-----------------------------------------------------------------------------
(* How one attempt moves in a step                                         *)

(* A worker moves by a step of its own.                                    *)
LEMMA OthersStay ==
    ASSUME IInv, [Next]_vars, NEW x \in Workers
    PROVE  worker'[x] = worker[x] \/ WorkerStep(x) \/ WorkerCrash(x)
<1>1. ASSUME NEW w \in Workers, WorkerStep(w) \/ WorkerCrash(w), w # x
      PROVE  worker'[x] = worker[x]
  BY <1>1 DEF IInv, TypeOK, WorkerStep, WorkerCrash, Begin, Load, MarkRunning, ReadRaw, SkipDuplicate,
              Quarantine, CheckedValid, InsertSnapshot, InsertConflict, Captured,
              SaveSucceeded, CaptureError, MarkFailed, PublishNormalize, HandlerError,
              Report, ReportLate, At, Reporting, Counted
<1> QED
  BY <1>1, WhoWrites

(* An attempt ends, starts, fails, or does one of the handler's steps.     *)
LEMMA WorkerShapes ==
    ASSUME IInv, NEW x \in Workers, WorkerStep(x) \/ WorkerCrash(x)
    PROVE  \/ worker'[x] = WorkerIdle
           \/ \E b \in Batches : worker'[x] = [WorkerIdle EXCEPT !.pc = "load", !.batch = b]
           \/ worker'[x].pc = "report" /\ worker'[x].batch \in Batches
           \/ worker[x].pc \in Loaded /\ At(x, "fail")
           \/ Load(x) /\ ~ Reporting(x, "transient")
           \/ MarkRunning(x)
           \/ ReadRaw(x) /\ At(x, "record")
           \/ SkipDuplicate(x) \/ Quarantine(x) \/ CheckedValid(x) \/ InsertSnapshot(x)
           \/ Captured(x) \/ SaveSucceeded(x)
<1>0. TypeOK
  BY DEF IInv
<1>2. ASSUME NEW b \in Batches, Begin(x, b)
      PROVE  worker'[x] = [WorkerIdle EXCEPT !.pc = "load", !.batch = b]
  BY <1>0, <1>2 DEF Begin, TypeOK
<1>3. ASSUME Report(x) \/ ReportLate(x) \/ WorkerCrash(x) PROVE worker'[x] = WorkerIdle
  BY <1>0, <1>3 DEF Report, ReportLate, WorkerCrash, TypeOK
<1>4. ASSUME \/ MarkFailed(x) \/ PublishNormalize(x) \/ HandlerError(x)
             \/ Load(x) /\ Reporting(x, "transient")
             \/ ReadRaw(x) /\ ~ At(x, "record")
      PROVE  worker'[x].pc = "report" /\ worker'[x].batch \in Batches
  <2>1. worker[x].pc # "idle"
    BY <1>4 DEF MarkFailed, PublishNormalize, HandlerError, Load, ReadRaw
  <2>2. worker[x].batch \in Batches
    BY <2>1 DEF IInv, AttemptsAreRight, CopyAgrees
  <2>3. Reporting(x, "permanent") \/ Reporting(x, "succeeded") \/ Reporting(x, "transient")
    BY <1>4 DEF MarkFailed, PublishNormalize, HandlerError, Load, ReadRaw
  <2> QED
    BY <1>0, <2>2, <2>3, ReportingMoves
<1>5. ASSUME InsertConflict(x) \/ CaptureError(x)
      PROVE  worker[x].pc \in Loaded /\ At(x, "fail")
  BY <1>5 DEF InsertConflict, CaptureError, Loaded
<1> QED
  BY <1>2, <1>3, <1>4, <1>5 DEF WorkerStep

-----------------------------------------------------------------------------
(* Every attempt stays right                                               *)

(* An attempt keeps agreeing with its run when it keeps its batch and file *)
(* and its copy's counts are covered.                                      *)
LEMMA CopyKept ==
    ASSUME IInv, [Next]_vars, NEW x \in Workers, worker[x].pc \in Loaded,
           worker'[x].batch = worker[x].batch,
           worker'[x].run.file = worker[x].run.file,
           worker'[x].run.counts \in RunCounts,
           Covered(worker[x].batch, worker'[x].run.counts)
    PROVE  CopyAgrees(x)'
<1>0. PICK b \in Batches, counts \in RunCounts :
          b = worker[x].batch /\ counts = worker'[x].run.counts
  BY LoadedFacts
<1>1. runs[b].state # "absent" /\ worker[x].run.file = runs[b].file
  BY <1>0, LoadedFacts
<1>2. runs'[b].state # "absent" /\ runs'[b].file = worker[x].run.file
  BY <1>1, RunsStay
<1>3. Covered(b, counts)'
  BY <1>0, CoveredStays
<1> QED
  BY <1>0, <1>1, <1>2, <1>3 DEF CopyAgrees, Covered, SnapshotsOf

(* What an attempt counted is covered by the rows of its batch.            *)
LEMMA CountsCovered ==
    ASSUME IInv, NEW x \in Workers, worker[x].pc \in {"mark", "read", "record", "insert"}
    PROVE  worker[x].counts \in RunCounts /\ Covered(worker[x].batch, worker[x].counts)
<1>1. worker[x].batch \in Batches
  BY LoadedFacts DEF Loaded
<1>2. IsFiniteSet(SnapshotsOf(worker[x].batch))
  BY <1>1 DEF IInv, CapturedAreValid
<1>3. /\ worker[x].seen \subseteq SnapshotsOf(worker[x].batch)
      /\ worker[x].counts.accepted = Cardinality(worker[x].seen)
      /\ worker[x].counts.quarantined <= rejected[worker[x].batch]
  BY DEF IInv, AttemptsAreRight, Progress, InsertIsValid
<1>4. Cardinality(worker[x].seen) <= Cardinality(SnapshotsOf(worker[x].batch))
  BY <1>2, <1>3, FS_Subset
<1> QED
  BY <1>3, <1>4 DEF Covered, IInv, TypeOK, Attempt

LEMMA CopyStep ==
    ASSUME IInv, [Next]_vars, NEW x \in Workers
    PROVE  CopyAgrees(x)'
<1>0. TypeOK /\ worker[x] \in Attempt /\ worker[x].run.counts \in RunCounts
  BY DEF IInv, TypeOK, Attempt, ImportRun
<1>1. CASE worker'[x] = worker[x]
  <2>1. CASE worker[x].pc \in Loaded
    BY <1>0, <1>1, <2>1, LoadedFacts, CopyKept
  <2>2. CASE worker[x].pc \notin Loaded
    BY <1>1, <2>2 DEF CopyAgrees, IInv, AttemptsAreRight
  <2> QED
    BY <2>1, <2>2
<1>2. CASE WorkerStep(x) \/ WorkerCrash(x)
  <2>1. CASE worker'[x] = WorkerIdle
    BY <2>1 DEF CopyAgrees, WorkerIdle, Loaded
  <2>2. CASE \E b \in Batches : worker'[x] = [WorkerIdle EXCEPT !.pc = "load", !.batch = b]
    BY <2>2, StartedType DEF CopyAgrees, Loaded
  <2>3. CASE worker'[x].pc = "report" /\ worker'[x].batch \in Batches
    BY <2>3 DEF CopyAgrees, Loaded
  <2>4. CASE worker[x].pc \in Loaded /\ At(x, "fail")
    BY <1>0, <2>4, AtMoves, LoadedFacts, CopyKept
  <2>5. CASE Load(x) /\ ~ Reporting(x, "transient")
    <3> DEFINE b == worker[x].batch
    <3>1. b \in Batches /\ runs[b].state # "absent" /\ runs[b] \in ImportRun
          /\ runs[b].counts \in RunCounts
      BY <1>0, <2>5, LoadMoves DEF TypeOK, ImportRun
    <3>2. PICK pc \in {"mark", "publish"} :
             worker' = [worker EXCEPT ![x] = [@ EXCEPT !.pc = pc, !.run = runs[b]]]
      BY <2>5, LoadMoves
    <3>3. worker'[x].pc = pc /\ worker'[x].run = runs[b] /\ worker'[x].batch = b
      BY <1>0, <3>1, <3>2, CopyMoves
    <3>4. Covered(b, runs[b].counts) /\ UNCHANGED <<runs, snapshots, rejected>>
      BY <2>5, <3>1 DEF IInv, RunsHaveFiles, Load
    <3> QED
      BY <3>1, <3>3, <3>4 DEF CopyAgrees, Covered, SnapshotsOf
  <2>6. CASE MarkRunning(x)
    <3>1. PICK run \in ImportRun :
            /\ run.file = worker[x].run.file
            /\ run.counts = worker[x].run.counts
            /\ worker' = [worker EXCEPT ![x] = [@ EXCEPT !.pc = "read", !.run = run]]
      BY <2>6, MarkRunningMoves
    <3>2. worker'[x].run = run /\ worker'[x].batch = worker[x].batch
      BY <1>0, <3>1, CopyMoves
    <3>3. worker[x].pc \in Loaded
      BY <2>6 DEF MarkRunning, Loaded
    <3> QED
      BY <1>0, <3>1, <3>2, <3>3, LoadedFacts, CopyKept
  <2>7. CASE ReadRaw(x) /\ At(x, "record")
    BY <1>0, <2>7, AtMoves, LoadedFacts, CopyKept DEF ReadRaw, Loaded
  <2>8. CASE SkipDuplicate(x) \/ Quarantine(x)
    <3>1. worker[x].pc \in Loaded /\ (Counted(x, "duplicates") \/ Counted(x, "quarantined"))
      BY <2>8 DEF SkipDuplicate, Quarantine, Loaded
    <3>2. worker'[x].run = worker[x].run /\ worker'[x].batch = worker[x].batch
      BY <1>0, <3>1, CountedMoves
    <3> QED
      BY <1>0, <3>1, <3>2, LoadedFacts, CopyKept
  <2>9. CASE CheckedValid(x)
    BY <1>0, <2>9, AtMoves, LoadedFacts, CopyKept DEF CheckedValid, Loaded
  <2>10. CASE InsertSnapshot(x)
    <3>1. worker'[x].run = worker[x].run /\ worker'[x].batch = worker[x].batch
      BY <1>0, <2>10, InsertFacts, InsertMoves DEF InsertSnapshot
    <3>2. worker[x].pc \in Loaded
      BY <2>10 DEF InsertSnapshot, Loaded
    <3> QED
      BY <1>0, <3>1, <3>2, LoadedFacts, CopyKept
  <2>11. CASE Captured(x)
    <3>1. PICK run \in ImportRun :
            /\ run.file = worker[x].run.file
            /\ run.counts = worker[x].counts
            /\ worker' = [worker EXCEPT ![x] = [@ EXCEPT !.pc = "save", !.run = run]]
      BY <2>11, CapturedMoves
    <3>2. worker'[x].run = run /\ worker'[x].batch = worker[x].batch
      BY <1>0, <3>1, CopyMoves
    <3>3. worker[x].pc \in Loaded /\ worker[x].pc = "record"
      BY <2>11 DEF Captured, Loaded
    <3>4. worker[x].counts \in RunCounts /\ Covered(worker[x].batch, worker[x].counts)
      BY <3>3, CountsCovered
    <3> QED
      BY <3>1, <3>2, <3>3, <3>4, CopyKept
  <2>12. CASE SaveSucceeded(x)
    BY <1>0, <2>12, AtMoves, LoadedFacts, CopyKept DEF SaveSucceeded, Loaded
  <2> QED
    BY <1>2, <2>1, <2>2, <2>3, <2>4, <2>5, <2>6, <2>7, <2>8, <2>9, <2>10, <2>11, <2>12,
       WorkerShapes
<1> QED
  BY <1>1, <1>2, OthersStay

LEMMA FreshStep ==
    ASSUME IInv, [Next]_vars, NEW x \in Workers
    PROVE  Fresh(x)'
<1>0. TypeOK /\ Fresh(x)
  BY DEF IInv, AttemptsAreRight
<1>1. CASE worker'[x] = worker[x]
  BY <1>0, <1>1 DEF Fresh
<1>2. CASE WorkerStep(x) \/ WorkerCrash(x)
  <2>1. CASE worker'[x] = WorkerIdle
    BY <2>1 DEF Fresh, WorkerIdle
  <2>2. CASE \E b \in Batches : worker'[x] = [WorkerIdle EXCEPT !.pc = "load", !.batch = b]
    BY <2>2 DEF Fresh, WorkerIdle
  <2>3. CASE worker'[x].pc \in {"report", "fail", "record", "insert", "save", "publish"}
    BY <2>3 DEF Fresh
  <2>4. CASE Load(x) /\ ~ Reporting(x, "transient")
    <3>1. worker[x].batch \in Batches
      BY <2>4, LoadMoves
    <3>2. runs[worker[x].batch] \in ImportRun
      BY <1>0, <3>1 DEF TypeOK
    <3>3. PICK pc \in {"mark", "publish"} :
             worker' = [worker EXCEPT ![x] = [@ EXCEPT !.pc = pc, !.run = runs[worker[x].batch]]]
      BY <2>4, LoadMoves
    <3>4. worker[x].pc = "load"
      BY <2>4 DEF Load
    <3> QED
      BY <1>0, <3>2, <3>3, <3>4, CopyMoves DEF Fresh
  <2>5. CASE MarkRunning(x)
    <3>1. PICK run \in ImportRun :
            worker' = [worker EXCEPT ![x] = [@ EXCEPT !.pc = "read", !.run = run]]
      BY <2>5, MarkRunningMoves
    <3>2. worker[x].pc = "mark"
      BY <2>5 DEF MarkRunning
    <3> QED
      BY <1>0, <3>1, <3>2, CopyMoves DEF Fresh
  <2>6. CASE worker[x].pc \in Loaded /\ At(x, "fail")
    BY <1>0, <2>3, <2>6, AtMoves
  <2>7. CASE ReadRaw(x) /\ At(x, "record")
    BY <1>0, <2>3, <2>7, AtMoves
  <2>8. CASE SkipDuplicate(x) \/ Quarantine(x)
    <3>1. worker[x].pc = "record" /\ (Counted(x, "duplicates") \/ Counted(x, "quarantined"))
      BY <2>8 DEF SkipDuplicate, Quarantine
    <3> QED
      BY <1>0, <2>3, <3>1, CountedMoves
  <2>9. CASE CheckedValid(x)
    BY <1>0, <2>3, <2>9, AtMoves DEF CheckedValid
  <2>10. CASE InsertSnapshot(x)
    BY <1>0, <2>3, <2>10, InsertFacts, InsertMoves DEF InsertSnapshot
  <2>11. CASE Captured(x)
    BY <1>0, <2>3, <2>11, CapturedMoves, CopyMoves
  <2>12. CASE SaveSucceeded(x)
    BY <1>0, <2>3, <2>12, AtMoves DEF SaveSucceeded
  <2> QED
    BY <1>2, <2>1, <2>2, <2>3, <2>4, <2>5, <2>6, <2>7, <2>8, <2>9, <2>10, <2>11, <2>12,
       WorkerShapes
<1> QED
  BY <1>1, <1>2, OthersStay

Capturing == {"mark", "read", "record", "insert"}

(* What an attempt did is not undone by any step.                          *)
LEMMA ProgressFrame ==
    ASSUME IInv, [Next]_vars, NEW x \in Workers, worker[x].pc \in Capturing,
           NEW b \in Batches, NEW f \in Files, NEW n \in Nat \ {0}, NEW seen \in SUBSET Keys,
           b = worker[x].batch, f = worker[x].run.file, n = worker[x].next,
           seen = worker[x].seen
    PROVE  /\ n <= Total(f) + 1
           /\ CapturedBefore(f, n)'
           /\ seen \subseteq SnapshotsOf(b)'
           /\ IsFiniteSet(seen)
           /\ worker[x].counts.accepted = Cardinality(seen)
           /\ worker[x].counts.quarantined = RejectsBefore(f, n)
           /\ worker[x].counts.quarantined <= rejected[b]
           /\ worker[x].counts.quarantined <= rejected'[b]
<1>1. /\ n <= Total(f) + 1
      /\ CapturedBefore(f, n)
      /\ seen \subseteq SnapshotsOf(b)
      /\ worker[x].counts.accepted = Cardinality(seen)
      /\ worker[x].counts.quarantined = RejectsBefore(f, n)
      /\ worker[x].counts.quarantined <= rejected[b]
  BY DEF IInv, AttemptsAreRight, Progress, Capturing
<1>2. CapturedBefore(f, n)'
  <2>1. \A i \in 1..Len(Records[f]) : Records[f][i] \in Keys
    BY DEF Keys
  <2> QED
    BY <1>1, <2>1, SnapshotsStay DEF CapturedBefore
<1>3. seen \subseteq SnapshotsOf(b)'
  BY <1>1, SnapshotsOfGrow
<1>4. worker[x].counts.quarantined <= rejected'[b]
  <2>1. worker[x].counts.quarantined \in Nat
    BY <1>1, RejectsFinite
  <2> QED
    BY <1>1, <2>1, RejectedGrows
<1>5. IsFiniteSet(seen)
  BY <1>1, FS_Subset DEF IInv, CapturedAreValid
<1> QED
  BY <1>1, <1>2, <1>3, <1>4, <1>5

(* The constants of an attempt that is capturing.                          *)
LEMMA AttemptData ==
    ASSUME IInv, NEW x \in Workers, worker[x].pc \in Capturing
    PROVE  \E b \in Batches, f \in Files, n \in Nat \ {0}, seen \in SUBSET Keys :
              /\ b = worker[x].batch /\ f = worker[x].run.file
              /\ n = worker[x].next /\ seen = worker[x].seen
<1>1. worker[x].pc \in Loaded /\ TypeOK
  BY DEF Capturing, Loaded, IInv
<1>2. worker[x].next \in Nat \ {0} /\ worker[x].seen \in SUBSET Keys
  BY <1>1 DEF TypeOK, Attempt
<1> QED
  BY <1>1, <1>2, LoadedFacts

LEMMA ProgressKept ==
    ASSUME IInv, [Next]_vars, NEW x \in Workers, worker[x].pc \in Capturing,
           worker'[x].batch = worker[x].batch, worker'[x].run.file = worker[x].run.file,
           worker'[x].next = worker[x].next, worker'[x].seen = worker[x].seen,
           worker'[x].counts = worker[x].counts, InsertIsValid(x)'
    PROVE  Progress(x)'
<1>1. PICK b \in Batches, f \in Files, n \in Nat \ {0}, seen \in SUBSET Keys :
              /\ b = worker[x].batch /\ f = worker[x].run.file
              /\ n = worker[x].next /\ seen = worker[x].seen
  BY AttemptData
<1>2. /\ n <= Total(f) + 1
      /\ CapturedBefore(f, n)'
      /\ seen \subseteq SnapshotsOf(b)'
      /\ worker[x].counts.accepted = Cardinality(seen)
      /\ worker[x].counts.quarantined = RejectsBefore(f, n)
      /\ worker[x].counts.quarantined <= rejected'[b]
  BY <1>1, ProgressFrame
<1> QED
  BY <1>1, <1>2 DEF Progress, CapturedBefore, SnapshotsOf

LEMMA LoadProgress ==
    ASSUME IInv, [Next]_vars, NEW x \in Workers, Load(x), ~ Reporting(x, "transient")
    PROVE  Progress(x)'
<1>0. TypeOK /\ worker[x].pc = "load"
  BY DEF IInv, Load
<1>1. PICK b \in Batches : b = worker[x].batch /\ runs[b].state # "absent"
  BY LoadMoves
<1>2. runs[b] \in ImportRun /\ UNCHANGED <<rejected, snapshots>>
  BY <1>0 DEF TypeOK, Load
<1>3. PICK pc \in {"mark", "publish"} :
         worker' = [worker EXCEPT ![x] = [@ EXCEPT !.pc = pc, !.run = runs[b]]]
  BY <1>1, LoadMoves
<1>4. PICK f \in Files : f = runs[b].file
  BY <1>1 DEF IInv, RunsHaveFiles
<1>5. /\ worker'[x].pc = pc /\ worker'[x].batch = b /\ worker'[x].run.file = f
      /\ worker'[x].next = 1 /\ worker'[x].seen = {} /\ worker'[x].counts = NoCounts
  <2>1. worker[x].next = 1 /\ worker[x].seen = {} /\ worker[x].counts = NoCounts
    BY <1>0 DEF IInv, AttemptsAreRight, Fresh
  <2> QED
    BY <1>0, <1>1, <1>2, <1>3, <1>4, <2>1, CopyMoves
<1>6. NoCounts.accepted = 0 /\ NoCounts.quarantined = 0
  BY DEF NoCounts
<1>7. 1 <= Total(f) + 1 /\ CapturedBefore(f, 1)' /\ Cardinality({}) = 0
      /\ RejectsBefore(f, 1) = 0 /\ 0 <= rejected'[b]
  <2>1. rejected'[b] \in Nat
    BY <1>0, <1>2 DEF TypeOK
  <2>2. CapturedBefore(f, 1)'
    BY DEF CapturedBefore
  <2> QED
    BY <2>1, <2>2, FileSizes, RejectsFirst, FS_EmptySet
<1>8. InsertIsValid(x)'
  BY <1>5 DEF InsertIsValid
<1> QED
  BY <1>5, <1>6, <1>7, <1>8 DEF Progress, CapturedBefore

(* An item more is captured: its key is there already, or just inserted.   *)
LEMMA CapturedNext ==
    ASSUME NEW f \in Files, NEW n \in Nat \ {0}, CapturedBefore(f, n)',
           n <= Len(Records[f]) /\ Records[f][n] \in Valid => snapshots'[Records[f][n]] # Nobody
    PROVE  CapturedBefore(f, n + 1)'
<1>1. ASSUME NEW i \in 1..Len(Records[f]), i < n + 1, Records[f][i] \in Valid
      PROVE  snapshots'[Records[f][i]] # Nobody
  <2>1. Len(Records[f]) \in Nat
    BY FileSizes
  <2>2. i < n \/ (i = n /\ n <= Len(Records[f]))
    BY <1>1, <2>1
  <2> QED
    BY <1>1, <2>2 DEF CapturedBefore
<1> QED
  BY <1>1 DEF CapturedBefore

LEMMA SkipProgress ==
    ASSUME IInv, [Next]_vars, NEW x \in Workers, SkipDuplicate(x)
    PROVE  Progress(x)'
<1>0. TypeOK /\ worker[x].pc = "record" /\ worker[x].pc \in Capturing
  BY DEF IInv, SkipDuplicate, Capturing
<1>1. PICK b \in Batches, f \in Files, n \in Nat \ {0}, seen \in SUBSET Keys :
              /\ b = worker[x].batch /\ f = worker[x].run.file
              /\ n = worker[x].next /\ seen = worker[x].seen
  BY <1>0, AttemptData
<1>2. /\ CapturedBefore(f, n)'
      /\ seen \subseteq SnapshotsOf(b)'
      /\ worker[x].counts.accepted = Cardinality(seen)
      /\ worker[x].counts.quarantined = RejectsBefore(f, n)
      /\ worker[x].counts.quarantined <= rejected'[b]
  BY <1>0, <1>1, ProgressFrame
<1>3. /\ worker'[x].pc = "record" /\ worker'[x].batch = b /\ worker'[x].run.file = f
      /\ worker'[x].next = n + 1 /\ worker'[x].seen = seen
      /\ worker'[x].counts.accepted = worker[x].counts.accepted
      /\ worker'[x].counts.quarantined = worker[x].counts.quarantined
  BY <1>0, <1>1, CountedMoves DEF SkipDuplicate
<1>4. n <= Total(f) /\ n \in 1..Len(Records[f]) /\ Key(x) = Records[f][n] /\ Key(x) \in Keys
  BY <1>0, <1>1, KeyType DEF SkipDuplicate, MoreItems, Key
<1>5. snapshots[Key(x)] # Nobody
  <2>1. seen \subseteq SnapshotsOf(b) /\ b # Nobody
    BY <1>0, <1>1, IngestionAssumption DEF IInv, AttemptsAreRight, Progress
  <2> QED
    BY <1>1, <2>1 DEF SkipDuplicate, KnownKey, SnapshotsOf
<1>6. Records[f][n] \in Valid /\ snapshots'[Records[f][n]] # Nobody
  BY <1>4, <1>5, SnapshotsStay DEF IInv, CapturedAreValid
<1>7. CapturedBefore(f, n + 1)' /\ RejectsBefore(f, n + 1) = RejectsBefore(f, n)
  BY <1>2, <1>4, <1>6, CapturedNext, RejectsNext
<1>8. n + 1 <= Total(f) + 1
  BY <1>4, FileSizes
<1>9. InsertIsValid(x)'
  BY <1>3 DEF InsertIsValid
<1> QED
  BY <1>2, <1>3, <1>7, <1>8, <1>9 DEF Progress, CapturedBefore, SnapshotsOf

LEMMA QuarantineProgress ==
    ASSUME IInv, [Next]_vars, NEW x \in Workers, Quarantine(x)
    PROVE  Progress(x)'
<1>0. TypeOK /\ worker[x].pc = "record" /\ worker[x].pc \in Capturing
  BY DEF IInv, Quarantine, Capturing
<1>1. PICK b \in Batches, f \in Files, n \in Nat \ {0}, seen \in SUBSET Keys :
              /\ b = worker[x].batch /\ f = worker[x].run.file
              /\ n = worker[x].next /\ seen = worker[x].seen
  BY <1>0, AttemptData
<1>2. /\ CapturedBefore(f, n)'
      /\ seen \subseteq SnapshotsOf(b)'
      /\ worker[x].counts.accepted = Cardinality(seen)
      /\ worker[x].counts.quarantined = RejectsBefore(f, n)
      /\ worker[x].counts.quarantined <= rejected[b]
  BY <1>0, <1>1, ProgressFrame
<1>3. /\ worker'[x].pc = "record" /\ worker'[x].batch = b /\ worker'[x].run.file = f
      /\ worker'[x].next = n + 1 /\ worker'[x].seen = seen
      /\ worker'[x].counts.accepted = worker[x].counts.accepted
      /\ worker'[x].counts.quarantined = worker[x].counts.quarantined + 1
  BY <1>0, <1>1, CountedMoves DEF Quarantine
<1>4. n > Len(Records[f]) \/ (n <= Len(Records[f]) /\ Records[f][n] \notin Valid)
  BY <1>1, FileSizes DEF Quarantine, Rejectable, IsParseError, Key
<1>5. CapturedBefore(f, n + 1)' /\ RejectsBefore(f, n + 1) = RejectsBefore(f, n) + 1
  <2>1. ~ (n <= Len(Records[f]) /\ Records[f][n] \in Valid)
    BY <1>4, FileSizes
  <2> QED
    BY <1>2, <1>4, <2>1, CapturedNext, RejectsNext
<1>6. worker[x].counts.quarantined + 1 <= rejected'[b]
  <2>1. rejected'[b] = rejected[b] + 1 /\ rejected[b] \in Nat
    BY <1>0, <1>1 DEF Quarantine, Quarantined, TypeOK
  <2>2. worker[x].counts.quarantined \in Nat
    BY <1>2, RejectsFinite
  <2> QED
    BY <1>2, <2>1, <2>2
<1>7. n + 1 <= Total(f) + 1
  BY <1>1, FileSizes DEF Quarantine, MoreItems
<1>8. InsertIsValid(x)'
  BY <1>3 DEF InsertIsValid
<1> QED
  BY <1>2, <1>3, <1>5, <1>6, <1>7, <1>8 DEF Progress, CapturedBefore, SnapshotsOf

LEMMA InsertProgress ==
    ASSUME IInv, [Next]_vars, NEW x \in Workers, InsertSnapshot(x)
    PROVE  Progress(x)'
<1>0. TypeOK /\ worker[x].pc = "insert" /\ worker[x].pc \in Capturing
  BY DEF IInv, InsertSnapshot, Capturing
<1>1. PICK b \in Batches, f \in Files, n \in Nat \ {0}, seen \in SUBSET Keys :
              /\ b = worker[x].batch /\ f = worker[x].run.file
              /\ n = worker[x].next /\ seen = worker[x].seen
  BY <1>0, AttemptData
<1>2. /\ CapturedBefore(f, n)'
      /\ seen \subseteq SnapshotsOf(b)'
      /\ IsFiniteSet(seen)
      /\ worker[x].counts.accepted = Cardinality(seen)
      /\ worker[x].counts.quarantined = RejectsBefore(f, n)
      /\ worker[x].counts.quarantined <= rejected'[b]
  BY <1>0, <1>1, ProgressFrame
<1>3. PICK k \in Keys : k = Key(x)
  BY InsertFacts
<1>4. /\ k \in Valid /\ n \in 1..Len(Records[f]) /\ k = Records[f][n]
      /\ snapshots[k] = Nobody /\ snapshots'[k] = b
  BY <1>0, <1>1, <1>3, InsertFacts DEF Key, TypeOK
<1>5. /\ worker'[x].pc = "record" /\ worker'[x].batch = b /\ worker'[x].run.file = f
      /\ worker'[x].next = n + 1 /\ worker'[x].seen = seen \cup {k}
      /\ worker'[x].counts.accepted = worker[x].counts.accepted + 1
      /\ worker'[x].counts.quarantined = worker[x].counts.quarantined
  <2>1. worker' = [worker EXCEPT
               ![x].pc = "record", ![x].counts.accepted = @ + 1,
               ![x].seen = @ \cup {k}, ![x].next = @ + 1]
    BY <1>3 DEF InsertSnapshot
  <2> QED
    BY <1>0, <1>1, <2>1, InsertMoves
<1>6. b # Nobody
  BY IngestionAssumption
<1>7. k \notin seen
  <2>1. seen \subseteq SnapshotsOf(b)
    BY <1>0, <1>1 DEF IInv, AttemptsAreRight, Progress
  <2> QED
    BY <1>4, <1>6, <2>1 DEF SnapshotsOf
<1>8. Cardinality(seen \cup {k}) = worker[x].counts.accepted + 1
  BY <1>2, <1>7, FS_AddElement
<1>9. seen \cup {k} \subseteq SnapshotsOf(b)'
  BY <1>2, <1>4 DEF SnapshotsOf
<1>10. CapturedBefore(f, n + 1)' /\ RejectsBefore(f, n + 1) = RejectsBefore(f, n)
  BY <1>2, <1>4, <1>6, CapturedNext, RejectsNext
<1>11. n + 1 <= Total(f) + 1
  BY <1>4, FileSizes
<1>12. InsertIsValid(x)'
  BY <1>5 DEF InsertIsValid
<1> QED
  BY <1>2, <1>5, <1>8, <1>9, <1>10, <1>11, <1>12 DEF Progress, CapturedBefore, SnapshotsOf

LEMMA ProgressStep ==
    ASSUME IInv, [Next]_vars, NEW x \in Workers
    PROVE  Progress(x)'
<1>0. TypeOK /\ (InsertIsValid(x) \/ worker[x].pc \notin Capturing)
  BY DEF IInv, AttemptsAreRight, Progress, Capturing
<1>1. TypeOK
  BY DEF IInv
<1>2. ASSUME worker'[x].pc \notin Capturing PROVE Progress(x)'
  BY <1>2 DEF Progress, Capturing
<1>3. CASE worker'[x] = worker[x]
  <2>1. CASE worker[x].pc \in Capturing
    <3>1. InsertIsValid(x)'
      BY <1>0, <1>3, <2>1 DEF InsertIsValid, IsParseError, Key
    <3> QED
      BY <1>3, <2>1, <3>1, ProgressKept
  <2>2. CASE worker[x].pc \notin Capturing
    BY <1>2, <1>3, <2>2
  <2> QED
    BY <2>1, <2>2
<1>4. CASE WorkerStep(x) \/ WorkerCrash(x)
  <2>1. CASE worker'[x] = WorkerIdle
    BY <1>2, <2>1 DEF WorkerIdle, Capturing
  <2>2. CASE \E b \in Batches : worker'[x] = [WorkerIdle EXCEPT !.pc = "load", !.batch = b]
    BY <1>2, <2>2, StartedType DEF Capturing
  <2>3. CASE worker'[x].pc = "report" /\ worker'[x].batch \in Batches
    BY <1>2, <2>3 DEF Capturing
  <2>4. CASE worker[x].pc \in Loaded /\ At(x, "fail")
    BY <1>1, <1>2, <2>4, AtMoves DEF Capturing
  <2>5. CASE MarkRunning(x)
    <3>1. PICK run \in ImportRun :
            /\ run.file = worker[x].run.file
            /\ worker' = [worker EXCEPT ![x] = [@ EXCEPT !.pc = "read", !.run = run]]
      BY <2>5, MarkRunningMoves
    <3>2. worker[x].pc \in Capturing
      BY <2>5 DEF MarkRunning, Capturing
    <3>3. InsertIsValid(x)'
      BY <1>1, <3>1, CopyMoves DEF InsertIsValid
    <3> QED
      BY <1>1, <3>1, <3>2, <3>3, CopyMoves, ProgressKept
  <2>6. CASE ReadRaw(x) /\ At(x, "record")
    <3>1. worker[x].pc \in Capturing
      BY <2>6 DEF ReadRaw, Capturing
    <3>2. InsertIsValid(x)'
      BY <1>1, <2>6, AtMoves DEF InsertIsValid
    <3> QED
      BY <1>1, <2>6, <3>1, <3>2, AtMoves, ProgressKept
  <2>7. CASE CheckedValid(x)
    <3>1. worker[x].pc \in Capturing /\ At(x, "insert")
      BY <2>7 DEF CheckedValid, Capturing
    <3>2. InsertIsValid(x)'
      BY <1>1, <2>7, <3>1, AtMoves DEF InsertIsValid, CheckedValid, IsParseError, Key
    <3> QED
      BY <1>1, <3>1, <3>2, AtMoves, ProgressKept
  <2>8. CASE Captured(x)
    <3>1. PICK run \in ImportRun :
            worker' = [worker EXCEPT ![x] = [@ EXCEPT !.pc = "save", !.run = run]]
      BY <2>8, CapturedMoves
    <3>2. worker'[x].pc = "save"
      BY <1>1, <3>1, CopyMoves
    <3> QED
      BY <1>2, <3>2 DEF Capturing
  <2>9. CASE SaveSucceeded(x)
    BY <1>1, <1>2, <2>9, AtMoves DEF SaveSucceeded, Capturing
  <2> QED
    BY <1>4, <2>1, <2>2, <2>3, <2>4, <2>5, <2>6, <2>7, <2>8, <2>9, WorkerShapes,
       LoadProgress, SkipProgress, QuarantineProgress, InsertProgress
<1> QED
  BY <1>3, <1>4, OthersStay

(* At the end of its file an attempt has captured and rejected everything. *)
LEMMA CapturedIsComplete ==
    ASSUME IInv, NEW x \in Workers, Captured(x)
    PROVE  Complete(worker[x].batch, worker[x].run.file)
<1>0. TypeOK /\ worker[x].pc = "record" /\ worker[x].pc \in Capturing
  BY DEF IInv, Captured, Capturing
<1>1. PICK b \in Batches, f \in Files, n \in Nat \ {0}, seen \in SUBSET Keys :
              /\ b = worker[x].batch /\ f = worker[x].run.file
              /\ n = worker[x].next /\ seen = worker[x].seen
  BY <1>0, AttemptData
<1>2. /\ n <= Total(f) + 1
      /\ CapturedBefore(f, n)
      /\ worker[x].counts.quarantined = RejectsBefore(f, n)
      /\ worker[x].counts.quarantined <= rejected[b]
  BY <1>0, <1>1 DEF IInv, AttemptsAreRight, Progress
<1>3. n = Total(f) + 1
  <2>1. ~ (n <= Total(f))
    BY <1>1 DEF Captured, MoreItems
  <2> QED
    BY <1>2, <2>1, FileSizes
<1>4. rejected[b] >= Rejects(f)
  <2>1. RejectsBefore(f, n) = Rejects(f)
    BY <1>3, RejectsAll
  <2>2. RejectsBefore(f, n) \in Nat /\ rejected[b] \in Nat
    BY <1>0, RejectsFinite DEF TypeOK
  <2> QED
    BY <1>2, <2>1, <2>2
<1>5. ASSUME NEW k \in ValidKeys(f) PROVE snapshots[k] # Nobody
  <2>1. PICK i \in 1..Len(Records[f]) : k = Records[f][i] /\ k \in Valid
    BY <1>5 DEF ValidKeys
  <2>2. i < n
    BY <1>3, FileSizes
  <2> QED
    BY <1>2, <2>1, <2>2 DEF CapturedBefore
<1> QED
  BY <1>1, <1>4, <1>5 DEF Complete

(* A copy keeps being complete when it keeps its batch and its file.       *)
LEMMA SavedKept ==
    ASSUME IInv, [Next]_vars, NEW x \in Workers, worker[x].pc \in Loaded,
           worker'[x].batch = worker[x].batch,
           worker'[x].run.file = worker[x].run.file,
           worker'[x].pc = "save" => worker'[x].run.state = "succeeded",
           worker'[x].run.state = "succeeded" => Complete(worker[x].batch, worker[x].run.file)
    PROVE  SavedIsComplete(x)'
<1>1. PICK b \in Batches, f \in Files : b = worker[x].batch /\ f = worker[x].run.file
  BY LoadedFacts
<1>2. worker'[x].run.state = "succeeded" => Complete(b, f)'
  BY <1>1, CompleteStays
<1> QED
  BY <1>1, <1>2 DEF SavedIsComplete, Complete

LEMMA SavedStep ==
    ASSUME IInv, [Next]_vars, NEW x \in Workers
    PROVE  SavedIsComplete(x)'
<1>0. TypeOK /\ SavedIsComplete(x)
  BY DEF IInv, AttemptsAreRight
<1>1. ASSUME worker'[x].pc \notin {"save", "publish"} PROVE SavedIsComplete(x)'
  BY <1>1 DEF SavedIsComplete
<1>2. CASE worker'[x] = worker[x]
  <2>1. CASE worker[x].pc \in {"save", "publish"}
    BY <1>0, <1>2, <2>1, SavedKept DEF SavedIsComplete, Loaded
  <2> QED
    BY <1>1, <1>2, <2>1
<1>3. CASE WorkerStep(x) \/ WorkerCrash(x)
  <2>1. CASE worker'[x] = WorkerIdle
    BY <1>1, <2>1 DEF WorkerIdle
  <2>2. CASE \E b \in Batches : worker'[x] = [WorkerIdle EXCEPT !.pc = "load", !.batch = b]
    BY <1>1, <2>2, StartedType
  <2>3. CASE worker'[x].pc = "report" /\ worker'[x].batch \in Batches
    BY <1>1, <2>3
  <2>4. CASE worker[x].pc \in Loaded /\ At(x, "fail")
    BY <1>0, <1>1, <2>4, AtMoves
  <2>5. CASE Load(x) /\ ~ Reporting(x, "transient")
    <3>1. PICK b \in Batches : b = worker[x].batch /\ runs[b].state # "absent"
      BY <2>5, LoadMoves
    <3>2. runs[b] \in ImportRun
      BY <1>0 DEF TypeOK
    <3>3. PICK pc \in {"mark", "publish"} :
             worker' = [worker EXCEPT ![x] = [@ EXCEPT !.pc = pc, !.run = runs[b]]]
      BY <2>5, <3>1, LoadMoves
    <3>4. worker'[x].pc = pc /\ worker'[x].run = runs[b] /\ worker'[x].batch = b
      BY <1>0, <3>1, <3>2, <3>3, CopyMoves
    <3>5. runs[b].state = "succeeded" => Complete(b, runs[b].file)
      BY DEF IInv, SucceededRunIsComplete, Complete
    <3>6. PICK f \in Files : f = runs[b].file
      BY <3>1 DEF IInv, RunsHaveFiles
    <3>7. runs[b].state = "succeeded" => Complete(b, f)'
      BY <3>5, <3>6, CompleteStays
    <3> QED
      BY <3>4, <3>6, <3>7 DEF SavedIsComplete, Complete
  <2>6. CASE MarkRunning(x)
    <3>1. PICK run \in ImportRun :
            worker' = [worker EXCEPT ![x] = [@ EXCEPT !.pc = "read", !.run = run]]
      BY <2>6, MarkRunningMoves
    <3> QED
      BY <1>0, <1>1, <3>1, CopyMoves
  <2>7. CASE ReadRaw(x) /\ At(x, "record")
    BY <1>0, <1>1, <2>7, AtMoves
  <2>8. CASE SkipDuplicate(x) \/ Quarantine(x)
    <3>1. worker[x].pc = "record" /\ (Counted(x, "duplicates") \/ Counted(x, "quarantined"))
      BY <2>8 DEF SkipDuplicate, Quarantine
    <3> QED
      BY <1>0, <1>1, <3>1, CountedMoves
  <2>9. CASE CheckedValid(x)
    BY <1>0, <1>1, <2>9, AtMoves DEF CheckedValid
  <2>10. CASE InsertSnapshot(x)
    BY <1>0, <1>1, <2>10, InsertFacts, InsertMoves DEF InsertSnapshot
  <2>11. CASE Captured(x)
    <3>1. PICK run \in ImportRun :
            /\ run.state = "succeeded"
            /\ run.file = worker[x].run.file
            /\ worker' = [worker EXCEPT ![x] = [@ EXCEPT !.pc = "save", !.run = run]]
      BY <2>11, CapturedMoves
    <3>2. worker'[x].run = run /\ worker'[x].batch = worker[x].batch
      BY <1>0, <3>1, CopyMoves
    <3>3. worker[x].pc \in Loaded
      BY <2>11 DEF Captured, Loaded
    <3> QED
      BY <2>11, <3>1, <3>2, <3>3, CapturedIsComplete, SavedKept
  <2>12. CASE SaveSucceeded(x)
    <3>1. worker[x].pc = "save" /\ At(x, "publish") /\ worker[x].pc \in Loaded
      BY <2>12 DEF SaveSucceeded, Loaded
    <3>2. worker'[x].batch = worker[x].batch /\ worker'[x].run = worker[x].run
          /\ worker'[x].pc = "publish"
      BY <1>0, <3>1, AtMoves
    <3>3. Complete(worker[x].batch, worker[x].run.file)
      BY <1>0, <3>1 DEF SavedIsComplete
    <3> QED
      BY <3>1, <3>2, <3>3, SavedKept
  <2> QED
    BY <1>3, <2>1, <2>2, <2>3, <2>4, <2>5, <2>6, <2>7, <2>8, <2>9, <2>10, <2>11, <2>12,
       WorkerShapes
<1> QED
  BY <1>2, <1>3, OthersStay

-----------------------------------------------------------------------------
(* The other parts of the invariant                                        *)

LEMMA RequestsStep ==
    ASSUME IInv, [Next]_vars
    PROVE  RequestsAreNamed'
<1>0. TypeOK /\ RequestsAreNamed
  BY DEF IInv
<1>1. ASSUME NEW c \in Clients, NEW b \in Batches, NEW f \in Files, LookUp(c, b, f)
      PROVE  RequestsAreNamed'
  BY <1>0, <1>1 DEF LookUp, RequestsAreNamed, TypeOK
<1>2. ASSUME NEW c \in Clients, PutRaw(c) \/ SubmitJob(c)
      PROVE  RequestsAreNamed'
  <2>1. client[c].pc # "idle" /\ (ClientAt(c, "job") \/ ClientAt(c, "create"))
    BY <1>2 DEF PutRaw, SubmitJob
  <2> QED
    BY <1>0, <2>1, ClientMoves DEF RequestsAreNamed
<1>3. ASSUME NEW c \in Clients, CreateRun(c) \/ CreateConflict(c) \/ ClientCrash(c)
      PROVE  RequestsAreNamed'
  <2>1. client' = [client EXCEPT ![c] = ClientIdle]
    BY <1>3 DEF CreateRun, CreateConflict, ClientCrash
  <2> QED
    BY <1>0, <2>1 DEF RequestsAreNamed, TypeOK, ClientIdle
<1> QED
  BY <1>0, <1>1, <1>2, <1>3, WhoWrites DEF ClientStep, RequestsAreNamed

(* Every run that is saved is one that its batch may have.                 *)
LEMMA SavedRuns ==
    ASSUME IInv, [Next]_vars, NEW b \in Batches, runs'[b] # runs[b]
    PROVE  /\ runs'[b].file \in Files
           /\ runs'[b].counts \in RunCounts
           /\ Covered(b, runs'[b].counts)
           /\ runs'[b].state = "succeeded" => Complete(b, runs'[b].file)
<1>0. TypeOK
  BY DEF IInv
<1> DEFINE Good == /\ runs'[b].file \in Files
                   /\ runs'[b].counts \in RunCounts
                   /\ Covered(b, runs'[b].counts)
                   /\ runs'[b].state = "succeeded" => Complete(b, runs'[b].file)
<1>1. ASSUME NEW c \in Clients, CreateRun(c) PROVE Good
  <2>1. b = client[c].batch /\ runs'[b] = NewRun(client[c].file) /\ client[c].file \in Files
    BY <1>0, <1>1, ClientNamed DEF CreateRun, TypeOK
  <2>2. runs'[b].file \in Files /\ runs'[b].counts = NoCounts /\ runs'[b].state = "pending"
    BY <2>1 DEF NewRun
  <2>3. NoCounts.accepted = 0 /\ NoCounts.quarantined = 0 /\ NoCounts \in RunCounts
    BY RecordTypes DEF NoCounts
  <2>4. Cardinality(SnapshotsOf(b)) \in Nat /\ rejected[b] \in Nat
    BY SnapshotsOfGrow, RejectedGrows
  <2>5. Covered(b, NoCounts)
    BY <2>3, <2>4 DEF Covered
  <2> QED
    BY <2>2, <2>3, <2>5
<1>2. ASSUME NEW w \in Workers, NEW run \in ImportRun, worker[w].pc \in Loaded,
             SaveRun(w, run), run.file = worker[w].run.file,
             run.counts = worker[w].run.counts,
             run.state = "succeeded" => Complete(worker[w].batch, run.file)
      PROVE  Good
  <2>1. b = worker[w].batch /\ runs'[b] = run
    BY <1>0, <1>2 DEF SaveRun, TypeOK
  <2>2. run.file \in Files /\ Covered(b, run.counts) /\ run.counts \in RunCounts
    BY <1>2, <2>1, LoadedFacts DEF ImportRun
  <2> QED
    BY <1>2, <2>1, <2>2
<1>3. ASSUME NEW w \in Workers, MarkRunning(w) PROVE Good
  <2>1. PICK run \in ImportRun :
              /\ run.state = "running"
              /\ run.file = worker[w].run.file
              /\ run.counts = worker[w].run.counts
              /\ SaveRun(w, run)
    BY <1>3, MarkRunningMoves
  <2>2. worker[w].pc \in Loaded
    BY <1>3 DEF MarkRunning, Loaded
  <2> HIDE DEF Good
  <2> QED
    BY <1>2, <2>1, <2>2
<1>4. ASSUME NEW w \in Workers, SaveSucceeded(w) PROVE Good
  <2>1. worker[w].pc \in Loaded /\ worker[w].pc = "save" /\ SaveRun(w, worker[w].run)
    BY <1>4 DEF SaveSucceeded, Loaded
  <2>2. worker[w].run \in ImportRun
    BY <2>1, LoadedFacts
  <2>3. Complete(worker[w].batch, worker[w].run.file)
    BY <2>1 DEF IInv, AttemptsAreRight, SavedIsComplete
  <2> HIDE DEF Good
  <2> QED
    BY <1>2, <2>1, <2>2, <2>3
<1>5. ASSUME NEW w \in Workers, MarkFailed(w) PROVE Good
  <2>1. PICK run \in ImportRun :
          /\ run.state = "failed" /\ run.file = worker[w].run.file
          /\ run.counts = worker[w].run.counts /\ SaveRun(w, run)
    <3>1. worker[w].run \in ImportRun /\ "failed" \in RunStates /\ worker[w].run.counts \in RunCounts
      BY <1>0 DEF TypeOK, Attempt, RunStates, ImportRun
    <3> QED
      BY <1>5, <3>1, RunChanges DEF MarkFailed
  <2>2. worker[w].pc \in Loaded
    BY <1>5 DEF MarkFailed, Loaded
  <2> HIDE DEF Good
  <2> QED
    BY <1>2, <2>1, <2>2
<1> QED
  BY <1>1, <1>3, <1>4, <1>5, WhoWrites

LEMMA RunsStep ==
    ASSUME IInv, [Next]_vars
    PROVE  RunsHaveFiles' /\ SucceededRunIsComplete'
<1>0. TypeOK
  BY DEF IInv
<1>1. ASSUME NEW b \in Batches
      PROVE  /\ runs'[b].state # "absent" => runs'[b].file \in Files
             /\ Covered(b, runs[b].counts)' 
             /\ runs'[b].state = "succeeded" =>
                   /\ \A k \in ValidKeys(runs'[b].file) : snapshots'[k] # Nobody
                   /\ rejected'[b] >= Rejects(runs'[b].file)
  <2>1. /\ runs'[b].state # "absent" => runs'[b].file \in Files
        /\ runs'[b].counts \in RunCounts
        /\ Covered(b, runs'[b].counts)
        /\ runs'[b].state = "succeeded" => Complete(b, runs'[b].file)
    <3>1. CASE runs'[b] # runs[b]
      BY <3>1, SavedRuns
    <3>2. CASE runs'[b] = runs[b]
      BY <1>0, <3>2 DEF IInv, RunsHaveFiles, SucceededRunIsComplete, Complete, TypeOK, ImportRun
    <3> QED
      BY <3>1, <3>2
  <2>2. PICK counts \in RunCounts : counts = runs'[b].counts
    BY <2>1
  <2>3. Covered(b, counts)'
    BY <2>1, <2>2, CoveredStays
  <2>4. Covered(b, runs[b].counts)'
    BY <2>2, <2>3 DEF Covered
  <2>5. ASSUME runs'[b].state = "succeeded"
        PROVE  /\ \A k \in ValidKeys(runs'[b].file) : snapshots'[k] # Nobody
               /\ rejected'[b] >= Rejects(runs'[b].file)
    <3>1. PICK f \in Files : f = runs'[b].file
      BY <2>1, <2>5
    <3>2. Complete(b, f)'
      BY <2>1, <2>5, <3>1, CompleteStays
    <3> QED
      BY <3>1, <3>2 DEF Complete
  <2> QED
    BY <2>1, <2>4, <2>5
<1> QED
  BY <1>1 DEF RunsHaveFiles, SucceededRunIsComplete

LEMMA CapturedStep ==
    ASSUME IInv, [Next]_vars
    PROVE  CapturedAreValid'
<1>1. \A b \in Batches : IsFiniteSet(SnapshotsOf(b)')
  BY SnapshotsOfGrow
<1>2. ASSUME NEW k \in Keys, snapshots'[k] # Nobody PROVE k \in Valid
  <2>1. ASSUME NEW w \in Workers, InsertSnapshot(w) PROVE k \in Valid
    BY <1>2, <2>1, InsertFacts DEF IInv, TypeOK, CapturedAreValid
  <2> QED
    BY <1>2, <2>1, WhoWrites DEF IInv, CapturedAreValid
<1> QED
  BY <1>1, <1>2 DEF CapturedAreValid

LEMMA HandedOnStep ==
    ASSUME IInv, [Next]_vars
    PROVE  HandedOnExists' /\ NormalizeAfterCapture'
<1>1. ASSUME NEW b \in normalize'
      PROVE  /\ b \in Batches
             /\ runs[b].state # "absent"
             /\ \A k \in ValidKeys(runs[b].file) : snapshots[k] # Nobody
  <2>1. CASE b \in normalize
    BY <2>1 DEF IInv, HandedOnExists, NormalizeAfterCapture, TypeOK
  <2>2. CASE b \notin normalize
    <3>1. PICK w \in Workers : PublishNormalize(w)
      BY <1>1, <2>2, WhoWrites
    <3>2. /\ worker[w].pc = "publish" /\ worker[w].pc \in Loaded
          /\ b = worker[w].batch /\ worker[w].run.state = "succeeded"
      BY <1>1, <2>2, <3>1 DEF PublishNormalize, Loaded
    <3>3. Complete(worker[w].batch, worker[w].run.file)
      BY <3>2 DEF IInv, AttemptsAreRight, SavedIsComplete
    <3> QED
      BY <3>2, <3>3, LoadedFacts DEF Complete
  <2> QED
    BY <2>1, <2>2
<1>2. ASSUME NEW b \in normalize'
      PROVE  /\ runs'[b].state # "absent"
             /\ \A k \in ValidKeys(runs'[b].file) : snapshots'[k] # Nobody
  <2>1. b \in Batches /\ runs[b].state # "absent"
    BY <1>1, <1>2
  <2>2. runs'[b].state # "absent" /\ runs'[b].file = runs[b].file
    BY <2>1, RunsStay
  <2>3. ASSUME NEW k \in ValidKeys(runs[b].file) PROVE snapshots'[k] # Nobody
    <3>1. k \in Keys /\ snapshots[k] # Nobody
      BY <1>1, <1>2, <2>3, IngestionAssumption DEF ValidKeys
    <3> QED
      BY <3>1, SnapshotsStay
  <2> QED
    BY <2>2, <2>3
<1> QED
  BY <1>2 DEF HandedOnExists, NormalizeAfterCapture

-----------------------------------------------------------------------------
(* The invariant and the theorems                                          *)

LEMMA InitIInv == Init => IInv
<1> SUFFICES ASSUME Init PROVE IInv
  OBVIOUS
<1>1. TypeOK
  <2>1. MaxAttempts \in Nat
    BY IngestionAssumption
  <2>2. tries \in [Batches -> 0..MaxAttempts]
    BY <2>1 DEF Init, Job!Init
  <2> QED
    BY <2>2, RecordTypes DEF Init, Job!Init, TypeOK
<1>2. RequestsAreNamed
  BY DEF Init, RequestsAreNamed, ClientIdle
<1>3. \A b \in Batches : SnapshotsOf(b) = {}
  BY IngestionAssumption DEF Init, SnapshotsOf
<1>4. CapturedAreValid
  BY <1>3, FS_EmptySet DEF Init, CapturedAreValid
<1>5. RunsHaveFiles
  <2>1. ASSUME NEW b \in Batches PROVE runs[b].state = "absent" /\ Covered(b, runs[b].counts)
    <3>1. runs[b] = NoRun /\ rejected[b] = 0
      BY DEF Init
    <3>2. Cardinality(SnapshotsOf(b)) = 0
      BY <1>3, FS_EmptySet
    <3> QED
      BY <3>1, <3>2 DEF NoRun, NoCounts, Covered
  <2> QED
    BY <2>1 DEF RunsHaveFiles
<1>6. AttemptsAreRight
  <2>1. \A w \in Workers : worker[w].pc = "idle"
    BY DEF Init, WorkerIdle
  <2> QED
    BY <2>1 DEF AttemptsAreRight, CopyAgrees, Fresh, Progress, SavedIsComplete, Loaded
<1>7. SucceededRunIsComplete
  BY DEF Init, SucceededRunIsComplete, NoRun
<1>8. HandedOnExists /\ NormalizeAfterCapture
  BY DEF Init, HandedOnExists, NormalizeAfterCapture
<1> QED
  BY <1>1, <1>2, <1>4, <1>5, <1>6, <1>7, <1>8 DEF IInv

LEMMA IInvStep == IInv /\ [Next]_vars => IInv'
<1> SUFFICES ASSUME IInv, [Next]_vars PROVE IInv'
  OBVIOUS
<1>1. AttemptsAreRight'
  BY CopyStep, FreshStep, ProgressStep, SavedStep DEF AttemptsAreRight
<1> QED
  BY <1>1, TypeStep, RequestsStep, RunsStep, CapturedStep, HandedOnStep DEF IInv

LEMMA IInvInvariant == Spec => []IInv
BY InitIInv, IInvStep, PTL DEF Spec

(* Every table, request and attempt keeps its type: in particular an       *)
(* attempt never runs past the items of its file into a count or a key     *)
(* that does not exist, and the job never has more attempts than it may.   *)
THEOREM IngestionTypes == Spec => []TypeOK
BY IInvInvariant, PTL DEF IInv

(* A run marked succeeded by BronzeImportService.process lost no record,   *)
(* whatever attempts crashed, overlapped or conflicted before: the valid   *)
(* records are snapshots, the others have their quarantine rows.           *)
THEOREM SucceededRunIsCompleteInvariant == Spec => []SucceededRunIsComplete
BY IInvInvariant, PTL DEF IInv

(* No run's accepted and quarantined counters exceed the rows committed    *)
(* for it, also when a late attempt saves over the run of a newer one.     *)
THEOREM NeverOvercountsInvariant == Spec => []NeverOvercounts
<1>1. IInv => NeverOvercounts
  BY DEF IInv, RunsHaveFiles, Covered, NeverOvercounts
<1> QED
  BY <1>1, IInvInvariant, PTL

(* A run is handed on to normalisation only when every valid record of its *)
(* file is a snapshot, and stays so.                                       *)
THEOREM NormalizeAfterCaptureInvariant == Spec => []NormalizeAfterCapture
BY IInvInvariant, PTL DEF IInv

=============================================================================
