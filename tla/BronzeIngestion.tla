-------------------------- MODULE BronzeIngestion ---------------------------
(***************************************************************************)
(* Bronze ingestion: an operator submits a batch file, a durable job       *)
(* captures its records as raw snapshots or quarantine rows, and a         *)
(* succeeded run is handed on to normalisation.                            *)
(*                                                                         *)
(* Every repository method owns its session and commits on its own, so the *)
(* steps below are single commits.  The job itself is JobLifecycle: one    *)
(* attempt at a time, but an attempt whose lease ended keeps executing     *)
(* next to the one that replaced it.                                       *)
(*                                                                         *)
(* All batches belong to one source.  A record is its snapshot key,        *)
(* (external_id, content_sha256).                                          *)
(***************************************************************************)
EXTENDS Integers, Sequences, FiniteSets

CONSTANTS
    Batches,      \* batch_key values of the source
    Files,        \* uploads, by content
    Malformed,    \* uploads of another version, format, encoding or size
    MaxRecords,   \* max_records of the import contract
    Records,      \* the parsed records of each file, as snapshot keys
    ParseErrors,  \* number of records of each file that do not parse
    Valid,        \* the keys whose payload satisfies the import contract
    Clients,      \* operators calling submit
    Workers,      \* job workers
    Nobody,       \* no file, run or worker
    MaxAttempts   \* attempts of the import job

Keys == UNION {{Records[f][i] : i \in 1..Len(Records[f])} : f \in Files}

ASSUME IngestionAssumption ==
    /\ \A f \in Files : Records[f] \in Seq(Keys) /\ ParseErrors[f] \in Nat
    /\ Valid \subseteq Keys
    /\ Malformed \subseteq Files /\ MaxRecords \in Nat
    /\ MaxAttempts \in Nat \ {0}
    /\ Nobody \notin Batches \cup Files \cup Workers

VARIABLES
    phase,      \* the import job of each batch, as its caller sees it
    tries,      \* attempts of it started
    holder,     \* the worker whose attempt is the current one
    runs,       \* import_runs, one row per (source_id, batch_key)
    snapshots,  \* raw_listing_snapshots: the run that captured each key
    rejected,   \* quarantine_records: number of rows of each run
    objects,    \* raw files in the object store, by content
    normalize,  \* runs for which a normalisation job was submitted
    client,     \* what each operator's request is about to do
    worker      \* where each worker's process() is

jobVars == <<phase, tries, holder>>
vars == <<phase, tries, holder, runs, snapshots, rejected, objects, normalize,
          client, worker>>

Job == INSTANCE JobLifecycle WITH Jobs <- Batches

-----------------------------------------------------------------------------
(* Rows and process state                                                  *)

Total(f) == Len(Records[f]) + ParseErrors[f]
Invalid(f) == {i \in 1..Len(Records[f]) : Records[f][i] \notin Valid}
Rejects(f) == Cardinality(Invalid(f)) + ParseErrors[f]
ValidKeys(f) == {Records[f][i] : i \in 1..Len(Records[f])} \cap Valid

RunStates == {"absent", "pending", "running", "succeeded", "failed"}
TerminalRun == {"succeeded", "failed"}

NoCounts == [accepted |-> 0, quarantined |-> 0, duplicates |-> 0]
NoRun == [state |-> "absent", file |-> Nobody, counts |-> NoCounts]
NewRun(f) == [state |-> "pending", file |-> f, counts |-> NoCounts]

ClientIdle == [pc |-> "idle", batch |-> Nobody, file |-> Nobody]

WorkerIdle ==
    [pc |-> "idle", batch |-> Nobody, run |-> NoRun, next |-> 1, seen |-> {},
     counts |-> NoCounts, outcome |-> "none"]

RunCounts == [accepted : Nat, quarantined : Nat, duplicates : Nat]
ImportRun == [state : RunStates, file : Files \cup {Nobody}, counts : RunCounts]

SubmitCall ==
    [pc : {"idle", "put", "job", "create"},
     batch : Batches \cup {Nobody}, file : Files \cup {Nobody}]

Attempt ==
    [pc : {"idle", "load", "mark", "read", "record", "insert", "save", "fail",
           "publish", "report"},
     batch : Batches \cup {Nobody}, run : ImportRun, next : Nat \ {0},
     seen : SUBSET Keys, counts : RunCounts,
     outcome : {"none", "succeeded", "transient", "permanent"}]

TypeOK ==
    /\ phase \in [Batches -> {"absent", "waiting", "running", "succeeded", "failed"}]
    /\ tries \in [Batches -> 0..MaxAttempts]
    /\ holder \in [Batches -> Workers \cup {Nobody}]
    /\ runs \in [Batches -> ImportRun]
    /\ snapshots \in [Keys -> Batches \cup {Nobody}]
    /\ rejected \in [Batches -> Nat]
    /\ objects \subseteq Files
    /\ normalize \subseteq Batches
    /\ client \in [Clients -> SubmitCall]
    /\ worker \in [Workers -> Attempt]

Init ==
    /\ Job!Init
    /\ holder = [b \in Batches |-> Nobody]
    /\ runs = [b \in Batches |-> NoRun]
    /\ snapshots = [k \in Keys |-> Nobody]
    /\ rejected = [b \in Batches |-> 0]
    /\ objects = {}
    /\ normalize = {}
    /\ client = [c \in Clients |-> ClientIdle]
    /\ worker = [w \in Workers |-> WorkerIdle]

-----------------------------------------------------------------------------
(* submit                                                                  *)

ClientAt(c, pc) == client' = [client EXCEPT ![c].pc = pc]

(* A file that breaks the contract as a whole is rejected before anything  *)
(* is stored.                                                              *)
CheckFile(f) == f \notin Malformed /\ Total(f) <= MaxRecords

(* No run of the identity yet.  When there is one, submit returns it and   *)
(* nothing happens.                                                        *)
LookUp(c, b, f) ==
    /\ client[c].pc = "idle"
    /\ runs[b].state = "absent"
    /\ CheckFile(f)
    /\ client' = [client EXCEPT ![c] = [pc |-> "put", batch |-> b, file |-> f]]
    /\ UNCHANGED <<jobVars, runs, snapshots, rejected, objects, normalize, worker>>

(* put_if_absent under the content's own key.                              *)
PutRaw(c) ==
    /\ client[c].pc = "put"
    /\ objects' = objects \cup {client[c].file}
    /\ ClientAt(c, "job")
    /\ UNCHANGED <<jobVars, runs, snapshots, rejected, normalize, worker>>

(* job_runtime.submit commits by itself, before the run exists.  A second  *)
(* submission of the identity gets the execution that is there.            *)
SubmitJob(c) ==
    LET b == client[c].batch IN
    /\ client[c].pc = "job"
    /\ IF phase[b] = "absent" THEN Job!Accept(b) ELSE UNCHANGED <<phase, tries>>
    /\ ClientAt(c, "create")
    /\ UNCHANGED <<holder, runs, snapshots, rejected, objects, normalize, worker>>

CreateRun(c) ==
    LET b == client[c].batch IN
    /\ client[c].pc = "create"
    /\ runs[b].state = "absent"
    /\ runs' = [runs EXCEPT ![b] = NewRun(client[c].file)]
    /\ client' = [client EXCEPT ![c] = ClientIdle]
    /\ UNCHANGED <<jobVars, snapshots, rejected, objects, normalize, worker>>

(* uq_import_runs_source_batch: the other of two racing requests fails.    *)
CreateConflict(c) ==
    /\ client[c].pc = "create"
    /\ runs[client[c].batch].state # "absent"
    /\ client' = [client EXCEPT ![c] = ClientIdle]
    /\ UNCHANGED <<jobVars, runs, snapshots, rejected, objects, normalize, worker>>

(* The API process dies, or a call of submit raises.                       *)
ClientCrash(c) ==
    /\ client[c].pc # "idle"
    /\ client' = [client EXCEPT ![c] = ClientIdle]
    /\ UNCHANGED <<jobVars, runs, snapshots, rejected, objects, normalize, worker>>

-----------------------------------------------------------------------------
(* The handler: process(execution_id)                                      *)

At(w, pc) == worker' = [worker EXCEPT ![w].pc = pc]
Reporting(w, outcome) ==
    worker' = [worker EXCEPT ![w].pc = "report", ![w].outcome = outcome]

(* The job runtime starts an attempt.                                      *)
Begin(w, b) ==
    /\ worker[w].pc = "idle"
    /\ Job!Start(b)
    /\ holder' = [holder EXCEPT ![b] = w]
    /\ worker' = [worker EXCEPT ![w] = [WorkerIdle EXCEPT !.pc = "load", !.batch = b]]
    /\ UNCHANGED <<runs, snapshots, rejected, objects, normalize, client>>

(* find_by_job_execution: not linked yet, already terminal, or to be done. *)
Load(w) ==
    LET run == runs[worker[w].batch] IN
    /\ worker[w].pc = "load"
    /\ \/ run.state = "absent" /\ Reporting(w, "transient")
       \/ /\ run.state # "absent"
          /\ worker' = [worker EXCEPT
                 ![w].run = run,
                 ![w].pc = IF run.state \in TerminalRun THEN "publish" ELSE "mark"]
    /\ UNCHANGED <<jobVars, runs, snapshots, rejected, objects, normalize, client>>

(* runs.save writes every column from the copy loaded before.              *)
SaveRun(w, run) == runs' = [runs EXCEPT ![worker[w].batch] = run]

MarkRunning(w) ==
    LET run == [worker[w].run EXCEPT !.state = "running"] IN
    /\ worker[w].pc = "mark"
    /\ SaveRun(w, run)
    /\ worker' = [worker EXCEPT ![w].pc = "read", ![w].run = run]
    /\ UNCHANGED <<jobVars, snapshots, rejected, objects, normalize, client>>

(* stat and open of the raw object; without it the attempt is retried.     *)
ReadRaw(w) ==
    /\ worker[w].pc = "read"
    /\ \/ worker[w].run.file \in objects /\ At(w, "record")
       \/ Reporting(w, "transient")
    /\ UNCHANGED <<jobVars, runs, snapshots, rejected, objects, normalize, client>>

(* The records first, then the ones that did not parse.                    *)
IsParseError(w) == worker[w].next > Len(Records[worker[w].run.file])
Key(w) == Records[worker[w].run.file][worker[w].next]
(* Mutant: the last item is left out.                                      *)
AllButLast(w) == worker[w].next < Total(worker[w].run.file)

MoreItems(w) == worker[w].next <= Total(worker[w].run.file)

Counted(w, field) ==
    worker' = [worker EXCEPT ![w].counts[field] = @ + 1, ![w].next = @ + 1]

(* Seen in this attempt, or captured before by any run of the source.      *)
KnownKey(w) == Key(w) \in worker[w].seen \/ snapshots[Key(w)] # Nobody

SkipDuplicate(w) ==
    /\ worker[w].pc = "record"
    /\ MoreItems(w) /\ ~IsParseError(w)
    /\ KnownKey(w)
    /\ Counted(w, "duplicates")
    /\ UNCHANGED <<jobVars, runs, snapshots, rejected, objects, normalize, client>>

Rejectable(w) ==
    IF IsParseError(w) THEN TRUE ELSE ~KnownKey(w) /\ Key(w) \notin Valid

Quarantined(b) == [rejected EXCEPT ![b] = @ + 1]

(* A rejected record gets a row of its own, in a commit of its own; it is  *)
(* not remembered in seen.                                                 *)
Quarantine(w) ==
    /\ worker[w].pc = "record"
    /\ MoreItems(w)
    /\ Rejectable(w)
    /\ rejected' = Quarantined(worker[w].batch)
    /\ Counted(w, "quarantined")
    /\ UNCHANGED <<jobVars, runs, snapshots, objects, normalize, client>>

(* exists answered no and the record is valid: insert is the next commit.  *)
CheckedValid(w) ==
    /\ worker[w].pc = "record"
    /\ MoreItems(w) /\ ~IsParseError(w)
    /\ ~KnownKey(w)
    /\ Key(w) \in Valid
    /\ At(w, "insert")
    /\ UNCHANGED <<jobVars, runs, snapshots, rejected, objects, normalize, client>>

InsertSnapshot(w) ==
    /\ worker[w].pc = "insert"
    /\ snapshots[Key(w)] = Nobody
    /\ snapshots' = [snapshots EXCEPT ![Key(w)] = worker[w].batch]
    /\ worker' = [worker EXCEPT
           ![w].pc = "record", ![w].counts.accepted = @ + 1,
           ![w].seen = @ \cup {Key(w)}, ![w].next = @ + 1]
    /\ UNCHANGED <<jobVars, runs, rejected, objects, normalize, client>>

(* Mutant: the conflict is ignored and the record counted as accepted.     *)
InsertIgnored(w) ==
    /\ worker[w].pc = "insert"
    /\ snapshots[Key(w)] # Nobody
    /\ worker' = [worker EXCEPT
           ![w].pc = "record", ![w].counts.accepted = @ + 1,
           ![w].seen = @ \cup {Key(w)}, ![w].next = @ + 1]
    /\ UNCHANGED <<jobVars, runs, snapshots, rejected, objects, normalize, client>>

(* Captured by another attempt since exists was asked: IntegrityError.     *)
InsertConflict(w) ==
    /\ worker[w].pc = "insert"
    /\ snapshots[Key(w)] # Nobody
    /\ At(w, "fail")
    /\ UNCHANGED <<jobVars, runs, snapshots, rejected, objects, normalize, client>>

Captured(w) ==
    LET run == [worker[w].run EXCEPT !.state = "succeeded", !.counts = worker[w].counts] IN
    /\ worker[w].pc = "record"
    /\ ~MoreItems(w)
    /\ worker' = [worker EXCEPT ![w].pc = "save", ![w].run = run]
    /\ UNCHANGED <<jobVars, runs, snapshots, rejected, objects, normalize, client>>

SaveSucceeded(w) ==
    /\ worker[w].pc = "save"
    /\ SaveRun(w, worker[w].run)
    /\ At(w, "publish")
    /\ UNCHANGED <<jobVars, snapshots, rejected, objects, normalize, client>>

(* Any other exception while capturing: a broken object, a lost database   *)
(* connection, a stale version on save.                                    *)
CaptureError(w) ==
    /\ worker[w].pc \in {"read", "record", "insert", "save"}
    /\ At(w, "fail")
    /\ UNCHANGED <<jobVars, runs, snapshots, rejected, objects, normalize, client>>

(* _fail                                                                   *)
MarkFailed(w) ==
    /\ worker[w].pc = "fail"
    /\ SaveRun(w, [worker[w].run EXCEPT !.state = "failed"])
    /\ Reporting(w, "permanent")
    /\ UNCHANGED <<jobVars, snapshots, rejected, objects, normalize, client>>

(* Mutant: normalisation is published whatever became of the run.          *)
PublishAlways(w) ==
    /\ worker[w].pc = "publish"
    /\ normalize' = normalize \cup {worker[w].batch}
    /\ Reporting(w, "succeeded")
    /\ UNCHANGED <<jobVars, runs, snapshots, rejected, objects, client>>

(* A run returned as succeeded is handed on; a failed one is not, and the  *)
(* attempt ends well either way.                                           *)
PublishNormalize(w) ==
    /\ worker[w].pc = "publish"
    /\ normalize' = IF worker[w].run.state = "succeeded"
                    THEN normalize \cup {worker[w].batch} ELSE normalize
    /\ Reporting(w, "succeeded")
    /\ UNCHANGED <<jobVars, runs, snapshots, rejected, objects, client>>

(* An exception outside the try of process, or in the publisher, is an     *)
(* unclassified failure of the job.                                        *)
HandlerError(w) ==
    /\ worker[w].pc \in {"load", "mark", "fail", "publish"}
    /\ Reporting(w, "permanent")
    /\ UNCHANGED <<jobVars, runs, snapshots, rejected, objects, normalize, client>>

-----------------------------------------------------------------------------
(* The job runtime around the handler                                      *)

EndJob(b, state) == Job!Finish(b) /\ phase'[b] = state

(* The outcome counts only while the attempt is the current one.           *)
Report(w) ==
    LET b == worker[w].batch IN
    /\ worker[w].pc = "report"
    /\ holder[b] = w
    /\ \/ worker[w].outcome = "succeeded" /\ EndJob(b, "succeeded")
       \/ worker[w].outcome = "permanent" /\ EndJob(b, "failed")
       \/ worker[w].outcome = "transient" /\ tries[b] = MaxAttempts /\ EndJob(b, "failed")
       \/ worker[w].outcome = "transient" /\ Job!Retry(b)
    /\ holder' = [holder EXCEPT ![b] = Nobody]
    /\ worker' = [worker EXCEPT ![w] = WorkerIdle]
    /\ UNCHANGED <<runs, snapshots, rejected, objects, normalize, client>>

ReportLate(w) ==
    /\ worker[w].pc = "report"
    /\ holder[worker[w].batch] # w
    /\ worker' = [worker EXCEPT ![w] = WorkerIdle]
    /\ UNCHANGED <<jobVars, runs, snapshots, rejected, objects, normalize, client>>

(* The lease ends and the reaper takes the job back.  The worker, if it is *)
(* alive, goes on.                                                         *)
LeaseEnds(b) ==
    /\ Job!Interrupt({b})
    /\ holder' = [holder EXCEPT ![b] = Nobody]
    /\ UNCHANGED <<runs, snapshots, rejected, objects, normalize, client, worker>>

WorkerCrash(w) ==
    /\ worker[w].pc # "idle"
    /\ worker' = [worker EXCEPT ![w] = WorkerIdle]
    /\ UNCHANGED <<jobVars, runs, snapshots, rejected, objects, normalize, client>>

-----------------------------------------------------------------------------
(* Specification                                                           *)

ClientStep(c) ==
    \/ \E b \in Batches, f \in Files : LookUp(c, b, f)
    \/ PutRaw(c) \/ SubmitJob(c) \/ CreateRun(c) \/ CreateConflict(c)

WorkerStep(w) ==
    \/ \E b \in Batches : Begin(w, b)
    \/ Load(w) \/ MarkRunning(w) \/ ReadRaw(w)
    \/ SkipDuplicate(w) \/ Quarantine(w) \/ CheckedValid(w)
    \/ InsertSnapshot(w) \/ InsertConflict(w)
    \/ Captured(w) \/ SaveSucceeded(w) \/ CaptureError(w) \/ MarkFailed(w)
    \/ PublishNormalize(w) \/ HandlerError(w)
    \/ Report(w) \/ ReportLate(w)

Next ==
    \/ \E c \in Clients : ClientStep(c) \/ ClientCrash(c)
    \/ \E w \in Workers : WorkerStep(w) \/ WorkerCrash(w)
    \/ \E b \in Batches : phase[b] = "running" /\ LeaseEnds(b)

Spec == Init /\ [][Next]_vars

-----------------------------------------------------------------------------
(* Safety                                                                  *)

(* A run that says succeeded lost no record, whatever attempts crashed or  *)
(* overlapped before: every valid record of its file is a snapshot of the  *)
(* source, every other one has a quarantine row of the run.                *)
SucceededRunIsComplete ==
    \A b \in Batches : runs[b].state = "succeeded" =>
        /\ \A k \in ValidKeys(runs[b].file) : snapshots[k] # Nobody
        /\ rejected[b] >= Rejects(runs[b].file)

SnapshotsOf(b) == {k \in Keys : snapshots[k] = b}

(* The counters of a run never claim more than the rows that were          *)
(* committed for it.                                                       *)
NeverOvercounts ==
    \A b \in Batches :
        /\ runs[b].counts.accepted <= Cardinality(SnapshotsOf(b))
        /\ runs[b].counts.quarantined <= rejected[b]

(* Normalisation is asked for only after the whole file was captured.      *)
NormalizeAfterCapture ==
    \A b \in normalize :
        \A k \in ValidKeys(runs[b].file) : snapshots[k] # Nobody

=============================================================================
