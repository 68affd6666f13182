-------------------------- MODULE VersionedObjects --------------------------
(***************************************************************************)
(* Immutable object versions: pending metadata is committed, the bytes are *)
(* written to the provider and verified, and the metadata made available.  *)
(* Writers and a reconciler work on the same versions, in several          *)
(* processes, and may die between any two steps.                           *)
(*                                                                         *)
(* Every repository call is a transaction of its own, as the storage       *)
(* contract asks of callers: the repository flushes on the session it is   *)
(* given.  Bytes and metadata never change together.  The adapter is the filesystem, whose bytes and  *)
(* sidecar with digest, size and type are two files, or S3, with or        *)
(* without conditional creation.  A content stands for bytes with their    *)
(* digest, size and type; a body that does not match its declaration is    *)
(* refused before anything is stored and is left out.  A key may already   *)
(* hold bytes when its version is first put: metadata restored from an     *)
(* older backup than the bucket.                                           *)
(***************************************************************************)
EXTENDS Integers

CONSTANTS
    Versions,   \* object versions, one storage key each
    Contents,   \* what may be put
    Writers,    \* calls of put
    Process,    \* the process of each writer: the publish lock is per process
    Nothing,    \* no bytes, no content
    MaxPasses   \* bound on passes of reconcile_pending

ASSUME ObjectAssumption ==
    Nothing \notin Contents /\ DOMAIN Process = Writers /\ MaxPasses \in Nat

VARIABLES
    adapter,  \* "filesystem", "s3", or "s3_plain" without conditional puts
    row,      \* stored_object_versions
    bytes,    \* what the provider holds under each key
    sidecar,  \* filesystem: whether the .meta.json beside the bytes is there
    writer,   \* where each put is
    sweep,    \* where reconcile_pending is
    passes    \* passes begun

vars == <<adapter, row, bytes, sidecar, writer, sweep, passes>>

-----------------------------------------------------------------------------
(* Rows and calls                                                          *)

NoRow == [state |-> "absent", content |-> Nothing, old |-> FALSE]
NewPut == [pc |-> "idle", version |-> Nothing, content |-> Nothing]
NoSweep == [pc |-> "idle", left |-> {}, aged |-> FALSE, version |-> Nothing,
            verdict |-> "valid"]

ObjectVersion ==
    [state : {"absent", "pending", "available", "failed"},
     content : Contents \cup {Nothing}, old : BOOLEAN]
PutCall ==
    [pc : {"idle", "create", "write", "overwrite", "sidecar", "stat", "settle", "fail",
           "update_available", "update_failed", "returned", "raised"},
     version : Versions \cup {Nothing}, content : Contents \cup {Nothing}]
Sweep ==
    [pc : {"idle", "next", "settle", "update_available", "update_failed"}, left : SUBSET Versions, aged : BOOLEAN,
     version : Versions \cup {Nothing},
     verdict : {"missing", "unreadable", "invalid", "other", "valid"}]

TypeOK ==
    /\ adapter \in {"filesystem", "s3", "s3_plain"}
    /\ row \in [Versions -> ObjectVersion]
    /\ bytes \in [Versions -> Contents \cup {Nothing}]
    /\ sidecar \in [Versions -> BOOLEAN]
    /\ writer \in [Writers -> PutCall]
    /\ sweep \in Sweep
    /\ passes \in 0..MaxPasses

Init ==
    /\ adapter \in {"filesystem", "s3", "s3_plain"}
    /\ row = [v \in Versions |-> NoRow]
    /\ bytes \in [Versions -> Contents \cup {Nothing}]
    /\ sidecar = [v \in Versions |-> adapter = "filesystem" /\ bytes[v] # Nothing]
    /\ writer = [w \in Writers |-> NewPut]
    /\ sweep = NoSweep
    /\ passes = 0

-----------------------------------------------------------------------------
(* The provider                                                            *)

(* Digest, size and type are known: S3 keeps them with the object.         *)
Described(v) == adapter = "filesystem" => sidecar[v]

InfoMatches(v, c) == bytes[v] = c

(* What verifying a key for a content finds.                               *)
Verdict(v, c) ==
    CASE bytes[v] = Nothing -> "missing"
      [] bytes[v] # Nothing /\ ~Described(v) -> "invalid"
      [] bytes[v] # Nothing /\ Described(v) /\ ~InfoMatches(v, c) -> "other"
      [] Described(v) /\ InfoMatches(v, c) -> "valid"

Goto(w, pc) == writer' = [writer EXCEPT ![w].pc = pc]

-----------------------------------------------------------------------------
(* put                                                                     *)

MetadataMatches(v, c) == row[v].content = c

(* The early read of the version: a conflict and a failed version raise,   *)
(* an available one is returned, a pending one is written again.           *)
ReadExisting(w) ==
    /\ writer[w].pc = "idle"
    /\ \E v \in Versions, c \in Contents :
         writer' = [writer EXCEPT ![w] =
           [version |-> v, content |-> c,
            pc |-> CASE row[v].state = "absent" -> "create"
                     [] row[v].state # "absent" /\ ~MetadataMatches(v, c) -> "raised"
                     [] row[v].state = "available" /\ MetadataMatches(v, c) -> "returned"
                     [] row[v].state = "failed" /\ MetadataMatches(v, c) -> "raised"
                     [] row[v].state = "pending" /\ MetadataMatches(v, c) -> "create"]]
    /\ UNCHANGED <<adapter, row, bytes, sidecar, sweep, passes>>

(* Mutant: an existing row is returned without comparing its content. *)
CreateUncompared(w) ==
    LET v == writer[w].version  c == writer[w].content IN
    /\ writer[w].pc = "create"
    /\ row' = IF row[v].state = "absent"
              THEN [row EXCEPT ![v] = [state |-> "pending", content |-> c, old |-> FALSE]]
              ELSE row
    /\ Goto(w, "write")
    /\ UNCHANGED <<adapter, bytes, sidecar, sweep, passes>>

(* create_pending: inserts the row, returns a matching one whatever its    *)
(* state has become, or raises.  The loser of two inserts meets the        *)
(* primary key and raises too.                                             *)
CreatePending(w) ==
    LET v == writer[w].version  c == writer[w].content IN
    /\ writer[w].pc = "create"
    /\ \/ /\ row[v].state = "absent"
          /\ row' = [row EXCEPT ![v] = [state |-> "pending", content |-> c, old |-> FALSE]]
          /\ Goto(w, "write")
       \/ /\ row[v].state # "absent"
          /\ UNCHANGED row
          /\ \/ MetadataMatches(v, c) /\ Goto(w, "write")
             \/ Goto(w, "raised")
    /\ UNCHANGED <<adapter, bytes, sidecar, sweep, passes>>

(* put_if_absent where the key holds something: the same content is left   *)
(* alone, another is a conflict, which leaves the row as it is.            *)
KeyTaken(w) ==
    LET found == Verdict(writer[w].version, writer[w].content) IN
    /\ found # "missing"
    /\ Goto(w, CASE found = "valid" -> "stat"
                 [] found = "other" -> "raised"
                 [] found = "invalid" -> "fail")
    /\ UNCHANGED <<bytes, sidecar>>

(* Threads of a process publish one at a time.                             *)
PublishLockFree(w) ==
    \A x \in Writers : writer[x].pc = "sidecar" => Process[x] # Process[w]

(* The finished file is linked to its name, which fails if the name        *)
(* exists.  Where links are refused it is copied: until the sidecar is     *)
(* there a part of it is worth as much as all of it.                       *)
PublishExclusive(v, c) ==
    /\ bytes[v] = Nothing
    /\ bytes' = [bytes EXCEPT ![v] = c]

PublishFile(w) ==
    /\ writer[w].pc = "write" /\ adapter = "filesystem" /\ PublishLockFree(w)
    /\ \/ /\ PublishExclusive(writer[w].version, writer[w].content)
          /\ Goto(w, "sidecar")
          /\ UNCHANGED sidecar
       \/ KeyTaken(w)
    /\ UNCHANGED <<adapter, row, sweep, passes>>

PublishMetadata(w) ==
    /\ writer[w].pc = "sidecar"
    /\ sidecar' = [sidecar EXCEPT ![writer[w].version] = TRUE]
    /\ Goto(w, "stat")
    /\ UNCHANGED <<adapter, row, bytes, sweep, passes>>

(* S3: If-None-Match decides; without it head decides and a second put     *)
(* follows, which replaces what came in between.                           *)
PutObject(w) ==
    /\ writer[w].pc = "write" /\ adapter # "filesystem"
    /\ \/ KeyTaken(w)
       \/ /\ adapter = "s3" /\ bytes[writer[w].version] = Nothing
          /\ bytes' = [bytes EXCEPT ![writer[w].version] = writer[w].content]
          /\ Goto(w, "stat")
          /\ UNCHANGED sidecar
       \/ /\ adapter = "s3_plain" /\ bytes[writer[w].version] = Nothing
          /\ Goto(w, "overwrite")
          /\ UNCHANGED <<bytes, sidecar>>
    /\ UNCHANGED <<adapter, row, sweep, passes>>

OverwriteObject(w) ==
    /\ writer[w].pc = "overwrite"
    /\ bytes' = [bytes EXCEPT ![writer[w].version] = writer[w].content]
    /\ Goto(w, "stat")
    /\ UNCHANGED <<adapter, row, sidecar, sweep, passes>>

(* The provider or the disk fails before or after the step took effect.    *)
ProviderFails(w) ==
    /\ writer[w].pc \in {"write", "overwrite", "sidecar", "stat"}
    /\ Goto(w, "fail")
    /\ UNCHANGED <<adapter, row, bytes, sidecar, sweep, passes>>

StatWritten(w) ==
    /\ writer[w].pc = "stat"
    /\ Goto(w, IF Verdict(writer[w].version, writer[w].content) = "valid"
               THEN "settle" ELSE "fail")
    /\ UNCHANGED <<adapter, row, bytes, sidecar, sweep, passes>>

(* mark_available and mark_failed read the row without locking it and then *)
(* update it by id, whatever it has become in between.                     *)
ReadToSettle(w) ==
    LET v == writer[w].version IN
    /\ writer[w].pc = "settle"
    /\ Goto(w, CASE row[v].state = "available" -> "returned"
                 [] row[v].state = "pending" -> "update_available"
                 [] row[v].state \notin {"available", "pending"} -> "raised")
    /\ UNCHANGED <<adapter, row, bytes, sidecar, sweep, passes>>

(* An update of a row read failed leaves its state out.                    *)
ReadToFail(w) ==
    /\ writer[w].pc = "fail"
    /\ Goto(w, IF row[writer[w].version].state = "pending" THEN "update_failed" ELSE "raised")
    /\ UNCHANGED <<adapter, row, bytes, sidecar, sweep, passes>>

(* Mutant: no constraint ties available_at to the state. *)
MarkFailedAlways(v) == row' = [row EXCEPT ![v].state = "failed"]

(* The constraint on available_at refuses to make an available row failed. *)
MarkFailed(v) ==
    row' = [row EXCEPT ![v].state = IF @ = "available" THEN @ ELSE "failed"]

(* put raises the provider's error, or the refusal.                        *)
PutFails(w) ==
    /\ writer[w].pc = "update_failed"
    /\ MarkFailed(writer[w].version)
    /\ Goto(w, "raised")
    /\ UNCHANGED <<adapter, bytes, sidecar, sweep, passes>>

(* A row read pending that has failed since becomes available.             *)
MarkAvailable(v) == row' = [row EXCEPT ![v].state = "available"]

PutSucceeds(w) ==
    /\ writer[w].pc = "update_available"
    /\ MarkAvailable(writer[w].version)
    /\ Goto(w, "returned")
    /\ UNCHANGED <<adapter, bytes, sidecar, sweep, passes>>

-----------------------------------------------------------------------------
(* reconcile_pending                                                       *)

(* With max_age only older rows are visited.                               *)
BeginPass ==
    /\ sweep.pc = "idle" /\ passes < MaxPasses
    /\ passes' = passes + 1
    /\ \E aged \in BOOLEAN :
         sweep' = [NoSweep EXCEPT !.pc = "next", !.aged = aged,
           !.left = {v \in Versions : row[v].state = "pending" /\ (aged => row[v].old)}]
    /\ UNCHANGED <<adapter, row, bytes, sidecar, writer>>

(* The provider is read; a row settled meanwhile is visited all the same.  *)
(* A provider that cannot be read counts as a conflict.                    *)
StatPending ==
    /\ sweep.pc = "next" /\ sweep.left # {}
    /\ \E v \in sweep.left : \E verdict \in {Verdict(v, row[v].content), "unreadable"} :
         sweep' = [sweep EXCEPT !.pc = "settle", !.version = v,
                                !.left = @ \ {v}, !.verdict = verdict]
    /\ UNCHANGED <<adapter, row, bytes, sidecar, writer, passes>>

(* Mutant: the reconciler completes whatever bytes it can read. *)
SettleUnverified ==
    /\ sweep.pc = "settle"
    /\ sweep' = [sweep EXCEPT !.pc =
         CASE sweep.verdict \in {"valid", "other"} -> "update_available"
           [] sweep.verdict \in {"unreadable", "invalid"} -> "update_failed"
           [] sweep.verdict = "missing" -> "next"]
    /\ UNCHANGED <<adapter, row, bytes, sidecar, writer, passes>>

(* What mark_available or mark_failed reads of the row: the session may    *)
(* still hold it as it was listed, pending.  Missing bytes of a young row  *)
(* leave it pending; mark_available raises on a failed row, which ends the *)
(* pass.                                                                   *)
SettlePending ==
    /\ sweep.pc = "settle"
    /\ \E read \in {"pending", row[sweep.version].state} :
         \/ /\ sweep.verdict = "valid"
            /\ sweep' = CASE read = "pending" -> [sweep EXCEPT !.pc = "update_available"]
                          [] read = "failed" -> NoSweep
                          [] read \notin {"pending", "failed"} -> [sweep EXCEPT !.pc = "next"]
         \/ /\ \/ sweep.verdict \in {"unreadable", "invalid", "other"}
               \/ sweep.verdict = "missing" /\ sweep.aged
            /\ sweep' = [sweep EXCEPT !.pc = IF read = "pending" THEN "update_failed" ELSE "next"]
         \/ /\ sweep.verdict = "missing" /\ ~sweep.aged
            /\ sweep' = [sweep EXCEPT !.pc = "next"]
    /\ UNCHANGED <<adapter, row, bytes, sidecar, writer, passes>>

SweepSucceeds ==
    /\ sweep.pc = "update_available"
    /\ MarkAvailable(sweep.version)
    /\ sweep' = [sweep EXCEPT !.pc = "next"]
    /\ UNCHANGED <<adapter, bytes, sidecar, writer, passes>>

(* A refused update ends the pass.                                         *)
SweepFails ==
    /\ sweep.pc = "update_failed"
    /\ MarkFailed(sweep.version)
    /\ sweep' = IF row[sweep.version].state = "available" THEN NoSweep
                ELSE [sweep EXCEPT !.pc = "next"]
    /\ UNCHANGED <<adapter, bytes, sidecar, writer, passes>>

EndPass ==
    /\ sweep.pc = "next" /\ sweep.left = {}
    /\ sweep' = NoSweep
    /\ UNCHANGED <<adapter, row, bytes, sidecar, writer, passes>>

-----------------------------------------------------------------------------
(* Time and crashes                                                        *)

(* A pending row passes max_age.                                           *)
Age(v) ==
    /\ row[v].state = "pending" /\ ~row[v].old
    /\ row' = [row EXCEPT ![v].old = TRUE]
    /\ UNCHANGED <<adapter, bytes, sidecar, writer, sweep, passes>>

Running(w) == writer[w].pc \notin {"idle", "returned", "raised"}

(* A process dies: its puts never end.                                     *)
Crash(p) ==
    /\ \E w \in Writers : Process[w] = p /\ Running(w)
    /\ writer' = [w \in Writers |-> IF Process[w] = p /\ Running(w)
                                    THEN [writer[w] EXCEPT !.pc = "raised"] ELSE writer[w]]
    /\ UNCHANGED <<adapter, row, bytes, sidecar, sweep, passes>>

Next ==
    \/ \E w \in Writers :
         \/ ReadExisting(w) \/ CreatePending(w) \/ PublishFile(w) \/ PublishMetadata(w)
         \/ PutObject(w) \/ OverwriteObject(w) \/ ProviderFails(w) \/ StatWritten(w)
         \/ ReadToFail(w) \/ PutFails(w) \/ ReadToSettle(w) \/ PutSucceeds(w)
    \/ BeginPass \/ StatPending \/ SettlePending \/ SweepSucceeds \/ SweepFails \/ EndPass
    \/ \E v \in Versions : Age(v)
    \/ \E w \in Writers : Crash(Process[w])

Spec == Init /\ [][Next]_vars

-----------------------------------------------------------------------------
(* Properties                                                              *)

(* An available version has its own content, verified, under its key,      *)
(* whichever of writers and reconciler made it available and whatever the  *)
(* others still do to the key or the row.                                  *)
AvailableHasBytes ==
    \A v \in Versions :
      row[v].state = "available" => Verdict(v, row[v].content) = "valid"

(* A put that returned left its own content available, even where another  *)
(* put of the version, with the same or another content, ran beside it.    *)
PutIsKept ==
    \A w \in Writers :
      writer[w].pc = "returned" =>
        /\ row[writer[w].version].state = "available"
        /\ row[writer[w].version].content = writer[w].content

(* What a reader may hold stays: an available version is never taken back, *)
(* not even by a put or a reconciler that read it pending and marks it     *)
(* failed late; a failed one stays failed or becomes available; and a      *)
(* version's content never changes.                                        *)
AvailableIsFinal ==
    [][\A v \in Versions :
         /\ row[v].state = "available" => row'[v].state = "available"
         /\ row[v].state = "failed" => row'[v].state \in {"failed", "available"}
         /\ row[v].state # "absent" => row'[v].content = row[v].content]_vars

=============================================================================
