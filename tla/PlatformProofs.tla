--------------------------- MODULE PlatformProofs ---------------------------
(* Proofs about versioned objects, for any number of versions, contents,   *)
(* writers and processes, and any number of passes of the reconciler; and  *)
(* about the catalogue and the releases, for any numbers of promotions,    *)
(* rollbacks, alembic commands, releases and surfaces.                     *)
EXTENDS VersionedObjects, Release, TLAPS

USE ObjectAssumption

-----------------------------------------------------------------------------
(* The inductive invariant                                                 *)

AfterCreate == {"write", "overwrite", "sidecar", "stat", "settle", "fail",
                "update_available", "update_failed"}

Verified == {"settle", "update_available"}

(* A row that is there has a content.                                      *)
RowsHaveContent ==
    \A v \in Versions : row[v].state # "absent" => row[v].content \in Contents

(* A put under way has chosen its version and content; once it created or  *)
(* found the row, the row is there with that content.                      *)
PutsOwnTheirRow ==
    \A w \in Writers :
        /\ writer[w].pc \in AfterCreate \cup {"create", "returned"} =>
              writer[w].version \in Versions /\ writer[w].content \in Contents
        /\ writer[w].pc \in AfterCreate =>
              /\ row[writer[w].version].state # "absent"
              /\ row[writer[w].version].content = writer[w].content

(* A put that verified what it wrote still finds it.                       *)
VerifiedStays ==
    \A w \in Writers :
        writer[w].pc \in Verified => Verdict(writer[w].version, writer[w].content) = "valid"

(* The reconciler visits rows that are there, and what it found valid      *)
(* still is.                                                               *)
SweepIsRight ==
    /\ \A v \in sweep.left : row[v].state # "absent"
    /\ sweep.pc \in {"settle", "update_available", "update_failed"} =>
          /\ sweep.version \in Versions
          /\ row[sweep.version].state # "absent"
          /\ sweep.pc = "update_available" => sweep.verdict = "valid"
          /\ sweep.verdict = "valid" =>
                Verdict(sweep.version, row[sweep.version].content) = "valid"

IInv ==
    /\ TypeOK
    /\ RowsHaveContent
    /\ PutsOwnTheirRow
    /\ VerifiedStays
    /\ SweepIsRight
    /\ AvailableHasBytes
    /\ PutIsKept

-----------------------------------------------------------------------------
(* What single definitions do                                              *)

(* For a content, verifying a key finds it valid exactly when the bytes    *)
(* are that content and are described.                                     *)
LEMMA ValidVerdict ==
    ASSUME TypeOK, NEW v \in Versions, NEW c \in Contents
    PROVE  Verdict(v, c) = "valid" <=> bytes[v] = c /\ Described(v)
<1>1. c # Nothing
  OBVIOUS
<1> QED
  BY <1>1 DEF Verdict, InfoMatches

(* The same in the next state.                                             *)
LEMMA ValidVerdictNext ==
    ASSUME TypeOK', NEW v \in Versions, NEW c \in Contents
    PROVE  Verdict(v, c)' = "valid" <=> bytes'[v] = c /\ Described(v)'
<1>1. c # Nothing
  OBVIOUS
<1> QED
  BY <1>1 DEF Verdict, InfoMatches

LEMMA VerdictType ==
    ASSUME NEW v \in Versions, NEW c
    PROVE  Verdict(v, c) \in {"missing", "invalid", "other", "valid"}
BY DEF Verdict

LEMMA RecordTypes ==
    /\ NoRow \in ObjectVersion
    /\ \A c \in Contents : [state |-> "pending", content |-> c, old |-> FALSE] \in ObjectVersion
    /\ NewPut \in PutCall
    /\ NoSweep \in Sweep
BY DEF NoRow, ObjectVersion, NewPut, PutCall, NoSweep, Sweep

(* Only the place of one put changes.                                      *)
LEMMA GotoType ==
    ASSUME TypeOK, NEW w \in Writers,
           NEW place \in {"idle", "create", "write", "overwrite", "sidecar", "stat",
                       "settle", "fail", "update_available", "update_failed", "returned",
                       "raised"},
           Goto(w, place)
    PROVE  /\ writer' \in [Writers -> PutCall]
           /\ writer'[w].pc = place
           /\ writer'[w].version = writer[w].version
           /\ writer'[w].content = writer[w].content
           /\ \A x \in Writers : x # w => writer'[x] = writer[x]
BY DEF TypeOK, Goto, PutCall

(* mark_available and mark_failed keep the types and the content of every  *)
(* row; the row becomes what is asked for, unless it is available.         *)
LEMMA MarkAvailableRow ==
    ASSUME TypeOK, NEW v \in Versions, MarkAvailable(v)
    PROVE  /\ row' \in [Versions -> ObjectVersion]
           /\ \A x \in Versions : row'[x].content = row[x].content
           /\ \A x \in Versions : x # v => row'[x] = row[x]
           /\ row'[v].state = "available"
BY DEF TypeOK, MarkAvailable, ObjectVersion

LEMMA MarkFailedRow ==
    ASSUME TypeOK, NEW v \in Versions, MarkFailed(v)
    PROVE  /\ row' \in [Versions -> ObjectVersion]
           /\ \A x \in Versions : row'[x].content = row[x].content
           /\ \A x \in Versions : x # v => row'[x] = row[x]
           /\ row'[v].state = IF row[v].state = "available" THEN "available" ELSE "failed"
<1>1. PICK s \in {"available", "failed"} :
          /\ s = IF row[v].state = "available" THEN "available" ELSE "failed"
          /\ row' = [row EXCEPT ![v].state = s]
  BY DEF MarkFailed
<1> QED
  BY <1>1 DEF TypeOK, ObjectVersion

-----------------------------------------------------------------------------
(* Types                                                                   *)

LEMMA PutTypes ==
    ASSUME IInv, NEW w \in Writers,
           \/ ReadExisting(w) \/ CreatePending(w) \/ PublishFile(w) \/ PublishMetadata(w)
           \/ PutObject(w) \/ OverwriteObject(w) \/ ProviderFails(w) \/ StatWritten(w)
           \/ ReadToFail(w) \/ PutFails(w) \/ ReadToSettle(w) \/ PutSucceeds(w)
    PROVE  TypeOK'
<1>0. TypeOK /\ PutsOwnTheirRow
  BY DEF IInv
<1> USE <1>0
<1>1. CASE ReadExisting(w)
  <2>1. PICK v \in Versions, c \in Contents,
             place \in {"create", "raised", "returned"} :
           writer' = [writer EXCEPT ![w] = [version |-> v, content |-> c, pc |-> place]]
    BY <1>1 DEF ReadExisting, TypeOK, ObjectVersion
  <2> QED
    BY <1>1, <2>1 DEF ReadExisting, TypeOK, PutCall
<1>2. CASE CreatePending(w)
  <2>1. writer[w].version \in Versions /\ writer[w].content \in Contents
    BY <1>2 DEF CreatePending, PutsOwnTheirRow
  <2>2. row' \in [Versions -> ObjectVersion]
    BY <1>2, <2>1, RecordTypes DEF CreatePending, TypeOK
  <2>3. Goto(w, "write") \/ Goto(w, "raised")
    BY <1>2 DEF CreatePending
  <2> QED
    BY <1>2, <2>2, <2>3, GotoType DEF CreatePending, TypeOK
<1>3. ASSUME KeyTaken(w) PROVE Goto(w, "stat") \/ Goto(w, "raised") \/ Goto(w, "fail")
  BY <1>3 DEF KeyTaken, Verdict
<1>4. CASE PublishFile(w)
  <2>1. writer[w].version \in Versions /\ writer[w].content \in Contents
    BY <1>4 DEF PublishFile, PutsOwnTheirRow, AfterCreate
  <2>2. bytes' \in [Versions -> Contents \cup {Nothing}] /\ UNCHANGED sidecar
    BY <1>4, <2>1 DEF PublishFile, PublishExclusive, KeyTaken, TypeOK
  <2>3. Goto(w, "sidecar") \/ Goto(w, "stat") \/ Goto(w, "raised") \/ Goto(w, "fail")
    BY <1>4, <1>3 DEF PublishFile
  <2> QED
    BY <1>4, <2>2, <2>3, GotoType DEF PublishFile, TypeOK
<1>5. CASE PublishMetadata(w)
  <2>1. sidecar' \in [Versions -> BOOLEAN]
    BY <1>5 DEF PublishMetadata, TypeOK
  <2> QED
    BY <1>5, <2>1, GotoType DEF PublishMetadata, TypeOK
<1>6. CASE PutObject(w)
  <2>1. writer[w].version \in Versions /\ writer[w].content \in Contents
    BY <1>6 DEF PutObject, PutsOwnTheirRow, AfterCreate
  <2>2. bytes' \in [Versions -> Contents \cup {Nothing}] /\ UNCHANGED sidecar
    BY <1>6, <2>1 DEF PutObject, KeyTaken, TypeOK
  <2>3. Goto(w, "overwrite") \/ Goto(w, "stat") \/ Goto(w, "raised") \/ Goto(w, "fail")
    BY <1>6, <1>3 DEF PutObject
  <2> QED
    BY <1>6, <2>2, <2>3, GotoType DEF PutObject, TypeOK
<1>7. CASE OverwriteObject(w)
  <2>1. writer[w].version \in Versions /\ writer[w].content \in Contents
    BY <1>7 DEF OverwriteObject, PutsOwnTheirRow, AfterCreate
  <2> QED
    BY <1>7, <2>1, GotoType DEF OverwriteObject, TypeOK
<1>8. CASE ProviderFails(w)
  BY <1>8, GotoType DEF ProviderFails, TypeOK
<1>9. CASE StatWritten(w)
  <2>1. Goto(w, "settle") \/ Goto(w, "fail")
    BY <1>9 DEF StatWritten
  <2> QED
    BY <1>9, <2>1, GotoType DEF StatWritten, TypeOK
<1>10. CASE PutFails(w)
  <2>1. writer[w].version \in Versions
    BY <1>10 DEF PutFails, PutsOwnTheirRow, AfterCreate
  <2> QED
    BY <1>10, <2>1, GotoType, MarkFailedRow DEF PutFails, TypeOK
<1>11. CASE PutSucceeds(w)
  <2>1. writer[w].version \in Versions
    BY <1>11 DEF PutSucceeds, PutsOwnTheirRow, AfterCreate
  <2> QED
    BY <1>11, <2>1, GotoType, MarkAvailableRow DEF PutSucceeds, TypeOK
<1>12. CASE ReadToFail(w)
  <2>1. Goto(w, "update_failed") \/ Goto(w, "raised")
    BY <1>12 DEF ReadToFail
  <2> QED
    BY <1>12, <2>1, GotoType DEF ReadToFail, TypeOK
<1>13. CASE ReadToSettle(w)
  <2>1. Goto(w, "update_available") \/ Goto(w, "raised") \/ Goto(w, "returned")
    BY <1>13 DEF ReadToSettle
  <2> QED
    BY <1>13, <2>1, GotoType DEF ReadToSettle, TypeOK
<1> QED
  BY <1>1, <1>2, <1>4, <1>5, <1>6, <1>7, <1>8, <1>9, <1>10, <1>11, <1>12, <1>13

LEMMA OtherTypes ==
    ASSUME IInv,
           \/ BeginPass \/ StatPending \/ SettlePending \/ SweepSucceeds \/ SweepFails \/ EndPass
           \/ \E v \in Versions : Age(v)
           \/ \E w \in Writers : Crash(Process[w])
           \/ UNCHANGED vars
    PROVE  TypeOK'
<1>0. TypeOK /\ SweepIsRight
  BY DEF IInv
<1> USE <1>0
<1>1. CASE BeginPass
  <2>1. PICK aged \in BOOLEAN, left \in SUBSET Versions :
           sweep' = [NoSweep EXCEPT !.pc = "next", !.aged = aged, !.left = left]
    BY <1>1 DEF BeginPass
  <2>2. sweep' \in Sweep
    BY <2>1 DEF NoSweep, Sweep
  <2>3. passes' \in 0..MaxPasses
    <3>1. passes \in 0..MaxPasses /\ passes < MaxPasses /\ passes' = passes + 1
      BY <1>1 DEF BeginPass, TypeOK
    <3> QED
      BY <3>1
  <2>4. UNCHANGED <<adapter, row, bytes, sidecar, writer>>
    BY <1>1 DEF BeginPass
  <2> QED
    BY <2>2, <2>3, <2>4 DEF TypeOK
<1>2. CASE StatPending
  <2>1. PICK v \in sweep.left : \E verdict \in {Verdict(v, row[v].content), "unreadable"} :
           sweep' = [sweep EXCEPT !.pc = "settle", !.version = v,
                                  !.left = @ \ {v}, !.verdict = verdict]
    BY <1>2 DEF StatPending
  <2>2. v \in Versions
    BY DEF TypeOK, Sweep
  <2>3. PICK verdict \in {"missing", "unreadable", "invalid", "other", "valid"} :
           sweep' = [sweep EXCEPT !.pc = "settle", !.version = v,
                                  !.left = @ \ {v}, !.verdict = verdict]
    BY <2>1, <2>2, VerdictType
  <2>4. sweep' \in Sweep
    BY <2>2, <2>3 DEF TypeOK, Sweep
  <2> QED
    BY <1>2, <2>4 DEF StatPending, TypeOK
<1>3. CASE SettlePending
  <2>1. sweep' = NoSweep \/ \E at \in {"next", "update_available", "update_failed"} :
                               sweep' = [sweep EXCEPT !.pc = at]
    BY <1>3 DEF SettlePending
  <2>2. sweep' \in Sweep
    BY <2>1, RecordTypes DEF TypeOK, Sweep
  <2> QED
    BY <1>3, <2>2 DEF SettlePending, TypeOK
<1>8. CASE SweepSucceeds \/ SweepFails
  <2>1. sweep.version \in Versions
    BY <1>8 DEF SweepSucceeds, SweepFails, SweepIsRight
  <2>2. row' \in [Versions -> ObjectVersion]
    BY <1>8, <2>1, MarkAvailableRow, MarkFailedRow DEF SweepSucceeds, SweepFails
  <2>3. sweep' = NoSweep \/ sweep' = [sweep EXCEPT !.pc = "next"]
    BY <1>8 DEF SweepSucceeds, SweepFails
  <2>4. sweep' \in Sweep
    BY <2>3, RecordTypes DEF TypeOK, Sweep
  <2> QED
    BY <1>8, <2>2, <2>4 DEF SweepSucceeds, SweepFails, TypeOK
<1>4. CASE EndPass
  BY <1>4, RecordTypes DEF EndPass, TypeOK
<1>5. ASSUME NEW v \in Versions, Age(v) PROVE TypeOK'
  BY <1>5 DEF Age, TypeOK, ObjectVersion
<1>6. ASSUME NEW p, Crash(p) PROVE TypeOK'
  <2>1. \A w \in Writers : [writer[w] EXCEPT !.pc = "raised"] \in PutCall
    BY DEF TypeOK, PutCall
  <2> QED
    BY <1>6, <2>1 DEF Crash, TypeOK
<1>7. CASE UNCHANGED vars
  BY <1>7 DEF vars, TypeOK
<1> QED
  BY <1>1, <1>2, <1>3, <1>4, <1>5, <1>6, <1>7, <1>8

LEMMA TypeStep ==
    ASSUME IInv, [Next]_vars
    PROVE  TypeOK'
BY PutTypes, OtherTypes DEF Next

-----------------------------------------------------------------------------
(* What a step leaves alone                                                *)

(* A row that is there keeps its content, an available one its state, and  *)
(* a failed one does not become pending.                                   *)
LEMMA RowsKept ==
    ASSUME IInv, [Next]_vars, NEW v \in Versions, row[v].state # "absent"
    PROVE  /\ row'[v].state # "absent"
           /\ row'[v].content = row[v].content
           /\ row[v].state = "available" => row'[v].state = "available"
           /\ row[v].state = "failed" => row'[v].state \in {"failed", "available"}
<1>0. TypeOK /\ PutsOwnTheirRow /\ SweepIsRight
  BY DEF IInv
<1> USE <1>0
<1> DEFINE Kept == /\ row'[v].state # "absent"
                   /\ row'[v].content = row[v].content
                   /\ row[v].state = "available" => row'[v].state = "available"
                   /\ row[v].state = "failed" => row'[v].state \in {"failed", "available"}
<1>1. ASSUME NEW w \in Writers, CreatePending(w) PROVE Kept
  <2>1. writer[w].version \in Versions
    BY <1>1 DEF CreatePending, PutsOwnTheirRow
  <2> QED
    BY <1>1, <2>1 DEF CreatePending, TypeOK
<1>2. ASSUME NEW w \in Writers, PutFails(w) PROVE Kept
  <2>1. writer[w].version \in Versions
    BY <1>2 DEF PutFails, PutsOwnTheirRow, AfterCreate
  <2> QED
    BY <1>2, <2>1, MarkFailedRow DEF PutFails
<1>3. ASSUME NEW w \in Writers, PutSucceeds(w) PROVE Kept
  <2>1. writer[w].version \in Versions
    BY <1>3 DEF PutSucceeds, PutsOwnTheirRow, AfterCreate
  <2> QED
    BY <1>3, <2>1, MarkAvailableRow DEF PutSucceeds
<1>4. CASE SweepSucceeds \/ SweepFails
  <2>1. sweep.version \in Versions
    BY <1>4 DEF SweepSucceeds, SweepFails, SweepIsRight
  <2> QED
    BY <1>4, <2>1, MarkAvailableRow, MarkFailedRow DEF SweepSucceeds, SweepFails
<1>5. ASSUME NEW x \in Versions, Age(x) PROVE Kept
  BY <1>5 DEF Age, TypeOK, ObjectVersion
<1>6. CASE UNCHANGED row
  BY <1>6
<1>7. \/ UNCHANGED row
      \/ SweepSucceeds \/ SweepFails
      \/ \E w \in Writers : CreatePending(w) \/ PutFails(w) \/ PutSucceeds(w)
      \/ \E x \in Versions : Age(x)
  BY DEF Next, vars, ReadExisting, PublishFile, PublishMetadata, PutObject, OverwriteObject,
         ProviderFails, StatWritten, ReadToFail, ReadToSettle, BeginPass, StatPending,
         SettlePending, EndPass, Crash
<1> QED
  BY <1>1, <1>2, <1>3, <1>4, <1>5, <1>6, <1>7

(* What a row's key holds, once it is what the row says, stays so: a write *)
(* that replaces bytes writes what the row says.                           *)
LEMMA ValidStays ==
    ASSUME IInv, [Next]_vars, NEW v \in Versions, row[v].state # "absent",
           Verdict(v, row[v].content) = "valid"
    PROVE  Verdict(v, row[v].content)' = "valid"
<1>0. TypeOK /\ PutsOwnTheirRow /\ RowsHaveContent
  BY DEF IInv
<1> USE <1>0
<1>1. row[v].content \in Contents /\ row'[v].content = row[v].content
  BY RowsKept DEF RowsHaveContent
<1>2. bytes[v] = row[v].content /\ Described(v)
  BY <1>1, ValidVerdict
<1>3. \A w \in Writers : OverwriteObject(w) =>
          /\ writer[w].version \in Versions
          /\ row[writer[w].version].content = writer[w].content
  BY DEF OverwriteObject, PutsOwnTheirRow, AfterCreate
<1>4. \/ UNCHANGED bytes
      \/ \E w \in Writers : /\ \/ OverwriteObject(w)
                               \/ bytes[writer[w].version] = Nothing
                            /\ bytes' = [bytes EXCEPT ![writer[w].version] = writer[w].content]
  BY DEF Next, vars, ReadExisting, CreatePending, PublishFile, PublishMetadata, PutObject,
         OverwriteObject, ProviderFails, StatWritten, ReadToFail, PutFails, ReadToSettle,
         PutSucceeds, PublishExclusive, KeyTaken, BeginPass, StatPending, SettlePending,
         SweepSucceeds, SweepFails, EndPass, Age, Crash
<1>5. bytes'[v] = bytes[v]
  BY <1>1, <1>2, <1>3, <1>4 DEF TypeOK
<1>6. adapter' = adapter /\ (sidecar[v] => sidecar'[v])
  BY DEF TypeOK, Next, vars, ReadExisting, CreatePending, PublishFile, PublishMetadata, PutObject,
         OverwriteObject, ProviderFails, StatWritten, ReadToFail, PutFails, ReadToSettle,
         PutSucceeds, PublishExclusive, KeyTaken, BeginPass, StatPending, SettlePending,
         SweepSucceeds, SweepFails, EndPass, Age, Crash
<1>7. Described(v)'
  BY <1>2, <1>6 DEF Described
<1> QED
  BY <1>1, <1>2, <1>5, <1>7, TypeStep, ValidVerdictNext

-----------------------------------------------------------------------------
(* The invariant is inductive                                              *)

LEMMA InitIInv == Init => IInv
<1> SUFFICES ASSUME Init PROVE IInv
  OBVIOUS
<1>1. TypeOK
  <2>1. sidecar \in [Versions -> BOOLEAN]
    BY DEF Init
  <2> QED
    BY <2>1, RecordTypes DEF Init, TypeOK
<1>2. \A v \in Versions : row[v].state = "absent"
  BY DEF Init, NoRow
<1>3. \A w \in Writers : writer[w].pc = "idle"
  BY DEF Init, NewPut
<1>4. sweep.left = {} /\ sweep.pc = "idle"
  BY DEF Init, NoSweep
<1> QED
  BY <1>1, <1>2, <1>3, <1>4 DEF IInv, RowsHaveContent, PutsOwnTheirRow, AfterCreate,
     Verified, VerifiedStays, SweepIsRight, AvailableHasBytes, PutIsKept

(* A row comes into being with the content of the put that creates it.     *)
LEMMA RowsHaveContentStep ==
    ASSUME IInv, [Next]_vars
    PROVE  RowsHaveContent'
<1>0. TypeOK /\ PutsOwnTheirRow /\ RowsHaveContent /\ SweepIsRight
  BY DEF IInv
<1> SUFFICES ASSUME NEW v \in Versions, row'[v].state # "absent"
             PROVE  row'[v].content \in Contents
  BY DEF RowsHaveContent
<1>1. CASE row[v].state # "absent"
  BY <1>0, <1>1, RowsKept DEF RowsHaveContent
<1>2. CASE row[v].state = "absent"
  <2>1. ASSUME NEW w \in Writers, CreatePending(w) PROVE row'[v].content \in Contents
    <3>1. writer[w].version \in Versions /\ writer[w].content \in Contents
      BY <1>0, <2>1 DEF CreatePending, PutsOwnTheirRow
    <3> QED
      BY <1>0, <1>2, <2>1, <3>1 DEF CreatePending, TypeOK
  <2>2. ASSUME NEW w \in Writers, PutFails(w) \/ PutSucceeds(w) PROVE row'[v] = row[v]
    <3>1. writer[w].version \in Versions /\ row[writer[w].version].state # "absent"
      BY <1>0, <2>2 DEF PutFails, PutSucceeds, PutsOwnTheirRow, AfterCreate
    <3> QED
      BY <1>0, <1>2, <2>2, <3>1, MarkFailedRow, MarkAvailableRow DEF PutFails, PutSucceeds
  <2>3. ASSUME SweepSucceeds \/ SweepFails PROVE row'[v] = row[v]
    <3>1. sweep.version \in Versions /\ row[sweep.version].state # "absent"
      BY <1>0, <2>3 DEF SweepSucceeds, SweepFails, SweepIsRight
    <3> QED
      BY <1>0, <1>2, <2>3, <3>1, MarkFailedRow, MarkAvailableRow DEF SweepSucceeds, SweepFails
  <2>4. ASSUME NEW x \in Versions, Age(x) PROVE row'[v].state = "absent"
    BY <1>0, <1>2, <2>4 DEF Age, TypeOK, ObjectVersion
  <2>5. \/ UNCHANGED row
        \/ SweepSucceeds \/ SweepFails
        \/ \E w \in Writers : CreatePending(w) \/ PutFails(w) \/ PutSucceeds(w)
        \/ \E x \in Versions : Age(x)
    BY DEF Next, vars, ReadExisting, PublishFile, PublishMetadata, PutObject, OverwriteObject,
           ProviderFails, StatWritten, ReadToFail, ReadToSettle, BeginPass, StatPending,
           SettlePending, EndPass, Crash
  <2> QED
    BY <1>2, <2>1, <2>2, <2>3, <2>4, <2>5
<1> QED
  BY <1>1, <1>2

(* How one put may move in a step.                                         *)
LEMMA PutMoves ==
    ASSUME IInv, [Next]_vars, NEW w \in Writers
    PROVE  \/ writer'[w] = writer[w]
           \/ /\ writer'[w].pc \in {"create", "raised", "returned"}
              /\ writer'[w].version \in Versions /\ writer'[w].content \in Contents
              /\ writer'[w].pc = "returned" =>
                    /\ row[writer'[w].version].state = "available"
                    /\ row[writer'[w].version].content = writer'[w].content
           \/ /\ writer'[w].version = writer[w].version
              /\ writer'[w].content = writer[w].content
              /\ \/ writer'[w].pc = "raised"
                 \/ writer[w].pc = "create" /\ CreatePending(w) /\ writer'[w].pc = "write"
                 \/ /\ writer[w].pc \in AfterCreate
                    /\ writer'[w].pc \in AfterCreate \ Verified
                 \/ /\ writer[w].pc = "stat" /\ writer'[w].pc = "settle"
                    /\ Verdict(writer[w].version, writer[w].content) = "valid"
                 \/ writer[w].pc = "settle" /\ writer'[w].pc = "update_available"
                 \/ /\ writer[w].pc = "settle" /\ writer'[w].pc = "returned"
                    /\ row[writer[w].version].state = "available"
                 \/ PutSucceeds(w) /\ writer'[w].pc = "returned"
<1>0. TypeOK
  BY DEF IInv
<1> USE <1>0
<1> DEFINE Moved ==
       /\ writer'[w].version = writer[w].version
       /\ writer'[w].content = writer[w].content
       /\ \/ writer'[w].pc = "raised"
          \/ writer[w].pc = "create" /\ CreatePending(w) /\ writer'[w].pc = "write"
          \/ writer[w].pc \in AfterCreate /\ writer'[w].pc \in AfterCreate \ Verified
          \/ /\ writer[w].pc = "stat" /\ writer'[w].pc = "settle"
             /\ Verdict(writer[w].version, writer[w].content) = "valid"
          \/ writer[w].pc = "settle" /\ writer'[w].pc = "update_available"
          \/ /\ writer[w].pc = "settle" /\ writer'[w].pc = "returned"
             /\ row[writer[w].version].state = "available"
          \/ PutSucceeds(w) /\ writer'[w].pc = "returned"
<1> DEFINE Began ==
       /\ writer'[w].pc \in {"create", "raised", "returned"}
       /\ writer'[w].version \in Versions /\ writer'[w].content \in Contents
       /\ writer'[w].pc = "returned" =>
             /\ row[writer'[w].version].state = "available"
             /\ row[writer'[w].version].content = writer'[w].content
<1>1. ASSUME NEW x \in Writers, ReadExisting(x) PROVE writer'[w] = writer[w] \/ Began
  <2>1. PICK v \in Versions, c \in Contents :
          writer' = [writer EXCEPT ![x] =
            [version |-> v, content |-> c,
             pc |-> CASE row[v].state = "absent" -> "create"
                      [] row[v].state # "absent" /\ ~MetadataMatches(v, c) -> "raised"
                      [] row[v].state = "available" /\ MetadataMatches(v, c) -> "returned"
                      [] row[v].state = "failed" /\ MetadataMatches(v, c) -> "raised"
                      [] row[v].state = "pending" /\ MetadataMatches(v, c) -> "create"]]
    BY <1>1 DEF ReadExisting
  <2>2. row[v].state \in {"absent", "pending", "available", "failed"}
    BY DEF TypeOK, ObjectVersion
  <2> QED
    BY <2>1, <2>2 DEF MetadataMatches, TypeOK
<1>2. ASSUME NEW x \in Writers, CreatePending(x) PROVE writer'[w] = writer[w] \/ Moved
  BY <1>2, GotoType DEF CreatePending
<1>3. ASSUME NEW x \in Writers, KeyTaken(x), writer[x].pc = "write"
      PROVE  writer'[w] = writer[w] \/ Moved
  <2>1. Goto(x, "stat") \/ Goto(x, "raised") \/ Goto(x, "fail")
    BY <1>3 DEF KeyTaken, Verdict
  <2> QED
    BY <1>3, <2>1, GotoType DEF AfterCreate, Verified
<1>4. ASSUME NEW x \in Writers,
             PublishFile(x) \/ PublishMetadata(x) \/ PutObject(x) \/ OverwriteObject(x)
             \/ ProviderFails(x)
      PROVE  writer'[w] = writer[w] \/ Moved
  BY <1>3, <1>4, GotoType DEF PublishFile, PublishMetadata, PutObject, OverwriteObject,
     ProviderFails, AfterCreate, Verified
<1>5. ASSUME NEW x \in Writers, StatWritten(x) PROVE writer'[w] = writer[w] \/ Moved
  BY <1>5, GotoType DEF StatWritten, AfterCreate, Verified
<1>6. ASSUME NEW x \in Writers, PutFails(x) PROVE writer'[w] = writer[w] \/ Moved
  BY <1>6, GotoType DEF PutFails
<1>7. ASSUME NEW x \in Writers, PutSucceeds(x) PROVE writer'[w] = writer[w] \/ Moved
  BY <1>7, GotoType DEF PutSucceeds
<1>11. ASSUME NEW x \in Writers, ReadToFail(x) PROVE writer'[w] = writer[w] \/ Moved
  BY <1>11, GotoType DEF ReadToFail, AfterCreate, Verified
<1>12. ASSUME NEW x \in Writers, ReadToSettle(x) PROVE writer'[w] = writer[w] \/ Moved
  <2>1. \/ Goto(x, "update_available") \/ Goto(x, "raised")
        \/ Goto(x, "returned") /\ row[writer[x].version].state = "available"
    BY <1>12 DEF ReadToSettle
  <2> QED
    BY <1>12, <2>1, GotoType DEF ReadToSettle
<1>8. ASSUME NEW p, Crash(p) PROVE writer'[w] = writer[w] \/ Moved
  BY <1>8 DEF Crash, TypeOK, PutCall
<1>9. \/ writer' = writer
      \/ \E x \in Writers :
            \/ ReadExisting(x) \/ CreatePending(x) \/ PublishFile(x) \/ PublishMetadata(x)
            \/ PutObject(x) \/ OverwriteObject(x) \/ ProviderFails(x) \/ StatWritten(x)
            \/ ReadToFail(x) \/ PutFails(x) \/ ReadToSettle(x) \/ PutSucceeds(x)
            \/ Crash(Process[x])
  BY DEF Next, vars, BeginPass, StatPending, SettlePending, SweepSucceeds, SweepFails, EndPass,
         Age
<1>10. writer'[w] = writer[w] \/ Began \/ Moved
  BY <1>1, <1>2, <1>4, <1>5, <1>6, <1>7, <1>8, <1>9, <1>11, <1>12
<1> QED
  BY <1>10

LEMMA PutsOwnTheirRowStep ==
    ASSUME IInv, [Next]_vars
    PROVE  PutsOwnTheirRow'
<1>0. TypeOK /\ PutsOwnTheirRow
  BY DEF IInv
<1> SUFFICES ASSUME NEW w \in Writers
             PROVE  /\ writer'[w].pc \in AfterCreate \cup {"create", "returned"} =>
                          writer'[w].version \in Versions /\ writer'[w].content \in Contents
                    /\ writer'[w].pc \in AfterCreate =>
                          /\ row'[writer'[w].version].state # "absent"
                          /\ row'[writer'[w].version].content = writer'[w].content
  BY DEF PutsOwnTheirRow
<1>1. /\ writer[w].pc \in AfterCreate \cup {"create", "returned"} =>
            writer[w].version \in Versions /\ writer[w].content \in Contents
      /\ writer[w].pc \in AfterCreate =>
            /\ row[writer[w].version].state # "absent"
            /\ row[writer[w].version].content = writer[w].content
  BY <1>0 DEF PutsOwnTheirRow
<1>2. writer[w].pc \in AfterCreate =>
            /\ row'[writer[w].version].state # "absent"
            /\ row'[writer[w].version].content = writer[w].content
  BY <1>1, RowsKept
<1>3. ASSUME CreatePending(w), writer'[w].pc = "write"
      PROVE  /\ row'[writer[w].version].state # "absent"
             /\ row'[writer[w].version].content = writer[w].content
  <2>1. writer[w].version \in Versions /\ writer[w].content \in Contents
    BY <1>1, <1>3 DEF CreatePending
  <2>2. CASE row[writer[w].version].state = "absent"
    BY <1>0, <1>3, <2>1, <2>2 DEF CreatePending, TypeOK
  <2>3. CASE row[writer[w].version].state # "absent"
    <3>1. row[writer[w].version].content = writer[w].content
      BY <1>0, <1>3, <2>3, GotoType DEF CreatePending, MetadataMatches
    <3> QED
      BY <2>1, <2>3, <3>1, RowsKept
  <2> QED
    BY <2>2, <2>3
<1>4. PutSucceeds(w) => writer[w].pc = "update_available"
  BY DEF PutSucceeds
<1> QED
  BY <1>1, <1>2, <1>3, <1>4, PutMoves DEF AfterCreate

LEMMA VerifiedStaysStep ==
    ASSUME IInv, [Next]_vars
    PROVE  VerifiedStays'
<1>0. PutsOwnTheirRow /\ VerifiedStays /\ PutsOwnTheirRow'
  BY PutsOwnTheirRowStep DEF IInv
<1> SUFFICES ASSUME NEW w \in Writers, writer'[w].pc \in Verified
             PROVE  Verdict(writer[w].version, writer[w].content)' = "valid"
  BY DEF VerifiedStays
<1>1. /\ writer'[w].version = writer[w].version /\ writer'[w].content = writer[w].content
      /\ writer[w].pc \in AfterCreate
      /\ Verdict(writer[w].version, writer[w].content) = "valid"
  BY <1>0, PutMoves DEF AfterCreate, Verified, VerifiedStays
<1>2. /\ writer[w].version \in Versions
      /\ row[writer[w].version].state # "absent"
      /\ row[writer[w].version].content = writer[w].content
  BY <1>0, <1>1 DEF PutsOwnTheirRow
<1>3. Verdict(writer[w].version, row[writer[w].version].content)' = "valid"
  BY <1>1, <1>2, ValidStays DEF Verdict, InfoMatches, Described
<1>4. row'[writer[w].version].content = writer[w].content
  BY <1>2, RowsKept
<1> QED
  BY <1>1, <1>3, <1>4

(* The reconciler's list and verdict come from rows that were there and    *)
(* from what it read of the provider.                                      *)
LEMMA SweepIsRightStep ==
    ASSUME IInv, [Next]_vars
    PROVE  SweepIsRight'
<1>0. TypeOK /\ SweepIsRight /\ RowsHaveContent
  BY DEF IInv
<1>1. ASSUME NEW v \in Versions, row[v].state # "absent" PROVE row'[v].state # "absent"
  BY <1>1, RowsKept
<1>2. CASE BeginPass
  <2>1. sweep'.pc = "next" /\ sweep'.left \subseteq {v \in Versions : row[v].state = "pending"}
    BY <1>2 DEF BeginPass, NoSweep
  <2> QED
    BY <1>1, <2>1 DEF SweepIsRight
<1>3. CASE StatPending
  <2>1. PICK v \in sweep.left : \E verdict \in {Verdict(v, row[v].content), "unreadable"} :
           sweep' = [sweep EXCEPT !.pc = "settle", !.version = v,
                                  !.left = @ \ {v}, !.verdict = verdict]
    BY <1>3 DEF StatPending
  <2>2. v \in Versions /\ row[v].state # "absent"
    BY <1>0 DEF TypeOK, Sweep, SweepIsRight
  <2>3. /\ sweep'.pc = "settle" /\ sweep'.version = v
        /\ sweep'.left = sweep.left \ {v}
        /\ sweep'.verdict = "valid" => Verdict(v, row[v].content) = "valid"
    BY <1>0, <2>1 DEF TypeOK, Sweep
  <2>4. \A x \in sweep'.left : row'[x].state # "absent"
    BY <1>0, <1>1, <2>3 DEF TypeOK, Sweep, SweepIsRight
  <2>5. sweep'.verdict = "valid" => Verdict(v, row[v].content)' = "valid"
    BY <2>2, <2>3, ValidStays
  <2> QED
    BY <1>1, <2>2, <2>3, <2>4, <2>5 DEF SweepIsRight
<1>4. CASE SweepSucceeds \/ SweepFails \/ EndPass
  <2>1. sweep'.pc \in {"idle", "next"} /\ sweep'.left \subseteq sweep.left
    BY <1>0, <1>4 DEF SweepSucceeds, SweepFails, EndPass, NoSweep, TypeOK, Sweep
  <2> QED
    BY <1>0, <1>1, <2>1 DEF SweepIsRight, TypeOK, Sweep
<1>7. CASE SettlePending
  <2>0. UNCHANGED <<row, bytes, sidecar, adapter>>
    BY <1>7 DEF SettlePending
  <2>1. \/ sweep'.pc \in {"idle", "next"} /\ sweep'.left \subseteq sweep.left
        \/ /\ sweep' = [sweep EXCEPT !.pc = "update_available"]
           /\ sweep.verdict = "valid"
        \/ sweep' = [sweep EXCEPT !.pc = "update_failed"]
    BY <1>0, <1>7 DEF SettlePending, NoSweep, TypeOK, Sweep
  <2>2. CASE sweep'.pc \in {"idle", "next"} /\ sweep'.left \subseteq sweep.left
    BY <1>0, <1>1, <2>2 DEF SweepIsRight, TypeOK, Sweep
  <2>3. CASE \/ sweep' = [sweep EXCEPT !.pc = "update_available"] /\ sweep.verdict = "valid"
             \/ sweep' = [sweep EXCEPT !.pc = "update_failed"]
    <3>1. /\ sweep'.left = sweep.left /\ sweep'.version = sweep.version
          /\ sweep'.verdict = sweep.verdict
          /\ sweep'.pc = "update_available" => sweep.verdict = "valid"
      BY <1>0, <2>3 DEF TypeOK, Sweep
    <3>2. /\ sweep.version \in Versions /\ row[sweep.version].state # "absent"
          /\ sweep.verdict = "valid" =>
                Verdict(sweep.version, row[sweep.version].content) = "valid"
      BY <1>0, <1>7 DEF SettlePending, SweepIsRight
    <3>3. Verdict(sweep.version, row[sweep.version].content)' =
             Verdict(sweep.version, row[sweep.version].content)
      BY <2>0, <3>1 DEF Verdict, InfoMatches, Described
    <3> QED
      BY <1>0, <2>0, <3>1, <3>2, <3>3 DEF SweepIsRight
  <2> QED
    BY <2>1, <2>2, <2>3
<1>5. CASE UNCHANGED sweep
  <2>1. \A x \in sweep'.left : row'[x].state # "absent"
    BY <1>0, <1>1, <1>5 DEF TypeOK, Sweep, SweepIsRight
  <2>2. ASSUME sweep.pc \in {"settle", "update_available", "update_failed"}
        PROVE  /\ sweep.version \in Versions
               /\ row'[sweep.version].state # "absent"
               /\ sweep.verdict = "valid" =>
                     Verdict(sweep.version, row[sweep.version].content)' = "valid"
    <3>1. /\ sweep.version \in Versions
          /\ row[sweep.version].state # "absent"
          /\ sweep.verdict = "valid" =>
                Verdict(sweep.version, row[sweep.version].content) = "valid"
      BY <1>0, <2>2 DEF SweepIsRight
    <3>2. sweep' = sweep
      BY <1>5
    <3> HIDE <1>5
    <3>3. ASSUME NEW v \in Versions, v = sweep.version, sweep.verdict = "valid"
          PROVE  Verdict(v, row[v].content)' = "valid"
      BY <3>1, <3>3, ValidStays
    <3> QED
      BY <1>1, <3>1, <3>2, <3>3
  <2>3. sweep.pc = "update_available" => sweep.verdict = "valid"
    BY <1>0 DEF SweepIsRight
  <2> QED
    BY <1>5, <2>1, <2>2, <2>3 DEF SweepIsRight
<1>6. \/ UNCHANGED sweep \/ BeginPass \/ StatPending \/ SettlePending
      \/ SweepSucceeds \/ SweepFails \/ EndPass
  BY DEF Next, vars, ReadExisting, CreatePending, PublishFile, PublishMetadata, PutObject,
         OverwriteObject, ProviderFails, StatWritten, ReadToFail, PutFails, ReadToSettle,
         PutSucceeds, Age, Crash
<1> QED
  BY <1>2, <1>3, <1>4, <1>5, <1>6, <1>7

(* Only a put that verified and a reconciler that verified make a version  *)
(* available.                                                              *)
LEMMA AvailableHasBytesStep ==
    ASSUME IInv, [Next]_vars
    PROVE  AvailableHasBytes'
<1>0. TypeOK /\ PutsOwnTheirRow /\ VerifiedStays /\ SweepIsRight /\ AvailableHasBytes
  BY DEF IInv
<1> SUFFICES ASSUME NEW v \in Versions, row'[v].state = "available"
             PROVE  Verdict(v, row[v].content)' = "valid"
  BY DEF AvailableHasBytes
<1>1. \/ row[v].state = "available"
      \/ /\ row[v].state # "absent"
         /\ \/ \E w \in Writers : PutSucceeds(w) /\ writer[w].version = v
            \/ SweepSucceeds /\ sweep.version = v
  <2>1. ASSUME NEW w \in Writers, CreatePending(w) PROVE row[v].state = "available"
    <3>1. writer[w].version \in Versions
      BY <1>0, <2>1 DEF CreatePending, PutsOwnTheirRow
    <3> QED
      BY <1>0, <2>1, <3>1 DEF CreatePending, TypeOK
  <2>2. ASSUME NEW w \in Writers, PutFails(w) PROVE row[v].state = "available"
    <3>1. writer[w].version \in Versions
      BY <1>0, <2>2 DEF PutFails, PutsOwnTheirRow, AfterCreate
    <3> QED
      BY <1>0, <2>2, <3>1, MarkFailedRow DEF PutFails
  <2>3. ASSUME NEW w \in Writers, PutSucceeds(w), row[v].state # "available"
        PROVE  row[v].state # "absent" /\ writer[w].version = v
    <3>1. writer[w].version \in Versions /\ row[writer[w].version].state # "absent"
      BY <1>0, <2>3 DEF PutSucceeds, PutsOwnTheirRow, AfterCreate
    <3> QED
      BY <1>0, <2>3, <3>1, MarkAvailableRow DEF PutSucceeds
  <2>4. ASSUME SweepSucceeds \/ SweepFails, row[v].state # "available"
        PROVE  row[v].state # "absent" /\ SweepSucceeds /\ sweep.version = v
    <3>1. sweep.version \in Versions /\ row[sweep.version].state # "absent"
      BY <1>0, <2>4 DEF SweepSucceeds, SweepFails, SweepIsRight
    <3> QED
      BY <1>0, <2>4, <3>1, MarkAvailableRow, MarkFailedRow DEF SweepSucceeds, SweepFails
  <2>5. ASSUME NEW x \in Versions, Age(x) PROVE row[v].state = "available"
    BY <1>0, <2>5 DEF Age, TypeOK, ObjectVersion
  <2>6. \/ UNCHANGED row
        \/ SweepSucceeds \/ SweepFails
        \/ \E w \in Writers : CreatePending(w) \/ PutFails(w) \/ PutSucceeds(w)
        \/ \E x \in Versions : Age(x)
    BY DEF Next, vars, ReadExisting, PublishFile, PublishMetadata, PutObject, OverwriteObject,
           ProviderFails, StatWritten, ReadToFail, ReadToSettle, BeginPass, StatPending,
           SettlePending, EndPass, Crash
  <2> QED
    BY <2>1, <2>2, <2>3, <2>4, <2>5, <2>6
<1>2. row[v].state # "absent" /\ Verdict(v, row[v].content) = "valid"
  BY <1>0, <1>1 DEF AvailableHasBytes, PutSucceeds, SweepSucceeds, VerifiedStays, SweepIsRight,
     PutsOwnTheirRow, AfterCreate, Verified
<1> QED
  BY <1>2, ValidStays

LEMMA PutIsKeptStep ==
    ASSUME IInv, [Next]_vars
    PROVE  PutIsKept'
<1>0. TypeOK /\ PutsOwnTheirRow /\ PutIsKept
  BY DEF IInv
<1> SUFFICES ASSUME NEW w \in Writers, writer'[w].pc = "returned"
             PROVE  /\ row'[writer'[w].version].state = "available"
                    /\ row'[writer'[w].version].content = writer'[w].content
  BY DEF PutIsKept
<1>1. ASSUME NEW v \in Versions, row[v].state = "available"
      PROVE  row'[v].state = "available" /\ row'[v].content = row[v].content
  BY <1>1, RowsKept
<1>2. ASSUME PutSucceeds(w)
      PROVE  /\ writer[w].version \in Versions
             /\ row'[writer[w].version].state = "available"
             /\ row'[writer[w].version].content = writer[w].content
  <2>1. /\ writer[w].version \in Versions
        /\ row[writer[w].version].state # "absent"
        /\ row[writer[w].version].content = writer[w].content
    BY <1>0, <1>2 DEF PutSucceeds, PutsOwnTheirRow, AfterCreate
  <2> QED
    BY <1>0, <1>2, <2>1, MarkAvailableRow DEF PutSucceeds
<1>3. ASSUME writer'[w] = writer[w]
      PROVE  /\ row'[writer'[w].version].state = "available"
             /\ row'[writer'[w].version].content = writer'[w].content
  <2>1. /\ row[writer[w].version].state = "available"
        /\ row[writer[w].version].content = writer[w].content
    BY <1>0, <1>3 DEF PutIsKept
  <2>2. writer[w].version \in Versions
    BY <1>0, <1>3 DEF PutsOwnTheirRow
  <2> QED
    BY <1>1, <1>3, <2>1, <2>2
<1>4. ASSUME writer[w].pc = "settle", row[writer[w].version].state = "available"
      PROVE  /\ writer[w].version \in Versions
             /\ row[writer[w].version].content = writer[w].content
  BY <1>0, <1>4 DEF PutsOwnTheirRow, AfterCreate
<1> QED
  BY <1>1, <1>2, <1>3, <1>4, PutMoves DEF AfterCreate

LEMMA IInvStep ==
    ASSUME IInv, [Next]_vars
    PROVE  IInv'
BY TypeStep, RowsHaveContentStep, PutsOwnTheirRowStep, VerifiedStaysStep, SweepIsRightStep,
   AvailableHasBytesStep, PutIsKeptStep DEF IInv

-----------------------------------------------------------------------------
(* Theorems                                                                *)

LEMMA IInvInvariant == Spec => []IInv
BY InitIInv, IInvStep, PTL DEF Spec

(* The rows, the provider, the puts and the reconciler keep their types.   *)
THEOREM ObjectTypes == Spec => []TypeOK
<1>1. IInv => TypeOK
  BY DEF IInv
<1> QED
  BY <1>1, IInvInvariant, PTL

(* An available version has its own verified content under its key.        *)
THEOREM AvailableHasBytesInvariant == Spec => []AvailableHasBytes
<1>1. IInv => AvailableHasBytes
  BY DEF IInv
<1> QED
  BY <1>1, IInvInvariant, PTL

(* A put that returned left its own content available.                     *)
THEOREM PutIsKeptInvariant == Spec => []PutIsKept
<1>1. IInv => PutIsKept
  BY DEF IInv
<1> QED
  BY <1>1, IInvInvariant, PTL

(* An available version is never taken back, a failed one only becomes     *)
(* available, and a content never changes.                                 *)
THEOREM AvailableIsFinalHolds == Spec => AvailableIsFinal
<1> DEFINE Step == \A v \in Versions :
         /\ row[v].state = "available" => row'[v].state = "available"
         /\ row[v].state = "failed" => row'[v].state \in {"failed", "available"}
         /\ row[v].state # "absent" => row'[v].content = row[v].content
<1>1. IInv /\ [Next]_vars => [Step]_vars
  <2> SUFFICES ASSUME IInv, [Next]_vars PROVE Step
    OBVIOUS
  <2> QED
    BY RowsKept
<1>2. Spec => [][Step]_vars
  BY <1>1, IInvInvariant, PTL DEF Spec
<1> QED
  BY <1>2 DEF AvailableIsFinal
-----------------------------------------------------------------------------
(***************************************************************************)
(* The catalogue under concurrent alembic commands.                        *)
(***************************************************************************)
HIDE ObjectAssumption

Command == [pc : {"idle", "check", "run", "done", "failed"},
            from : 0..HeadRevision, to : 0..HeadRevision]

(* An open transaction has planned the way from the revision it read.      *)
CommandOK(c) == c \in Command /\ (c.pc \in {"check", "run"} => Planned(c.from, c.to))

CatalogueInv ==
    /\ revision \in 0..HeadRevision
    /\ schema \in DatabasesAt(revision)
    /\ DOMAIN mig = Migrators
    /\ \A m \in Migrators : CommandOK(mig[m])

LEMMA HeadIsANumber == HeadRevision \in Nat
  BY DEF HeadRevision, Upgrades

LEMMA IdleOK ==
    CommandOK(Idle) /\ CommandOK([Idle EXCEPT !.pc = "done"]) /\ CommandOK([Idle EXCEPT !.pc = "failed"])
  BY HeadIsANumber DEF CommandOK, Command, Idle

(* A process moves on, and the catalogue stays.                            *)
ProcessMoves(m) ==
    /\ \E c : CommandOK(c) /\ mig' = [mig EXCEPT ![m] = c]
    /\ UNCHANGED <<schema, revision, rows>>

LEMMA AbortMoves ==
    ASSUME NEW m \in Migrators, Abort(m)
    PROVE  ProcessMoves(m)
  BY IdleOK DEF Abort, ProcessMoves

LEMMA BeginUpgradeMoves ==
    ASSUME CatalogueInv, NEW m \in Migrators, NEW head \in 0..HeadRevision, BeginUpgrade(m, head)
    PROVE  ProcessMoves(m)
  <1>1. UNCHANGED <<schema, revision, rows>>
    BY DEF BeginUpgrade
  <1>2. CASE revision < head
    <2> DEFINE c == [pc |-> "run", from |-> revision, to |-> head]
    <2>1. mig' = [mig EXCEPT ![m] = c]
      BY <1>2 DEF BeginUpgrade
    <2>2. CommandOK(c)
      BY <1>2 DEF CommandOK, Command, Planned, CatalogueInv
    <2> QED BY <1>1, <2>1, <2>2 DEF ProcessMoves
  <1>3. CASE ~(revision < head)
    <2>1. PICK end \in {"done", "failed"} : mig' = [mig EXCEPT ![m] = [Idle EXCEPT !.pc = end]]
      BY <1>3 DEF BeginUpgrade
    <2> QED BY <1>1, <2>1, IdleOK DEF ProcessMoves
  <1> QED BY <1>2, <1>3

LEMMA BeginDowngradeMoves ==
    ASSUME CatalogueInv, NEW m \in Migrators, BeginDowngrade(m)
    PROVE  ProcessMoves(m)
  <1> DEFINE c == [pc |-> "check", from |-> revision, to |-> revision - 1]
  <1>1. mig' = [mig EXCEPT ![m] = c] /\ UNCHANGED <<schema, revision, rows>>
    BY DEF BeginDowngrade
  <1>2. CommandOK(c)
    BY HeadIsANumber DEF CommandOK, Command, Planned, CatalogueInv, BeginDowngrade
  <1> QED BY <1>1, <1>2 DEF ProcessMoves

LEMMA CheckEmptyMoves ==
    ASSUME CatalogueInv, NEW m \in Migrators, CheckEmpty(m)
    PROVE  ProcessMoves(m)
  <1>1. CASE MustBeEmpty(mig[m].from) \cap rows = {}
    <2> DEFINE old == mig[m]
               c == [old EXCEPT !.pc = "run"]
    <2>1. mig' = [mig EXCEPT ![m] = c] /\ UNCHANGED <<schema, revision, rows>>
      BY <1>1 DEF CheckEmpty
    <2>2. old \in Command /\ Planned(old.from, old.to)
      BY DEF CatalogueInv, CommandOK, CheckEmpty
    <2> HIDE DEF old
    <2>3. c \in Command /\ c.from = old.from /\ c.to = old.to
      BY <2>2 DEF Command
    <2> HIDE DEF c
    <2>4. CommandOK(c)
      BY <2>2, <2>3 DEF CommandOK
    <2> QED BY <2>1, <2>4 DEF ProcessMoves
  <1>2. CASE MustBeEmpty(mig[m].from) \cap rows # {}
    BY <1>2, AbortMoves DEF CheckEmpty
  <1> QED BY <1>1, <1>2

LEMMA MovesKeep ==
    ASSUME CatalogueInv, NEW m \in Migrators, ProcessMoves(m)
    PROVE  CatalogueInv'
  <1>1. PICK c : CommandOK(c) /\ mig' = [mig EXCEPT ![m] = c]
    BY DEF ProcessMoves
  <1>2. DOMAIN mig' = Migrators /\ \A n \in Migrators : CommandOK(mig'[n])
    BY <1>1 DEF CatalogueInv
  <1> QED BY <1>2 DEF CatalogueInv, ProcessMoves

(* A command that commits leads to its revision, in one of the ways that   *)
(* the plain history allows.                                               *)
Committed(m) ==
    /\ revision = mig[m].from /\ revision' = mig[m].to
    /\ schema' \in DatabasesAt(revision')
    /\ rows' \subseteq schema'.tables
    /\ mig' = [mig EXCEPT ![m] = [Idle EXCEPT !.pc = "done"]]
    /\ Planned(revision, revision') /\ revision' \in 0..HeadRevision
    /\ revision' < revision => revision # 5

LEMMA CommitMoves ==
    ASSUME CatalogueInv, NEW m \in Migrators, Commit(m)
    PROVE  Committed(m) \/ ProcessMoves(m)
  <1> DEFINE from == mig[m].from
             to == mig[m].to
             run == RunScript(schema, Script[from][to])
  <1>1. CASE revision = from /\ run.ok
    <2>1. /\ schema' = run.schema /\ revision' = to /\ rows' = rows \cap run.schema.tables
          /\ mig' = [mig EXCEPT ![m] = [Idle EXCEPT !.pc = "done"]]
      BY <1>1 DEF Commit
    <2>2. from \in 0..HeadRevision /\ to \in 0..HeadRevision /\ Planned(from, to)
      BY DEF CatalogueInv, CommandOK, Command, Commit
    <2>3. schema \in DatabasesAt(from)
      BY <1>1 DEF CatalogueInv
    <2> HIDE DEF from, to
    <2>4. run.schema \in DatabasesAt(to) /\ (to < from => from # 5)
      BY <1>1, <2>2, <2>3, ScriptAssumption
    <2> HIDE DEF run
    <2> QED BY <1>1, <2>1, <2>2, <2>4 DEF Committed, from, to
  <1>2. CASE ~(revision = from /\ run.ok)
    BY <1>2, AbortMoves DEF Commit
  <1> QED BY <1>1, <1>2

LEMMA CommittedKeeps ==
    ASSUME CatalogueInv, NEW m \in Migrators, Committed(m)
    PROVE  CatalogueInv'
  <1>1. DOMAIN mig' = Migrators /\ \A n \in Migrators : CommandOK(mig'[n])
    BY IdleOK DEF CatalogueInv, Committed
  <1> QED BY <1>1 DEF CatalogueInv, Committed

LEMMA CommittedIsHistory ==
    ASSUME CatalogueInv, NEW m \in Migrators, Committed(m)
    PROVE  History!Next
  <1>1. CASE revision < revision'
    BY <1>1, HeadIsANumber DEF Committed, CatalogueInv, History!Next, History!Upgrade
  <1>2. CASE revision' = revision - 1
    BY <1>2, HeadIsANumber DEF Committed, CatalogueInv, History!Next, History!Downgrade
  <1> QED BY <1>1, <1>2 DEF Committed, Planned

LEMMA MigrateMoves ==
    ASSUME CatalogueInv, NEW m \in Migrators, Migrate(m)
    PROVE  Committed(m) \/ ProcessMoves(m)
  BY CheckEmptyMoves, CommitMoves, AbortMoves DEF Migrate, ConnectionLost

-----------------------------------------------------------------------------
(***************************************************************************)
(* Promotions and rollbacks.                                               *)
(***************************************************************************)

BeforeWait == {"start", "backed_up", "migrating", "checked", "read", "listed", "edited"}
Waited == {"deployed", "smoke", "probed"}
Labels == BeforeWait \cup Waited \cup {"switched", "passed", "failed"}

(* The last deployments are the ones p waits for only if they are of its   *)
(* release: what the answer of web shows.                                  *)
ProbedOK(p) == (\A s \in Surfaces : expected[p][s] = Latest) => Config = ReleaseOf[p]

(* A deployment goes on when it has seen what it waits for on every        *)
(* surface, and a surface never goes back to an older deployment.          *)
DeploymentOK(p) ==
    /\ pc[p] \in BeforeWait => seen[p] = {}
    /\ pc[p] \in Waited => seen[p] = Surfaces
    /\ pc[p] \in Waited \cup {"switched"} => \A s \in seen[p] : active[s] >= expected[p][s]
    /\ pc[p] = "probed" => ProbedOK(p)

DeployTypes ==
    /\ deployments \in Seq(Releases)
    /\ active \in [Surfaces -> 0..Latest]
    /\ pc \in [Deployments -> Labels]
    /\ known \in [Deployments -> 0..Latest]
    /\ expected \in [Deployments -> [Surfaces -> 0..Latest]]
    /\ seen \in [Deployments -> SUBSET Surfaces]

DeployInv == DeployTypes /\ \A p \in Deployments : DeploymentOK(p)

StatusOK(st) ==
    DOMAIN st = Surfaces /\ \A s \in Surfaces : st[s].release \in Releases \cup {None}

LEMMA LatestIsANumber ==
    ASSUME DeployTypes
    PROVE  Latest \in Nat
  BY DEF DeployTypes, Latest

LEMMA ConfigIsARelease ==
    ASSUME DeployTypes
    PROVE  /\ Config \in Releases \cup {None}
           /\ \A s \in Surfaces : RunningOn(s) \in Releases \cup {None}
  <1>1. Latest \in Nat /\ \A n \in 1..Latest : deployments[n] \in Releases
    BY DEF DeployTypes, Latest
  <1> QED BY <1>1 DEF DeployTypes, Config, RunningOn

(* A deployment moves on without touching the surfaces.                    *)
LEMMA MoveKeeps ==
    ASSUME DeployInv, NEW p \in Deployments, NEW label \in Labels \ {"switched"},
           MoveTo(p, label), UNCHANGED <<deployments, active, expected, seen>>,
           known' = known \/ known' = [known EXCEPT ![p] = Latest],
           label \in BeforeWait => pc[p] \in BeforeWait,
           label \in Waited => pc[p] \in Waited,
           label = "probed" => ProbedOK(p)
    PROVE  DeployInv'
  <1>1. Latest' = Latest /\ Config' = Config /\ Latest \in Nat
    BY LatestIsANumber DEF Latest, Config, DeployInv
  <1>2. DeployTypes'
    <2>1. pc' \in [Deployments -> Labels]
      BY DEF DeployInv, DeployTypes, MoveTo
    <2>2. known \in [Deployments -> 0..Latest] /\ Latest \in 0..Latest
      BY <1>1 DEF DeployInv, DeployTypes
    <2>3. known' \in [Deployments -> 0..Latest]
      <3>1. CASE known' = known
        BY <2>2, <3>1
      <3>2. CASE known' = [known EXCEPT ![p] = Latest]
        BY <2>2, <3>2
      <3> QED BY <3>1, <3>2
    <2> QED BY <1>1, <2>1, <2>3 DEF DeployInv, DeployTypes
  <1>3. ASSUME NEW q \in Deployments PROVE DeploymentOK(q)'
    <2>1. CASE q # p
      <3>1. pc'[q] = pc[q]
        BY <2>1 DEF MoveTo, DeployInv, DeployTypes
      <3> QED BY <1>1, <3>1 DEF DeployInv, DeploymentOK, ProbedOK
    <2>2. CASE q = p
      <3>1. pc'[p] = label
        BY DEF MoveTo, DeployInv, DeployTypes
      <3>2. DeploymentOK(p) /\ ProbedOK(p)' = ProbedOK(p)
        BY <1>1 DEF DeployInv, ProbedOK
      <3>3. label \in Waited \cup {"switched"} => label \in Waited
        BY DEF Labels
      <3> QED BY <2>2, <3>1, <3>2, <3>3 DEF DeploymentOK
    <2> QED BY <2>1, <2>2
  <1> QED BY <1>2, <1>3 DEF DeployInv

(* A longer list of deployments is nobody's last.                          *)
LEMMA SwitchKeeps ==
    ASSUME DeployInv, NEW p \in Deployments, SwitchImages(p)
    PROVE  DeployInv'
  <1>1. /\ pc[p] = "listed" /\ MoveTo(p, "edited")
        /\ active' = active /\ known' = known /\ expected' = expected /\ seen' = seen
    BY DEF SwitchImages
  <1>2. CASE deployments' = deployments
    BY <1>1, <1>2, MoveKeeps DEF BeforeWait, Waited, Labels
  <1>3. CASE deployments' = Append(deployments, ReleaseOf[p])
    <2>1. ReleaseOf[p] \in Releases
      BY ReleaseAssumption DEF Deployments, Releases
    <2>2. deployments' \in Seq(Releases) /\ Latest \in Nat /\ Latest' = Latest + 1
      BY <1>3, <2>1 DEF DeployInv, DeployTypes, Latest
    <2>3. 0..Latest \subseteq 0..Latest'
      BY <2>2
    <2>4. /\ pc'[p] = "edited" /\ pc' \in [Deployments -> Labels]
          /\ \A q \in Deployments \ {p} : pc'[q] = pc[q]
      BY <1>1 DEF MoveTo, DeployInv, DeployTypes, Labels, BeforeWait
    <2>5. DeployTypes'
      BY <1>1, <2>2, <2>3, <2>4 DEF DeployInv, DeployTypes
    <2>6. ASSUME NEW q \in Deployments PROVE ~(\A s \in Surfaces : expected[q][s] = Latest')
      <3>1. "web" \in Surfaces /\ expected[q]["web"] \in 0..Latest
        BY ReleaseAssumption DEF DeployInv, DeployTypes
      <3>2. expected[q]["web"] # Latest'
        BY <2>2, <3>1
      <3> QED BY <3>1, <3>2
    <2>7. ASSUME NEW q \in Deployments PROVE DeploymentOK(q)'
      <3>1. ProbedOK(q)'
        BY <1>1, <2>6 DEF ProbedOK
      <3>2. CASE q # p
        BY <1>1, <2>4, <3>1, <3>2 DEF DeployInv, DeploymentOK
      <3>3. CASE q = p
        <4>1. seen[p] = {}
          BY <1>1 DEF DeployInv, DeploymentOK, BeforeWait
        <4> QED BY <1>1, <2>4, <3>3, <4>1 DEF DeploymentOK, BeforeWait, Waited
      <3> QED BY <3>2, <3>3
    <2> QED BY <2>5, <2>7 DEF DeployInv
  <1> QED BY <1>2, <1>3 DEF SwitchImages

LEMMA WaitForKeeps ==
    ASSUME DeployInv, NEW p \in Deployments, pc[p] \in BeforeWait,
           NEW ids \in [Surfaces -> 0..Latest], WaitFor(p, ids)
    PROVE  DeployInv'
  <1>1. /\ deployments' = deployments /\ active' = active /\ known' = known /\ seen' = seen
        /\ Latest' = Latest /\ Config' = Config
        /\ pc' = [pc EXCEPT ![p] = "switched"]
        /\ expected' = [expected EXCEPT ![p] = ids]
    BY DEF WaitFor, MoveTo, Latest, Config
  <1>2. /\ pc'[p] = "switched"
        /\ \A q \in Deployments \ {p} : pc'[q] = pc[q] /\ expected'[q] = expected[q]
    BY <1>1 DEF DeployInv, DeployTypes
  <1>3. DeployTypes'
    BY <1>1 DEF DeployInv, DeployTypes, Labels
  <1>4. ASSUME NEW q \in Deployments PROVE DeploymentOK(q)'
    <2>1. CASE q # p
      <3>1. ProbedOK(q)' = ProbedOK(q)
        BY <1>1, <1>2, <2>1 DEF ProbedOK
      <3> QED BY <1>1, <1>2, <2>1, <3>1 DEF DeployInv, DeploymentOK
    <2>2. CASE q = p
      <3>1. seen[p] = {}
        BY DEF DeployInv, DeploymentOK
      <3> QED BY <1>1, <1>2, <2>2, <3>1 DEF DeploymentOK, BeforeWait, Waited
    <2> QED BY <2>1, <2>2
  <1> QED BY <1>3, <1>4 DEF DeployInv

LEMMA IdsKeep ==
    ASSUME DeployInv, NEW p \in Deployments, ReuseDeployments(p) \/ PickDeployments(p)
    PROVE  DeployInv'
  <1>1. Latest \in Nat /\ known[p] \in 0..Latest
    BY LatestIsANumber DEF DeployInv, DeployTypes
  <1>2. pc[p] \in BeforeWait
    BY DEF ReuseDeployments, PickDeployments, BeforeWait
  <1>3. CASE ReuseDeployments(p)
    <2>1. [s \in Surfaces |-> known[p]] \in [Surfaces -> 0..Latest]
      BY <1>1
    <2> QED BY <1>2, <1>3, <2>1, WaitForKeeps DEF ReuseDeployments
  <1>4. CASE PickDeployments(p)
    <2>1. PICK ids \in [Surfaces -> (known[p] + 1)..Latest] : WaitFor(p, ids)
      BY <1>4 DEF PickDeployments
    <2>2. ids \in [Surfaces -> 0..Latest]
      BY <1>1
    <2> QED BY <1>2, <2>1, <2>2, WaitForKeeps
  <1> QED BY <1>3, <1>4

LEMMA RolloutKeeps ==
    ASSUME DeployInv, NEW s \in Surfaces, Rollout(s)
    PROVE  DeployInv'
  <1>1. PICK n \in (active[s] + 1)..Latest : active' = [active EXCEPT ![s] = n]
    BY DEF Rollout
  <1>2. /\ deployments' = deployments /\ Latest' = Latest /\ Config' = Config
        /\ pc' = pc /\ known' = known /\ expected' = expected /\ seen' = seen
    BY DEF Rollout, progress, Latest, Config
  <1>3. Latest \in Nat /\ active[s] \in 0..Latest /\ n \in 0..Latest /\ n >= active[s]
    BY LatestIsANumber DEF DeployInv, DeployTypes
  <1>4. DeployTypes'
    BY <1>1, <1>2, <1>3 DEF DeployInv, DeployTypes
  <1>5. ASSUME NEW q \in Deployments, NEW t \in seen[q], active[t] >= expected[q][t]
        PROVE  active'[t] >= expected[q][t]
    <2>1. t \in Surfaces /\ active[t] \in 0..Latest /\ expected[q][t] \in 0..Latest
      BY DEF DeployInv, DeployTypes
    <2>2. active'[t] = IF t = s THEN n ELSE active[t]
      BY <1>1, <2>1 DEF DeployInv, DeployTypes
    <2> QED BY <1>3, <1>5, <2>1, <2>2
  <1>6. ASSUME NEW q \in Deployments PROVE DeploymentOK(q)'
    <2>1. ProbedOK(q)' = ProbedOK(q)
      BY <1>2 DEF ProbedOK
    <2> QED BY <1>2, <1>5, <2>1 DEF DeployInv, DeploymentOK
  <1> QED BY <1>4, <1>6 DEF DeployInv

LEMMA WaitKeeps ==
    ASSUME DeployInv, NEW p \in Deployments, NEW s \in Surfaces, WaitForService(p, s)
    PROVE  DeployInv'
  <1>1. /\ pc[p] = "switched" /\ active[s] = expected[p][s]
        /\ deployments' = deployments /\ Latest' = Latest /\ Config' = Config
        /\ active' = active /\ known' = known /\ expected' = expected
        /\ seen'[p] = seen[p] \cup {s}
        /\ \A q \in Deployments \ {p} : seen'[q] = seen[q]
        /\ seen' \in [Deployments -> SUBSET Surfaces]
    BY DEF WaitForService, DeployInv, DeployTypes, Latest, Config
  <1>2. /\ pc'[p] = IF seen'[p] = Surfaces THEN "deployed" ELSE "switched"
        /\ \A q \in Deployments \ {p} : pc'[q] = pc[q]
        /\ pc' \in [Deployments -> Labels]
    <2>1. CASE seen'[p] = Surfaces
      <3>1. pc' = [pc EXCEPT ![p] = "deployed"]
        BY <2>1 DEF WaitForService, MoveTo
      <3> QED BY <2>1, <3>1 DEF DeployInv, DeployTypes, Waited, Labels
    <2>2. CASE seen'[p] # Surfaces
      <3>1. pc' = pc
        BY <2>2 DEF WaitForService
      <3> QED BY <1>1, <2>2, <3>1 DEF DeployInv, DeployTypes
    <2> QED BY <2>1, <2>2
  <1>3. ASSUME NEW q \in Deployments PROVE DeploymentOK(q)'
    <2>1. CASE q # p
      <3>1. seen'[q] = seen[q] /\ pc'[q] = pc[q] /\ DeploymentOK(q)
        BY <1>1, <1>2, <2>1 DEF DeployInv
      <3>2. ProbedOK(q)' = ProbedOK(q)
        BY <1>1 DEF ProbedOK
      <3> QED BY <1>1, <3>1, <3>2 DEF DeploymentOK
    <2>2. CASE q = p
      <3>1. DeploymentOK(p) /\ pc'[p] \notin BeforeWait /\ pc'[p] # "probed"
        BY <1>2 DEF DeployInv, BeforeWait
      <3>2. pc'[p] \in Waited => seen'[p] = Surfaces
        BY <1>2 DEF Waited
      <3>3. active[s] >= expected[p][s]
        BY <1>1, LatestIsANumber DEF DeployInv, DeployTypes
      <3>4. \A t \in seen'[p] : active[t] >= expected[p][t]
        BY <1>1, <3>1, <3>3 DEF DeploymentOK
      <3> QED BY <1>1, <2>2, <3>1, <3>2, <3>4 DEF DeploymentOK
    <2> QED BY <2>1, <2>2
  <1>4. DeployTypes'
    BY <1>1, <1>2 DEF DeployInv, DeployTypes
  <1> QED BY <1>3, <1>4 DEF DeployInv

(* A deployment that has waited for the last deployments has them on every *)
(* surface.                                                                *)
LEMMA WaitedForTheLast ==
    ASSUME DeployInv, NEW p \in Deployments, pc[p] \in Waited,
           \A s \in Surfaces : expected[p][s] = Latest, NEW s \in Surfaces
    PROVE  RunningOn(s) = Config
  <1>1. s \in seen[p] /\ active[s] >= expected[p][s]
    BY DEF DeployInv, DeploymentOK
  <1>2. active[s] \in 0..Latest /\ Latest \in Nat
    BY LatestIsANumber DEF DeployInv, DeployTypes
  <1>3. active[s] = Latest
    BY <1>1, <1>2
  <1> QED BY <1>3 DEF RunningOn, Config

-----------------------------------------------------------------------------
(* The parts together                                                      *)

RowsInv == rows \subseteq schema.tables

ReleaseInv == CatalogueInv /\ RowsInv /\ DeployInv /\ StatusOK(status)

LEMMA CatalogueStays ==
    ASSUME CatalogueInv, UNCHANGED <<schema, revision, mig>>
    PROVE  CatalogueInv'
  BY DEF CatalogueInv

LEMMA DeployStays ==
    ASSUME DeployInv, UNCHANGED <<deployments, active, progress>>
    PROVE  DeployInv'
  <1>1. UNCHANGED <<pc, known, expected, seen>> /\ Latest' = Latest /\ Config' = Config
    BY DEF progress, Latest, Config
  <1>2. DeployTypes'
    BY <1>1 DEF DeployInv, DeployTypes
  <1>3. ASSUME NEW p \in Deployments PROVE DeploymentOK(p)'
    <2>1. ProbedOK(p)' = ProbedOK(p)
      BY <1>1 DEF ProbedOK
    <2> QED BY <1>1, <2>1 DEF DeployInv, DeploymentOK
  <1> QED BY <1>2, <1>3 DEF DeployInv

LEMMA HeartbeatKeeps ==
    ASSUME ReleaseInv, NEW s \in Surfaces, NEW r \in Releases \cup {None}, NEW state,
           Heartbeat(s, r, state), UNCHANGED <<schema, revision, mig>>
    PROVE  CatalogueInv' /\ RowsInv' /\ StatusOK(status)'
  <1>1. CatalogueInv'
    BY CatalogueStays DEF ReleaseInv
  <1>2. RowsInv'
    BY DEF ReleaseInv, RowsInv, Heartbeat, CanWrite
  <1> DEFINE row0 == [release |-> r, state |-> state]
  <1>3. row0.release = r /\ status' = [status EXCEPT ![s] = row0]
    BY DEF Heartbeat
  <1> HIDE DEF row0
  <1>4. StatusOK(status)'
    BY <1>3 DEF ReleaseInv, StatusOK
  <1> QED BY <1>1, <1>2, <1>4

(* What a step leaves of the surfaces' rows.                               *)
LEMMA CatalogueUntouched ==
    ASSUME ReleaseInv, UNCHANGED <<migvars, status>>
    PROVE  CatalogueInv' /\ RowsInv' /\ StatusOK(status)'
  BY CatalogueStays DEF ReleaseInv, RowsInv, StatusOK, migvars

LEMMA ProcessStepKeeps ==
    ASSUME ReleaseInv, NEW m \in Migrators, ProcessMoves(m), UNCHANGED <<deployments, active, progress>>,
           StatusOK(status)'
    PROVE  ReleaseInv'
  <1>1. CatalogueInv' /\ DeployInv'
    BY MovesKeep, DeployStays DEF ReleaseInv
  <1>2. RowsInv'
    BY DEF ReleaseInv, RowsInv, ProcessMoves
  <1> QED BY <1>1, <1>2 DEF ReleaseInv

LEMMA RunAlembicKeeps ==
    ASSUME ReleaseInv, NEW m \in Migrators, RunAlembic(m)
    PROVE  ReleaseInv' /\ [History!Next]_revision
  <1>1. StatusOK(status)'
    <2>1. NoStatus.release = None
      BY DEF NoStatus
    <2>2. /\ DOMAIN status' = Surfaces
          /\ \A s \in Surfaces : status'[s] = status[s] \/ status'[s] = NoStatus
      BY DEF RunAlembic, KeepStatus
    <2> QED BY <2>1, <2>2 DEF ReleaseInv, StatusOK
  <1>2. UNCHANGED <<deployments, active, progress>>
    BY DEF RunAlembic
  <1>3. Committed(m) \/ ProcessMoves(m)
    BY MigrateMoves DEF ReleaseInv, RunAlembic
  <1>4. CASE Committed(m)
    <2>1. CatalogueInv' /\ DeployInv'
      BY <1>2, <1>4, CommittedKeeps, DeployStays DEF ReleaseInv
    <2>2. RowsInv'
      BY <1>4 DEF Committed, RowsInv
    <2>3. History!Next
      BY <1>4, CommittedIsHistory DEF ReleaseInv
    <2> QED BY <1>1, <2>1, <2>2, <2>3 DEF ReleaseInv
  <1>5. CASE ProcessMoves(m)
    BY <1>1, <1>2, <1>5, ProcessStepKeeps DEF ProcessMoves
  <1> QED BY <1>3, <1>4, <1>5

LEMMA OperatorKeeps ==
    ASSUME ReleaseInv, NEW m \in Operators, OperatorCommand(m)
    PROVE  ReleaseInv' /\ revision' = revision
  <1>1. m \in Migrators /\ Checkouts \subseteq 0..HeadRevision
    BY ReleaseAssumption, HeadIsANumber
  <1>2. ProcessMoves(m)
    BY <1>1, BeginUpgradeMoves, BeginDowngradeMoves DEF OperatorCommand, ReleaseInv
  <1>3. UNCHANGED <<deployments, active, progress>> /\ StatusOK(status)'
    BY DEF OperatorCommand, depvars, ReleaseInv, StatusOK
  <1> QED BY <1>1, <1>2, <1>3, ProcessStepKeeps DEF ProcessMoves

LEMMA ProductWritesKeeps ==
    ASSUME ReleaseInv, NEW t \in DataTables, ProductWrites(t)
    PROVE  ReleaseInv' /\ revision' = revision
  <1>1. CatalogueInv' /\ DeployInv'
    BY CatalogueStays, DeployStays DEF ProductWrites, InsertRow, depvars, ReleaseInv
  <1>2. RowsInv' /\ StatusOK(status)' /\ revision' = revision
    BY DEF ProductWrites, InsertRow, CanWrite, depvars, ReleaseInv, RowsInv, StatusOK
  <1> QED BY <1>1, <1>2 DEF ReleaseInv

LEMMA StartMigrationKeeps ==
    ASSUME ReleaseInv, NEW p \in Promotions, StartMigration(p)
    PROVE  ReleaseInv' /\ revision' = revision
  <1>1. p \in Migrators /\ p \in Deployments
    BY ReleaseAssumption DEF Deployments
  <1>2. ProcessMoves(p)
    BY <1>1, BeginUpgradeMoves, HeadIsANumber DEF StartMigration, ReleaseInv
  <1>3. DeployInv'
    BY <1>1, MoveKeeps DEF StartMigration, ReleaseInv, BeforeWait, Waited, Labels
  <1>4. CatalogueInv'
    BY <1>1, <1>2, MovesKeep DEF ReleaseInv
  <1>5. RowsInv' /\ StatusOK(status)' /\ revision' = revision
    BY <1>2 DEF ProcessMoves, StartMigration, ReleaseInv, RowsInv, StatusOK
  <1> QED BY <1>3, <1>4, <1>5 DEF ReleaseInv

(* The steps of a deployment that only decide.                             *)
LEMMA DecisionKeeps ==
    ASSUME ReleaseInv, NEW p \in Deployments,
           \/ BackupTaken(p) \/ MigrationChecked(p) \/ RollbackChecked(p)
           \/ ReadStatus(p) \/ ListDeployments(p) \/ SmokeSurfaces(p) \/ GateFails(p)
    PROVE  ReleaseInv' /\ revision' = revision
  <1>1. UNCHANGED <<migvars, status, deployments, active, expected, seen>>
    BY DEF BackupTaken, MigrationChecked, RollbackChecked, ReadStatus, ListDeployments,
           SmokeSurfaces, GateFails
  <1>2. known' = known \/ known' = [known EXCEPT ![p] = Latest]
    BY DEF BackupTaken, MigrationChecked, RollbackChecked, ReadStatus, ListDeployments,
           SmokeSurfaces, GateFails
  <1>3. ASSUME NEW label \in BeforeWait \cup {"passed", "failed"}, MoveTo(p, label),
               label \in BeforeWait => pc[p] \in BeforeWait
        PROVE  DeployInv'
    <2>1. label \in Labels \ {"switched"} /\ label \notin Waited
      BY <1>3 DEF BeforeWait, Waited, Labels
    <2> QED BY <1>1, <1>2, <1>3, <2>1, MoveKeeps DEF ReleaseInv, Waited
  <1>4. PICK label \in BeforeWait \cup {"passed", "failed"} :
            MoveTo(p, label) /\ (label \in BeforeWait => pc[p] \in BeforeWait)
    <2> USE DEF BeforeWait
    <2>1. CASE MigrationChecked(p) \/ RollbackChecked(p)
      <3>1. pc[p] \in BeforeWait /\ \E label \in {"checked", "failed"} : MoveTo(p, label)
        BY <2>1 DEF MigrationChecked, RollbackChecked
      <3> QED BY <3>1
    <2>2. CASE BackupTaken(p) \/ ReadStatus(p) \/ ListDeployments(p)
      BY <2>2 DEF BackupTaken, ReadStatus, ListDeployments
    <2>3. CASE SmokeSurfaces(p) \/ GateFails(p)
      <3>1. \E label \in {"passed", "failed"} : MoveTo(p, label)
        BY <2>3 DEF SmokeSurfaces, GateFails
      <3> QED BY <3>1
    <2> QED BY <2>1, <2>2, <2>3
  <1>5. DeployInv'
    BY <1>3, <1>4
  <1>6. CatalogueInv' /\ RowsInv' /\ StatusOK(status)'
    BY <1>1, CatalogueUntouched
  <1> QED BY <1>1, <1>5, <1>6 DEF ReleaseInv, migvars

(* The steps that change the deployments, what runs or what was seen.      *)
LEMMA SurfaceStepKeeps ==
    ASSUME ReleaseInv,
           \/ \E p \in Deployments : SwitchImages(p) \/ ReuseDeployments(p) \/ PickDeployments(p)
           \/ \E p \in Deployments, s \in Surfaces : WaitForService(p, s)
           \/ \E s \in Surfaces : Rollout(s)
    PROVE  ReleaseInv' /\ revision' = revision
  <1>1. UNCHANGED <<migvars, status>>
    BY DEF SwitchImages, ReuseDeployments, PickDeployments, WaitFor, WaitForService, Rollout
  <1>2. DeployInv'
    BY SwitchKeeps, IdsKeep, WaitKeeps, RolloutKeeps DEF ReleaseInv
  <1>3. CatalogueInv' /\ RowsInv' /\ StatusOK(status)'
    BY <1>1, CatalogueUntouched
  <1> QED BY <1>1, <1>2, <1>3 DEF ReleaseInv, migvars

LEMMA ScheduledSurfaces == "web" \in Surfaces /\ "api" \in Surfaces /\ "scheduler" \in Surfaces
  BY ReleaseAssumption

LEMMA SurfaceHeartbeatKeeps ==
    ASSUME ReleaseInv,
           \/ \E services, login \in BOOLEAN : ApiHeartbeat(services, login)
           \/ \E s \in Surfaces \cap {"worker", "scheduler"} : ProcessHeartbeat(s)
    PROVE  ReleaseInv' /\ revision' = revision
  <1>1. /\ UNCHANGED <<schema, revision, mig, deployments, active, progress>>
        /\ \E s \in Surfaces : \E state : Heartbeat(s, RunningOn(s), state)
    BY ScheduledSurfaces DEF ApiHeartbeat, ProcessHeartbeat
  <1>2. PICK s \in Surfaces : \E state : Heartbeat(s, RunningOn(s), state)
    BY <1>1
  <1>3. RunningOn(s) \in Releases \cup {None}
    BY ConfigIsARelease DEF ReleaseInv, DeployInv
  <1>4. CatalogueInv' /\ RowsInv' /\ StatusOK(status)'
    BY <1>1, <1>2, <1>3, HeartbeatKeeps
  <1>5. DeployInv'
    BY <1>1, DeployStays DEF ReleaseInv
  <1> QED BY <1>1, <1>4, <1>5 DEF ReleaseInv

LEMMA SchedulerPassKeeps ==
    ASSUME ReleaseInv, NEW p \in Promotions, SchedulerPass(p)
    PROVE  ReleaseInv' /\ revision' = revision
  <1>1. p \in Deployments /\ pc[p] = "deployed"
    BY DEF Deployments, SchedulerPass
  <1>2. Config \in Releases \cup {None}
    BY ConfigIsARelease DEF ReleaseInv, DeployInv
  <1>3. CatalogueInv' /\ RowsInv' /\ StatusOK(status)'
    BY <1>2, HeartbeatKeeps, ScheduledSurfaces DEF SchedulerPass
  <1>4. DeployInv'
    BY <1>1, MoveKeeps DEF SchedulerPass, ReleaseInv, BeforeWait, Waited, Labels
  <1> QED BY <1>3, <1>4 DEF ReleaseInv, SchedulerPass

(* Web answers with the release it runs, and if the last deployments are   *)
(* up that is the one of the last edit.                                    *)
LEMMA SmokeProbesKeeps ==
    ASSUME ReleaseInv, NEW p \in Deployments, SmokeProbes(p)
    PROVE  ReleaseInv' /\ revision' = revision
  <1>1. RunningOn("api") \in Releases \cup {None}
    BY ConfigIsARelease, ScheduledSurfaces DEF ReleaseInv, DeployInv
  <1>2. CatalogueInv' /\ RowsInv' /\ StatusOK(status)'
    BY <1>1, HeartbeatKeeps, ScheduledSurfaces DEF SmokeProbes
  <1>3. pc[p] \in Waited /\ UNCHANGED <<deployments, active, known, expected, seen>>
    BY DEF SmokeProbes, Waited
  <1>4. RunningOn("web") = ReleaseOf[p] => ProbedOK(p)
    BY <1>3, WaitedForTheLast, ScheduledSurfaces DEF ProbedOK, ReleaseInv
  <1>5. PICK label \in {"probed", "failed"} :
            MoveTo(p, label) /\ (label = "probed" => RunningOn("web") = ReleaseOf[p])
    BY DEF SmokeProbes
  <1>6. DeployInv'
    BY <1>3, <1>4, <1>5, MoveKeeps DEF ReleaseInv, BeforeWait, Waited, Labels
  <1> QED BY <1>2, <1>6 DEF ReleaseInv, SmokeProbes

LEMMA ReleaseInitInv == ReleaseInit => ReleaseInv
  <1> HAVE ReleaseInit
  <1>1. CatalogueInv
    <2>1. revision \in 0..HeadRevision /\ schema = SchemaAt[revision]
      BY ReleaseAssumption DEF ReleaseInit, MigInit
    <2>2. schema \in DatabasesAt(revision)
      BY <2>1, ScriptAssumption
    <2>3. DOMAIN mig = Migrators /\ \A m \in Migrators : mig[m] = Idle
      BY DEF ReleaseInit, MigInit
    <2> QED BY <2>1, <2>2, <2>3, IdleOK DEF CatalogueInv
  <1>2. RowsInv
    BY DEF ReleaseInit, MigInit, RowsInv
  <1>3. DeployInv
    <2>1. deployments \in Seq(Releases) /\ Latest \in Nat
      <3>1. PICK r \in StartReleases : deployments = IF r = None THEN <<>> ELSE <<r>>
        BY DEF ReleaseInit
      <3>2. r # None => r \in Releases
        BY ReleaseAssumption DEF Releases
      <3> QED BY <3>1, <3>2 DEF Latest
    <2>2. /\ active \in [Surfaces -> 0..Latest]
          /\ pc = [p \in Deployments |-> "start"]
          /\ known \in [Deployments -> 0..Latest]
          /\ expected \in [Deployments -> [Surfaces -> 0..Latest]]
          /\ seen = [p \in Deployments |-> {}]
      BY <2>1 DEF ReleaseInit
    <2> QED BY <2>1, <2>2 DEF DeployInv, DeployTypes, DeploymentOK, BeforeWait, Waited, Labels
  <1>4. StatusOK(status)
    BY DEF ReleaseInit, StatusOK, NoStatus
  <1> QED BY <1>1, <1>2, <1>3, <1>4 DEF ReleaseInv

LEMMA ReleaseStep ==
    ASSUME ReleaseInv, [ReleaseNext]_releaseVars
    PROVE  ReleaseInv' /\ [History!Next]_revision
  <1>1. CASE UNCHANGED releaseVars
    <2>1. UNCHANGED <<migvars, status>> /\ UNCHANGED <<deployments, active, progress>>
      BY <1>1 DEF releaseVars, depvars
    <2>2. CatalogueInv' /\ RowsInv' /\ StatusOK(status)' /\ DeployInv'
      BY <2>1, CatalogueUntouched, DeployStays DEF ReleaseInv
    <2> QED BY <2>1, <2>2 DEF ReleaseInv, migvars
  <1>2. ASSUME NEW m \in Migrators, RunAlembic(m)
        PROVE  ReleaseInv' /\ [History!Next]_revision
    BY <1>2, RunAlembicKeeps
  <1>3. ASSUME NEW m \in Operators, OperatorCommand(m)
        PROVE  ReleaseInv' /\ [History!Next]_revision
    BY <1>3, OperatorKeeps
  <1>4. ASSUME NEW t \in DataTables, ProductWrites(t)
        PROVE  ReleaseInv' /\ [History!Next]_revision
    BY <1>4, ProductWritesKeeps
  <1>5. ASSUME NEW p \in Promotions, Promote(p)
        PROVE  ReleaseInv' /\ [History!Next]_revision
    <2>1. p \in Deployments
      BY DEF Deployments
    <2> QED BY <1>5, <2>1, DecisionKeeps, StartMigrationKeeps, SchedulerPassKeeps DEF Promote
  <1>6. ASSUME NEW p \in Rollbacks, RollbackChecked(p)
        PROVE  ReleaseInv' /\ [History!Next]_revision
    <2>1. p \in Deployments
      BY DEF Deployments
    <2> QED BY <1>6, <2>1, DecisionKeeps
  <1>7. ASSUME NEW p \in Deployments, Deploy(p)
        PROVE  ReleaseInv' /\ [History!Next]_revision
    BY <1>7, SurfaceStepKeeps, SmokeProbesKeeps, DecisionKeeps DEF Deploy
  <1>8. ASSUME NEW s \in Surfaces, Rollout(s)
        PROVE  ReleaseInv' /\ [History!Next]_revision
    BY <1>8, SurfaceStepKeeps
  <1>9. ASSUME \/ \E services, login \in BOOLEAN : ApiHeartbeat(services, login)
               \/ \E s \in Surfaces \cap {"worker", "scheduler"} : ProcessHeartbeat(s)
        PROVE  ReleaseInv' /\ [History!Next]_revision
    BY <1>9, SurfaceHeartbeatKeeps
  <1> QED
    BY <1>1, <1>2, <1>3, <1>4, <1>5, <1>6, <1>7, <1>8, <1>9 DEF ReleaseNext

LEMMA ReleaseInvInvariant == ReleaseSpec => []ReleaseInv
  <1>1. ReleaseInv /\ [ReleaseNext]_releaseVars => ReleaseInv'
    BY ReleaseStep
  <1> QED BY <1>1, ReleaseInitInv, PTL DEF ReleaseSpec

(* The catalogue, the status rows and the progress of every deployment     *)
(* keep their types, for any numbers of promotions, rollbacks, operators   *)
(* and releases.                                                           *)
THEOREM ReleaseTypes == ReleaseSpec => []ReleaseTypeOK
  <1>1. ReleaseInv => ReleaseTypeOK
    BY DEF ReleaseInv, CatalogueInv, RowsInv, DeployInv, DeployTypes, StatusOK, ReleaseTypeOK
  <1> QED BY <1>1, ReleaseInvInvariant, PTL

LEMMA DatabaseIsARevision ==
    ASSUME NEW r, NEW s \in DatabasesAt(r)
    PROVE  /\ [s EXCEPT !.extensions = {}] = [SchemaAt[r] EXCEPT !.extensions = {}]
           /\ r > 0 => VerifyBootstrap(s)
  <1>1. PICK e : s = [SchemaAt[r] EXCEPT !.extensions = e]
    BY DEF DatabasesAt
  <1> DEFINE base == SchemaAt[r]
  <1>2. s = [base EXCEPT !.extensions = e]
    BY <1>1
  <1> HIDE DEF base
  <1>3. [s EXCEPT !.extensions = {}] = [base EXCEPT !.extensions = {}]
    BY <1>2
  <1>4. r > 0 => VerifyBootstrap(s)
    BY DEF DatabasesAt
  <1> QED BY <1>3, <1>4 DEF base

(* Whatever alembic commands overlap, are refused, lose the race for the   *)
(* version row or lose their connection, the catalogue is the one of its   *)
(* revision.  What the scripts of the seven revisions do on a database of  *)
(* their own is ScriptAssumption, which has no parameters and which TLC    *)
(* evaluates.                                                              *)
THEOREM SchemaIsARevisionInvariant == ReleaseSpec => []SchemaIsARevision
  <1>1. ReleaseInv => SchemaIsARevision
    BY DatabaseIsARevision DEF ReleaseInv, CatalogueInv, SchemaIsARevision
  <1> QED BY <1>1, ReleaseInvInvariant, PTL

(* The catalogue implements the plain revision history: a step of it is an *)
(* upgrade of any length or the downgrade of one revision other than 0005, *)
(* and what promotions, rollbacks and heartbeats do is stuttering.         *)
THEOREM ReleaseImplementsHistory == ReleaseSpec => ImplementsHistory
  <1>1. ReleaseInit => History!Init
    BY ReleaseInitInv DEF ReleaseInv, CatalogueInv, History!Init
  <1>2. ReleaseInv /\ [ReleaseNext]_releaseVars => [History!Next]_revision
    BY ReleaseStep
  <1> QED BY <1>1, <1>2, ReleaseInvInvariant, PTL DEF ReleaseSpec, ImplementsHistory, History!Spec

(* Only the comparison of the surfaces' rows passes a deployment.          *)
LEMMA PassedFromProbed ==
    ASSUME DeployInv, [ReleaseNext]_releaseVars, NEW p \in Deployments,
           pc[p] # "passed", pc'[p] = "passed"
    PROVE  pc[p] = "probed"
  <1> DEFINE Elsewhere == \E q : \E label : label # "passed" /\ MoveTo(q, label)
  <1>1. ~(pc' = pc) /\ ~Elsewhere
    BY DEF MoveTo, DeployInv, DeployTypes
  <1> HIDE DEF Elsewhere
  <1>2. ASSUME NEW q, \/ BackupTaken(q) \/ StartMigration(q) \/ ReadStatus(q)
                      \/ ReuseDeployments(q) \/ ListDeployments(q) \/ SwitchImages(q)
                      \/ PickDeployments(q) \/ SchedulerPass(q) \/ GateFails(q)
        PROVE  FALSE
    BY <1>1, <1>2 DEF BackupTaken, StartMigration, ReadStatus, ReuseDeployments, ListDeployments,
                      SwitchImages, PickDeployments, WaitFor, SchedulerPass, GateFails, Elsewhere
  <1>3. ASSUME NEW q, MigrationChecked(q) \/ RollbackChecked(q) \/ SmokeProbes(q)
        PROVE  FALSE
    <2>1. PICK label \in {"checked", "failed", "probed"} : MoveTo(q, label)
      BY <1>3 DEF MigrationChecked, RollbackChecked, SmokeProbes
    <2> QED BY <1>1, <2>1 DEF Elsewhere
  <1>4. ASSUME NEW q, NEW s, WaitForService(q, s) PROVE FALSE
    BY <1>1, <1>4 DEF WaitForService, Elsewhere
  <1>5. ASSUME NEW q, SmokeSurfaces(q) PROVE pc[p] = "probed"
    <2>1. p = q
      BY <1>5 DEF SmokeSurfaces, MoveTo, DeployInv, DeployTypes
    <2> QED BY <1>5, <2>1 DEF SmokeSurfaces
  <1>6. ASSUME NEW services, NEW login, ApiHeartbeat(services, login) PROVE FALSE
    BY <1>1, <1>6 DEF ApiHeartbeat, progress
  <1>7. ASSUME NEW s, Rollout(s) \/ ProcessHeartbeat(s) \/ ProductWrites(s) \/ OperatorCommand(s)
                        \/ RunAlembic(s)
        PROVE  FALSE
    BY <1>1, <1>7 DEF Rollout, ProcessHeartbeat, ProductWrites, OperatorCommand, RunAlembic, depvars,
                      progress
  <1>8. ~UNCHANGED releaseVars
    BY <1>1 DEF releaseVars, depvars, progress
  <1> QED
    BY <1>2, <1>3, <1>4, <1>5, <1>6, <1>7, <1>8 DEF ReleaseNext, Promote, Deploy

(* A deployment that passes while the deployments it waited for are the    *)
(* latest has every surface on its release, for any number of promotions   *)
(* and rollbacks beside it.                                                *)
THEOREM PassIsCompleteHolds == ReleaseSpec => PassIsComplete
  <1> DEFINE Passing == \A p \in Deployments :
           /\ pc[p] # "passed" /\ pc'[p] = "passed"
           /\ \A s \in Surfaces : expected[p][s] = Latest
           => \A s \in Surfaces : RunningOn(s) = ReleaseOf[p]
  <1>1. ASSUME ReleaseInv, [ReleaseNext]_releaseVars PROVE Passing
    <2> SUFFICES ASSUME NEW p \in Deployments, pc[p] # "passed", pc'[p] = "passed",
                        \A s \in Surfaces : expected[p][s] = Latest,
                        NEW s \in Surfaces
                 PROVE  RunningOn(s) = ReleaseOf[p]
      OBVIOUS
    <2>1. pc[p] = "probed" /\ DeploymentOK(p) /\ DeployInv
      BY <1>1, PassedFromProbed DEF ReleaseInv, DeployInv
    <2>2. Config = ReleaseOf[p]
      BY <2>1 DEF DeploymentOK, ProbedOK
    <2>3. RunningOn(s) = Config
      BY <2>1, WaitedForTheLast DEF Waited
    <2> QED BY <2>2, <2>3
  <1>2. ReleaseSpec => [][Passing]_releaseVars
    <2>1. ReleaseInv /\ [ReleaseNext]_releaseVars => [Passing]_releaseVars
      BY <1>1
    <2> HIDE DEF Passing
    <2> QED BY <2>1, ReleaseInvInvariant, PTL DEF ReleaseSpec
  <1> QED BY <1>2 DEF PassIsComplete

=============================================================================
