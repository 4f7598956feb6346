------------------------ MODULE StudentImportProofs ------------------------
(***************************************************************************)
(* Proofs about StudentImport, for any number of requests, files, uploads  *)
(* and rows.                                                               *)
(***************************************************************************)
EXTENDS StudentImport, FiniteSetTheorems, WellFoundedInduction, TLAPS

BatchType == batch \in [Batches -> BatchRecords]
RowType == row \in [Batches -> [RowNos -> RowRecords]]
ReqType == req \in [Requests -> RequestRecords]

\* A request that holds nothing is well typed.
LEMMA IdleType == Idle \in RequestRecords
BY ConstantsAssumption DEF Idle, RequestRecords, Steps, Decisions, Batches

\* Only these steps write student_import_batches.
LEMMA BatchStep ==
    ASSUME BatchType, ReqType, RequestsSound, Next
    PROVE BatchType'
<1> USE DEF BatchType
<1>0. ASSUME NEW r \in Requests, NEW s \in Statuses, TransitionTo(r, s) PROVE BatchType'
  BY <1>0 DEF TransitionTo, BatchRecords
<1>1. ASSUME NEW r \in Requests, CreateBatch(r) PROVE BatchType'
  <2>1. PICK b \in Batches : batch' = [batch EXCEPT ![b] =
             [NoBatch EXCEPT !.status = "uploaded", !.file = req[r].choice,
                             !.expires = "future"]]
    BY <1>1 DEF CreateBatch
  <2>2. req[r].choice \in Files
    BY <1>1 DEF CreateBatch, RequestsSound, RequestSound, At
  <2>3. [NoBatch EXCEPT !.status = "uploaded", !.file = req[r].choice, !.expires = "future"] \in BatchRecords
    BY <2>2 DEF NoBatch, BatchRecords, Statuses
  <2> QED BY <2>1, <2>3
<1>2. ASSUME NEW r \in Requests, SaveAnalysis(r) \/ SaveMapping(r) \/ SavePreview(r) PROVE BatchType'
  BY <1>0, <1>2 DEF SaveAnalysis, SaveMapping, SavePreview, Statuses
<1>3. ASSUME NEW r \in Requests, Settle(r) PROVE BatchType'
  BY <1>0, <1>3 DEF Settle, RequestsSound, RequestSound, Statuses, At
<1>4. ASSUME NEW r \in Requests, WipeRows(r) \/ Cancel(r) \/ ForgetFile(r) \/ StartChunk(r) \/ ApplyRow(r)
      PROVE BatchType'
  <2>1. CASE WipeRows(r) 
    <3>1. req[r].b \in Batches /\ batch[req[r].b] \in BatchRecords
      BY DEF ReqType, RequestRecords
    <3>2. [batch[req[r].b] EXCEPT !.wipes = @ + 1] \in BatchRecords
      BY <3>1 DEF BatchRecords
    <3> QED BY <2>1, <3>1, <3>2 DEF WipeRows
  <2>2. CASE Cancel(r) BY <2>2 DEF Cancel, BatchRecords, Statuses
  <2>3. CASE ForgetFile(r) BY <2>3 DEF ForgetFile, BatchRecords
  <2>4. CASE StartChunk(r) BY <2>4 DEF StartChunk, BatchRecords, Statuses
  <2>5. CASE ApplyRow(r) 
    <3>1. req[r].b \in Batches /\ batch[req[r].b] \in BatchRecords
      BY DEF ReqType, RequestRecords
    <3>2. [batch[req[r].b] EXCEPT !.created = @ + 1] \in BatchRecords
      BY <3>1 DEF BatchRecords
    <3>3. [batch[req[r].b] EXCEPT !.updated = @ + 1] \in BatchRecords
      BY <3>1 DEF BatchRecords
    <3>4. PICK c \in BatchRecords : batch' = [batch EXCEPT ![req[r].b] = c]
      <4>1. CASE row[req[r].b][Current(r)].decision = "update"
        BY <2>5, <3>1, <3>3, <4>1 DEF ApplyRow, BatchRecords
      <4>2. CASE row[req[r].b][Current(r)].decision # "update"
        BY <2>5, <3>1, <3>2, <4>2 DEF ApplyRow, BatchRecords
      <4> QED BY <4>1, <4>2
    <3> QED BY <3>1, <3>4
  <2> QED BY <1>4, <2>1, <2>2, <2>3, <2>4, <2>5
<1>5. ASSUME NEW b \in Batches, RetentionStep(b) PROVE BatchType'
  <2>1. CASE Expire(b) BY <2>1 DEF Expire, BatchRecords
  <2>2. CASE Purge(b) BY <2>2 DEF Purge, BatchRecords, Statuses
  <2>3. CASE PurgeInterrupted(b) BY <2>3 DEF PurgeInterrupted
  <2> QED BY <1>5, <2>1, <2>2, <2>3 DEF RetentionStep
<1>6. ASSUME NEW r \in Requests,
             \/ UploadKnown(r) \/ UploadNew(r) \/ CreateRefused(r) \/ CreateInterrupted(r)
             \/ BeginSimulation(r) \/ Reload(r) \/ InsertRow(r) \/ InsertCollides(r)
             \/ BeginResolve(r) \/ SaveDecision(r) \/ Unlink(r) \/ UnlinkFails(r)
             \/ SelectRows(r) \/ SkipRow(r) \/ RefuseRow(r) \/ MarkError(r) \/ RowsDone(r)
             \/ CountReady(r) \/ CheckReview(r) \/ RefreshBatch(r) \/ Abort(r)
      PROVE BatchType'
  BY <1>6 DEF UploadKnown, UploadNew, CreateRefused, CreateInterrupted, BeginSimulation,
       Reload, InsertRow, InsertCollides, BeginResolve, SaveDecision, Unlink, UnlinkFails,
       SelectRows, SkipRow, RefuseRow, MarkError, RowsDone, CountReady, CheckReview,
       RefreshBatch, Abort
<1> QED
  BY <1>1, <1>2, <1>3, <1>4, <1>5, <1>6 DEF Next, RequestStep, ChunkStep, RowStep

\* Only these steps write student_import_rows.
LEMMA RowsStep ==
    ASSUME RowType, ReqType, RequestsSound, Next
    PROVE RowType'
<1> USE DEF RowType
<1>1. ASSUME NEW b \in Batches, row' = [row EXCEPT ![b] = NoRows] PROVE RowType'
  BY <1>1 DEF NoRows, NoRow, RowRecords, Decisions
<1>2. ASSUME NEW r \in Requests, WipeRows(r) PROVE RowType'
  BY <1>1, <1>2 DEF WipeRows, ReqType, RequestRecords
<1>3. ASSUME NEW r \in Requests, InsertRow(r) PROVE RowType'
  <2>1. PICK c \in Classified : row' = [row EXCEPT ![req[r].b][Least(req[r].todo)] = c]
    BY <1>3 DEF InsertRow
  <2>2. NoRow \in RowRecords
    BY DEF NoRow, RowRecords, Decisions
  <2>3. [NoRow EXCEPT !.status = "ignored"] \in RowRecords
    BY <2>2 DEF RowRecords, RowStatuses
  <2>4. ASSUME NEW t \in {"error", "needs_review", "ready"}
        PROVE [NoRow EXCEPT !.status = t, !.data = TRUE] \in RowRecords
    BY <2>2 DEF RowRecords, RowStatuses
  <2>5. c \in RowRecords
    BY <2>3, <2>4 DEF Classified
  <2> QED BY <2>1, <2>5
<1>4. ASSUME NEW r \in Requests, SaveDecision(r) PROVE RowType'
  <2>1. req[r].choice \in {"ignore", "update", "create"}
    BY <1>4 DEF SaveDecision, RequestsSound, RequestSound, At
  <2>2. ASSUME NEW x \in RowRecords PROVE Decided(x, req[r].choice) \in RowRecords
    BY <2>1 DEF Decided, RowRecords, RowStatuses, Decisions
  <2> QED BY <1>4, <2>2 DEF SaveDecision
<1>5. ASSUME NEW r \in Requests, Cancel(r) PROVE RowType'
  BY <1>1, <1>5 DEF Cancel
<1>6. ASSUME NEW r \in Requests, ApplyRow(r) PROVE RowType'
  <2>1. ASSUME NEW x \in RowRecords PROVE Applied(x) \in RowRecords
    <3>1. ASSUME NEW t \in RowStatuses
          PROVE [x EXCEPT !.status = t, !.data = FALSE, !.times = @ + 1] \in RowRecords
      <4>1. x.times + 1 \in Nat
        BY DEF RowRecords
      <4>2. ASSUME NEW k \in Nat
            PROVE [x EXCEPT !.status = t, !.data = FALSE, !.times = k] \in RowRecords
        BY DEF RowRecords
      <4> QED BY <4>1, <4>2
    <3>2. (IF x.decision = "update" THEN "updated" ELSE "created") \in RowStatuses
      BY DEF RowStatuses
    <3> QED BY <3>1, <3>2 DEF Applied
  <2> QED BY <1>6, <2>1 DEF ApplyRow
<1>7. ASSUME NEW r \in Requests, MarkError(r) PROVE RowType'
  <2>1. ASSUME NEW x \in RowRecords
        PROVE Rejected(x) \in RowRecords
    BY DEF Rejected, RowRecords, RowStatuses
  <2> QED BY <1>7, <2>1 DEF MarkError
<1>8. ASSUME NEW b \in Batches, RetentionStep(b) PROVE RowType'
  BY <1>1, <1>8 DEF RetentionStep, Expire, Purge, PurgeInterrupted
<1>9. ASSUME NEW r \in Requests,
             \/ UploadKnown(r) \/ UploadNew(r) \/ CreateBatch(r) \/ CreateRefused(r)
             \/ CreateInterrupted(r) \/ SaveAnalysis(r) \/ BeginSimulation(r)
             \/ SaveMapping(r) \/ Reload(r) \/ InsertCollides(r) \/ SavePreview(r)
             \/ BeginResolve(r) \/ Unlink(r) \/ UnlinkFails(r) \/ ForgetFile(r)
             \/ StartChunk(r) \/ SelectRows(r) \/ SkipRow(r) \/ RefuseRow(r) \/ RowsDone(r)
             \/ CountReady(r) \/ CheckReview(r) \/ RefreshBatch(r) \/ Settle(r) \/ Abort(r)
      PROVE RowType'
  BY <1>9 DEF UploadKnown, UploadNew, CreateBatch, CreateRefused, CreateInterrupted,
       SaveAnalysis, BeginSimulation, SaveMapping, Reload, InsertCollides, SavePreview,
       BeginResolve, Unlink, UnlinkFails, ForgetFile, StartChunk, SelectRows, SkipRow,
       RefuseRow, RowsDone, CountReady, CheckReview, RefreshBatch, Settle, Abort
<1> QED
  BY <1>2, <1>3, <1>4, <1>5, <1>6, <1>7, <1>8, <1>9 DEF Next, RequestStep, ChunkStep, RowStep

\* Every step that moves a request leaves it with a well-typed record.
LEMMA ReqStep ==
    ASSUME TypeOK, ReqType, Next
    PROVE ReqType'
<1> USE DEF ReqType
<1>0. ASSUME NEW r \in Requests, NEW q \in RequestRecords, req' = [req EXCEPT ![r] = q]
      PROVE ReqType'
  BY <1>0
<1>1. ASSUME NEW r \in Requests, NEW s \in Steps, Goto(r, s) PROVE ReqType'
  BY <1>1 DEF Goto, RequestRecords
<1>2. ASSUME NEW r \in Requests, Finish(r) PROVE ReqType'
  BY <1>2, IdleType DEF Finish
<1>3. ASSUME NEW r \in Requests, UploadKnown(r) PROVE ReqType'
  <2>1. ASSUME NEW b \in Batches
        PROVE [Idle EXCEPT !.pc = "analyze", !.b = b, !.copy = "uploaded"] \in RequestRecords
    BY IdleType DEF RequestRecords, Steps, Statuses
  <2> QED BY <1>0, <1>3, <2>1 DEF UploadKnown
<1>4. ASSUME NEW r \in Requests, UploadNew(r) PROVE ReqType'
  <2>1. ASSUME NEW f \in Files
        PROVE [Idle EXCEPT !.pc = "create", !.choice = f] \in RequestRecords
    BY IdleType DEF RequestRecords, Steps
  <2> QED BY <1>0, <1>4, <2>1 DEF UploadNew
<1>5. ASSUME NEW r \in Requests, CreateBatch(r) PROVE ReqType'
  <2>1. ASSUME NEW b \in Batches
        PROVE [Idle EXCEPT !.pc = "analyze", !.b = b, !.copy = "uploaded"] \in RequestRecords
    BY IdleType DEF RequestRecords, Steps, Statuses
  <2> QED BY <1>0, <1>5, <2>1 DEF CreateBatch
<1>6. ASSUME NEW r \in Requests, BeginSimulation(r) PROVE ReqType'
  <2>1. ASSUME NEW b \in Batches, NEW t \in Statuses
        PROVE [Idle EXCEPT !.pc = "map", !.b = b, !.copy = t] \in RequestRecords
    BY IdleType DEF RequestRecords, Steps
  <2>2. PICK b \in disk : /\ batch[b].status \in {"analyzed", "mapped"}
                          /\ req' = [req EXCEPT ![r] =
                               [Idle EXCEPT !.pc = "map", !.b = b, !.copy = batch[b].status]]
    BY <1>6 DEF BeginSimulation
  <2>3. b \in Batches /\ batch[b].status \in Statuses
    BY <2>2 DEF TypeOK, Statuses
  <2> QED BY <1>0, <2>1, <2>2, <2>3
<1>7. ASSUME NEW r \in Requests, Reload(r) PROVE ReqType'
  <2>1. [req[r] EXCEPT !.pc = "wipe", !.copy = "mapped"] \in RequestRecords
    BY DEF RequestRecords, Steps, Statuses
  <2> QED BY <1>0, <1>2, <1>7, <2>1 DEF Reload
<1>8. ASSUME NEW r \in Requests, WipeRows(r) PROVE ReqType'
  <2>1. [req[r] EXCEPT !.pc = "insert", !.todo = RowNos] \in RequestRecords
    BY DEF RequestRecords, Steps
  <2> QED BY <1>0, <1>2, <1>8, <2>1 DEF WipeRows
<1>9. ASSUME NEW r \in Requests, InsertRow(r) PROVE ReqType'
  <2>1. ASSUME NEW n, NEW s \in Steps
        PROVE [req[r] EXCEPT !.todo = @ \ {n}, !.pc = s] \in RequestRecords
    BY DEF RequestRecords
  <2> QED BY <1>9, <2>1 DEF InsertRow, Steps
<1>10. ASSUME NEW r \in Requests, BeginResolve(r) PROVE ReqType'
  <2>1. ASSUME NEW b \in Batches, NEW n \in RowNos, NEW d \in Decisions,
               NEW t \in Statuses, NEW g \in Nat
        PROVE [Idle EXCEPT !.pc = "resolve", !.b = b, !.copy = t, !.gen = g,
                           !.todo = {n}, !.choice = d] \in RequestRecords
    BY IdleType DEF RequestRecords, Steps
  <2>2. ASSUME NEW b \in Batches PROVE batch[b].wipes \in Nat
    BY DEF TypeOK, BatchRecords
  <2>3. PICK b \in Batches, n \in RowNos, d \in {"ignore", "update", "create"} :
          /\ batch[b].status \in {"previewed", "partial"}
          /\ req' = [req EXCEPT ![r] =
               [Idle EXCEPT !.pc = "resolve", !.b = b, !.copy = batch[b].status,
                            !.gen = batch[b].wipes, !.todo = {n}, !.choice = d]]
    BY <1>10 DEF BeginResolve
  <2>4. batch[b].status \in Statuses /\ d \in Decisions
    BY <2>3 DEF Statuses, Decisions
  <2> QED BY <1>0, <2>1, <2>2, <2>3, <2>4
<1>11. ASSUME NEW r \in Requests, Cancel(r) PROVE ReqType'
  <2>1. ASSUME NEW b \in Batches
        PROVE [Idle EXCEPT !.pc = "unlink", !.b = b] \in RequestRecords
    BY IdleType DEF RequestRecords, Steps
  <2> QED BY <1>0, <1>11, <2>1 DEF Cancel
<1>12. ASSUME NEW r \in Requests, StartChunk(r) PROVE ReqType'
  <2>1. ASSUME NEW b \in Batches
        PROVE [Idle EXCEPT !.pc = "chunk", !.b = b, !.copy = "processing"] \in RequestRecords
    BY IdleType DEF RequestRecords, Steps, Statuses
  <2> QED BY <1>0, <1>12, <2>1 DEF StartChunk
<1>13. ASSUME NEW r \in Requests, SelectRows(r) PROVE ReqType'
  <2>1. req[r].b \in Batches
    BY DEF RequestRecords
  <2>2. batch[req[r].b].wipes \in Nat /\ ChunkOf(req[r].b) \subseteq RowNos
    BY <2>1 DEF TypeOK, BatchRecords, ChunkOf, RowsIn
  <2>3. [req[r] EXCEPT !.pc = "rows", !.todo = ChunkOf(req[r].b),
                       !.gen = batch[req[r].b].wipes] \in RequestRecords
    BY <2>2 DEF RequestRecords, Steps
  <2> QED BY <1>0, <1>13, <2>3 DEF SelectRows
<1>14. ASSUME NEW r \in Requests, ApplyRow(r) \/ SkipRow(r) \/ MarkError(r) PROVE ReqType'
  <2>1. ASSUME NEW n PROVE [req[r] EXCEPT !.todo = @ \ {n}] \in RequestRecords
    BY DEF RequestRecords
  <2>2. ASSUME NEW n PROVE [req[r] EXCEPT !.pc = "rows", !.todo = @ \ {n}] \in RequestRecords
    BY DEF RequestRecords, Steps
  <2>3. CASE ApplyRow(r) \/ SkipRow(r)
    BY <1>0, <2>1, <2>3 DEF ApplyRow, SkipRow
  <2>4. CASE MarkError(r)
    BY <1>0, <2>2, <2>4 DEF MarkError
  <2> QED BY <1>14, <2>3, <2>4
<1>15. ASSUME NEW r \in Requests, CheckReview(r) PROVE ReqType'
  <2>1. [req[r] EXCEPT !.pc = "finish", !.choice = Outcome(req[r].b)] \in RequestRecords
    BY DEF RequestRecords, Steps, Outcome
  <2> QED BY <1>0, <1>15, <2>1 DEF CheckReview
<1>16. ASSUME NEW r \in Requests, RefreshBatch(r) PROVE ReqType'
  <2>1. req[r].b \in Batches
    BY DEF RequestRecords
  <2>2. batch[req[r].b].status \in Statuses \cup {"none"}
    BY <2>1 DEF TypeOK, BatchRecords
  <2>3. [req[r] EXCEPT !.pc = "settle", !.copy = batch[req[r].b].status] \in RequestRecords
    BY <2>2 DEF RequestRecords, Steps
  <2> QED BY <1>0, <1>2, <1>16, <2>3 DEF RefreshBatch
<1>17. ASSUME NEW r \in Requests,
              \/ SaveMapping(r) \/ Unlink(r) \/ RefuseRow(r) \/ RowsDone(r) \/ CountReady(r)
       PROVE ReqType'
  BY <1>1, <1>2, <1>17 DEF SaveMapping, Unlink, RefuseRow, RowsDone, CountReady, Steps
<1>18. ASSUME NEW r \in Requests,
              \/ CreateRefused(r) \/ CreateInterrupted(r) \/ SaveAnalysis(r)
              \/ InsertCollides(r) \/ SavePreview(r) \/ SaveDecision(r) \/ UnlinkFails(r)
              \/ ForgetFile(r) \/ Settle(r) \/ Abort(r)
       PROVE ReqType'
  BY <1>2, <1>18 DEF CreateRefused, CreateInterrupted, SaveAnalysis, InsertCollides,
       SavePreview, SaveDecision, UnlinkFails, ForgetFile, Settle, Abort
<1>19. ASSUME NEW b \in Batches, RetentionStep(b) PROVE ReqType'
  BY <1>19 DEF RetentionStep, Expire, Purge, PurgeInterrupted
<1> QED
  BY <1>3, <1>4, <1>5, <1>6, <1>7, <1>8, <1>9, <1>10, <1>11, <1>12, <1>13, <1>14,
     <1>15, <1>16, <1>17, <1>18, <1>19
     DEF Next, RequestStep, ChunkStep, RowStep

\* The three tables and the requests keep their types; no other step writes the disk.
LEMMA TypeStep ==
    ASSUME TypeOK, RequestsSound, Next
    PROVE TypeOK'
<1>1. BatchType /\ RowType /\ ReqType
  BY DEF TypeOK, BatchType, RowType, ReqType
<1>2. BatchType' /\ RowType' /\ ReqType'
  BY <1>1, BatchStep, RowsStep, ReqStep
<1>3. (disk \subseteq Batches)'
  <2>1. CASE \E r \in Requests : CreateBatch(r) \/ CreateInterrupted(r)
    BY <2>1 DEF TypeOK, CreateBatch, CreateInterrupted
  <2>2. CASE disk' \subseteq disk
    BY <2>2 DEF TypeOK
  <2>3. CASE disk' = disk
    BY <2>2, <2>3
  <2>4. CASE \E r \in Requests : Unlink(r)
    BY <2>2, <2>4 DEF Unlink
  <2>5. CASE \E b \in Batches : RetentionStep(b)
    BY <2>2, <2>5 DEF RetentionStep, Expire, Purge, PurgeInterrupted
  <2>6. ASSUME NEW r \in Requests, RequestStep(r)
        PROVE  disk' = disk \/ CreateBatch(r) \/ CreateInterrupted(r) \/ Unlink(r)
    BY <2>6 DEF RequestStep, ChunkStep, RowStep,
       UploadKnown, UploadNew, CreateRefused, SaveAnalysis, BeginSimulation, SaveMapping,
       Reload, WipeRows, InsertRow, InsertCollides, SavePreview, BeginResolve, SaveDecision,
       Cancel, UnlinkFails, ForgetFile, StartChunk, SelectRows, ApplyRow, SkipRow,
       RefuseRow, MarkError, RowsDone, CountReady, CheckReview, RefreshBatch, Settle, Abort
  <2> QED BY <2>1, <2>3, <2>4, <2>5, <2>6 DEF Next
<1>4. (pupils \in [Batches -> [RowNos -> Nat]])'
  <2>1. CASE \E r \in Requests : ApplyRow(r)
    <3>1. PICK r \in Requests :
            pupils' = [pupils EXCEPT ![req[r].b][Current(r)] = @ + 1]
      BY <2>1 DEF ApplyRow
    <3>2. ASSUME NEW b \in Batches, NEW n \in RowNos PROVE pupils'[b][n] \in Nat
      <4>1. pupils[b][n] \in Nat /\ pupils[b][n] + 1 \in Nat
        BY DEF TypeOK
      <4>2. pupils'[b][n] = pupils[b][n] \/ pupils'[b][n] = pupils[b][n] + 1
        BY <3>1 DEF TypeOK
      <4> QED BY <4>1, <4>2
    <3>3. /\ pupils' = [b \in Batches |-> pupils'[b]]
          /\ \A b \in Batches : pupils'[b] = [n \in RowNos |-> pupils'[b][n]]
      BY <3>1 DEF TypeOK
    <3> QED BY <3>2, <3>3
  <2>2. CASE pupils' = pupils
    BY <2>2 DEF TypeOK
  <2> QED BY <2>1, <2>2 DEF Next, RequestStep, ChunkStep, RowStep, RetentionStep,
       UploadKnown, UploadNew, CreateBatch, CreateInterrupted, CreateRefused, SaveAnalysis,
       BeginSimulation, SaveMapping, Reload, WipeRows, InsertRow, InsertCollides,
       SavePreview, BeginResolve, SaveDecision, Cancel, Unlink, UnlinkFails, ForgetFile,
       StartChunk, SelectRows, SkipRow, RefuseRow, MarkError, RowsDone, CountReady,
       CheckReview, RefreshBatch, Settle, Abort, Expire, Purge, PurgeInterrupted
<1> QED BY <1>2, <1>3, <1>4 DEF TypeOK, BatchType, RowType, ReqType

-----------------------------------------------------------------------------
(* How a step moves the status of a batch *)

\* A committed batch is never deleted: its status never becomes none again.
LEMMA ExistsStep ==
    ASSUME TypeOK, RequestsSound, Next, NEW b \in Batches, Exists(b)
    PROVE Exists(b)'
<1> USE DEF Exists
<1>0. TypeOK'
  BY TypeStep
<1>1. CASE \E r \in Requests : CreateBatch(r)
  BY <1>1, <1>0 DEF CreateBatch, NextUpload, Unused, TypeOK, NoBatch, BatchRecords
<1>2. ASSUME NEW r \in Requests, NEW s \in Statuses, TransitionTo(r, s) PROVE Exists(b)'
  BY <1>2 DEF TransitionTo, TypeOK, BatchRecords, Statuses
<1>3. ASSUME NEW r \in Requests, SaveAnalysis(r) \/ SaveMapping(r) \/ SavePreview(r)
      PROVE Exists(b)'
  BY <1>2, <1>3 DEF SaveAnalysis, SaveMapping, SavePreview, Statuses
<1>4. ASSUME NEW r \in Requests, Settle(r) PROVE Exists(b)'
  BY <1>2, <1>4 DEF Settle, RequestsSound, RequestSound, At, Statuses
<1>6. ASSUME NEW r \in Requests,
             \/ WipeRows(r) \/ Cancel(r) \/ ForgetFile(r) \/ StartChunk(r) \/ ApplyRow(r)
      PROVE Exists(b)'
  <2>1. CASE WipeRows(r) BY <2>1 DEF WipeRows, TypeOK, BatchRecords
  <2>2. CASE Cancel(r) BY <2>2 DEF Cancel, TypeOK, BatchRecords
  <2>3. CASE ForgetFile(r) BY <2>3 DEF ForgetFile, TypeOK, BatchRecords
  <2>4. CASE StartChunk(r) BY <2>4 DEF StartChunk, TypeOK, BatchRecords
  <2>5. CASE ApplyRow(r) BY <2>5 DEF ApplyRow, TypeOK, BatchRecords
  <2> QED BY <1>6, <2>1, <2>2, <2>3, <2>4, <2>5
<1>8. ASSUME NEW c \in Batches, RetentionStep(c) PROVE Exists(b)'
  <2>1. CASE Expire(c) BY <2>1 DEF Expire, TypeOK, BatchRecords
  <2>2. CASE Purge(c) BY <2>2 DEF Purge, TypeOK, BatchRecords
  <2>3. CASE PurgeInterrupted(c) BY <2>3 DEF PurgeInterrupted
  <2> QED BY <1>8, <2>1, <2>2, <2>3 DEF RetentionStep
<1>7. CASE batch' = batch
  BY <1>7
<1> QED BY <1>1, <1>3, <1>4, <1>6, <1>7, <1>8 DEF Next, RequestStep, ChunkStep, RowStep,
       UploadKnown, UploadNew, CreateInterrupted, CreateRefused, BeginSimulation,
       Reload, InsertRow, InsertCollides, BeginResolve, SaveDecision, Unlink, UnlinkFails,
       SelectRows, SkipRow, RefuseRow, MarkError, RowsDone, CountReady, CheckReview,
       RefreshBatch, Abort

\* Whoever moves, the request q still works on a committed batch.
LEMMA SoundStep ==
    ASSUME TypeOK, RequestsSound, Next
    PROVE RequestsSound'
<1> SUFFICES ASSUME NEW q \in Requests PROVE RequestSound(q)'
  BY DEF RequestsSound
<1> USE DEF RequestSound
<1>1. CASE req'[q] = req[q]
  BY <1>1, ExistsStep DEF RequestsSound, TypeOK, RequestRecords
<1>2. CASE req'[q] = Idle
  BY <1>2 DEF Idle
<1>3. CASE UploadNew(q)
  BY <1>3 DEF UploadNew, TypeOK, Idle
<1>4. ASSUME NEW b \in Batches, Exists(b) \/ Exists(b)', req'[q].b = b,
             req'[q].pc \in {"analyze", "map", "unlink", "chunk"}
      PROVE RequestSound(q)'
  BY <1>4, ExistsStep
<1>5. CASE UploadKnown(q)
  BY <1>4, <1>5 DEF UploadKnown, TypeOK, Idle, Exists
<1>6. CASE CreateBatch(q)
  BY <1>4, <1>6 DEF CreateBatch, TypeOK, Idle, Exists, NoBatch
<1>7. CASE BeginSimulation(q)
  BY <1>4, <1>7 DEF BeginSimulation, TypeOK, Idle, Exists
<1>8. CASE Cancel(q)
  BY <1>4, <1>8 DEF Cancel, Cancellable, TypeOK, Idle, Exists
<1>9. CASE StartChunk(q)
  BY <1>4, <1>9 DEF StartChunk, Confirmable, TypeOK, Idle, Exists
<1>10. CASE BeginResolve(q)
  <2>1. PICK b \in Batches, n \in RowNos, d \in {"ignore", "update", "create"} :
          /\ batch[b].status \in {"previewed", "partial"}
          /\ req' = [req EXCEPT ![q] =
               [Idle EXCEPT !.pc = "resolve", !.b = b, !.copy = batch[b].status,
                            !.gen = batch[b].wipes, !.todo = {n}, !.choice = d]]
    BY <1>10 DEF BeginResolve
  <2>2. Exists(b)'
    BY <2>1, ExistsStep DEF Exists
  <2> QED BY <2>1, <2>2 DEF TypeOK, Idle
<1>11. CASE CheckReview(q)
  BY <1>11, ExistsStep DEF CheckReview, At, Outcome, RequestsSound, TypeOK, RequestRecords
<1>12. ASSUME req[q].pc \notin {"idle", "create"}, req'[q].b = req[q].b,
              req'[q].pc \notin {"create", "resolve"}, req'[q].choice = req[q].choice,
              req'[q].pc \in {"finish", "settle"} => req[q].pc \in {"finish", "settle"}
       PROVE RequestSound(q)'
  BY <1>12, ExistsStep DEF RequestsSound, TypeOK, RequestRecords
<1>13. CASE SaveMapping(q) \/ Unlink(q) \/ RefuseRow(q) \/ RowsDone(q)
  BY <1>12, <1>13 DEF SaveMapping, Unlink, RefuseRow, RowsDone, Locked, At, Goto, TypeOK, RequestRecords
<1>14. CASE Reload(q) \/ WipeRows(q) \/ InsertRow(q) \/ CountReady(q)
  BY <1>2, <1>12, <1>14 DEF Reload, WipeRows, InsertRow, CountReady, At, Goto, Finish, TypeOK, RequestRecords
<1>15. CASE SelectRows(q) \/ ApplyRow(q) \/ SkipRow(q) \/ MarkError(q)
  BY <1>12, <1>15 DEF SelectRows, ApplyRow, SkipRow, MarkError, Locked, At, TypeOK, RequestRecords
<1>16. CASE RefreshBatch(q)
  BY <1>2, <1>12, <1>16 DEF RefreshBatch, At, Finish, TypeOK, RequestRecords
<1>17. CASE \/ CreateRefused(q) \/ CreateInterrupted(q) \/ SaveAnalysis(q)
            \/ InsertCollides(q) \/ SavePreview(q) \/ SaveDecision(q) \/ UnlinkFails(q)
            \/ ForgetFile(q) \/ Settle(q) \/ Abort(q)
  BY <1>2, <1>17 DEF CreateRefused, CreateInterrupted, SaveAnalysis, InsertCollides,
       SavePreview, SaveDecision, UnlinkFails, ForgetFile, Settle, Abort, Finish, TypeOK
<1>18. CASE RequestStep(q)
  BY <1>3, <1>5, <1>6, <1>7, <1>8, <1>9, <1>10, <1>11, <1>13, <1>14, <1>15, <1>16, <1>17, <1>18
     DEF RequestStep, ChunkStep, RowStep
<1>19. ASSUME NEW r \in Requests, r # q, RequestStep(r) PROVE req'[q] = req[q]
  BY <1>19 DEF RequestStep, ChunkStep, RowStep, TypeOK, Goto, Finish,
       UploadKnown, UploadNew, CreateBatch, CreateInterrupted, CreateRefused, SaveAnalysis,
       BeginSimulation, SaveMapping, Reload, WipeRows, InsertRow, InsertCollides,
       SavePreview, BeginResolve, SaveDecision, Cancel, Unlink, UnlinkFails, ForgetFile,
       StartChunk, SelectRows, ApplyRow, SkipRow, RefuseRow, MarkError, RowsDone,
       CountReady, CheckReview, RefreshBatch, Settle, Abort
<1>20. ASSUME NEW b \in Batches, RetentionStep(b) PROVE req'[q] = req[q]
  BY <1>20 DEF RetentionStep, Expire, Purge, PurgeInterrupted
<1> QED BY <1>1, <1>18, <1>19, <1>20 DEF Next

-----------------------------------------------------------------------------
(* The safety invariants *)

\* expires_at is written by four steps, the disk by five; none of them leaves a
\* stored file of a batch without an expiry date.
LEMMA TrackedStep ==
    ASSUME TypeOK, RequestsSound, FilesTracked, Next
    PROVE FilesTracked'
<1> USE DEF FilesTracked, FileStaysReachable
<1>0. TypeOK'
  BY TypeStep
<1>1. ASSUME NEW r \in Requests, CreateBatch(r) PROVE FilesTracked'
  <2>1. PICK c \in Batches :
          /\ NextUpload(c)
          /\ batch' = [batch EXCEPT ![c] =
               [NoBatch EXCEPT !.status = "uploaded", !.file = req[r].choice,
                               !.expires = "future"]]
          /\ disk' = disk \cup {c}
          /\ req' = [req EXCEPT ![r] = [Idle EXCEPT !.pc = "analyze", !.b = c,
                                                    !.copy = "uploaded"]]
    BY <1>1 DEF CreateBatch
  <2>2. FileStaysReachable'
    BY <2>1 DEF TypeOK, Exists, NoBatch
  <2>3. ASSUME NEW q \in Requests, req'[q].pc = "forget" PROVE req'[q].b \notin disk'
    <3>1. q # r /\ req'[q] = req[q] /\ req[q].pc = "forget"
      BY <2>1, <2>3 DEF TypeOK, Idle
    <3>2. Exists(req[q].b) /\ req[q].b \notin disk
      BY <3>1 DEF RequestsSound, RequestSound
    <3> QED BY <2>1, <3>1, <3>2 DEF NextUpload, Unused
  <2> QED BY <2>2, <2>3
<1>2. ASSUME NEW r \in Requests, CreateInterrupted(r) PROVE FilesTracked'
  <2>1. PICK c \in Batches : NextUpload(c) /\ disk' = disk \cup {c}
    BY <1>2 DEF CreateInterrupted
  <2>2. FileStaysReachable'
    BY <1>2, <2>1 DEF CreateInterrupted, NextUpload, Unused, Exists
  <2>3. ASSUME NEW q \in Requests, req'[q].pc = "forget" PROVE req'[q].b \notin disk'
    <3>1. req'[q] = req[q] /\ req[q].pc = "forget"
      BY <1>2, <2>3 DEF CreateInterrupted, Finish, TypeOK, Idle
    <3>2. Exists(req[q].b) /\ req[q].b \notin disk
      BY <3>1 DEF RequestsSound, RequestSound
    <3> QED BY <2>1, <3>1, <3>2 DEF NextUpload, Unused
  <2> QED BY <2>2, <2>3
<1>3. ASSUME NEW r \in Requests, Unlink(r) PROVE FilesTracked'
  BY <1>3 DEF Unlink, Goto, Exists, TypeOK
<1>4. ASSUME NEW r \in Requests, ForgetFile(r) PROVE FilesTracked'
  BY <1>4 DEF ForgetFile, Finish, Idle, At, Exists, TypeOK
<1>5. ASSUME NEW c \in Batches, RetentionStep(c) PROVE FilesTracked'
  <2>1. CASE Expire(c) BY <2>1 DEF Expire, TypeOK, Exists
  <2>2. CASE Purge(c) BY <2>2 DEF Purge, TypeOK, Exists, BatchRecords
  <2>3. CASE PurgeInterrupted(c) BY <2>3 DEF PurgeInterrupted, Exists
  <2> QED BY <1>5, <2>1, <2>2, <2>3 DEF RetentionStep
\* Every other step keeps the disk and every expiry date of a batch that exists.
<1>6. ASSUME disk' = disk,
             \A b \in Batches : batch'[b].expires = batch[b].expires,
             \A b \in disk : Exists(b)' => Exists(b),
             \A q \in Requests : req'[q].pc = "forget" => req'[q] = req[q]
      PROVE FilesTracked'
  BY <1>6 DEF TypeOK
<1>7. ASSUME NEW r \in Requests, SaveAnalysis(r) \/ SaveMapping(r) \/ SavePreview(r) \/ Settle(r)
      PROVE FilesTracked'
  <2>1. disk' = disk
    BY <1>7 DEF SaveAnalysis, SaveMapping, SavePreview, Settle
  <2>2. Exists(req[r].b) /\ req[r].b \in Batches
    BY <1>7 DEF SaveAnalysis, SaveMapping, SavePreview, Settle, At, RequestsSound,
         RequestSound, TypeOK, RequestRecords
  <2>3. batch' = batch \/ \E s : batch' = [batch EXCEPT ![req[r].b].status = s]
    BY <1>7 DEF SaveAnalysis, SaveMapping, SavePreview, Settle, TransitionTo
  <2>4. /\ \A b \in Batches : batch'[b].expires = batch[b].expires
        /\ \A b \in disk : Exists(b)' => Exists(b)
    <3>1. CASE batch' = batch
      BY <3>1 DEF Exists
    <3>2. ASSUME NEW s, batch' = [batch EXCEPT ![req[r].b].status = s]
          PROVE /\ \A b \in Batches : batch'[b].expires = batch[b].expires
                /\ \A b \in Batches : b # req[r].b => batch'[b] = batch[b]
      BY <3>2 DEF TypeOK, BatchRecords
    <3> QED BY <2>2, <2>3, <3>1, <3>2 DEF Exists, TypeOK
  <2>5. \A q \in Requests : req'[q].pc = "forget" => req'[q] = req[q]
    BY <1>7 DEF SaveAnalysis, SaveMapping, SavePreview, Settle, Goto, Finish, Idle, TypeOK, RequestRecords
  <2> QED BY <1>6, <2>1, <2>4, <2>5
<1>8. ASSUME NEW r \in Requests, WipeRows(r) \/ Cancel(r) \/ StartChunk(r) \/ ApplyRow(r)
      PROVE FilesTracked'
  <2>1. disk' = disk
    BY <1>8 DEF WipeRows, Cancel, StartChunk, ApplyRow
  <2>2. \A b \in Batches : batch'[b].expires = batch[b].expires
    <3>1. CASE WipeRows(r) BY <3>1 DEF WipeRows, TypeOK, BatchRecords
    <3>2. CASE Cancel(r) BY <3>2 DEF Cancel, TypeOK, BatchRecords
    <3>3. CASE StartChunk(r) BY <3>3 DEF StartChunk, TypeOK, BatchRecords
    <3>4. CASE ApplyRow(r) BY <3>4 DEF ApplyRow, TypeOK, BatchRecords
    <3> QED BY <1>8, <3>1, <3>2, <3>3, <3>4
  <2>3. \A b \in Batches : Exists(b)' => Exists(b)
    <3>1. CASE WipeRows(r) BY <3>1 DEF WipeRows, Exists, TypeOK, BatchRecords
    <3>2. CASE Cancel(r) BY <3>2 DEF Cancel, Cancellable, Exists, TypeOK, BatchRecords
    <3>3. CASE StartChunk(r) BY <3>3 DEF StartChunk, Confirmable, Exists, TypeOK, BatchRecords
    <3>4. CASE ApplyRow(r) BY <3>4 DEF ApplyRow, Exists, TypeOK, BatchRecords
    <3> QED BY <1>8, <3>1, <3>2, <3>3, <3>4
  <2>4. \A q \in Requests : req'[q].pc = "forget" => req'[q] = req[q]
    <3>1. CASE WipeRows(r) BY <3>1 DEF WipeRows, Finish, Idle, TypeOK, RequestRecords
    <3>2. CASE Cancel(r) BY <3>2 DEF Cancel, Idle, TypeOK
    <3>3. CASE StartChunk(r) BY <3>3 DEF StartChunk, Idle, TypeOK
    <3>4. CASE ApplyRow(r) BY <3>4 DEF ApplyRow, Locked, At, TypeOK, RequestRecords
    <3> QED BY <1>8, <3>1, <3>2, <3>3, <3>4
  <2> QED BY <1>6, <2>1, <2>2, <2>3, <2>4 DEF TypeOK
<1>9. ASSUME batch' = batch, disk' = disk,
             \A q \in Requests : req'[q].pc = "forget" => req'[q] = req[q]
      PROVE FilesTracked'
  BY <1>6, <1>9 DEF Exists
<1>10. ASSUME NEW r \in Requests,
              \/ CreateRefused(r) \/ InsertCollides(r) \/ SaveDecision(r) \/ UnlinkFails(r)
              \/ Abort(r) \/ RefuseRow(r) \/ RowsDone(r) \/ CountReady(r)
       PROVE FilesTracked'
  BY <1>9, <1>10 DEF CreateRefused, InsertCollides, SaveDecision, UnlinkFails, Abort,
       RefuseRow, RowsDone, CountReady, Goto, Finish, Idle, TypeOK, RequestRecords
<1>11. ASSUME NEW r \in Requests,
              \/ UploadKnown(r) \/ UploadNew(r) \/ BeginSimulation(r) \/ BeginResolve(r)
       PROVE FilesTracked'
  <2>1. \A q \in Requests : q # r => req'[q] = req[q]
    BY <1>11 DEF UploadKnown, UploadNew, BeginSimulation, BeginResolve, TypeOK
  <2>2. req'[r].pc # "forget"
    <3>1. CASE UploadKnown(r) BY <3>1 DEF UploadKnown, Idle, TypeOK
    <3>2. CASE UploadNew(r) BY <3>2 DEF UploadNew, Idle, TypeOK
    <3>3. CASE BeginSimulation(r) BY <3>3 DEF BeginSimulation, Idle, TypeOK
    <3>4. CASE BeginResolve(r) BY <3>4 DEF BeginResolve, Idle, TypeOK
    <3> QED BY <1>11, <3>1, <3>2, <3>3, <3>4
  <2> QED
    BY <1>9, <1>11, <2>1, <2>2 DEF UploadKnown, UploadNew, BeginSimulation, BeginResolve
<1>12. ASSUME NEW r \in Requests,
              \/ Reload(r) \/ InsertRow(r) \/ SelectRows(r) \/ SkipRow(r) \/ MarkError(r)
              \/ CheckReview(r) \/ RefreshBatch(r)
       PROVE FilesTracked'
  <2>1. CASE Reload(r) \/ RefreshBatch(r)
    BY <1>9, <2>1 DEF Reload, RefreshBatch, At, Finish, Idle, TypeOK, RequestRecords
  <2>2. CASE InsertRow(r) \/ SelectRows(r) \/ CheckReview(r)
    BY <1>9, <2>2 DEF InsertRow, SelectRows, CheckReview, TypeOK, RequestRecords
  <2>3. CASE SkipRow(r)
    BY <1>9, <2>3 DEF SkipRow, Locked, At, TypeOK, RequestRecords
  <2>4. CASE MarkError(r)
    BY <1>9, <2>4 DEF MarkError, TypeOK, RequestRecords
  <2> QED BY <1>12, <2>1, <2>2, <2>3, <2>4
<1> QED
  BY <1>1, <1>2, <1>3, <1>4, <1>5, <1>7, <1>8, <1>10, <1>11, <1>12
     DEF Next, RequestStep, ChunkStep, RowStep

\* A row only changes hands through these operators, and all of them agree that
\* a row which made a pupil has no data.
LEMMA SpentStep ==
    ASSUME TypeOK, RowsSpent, Next
    PROVE RowsSpent'
<1> USE DEF RowsSpent
<1> DEFINE Spent(x) == x.times = 0 \/ (x.times = 1 /\ ~x.data)
<1>1. ASSUME \A b \in Batches, n \in RowNos : row'[b][n] = row[b][n] \/ Spent(row'[b][n])
      PROVE RowsSpent'
  BY <1>1
<1>2. ASSUME NEW b \in Batches, row' = [row EXCEPT ![b] = NoRows] PROVE RowsSpent'
  BY <1>1, <1>2 DEF NoRows, NoRow, TypeOK
<1>3. ASSUME NEW r \in Requests, WipeRows(r) \/ Cancel(r) PROVE RowsSpent'
  BY <1>2, <1>3 DEF WipeRows, Cancel, TypeOK, RequestRecords
<1>4. ASSUME NEW r \in Requests, InsertRow(r) PROVE RowsSpent'
  <2>1. \A c \in Classified : c.times = 0
    BY DEF Classified, NoRow
  <2>2. PICK c \in Classified : row' = [row EXCEPT ![req[r].b][Least(req[r].todo)] = c]
    BY <1>4 DEF InsertRow
  <2>3. ASSUME NEW b \in Batches, NEW n \in RowNos
        PROVE  row'[b][n] = row[b][n] \/ row'[b][n] = c
    BY <2>2 DEF TypeOK
  <2>4. Spent(c)
    BY <2>1
  <2>5. \A b \in Batches, n \in RowNos : row'[b][n] = row[b][n] \/ Spent(row'[b][n])
    <3> HIDE DEF Spent, RowsSpent
    <3> QED BY <2>3, <2>4
  <2> QED BY <1>1, <2>5
<1>5. ASSUME NEW r \in Requests, SaveDecision(r) PROVE RowsSpent'
  <2>1. ASSUME NEW x \in RowRecords, Spent(x), NEW d PROVE Spent(Decided(x, d))
    BY <2>1 DEF Decided, RowRecords
  <2>2. ASSUME NEW b \in Batches, NEW n \in RowNos
        PROVE  row'[b][n] = row[b][n] \/ row'[b][n] = Decided(row[b][n], req[r].choice)
    BY <1>5 DEF SaveDecision, TypeOK
  <2>3. \A b \in Batches, n \in RowNos : Spent(Decided(row[b][n], req[r].choice))
    BY <2>1 DEF TypeOK
  <2>4. \A b \in Batches, n \in RowNos : row'[b][n] = row[b][n] \/ Spent(row'[b][n])
    <3> HIDE DEF Spent, RowsSpent
    <3> QED BY <2>2, <2>3
  <2> QED BY <1>1, <2>4
<1>6. ASSUME NEW r \in Requests, ApplyRow(r) PROVE RowsSpent'
  <2>1. ASSUME NEW x \in RowRecords, Spent(x), x.data PROVE Spent(Applied(x))
    BY <2>1 DEF Applied, RowRecords
  <2> QED BY <1>1, <1>6, <2>1 DEF ApplyRow, TypeOK
<1>7. ASSUME NEW r \in Requests, MarkError(r) PROVE RowsSpent'
  <2>1. ASSUME NEW x \in RowRecords, Spent(x)
        PROVE Spent(Rejected(x))
    BY <2>1 DEF Rejected, RowRecords
  <2> QED BY <1>1, <1>7, <2>1 DEF MarkError, TypeOK
<1>8. ASSUME NEW b \in Batches, RetentionStep(b) PROVE RowsSpent'
  BY <1>2, <1>8 DEF RetentionStep, Expire, Purge, PurgeInterrupted
<1>9. ASSUME NEW r \in Requests,
             \/ UploadKnown(r) \/ UploadNew(r) \/ CreateBatch(r) \/ CreateRefused(r)
             \/ CreateInterrupted(r) \/ SaveAnalysis(r) \/ BeginSimulation(r)
             \/ SaveMapping(r) \/ Reload(r) \/ InsertCollides(r) \/ SavePreview(r)
             \/ BeginResolve(r) \/ Unlink(r) \/ UnlinkFails(r) \/ ForgetFile(r)
             \/ StartChunk(r) \/ SelectRows(r) \/ SkipRow(r) \/ RefuseRow(r) \/ RowsDone(r)
             \/ CountReady(r) \/ CheckReview(r) \/ RefreshBatch(r) \/ Settle(r) \/ Abort(r)
      PROVE RowsSpent'
  BY <1>9 DEF UploadKnown, UploadNew, CreateBatch, CreateRefused, CreateInterrupted,
       SaveAnalysis, BeginSimulation, SaveMapping, Reload, InsertCollides, SavePreview,
       BeginResolve, Unlink, UnlinkFails, ForgetFile, StartChunk, SelectRows, SkipRow,
       RefuseRow, RowsDone, CountReady, CheckReview, RefreshBatch, Settle, Abort
<1> QED
  BY <1>3, <1>4, <1>5, <1>6, <1>7, <1>8, <1>9 DEF Next, RequestStep, ChunkStep, RowStep

\* Only ApplyRow makes pupils, and it raises a counter in the same commit; no
\* step lowers a counter of a batch that exists.
LEMMA CountedStep ==
    ASSUME TypeOK, RequestsSound, PupilsCounted, Next
    PROVE PupilsCounted'
<1> USE DEF PupilsCounted
<1>0. \A b \in Batches : Exists(b) => Exists(b)'
  BY ExistsStep
<1>1. ASSUME NEW r \in Requests, ApplyRow(r) PROVE PupilsCounted'
  <2>0. req[r].b \in Batches /\ Exists(req[r].b)
    BY <1>1 DEF ApplyRow, Locked, At, RequestsSound, RequestSound, TypeOK, RequestRecords
  <2>1. batch[req[r].b] \in BatchRecords /\ batch'[req[r].b].status # "none"
    BY <1>0, <2>0 DEF TypeOK, Exists
  <2>2. batch'[req[r].b].created # 0 \/ batch'[req[r].b].updated # 0
    <3>1. CASE row[req[r].b][Current(r)].decision = "update"
      BY <1>1, <2>0, <2>1, <3>1 DEF ApplyRow, TypeOK, BatchRecords
    <3>2. CASE row[req[r].b][Current(r)].decision # "update"
      BY <1>1, <2>0, <2>1, <3>2 DEF ApplyRow, TypeOK, BatchRecords
    <3> QED BY <3>1, <3>2
  <2>3. ASSUME NEW b \in Batches, b # req[r].b
        PROVE batch'[b] = batch[b] /\ pupils'[b] = pupils[b]
    BY <1>1, <2>3 DEF ApplyRow, TypeOK
  <2>4. ASSUME NEW b \in Batches,
               ~Exists(b)' \/ (batch'[b].created = 0 /\ batch'[b].updated = 0)
        PROVE \A n \in RowNos : pupils'[b][n] = 0
    <3>1. b # req[r].b
      BY <2>1, <2>2, <2>4 DEF Exists
    <3> QED BY <2>3, <2>4, <3>1 DEF Exists
  <2> QED BY <2>4
<1>2. ASSUME pupils' = pupils,
             \A b \in Batches : \/ ~Exists(b)
                                \/ /\ batch'[b].created = batch[b].created
                                   /\ batch'[b].updated = batch[b].updated
      PROVE PupilsCounted'
  BY <1>0, <1>2
<1>3. ASSUME NEW r \in Requests, CreateBatch(r) PROVE PupilsCounted'
  BY <1>2, <1>3 DEF CreateBatch, NextUpload, Unused, TypeOK
<1>4. ASSUME NEW r \in Requests, SaveAnalysis(r) \/ SaveMapping(r) \/ SavePreview(r) \/ Settle(r)
      PROVE PupilsCounted'
  <2>1. batch' = batch \/ \E s : batch' = [batch EXCEPT ![req[r].b].status = s]
    BY <1>4 DEF SaveAnalysis, SaveMapping, SavePreview, Settle, TransitionTo
  <2>2. ASSUME NEW s, batch' = [batch EXCEPT ![req[r].b].status = s],
               NEW b \in Batches
        PROVE batch'[b].created = batch[b].created /\ batch'[b].updated = batch[b].updated
    BY <2>2 DEF TypeOK, BatchRecords
  <2> QED BY <1>2, <1>4, <2>1, <2>2 DEF SaveAnalysis, SaveMapping, SavePreview, Settle
<1>5. ASSUME NEW r \in Requests, WipeRows(r) \/ Cancel(r) \/ ForgetFile(r) \/ StartChunk(r)
      PROVE PupilsCounted'
  <2>1. CASE WipeRows(r) BY <1>2, <2>1 DEF WipeRows, TypeOK, BatchRecords
  <2>2. CASE Cancel(r) BY <1>2, <2>2 DEF Cancel, TypeOK, BatchRecords
  <2>3. CASE ForgetFile(r) BY <1>2, <2>3 DEF ForgetFile, TypeOK, BatchRecords
  <2>4. CASE StartChunk(r) BY <1>2, <2>4 DEF StartChunk, TypeOK, BatchRecords
  <2> QED BY <1>5, <2>1, <2>2, <2>3, <2>4
<1>6. ASSUME NEW c \in Batches, RetentionStep(c) PROVE PupilsCounted'
  <2>1. CASE Expire(c) BY <1>2, <2>1 DEF Expire, TypeOK, BatchRecords
  <2>2. CASE Purge(c) BY <1>2, <2>2 DEF Purge, TypeOK, BatchRecords
  <2>3. CASE PurgeInterrupted(c) BY <1>2, <2>3 DEF PurgeInterrupted
  <2> QED BY <1>6, <2>1, <2>2, <2>3 DEF RetentionStep
<1>7. ASSUME batch' = batch, pupils' = pupils PROVE PupilsCounted'
  BY <1>2, <1>7
<1> QED
  BY <1>1, <1>3, <1>4, <1>5, <1>6, <1>7 DEF Next, RequestStep, ChunkStep, RowStep,
       UploadKnown, UploadNew, CreateInterrupted, CreateRefused, BeginSimulation,
       Reload, InsertRow, InsertCollides, BeginResolve, SaveDecision, Unlink, UnlinkFails,
       SelectRows, SkipRow, RefuseRow, MarkError, RowsDone, CountReady, CheckReview,
       RefreshBatch, Abort

-----------------------------------------------------------------------------
(* Theorems *)

\* An empty database satisfies the invariant.
LEMMA InitInv == Init => IndInv
<1> SUFFICES ASSUME Init PROVE IndInv
  OBVIOUS
<1> USE DEF Init
<1>1. TypeOK
  <2>1. NoBatch \in BatchRecords
    BY DEF NoBatch, BatchRecords
  <2>2. NoRow \in RowRecords
    BY DEF NoRow, RowRecords, Decisions
  <2> QED BY <2>1, <2>2, IdleType DEF TypeOK
<1>2. RequestsSound /\ FilesTracked
  BY DEF RequestsSound, RequestSound, FilesTracked, FileStaysReachable, Idle
<1>3. RowsSpent /\ PupilsCounted
  BY DEF RowsSpent, NoRow, PupilsCounted
<1> QED BY <1>1, <1>2, <1>3 DEF IndInv

\* The inductive invariant: requests work on committed batches, files keep their
\* expiry date, spent rows have no data, and a batch without counters made no pupil.
THEOREM Inductive == Spec => []IndInv
<1>1. IndInv /\ [Next]_vars => IndInv'
  <2>1. ASSUME IndInv, Next PROVE IndInv'
    BY <2>1, TypeStep, SoundStep, TrackedStep, SpentStep, CountedStep DEF IndInv
  <2>2. ASSUME IndInv, UNCHANGED vars PROVE IndInv'
    BY <2>2 DEF vars, IndInv, TypeOK, RequestsSound, RequestSound, FilesTracked,
         FileStaysReachable, RowsSpent, PupilsCounted, Exists
  <2> QED BY <2>1, <2>2
<1> QED BY InitInv, <1>1, PTL DEF Spec

\* Every reachable state is well typed.
THEOREM TypeCorrect == Spec => []TypeOK
<1>1. IndInv => TypeOK
  BY DEF IndInv
<1> QED BY Inductive, <1>1, PTL

\* However many requests process, decide, simulate, cancel and die at once, no
\* row of the staging table becomes a pupil twice.
THEOREM RowAppliedOnceThm == Spec => []RowAppliedOnce
<1>1. IndInv => RowAppliedOnce
  BY DEF IndInv, TypeOK, RowRecords, RowsSpent, RowAppliedOnce
<1> QED BY Inductive, <1>1, PTL

\* No failure between a deletion and its commit leaves a batch's file where the
\* purge cannot find it.
THEOREM FileStaysReachableThm == Spec => []FileStaysReachable
<1>1. IndInv => FileStaysReachable
  BY DEF IndInv, FilesTracked
<1> QED BY Inductive, <1>1, PTL

\* A cancellation by a user never hits an import that already made a pupil.
THEOREM CancelSparesPupilsThm == Spec => CancelSparesPupils
<1> DEFINE Spares ==
      \A b \in Batches :
         /\ batch[b].status # "cancelled"
         /\ batch'[b].status = "cancelled"
         /\ batch'[b].expires = batch[b].expires
         => \A n \in RowNos : pupils[b][n] = 0
<1>1. IndInv /\ [Next]_vars => [Spares]_vars
  <2> SUFFICES ASSUME IndInv, Next PROVE Spares
    OBVIOUS
  <2>1. ASSUME NEW r \in Requests, Cancel(r) PROVE Spares
    <3>1. PICK c \in Batches : /\ Cancellable(c)
                               /\ batch' = [batch EXCEPT ![c].status = "cancelled",
                                                         ![c].wipes = @ + 1]
      BY <2>1 DEF Cancel
    <3>2. \A b \in Batches : b # c => batch'[b] = batch[b]
      BY <3>1 DEF IndInv, TypeOK
    <3> QED BY <3>1, <3>2 DEF IndInv, PupilsCounted, Cancellable
  <2>2. ASSUME NEW c \in Batches, RetentionStep(c) PROVE Spares
    <3>1. CASE Expire(c) BY <3>1 DEF Expire, IndInv, TypeOK, BatchRecords
    <3>2. CASE Purge(c)
      <4>1. batch'[c].expires = "none" /\ batch[c].expires = "past"
        BY <3>2 DEF Purge, Purgeable, IndInv, TypeOK, BatchRecords
      <4>2. \A b \in Batches : b # c => batch'[b] = batch[b]
        BY <3>2 DEF Purge, IndInv, TypeOK
      <4> QED BY <4>1, <4>2
    <3>3. CASE PurgeInterrupted(c)
      <4>1. batch' = batch
        BY <3>3 DEF PurgeInterrupted
      <4> QED BY <4>1
    <3> QED BY <2>2, <3>1, <3>2, <3>3 DEF RetentionStep
  <2>3. ASSUME \A b \in Batches : batch'[b].status = batch[b].status
                                   \/ batch'[b].status # "cancelled"
        PROVE Spares
    BY <2>3
  <2>4. ASSUME NEW r \in Requests, NEW s, s # "cancelled",
               batch' = [batch EXCEPT ![req[r].b].status = s]
        PROVE Spares
    BY <2>3, <2>4 DEF IndInv, TypeOK, BatchRecords
  <2>5. ASSUME NEW r \in Requests, SaveAnalysis(r) \/ SaveMapping(r) \/ SavePreview(r) \/ Settle(r)
        PROVE Spares
    BY <2>3, <2>4, <2>5 DEF SaveAnalysis, SaveMapping, SavePreview, Settle, TransitionTo,
       At, IndInv, RequestsSound, RequestSound
  <2>6. ASSUME NEW r \in Requests,
               CreateBatch(r) \/ WipeRows(r) \/ ForgetFile(r) \/ StartChunk(r) \/ ApplyRow(r)
        PROVE Spares
    <3>1. CASE CreateBatch(r) BY <2>3, <3>1 DEF CreateBatch, NoBatch, IndInv, TypeOK
    <3>2. CASE WipeRows(r) BY <2>3, <3>2 DEF WipeRows, IndInv, TypeOK, BatchRecords
    <3>3. CASE ForgetFile(r) BY <2>3, <3>3 DEF ForgetFile, IndInv, TypeOK, BatchRecords
    <3>4. CASE StartChunk(r) BY <2>3, <3>4 DEF StartChunk, IndInv, TypeOK, BatchRecords
    <3>5. CASE ApplyRow(r)
      <4>1. \A b \in Batches : batch'[b].status = batch[b].status
        BY <3>5 DEF ApplyRow, IndInv, TypeOK, BatchRecords
      <4> QED BY <2>3, <4>1
    <3> QED BY <2>6, <3>1, <3>2, <3>3, <3>4, <3>5
  <2>7. CASE batch' = batch
    BY <2>7
  <2> QED
    BY <2>1, <2>2, <2>5, <2>6, <2>7 DEF Next, RequestStep, ChunkStep, RowStep,
       UploadKnown, UploadNew, CreateInterrupted, CreateRefused, BeginSimulation,
       Reload, InsertRow, InsertCollides, BeginResolve, SaveDecision, Unlink, UnlinkFails,
       SelectRows, SkipRow, RefuseRow, MarkError, RowsDone, CountReady, CheckReview,
       RefreshBatch, Abort
<1>2. [][Spares]_vars <=> CancelSparesPupils
  BY DEF CancelSparesPupils
<1> QED BY Inductive, <1>1, <1>2, PTL DEF Spec

-----------------------------------------------------------------------------
(* One request at a time *)

\* A set of rows has a first one.
LEMMA LeastIn == ASSUME NEW S \in SUBSET RowNos, S # {} PROVE Least(S) \in S
<1> DEFINE upTo(n) == {m \in S : m <= n}
<1> DEFINE T == {upTo(n) : n \in S}
<1>1. IsFiniteSet(RowNos)
  BY FS_Interval, ConstantsAssumption DEF RowNos
<1>2. IsWellFoundedOn(StrictSubsetOrdering(RowNos), SUBSET RowNos)
  BY <1>1, FS_StrictSubsetOrderingWellFounded, FS_FiniteSubsetsOfFinite
<1>3. T \subseteq SUBSET RowNos /\ T # {}
  OBVIOUS
<1> HIDE DEF T
<1>4. PICK x \in T : \A y \in T : ~ (<<y, x>> \in StrictSubsetOrdering(RowNos))
  BY <1>2, <1>3, WFMin
<1>5. PICK n \in S : x = upTo(n)
  BY DEF T
<1>6. ASSUME NEW m \in S PROVE n <= m
  <2>1. n \in Int /\ m \in Int
    BY DEF RowNos
  <2>2. SUFFICES ASSUME m < n PROVE FALSE
    BY <2>1
  <2>3. upTo(m) \subseteq x /\ n \notin upTo(m) /\ n \in x
    <3>1. ASSUME NEW k \in S, k <= m PROVE k <= n
      BY <2>1, <2>2, <3>1 DEF RowNos
    <3>2. ~(n <= m) /\ n <= n
      BY <2>1, <2>2
    <3> QED BY <1>5, <3>1, <3>2
  <2>4. upTo(m) \in T
    BY DEF T
  <2> QED BY <1>3, <1>4, <2>3, <2>4 DEF StrictSubsetOrdering
<1> QED BY <1>6 DEF Least

\* While no batch expires only requests move.
LEMMA SoloNext ==
    ASSUME TypeOK, Unexpired, ~RetentionEnds, Next
    PROVE  \E r \in Requests : RequestStep(r)
BY DEF Next, Unexpired, RetentionStep, Expire, Purge, PurgeInterrupted, Purgeable

\* Nobody else can make what a request knows of its batch untrue.
LEMMA KnownStep ==
    ASSUME IndInv, SoloInv, NEW r \in Requests, RequestStep(r)
    PROVE  BatchKnown(r)' /\ RowsKnown(r)'
<1> DEFINE b == req[r].b
<1> DEFINE s == batch[b].status
<1>0. /\ BatchKnown(r) /\ RowsKnown(r)
      /\ b \in Batches
      /\ req[r] \in RequestRecords
      /\ req \in [Requests -> RequestRecords]
      /\ batch \in [Batches -> BatchRecords]
      /\ row \in [Batches -> [RowNos -> RowRecords]]
  BY DEF SoloInv, IndInv, TypeOK, RequestRecords
<1>1. ASSUME req'[r].pc \in {"idle", "create", "unlink", "forget"}
      PROVE  BatchKnown(r)' /\ RowsKnown(r)'
  BY <1>1 DEF BatchKnown, RowsKnown
<1>2. CASE Finish(r)
  <2>1. req'[r].pc = "idle"
    BY <1>0, <1>2 DEF Finish, Idle
  <2> QED BY <1>1, <2>1
<1>3. CASE UploadNew(r) \/ Cancel(r) \/ Unlink(r)
  <2>1. req'[r].pc \in {"create", "unlink", "forget"}
    <3>1. CASE UploadNew(r) BY <1>0, <3>1 DEF UploadNew, Idle
    <3>2. CASE Cancel(r) BY <1>0, <3>2 DEF Cancel, Idle
    <3>3. CASE Unlink(r) BY <1>0, <3>3 DEF Unlink, Goto, RequestRecords
    <3> QED BY <1>3, <3>1, <3>2, <3>3
  <2> QED BY <1>1, <2>1
<1>4. CASE UploadKnown(r) \/ BeginSimulation(r)
  <2>1. PICK c \in Batches :
          /\ batch[c].status \in {"uploaded", "analyzed", "mapped"}
          /\ req' = [req EXCEPT ![r] =
               [Idle EXCEPT !.pc = IF batch[c].status = "uploaded" THEN "analyze" ELSE "map",
                            !.b = c, !.copy = batch[c].status]]
          /\ batch' = batch
    <3>1. CASE UploadKnown(r) BY <3>1 DEF UploadKnown
    <3>2. CASE BeginSimulation(r) BY <3>2 DEF BeginSimulation, IndInv, TypeOK
    <3> QED BY <1>4, <3>1, <3>2
  <2> QED BY <1>0, <2>1 DEF BatchKnown, RowsKnown, Idle
<1>5. CASE CreateBatch(r)
  <2>1. PICK c \in Batches :
          /\ batch' = [batch EXCEPT ![c] =
               [NoBatch EXCEPT !.status = "uploaded", !.file = req[r].choice,
                               !.expires = "future"]]
          /\ req' = [req EXCEPT ![r] = [Idle EXCEPT !.pc = "analyze", !.b = c,
                                                    !.copy = "uploaded"]]
    BY <1>5 DEF CreateBatch
  <2>2. batch'[c].status = "uploaded"
    BY <1>0, <2>1 DEF NoBatch
  <2> QED BY <1>0, <2>1, <2>2 DEF BatchKnown, RowsKnown, Idle
<1>6. CASE SaveMapping(r)
  <2>1. req'[r].pc = "fresh" /\ req'[r].b = b
    BY <1>0, <1>6 DEF SaveMapping, Goto, RequestRecords
  <2>2. batch'[b].status = "mapped"
    BY <1>0, <1>6 DEF SaveMapping, TransitionTo, BatchKnown, BatchRecords, At
  <2> QED BY <2>1, <2>2 DEF BatchKnown, RowsKnown
<1>7. CASE Reload(r)
  <2>1. CASE s = "mapped"
    <3>1. req'[r].pc = "wipe" /\ req'[r].b = b /\ req'[r].copy = "mapped" /\ batch' = batch
      BY <1>0, <1>7, <2>1 DEF Reload, RequestRecords
    <3> QED BY <2>1, <3>1 DEF BatchKnown, RowsKnown
  <2> QED BY <1>2, <1>7, <2>1 DEF Reload
<1>8. CASE WipeRows(r)
  <2>1. CASE b \in disk
    <3>1. req'[r].pc = "insert" /\ req'[r].b = b /\ req'[r].copy = req[r].copy
      BY <1>0, <1>8, <2>1 DEF WipeRows, RequestRecords
    <3>2. batch'[b].status = s
      BY <1>0, <1>8 DEF WipeRows, BatchRecords
    <3> QED BY <1>0, <1>8, <3>1, <3>2 DEF BatchKnown, RowsKnown, WipeRows, At
  <2> QED BY <1>2, <1>8, <2>1 DEF WipeRows
<1>9. CASE InsertRow(r)
  <2>1. /\ req'[r].pc \in {"insert", "preview"}
        /\ req'[r].b = b /\ req'[r].copy = req[r].copy /\ batch' = batch
    BY <1>0, <1>9 DEF InsertRow, RequestRecords
  <2> QED BY <1>0, <1>9, <2>1 DEF BatchKnown, RowsKnown, InsertRow, At
<1>10. CASE BeginResolve(r)
  <2>1. PICK c \in Batches, n \in RowNos :
          /\ batch[c].status \in {"previewed", "partial"}
          /\ row[c][n].status = "needs_review"
          /\ req'[r].pc = "resolve" /\ req'[r].b = c /\ req'[r].todo = {n}
          /\ batch' = batch /\ row' = row
    BY <1>0, <1>10 DEF BeginResolve, Idle
  <2>2. Least({n}) = n
    BY <2>1 DEF Least, RowNos
  <2> QED BY <2>1, <2>2 DEF BatchKnown, RowsKnown
<1>11. CASE StartChunk(r)
  <2>1. PICK c \in Batches :
          /\ batch' = [batch EXCEPT ![c].status = "processing"]
          /\ req' = [req EXCEPT ![r] = [Idle EXCEPT !.pc = "chunk", !.b = c,
                                                    !.copy = "processing"]]
    BY <1>11 DEF StartChunk
  <2>2. batch'[c].status = "processing"
    BY <1>0, <2>1 DEF BatchRecords
  <2> QED BY <1>0, <2>1, <2>2 DEF BatchKnown, RowsKnown, Idle
<1>12. CASE SelectRows(r) \/ ApplyRow(r) \/ SkipRow(r) \/ MarkError(r) \/ RowsDone(r)
  <2>1. s = "processing"
    BY <1>0, <1>12 DEF SelectRows, ApplyRow, SkipRow, MarkError, RowsDone, Locked, At,
         BatchKnown
  <2>2. req'[r].pc \in {"rows", "count"} /\ req'[r].b = b
    <3>1. CASE SelectRows(r) BY <1>0, <3>1 DEF SelectRows, RequestRecords
    <3>2. CASE ApplyRow(r) BY <1>0, <3>2 DEF ApplyRow, Locked, At, RequestRecords
    <3>3. CASE SkipRow(r) BY <1>0, <3>3 DEF SkipRow, Locked, At, RequestRecords
    <3>4. CASE MarkError(r) BY <1>0, <3>4 DEF MarkError, RequestRecords
    <3>5. CASE RowsDone(r) BY <1>0, <3>5 DEF RowsDone, Goto, RequestRecords
    <3> QED BY <1>12, <3>1, <3>2, <3>3, <3>4, <3>5
  <2>3. batch'[b].status = s
    <3>1. CASE ApplyRow(r) BY <1>0, <3>1 DEF ApplyRow, BatchRecords
    <3>2. CASE batch' = batch BY <3>2
    <3> QED BY <1>12, <3>1, <3>2 DEF SelectRows, SkipRow, MarkError, RowsDone
  <2> QED BY <2>1, <2>2, <2>3 DEF BatchKnown, RowsKnown
<1>13. CASE RefuseRow(r)
  <2>1. /\ req'[r].pc = "reject" /\ req'[r].b = b /\ req'[r].todo = req[r].todo
        /\ batch' = batch /\ row' = row
    BY <1>0, <1>13 DEF RefuseRow, Goto, RequestRecords
  <2> QED BY <1>0, <1>13, <2>1 DEF BatchKnown, RowsKnown, RefuseRow, Locked, At, Current
<1>14. CASE CountReady(r)
  <2>1. CASE RowsIn(b, "ready") = {}
    <3>1. /\ req'[r].pc = "review" /\ req'[r].b = b
          /\ batch' = batch /\ row' = row
      BY <1>0, <1>14, <2>1 DEF CountReady, Goto, RequestRecords
    <3> QED BY <1>0, <1>14, <2>1, <3>1 DEF BatchKnown, RowsKnown, RowsIn, CountReady, At
  <2> QED BY <1>2, <1>14, <2>1 DEF CountReady
<1>15. CASE CheckReview(r)
  <2>1. /\ req'[r].pc = "finish" /\ req'[r].b = b /\ req'[r].choice = Outcome(b)
        /\ batch' = batch /\ row' = row
    BY <1>0, <1>15 DEF CheckReview, RequestRecords
  <2>2. Outcome(b) = "completed" => RowsIn(b, "needs_review") = {}
    BY DEF Outcome
  <2> QED BY <1>0, <1>15, <2>1, <2>2 DEF BatchKnown, RowsKnown, RowsIn, CheckReview, At
<1>16. CASE RefreshBatch(r)
  <2>1. CASE req[r].choice \in NextStates(s)
    <3>1. /\ req'[r].pc = "settle" /\ req'[r].b = b /\ req'[r].choice = req[r].choice
          /\ req'[r].copy = s
          /\ batch' = batch /\ row' = row
      BY <1>0, <1>16, <2>1 DEF RefreshBatch, RequestRecords
    <3> QED BY <1>0, <1>16, <3>1 DEF BatchKnown, RowsKnown, RowsIn, RefreshBatch, At
  <2> QED BY <1>2, <1>16, <2>1 DEF RefreshBatch
<1> QED
  BY <1>2, <1>3, <1>4, <1>5, <1>6, <1>7, <1>8, <1>9, <1>10, <1>11, <1>12, <1>13, <1>14,
     <1>15, <1>16
  DEF RequestStep, ChunkStep, RowStep, CreateRefused, CreateInterrupted, SaveAnalysis,
      InsertCollides, SavePreview, SaveDecision, UnlinkFails, ForgetFile, Settle, Abort

Unprocessed(s) == s \in {"none", "uploaded", "analyzed", "mapped", "previewed"}
Settled(b) == RowsIn(b, "ready") \cup RowsIn(b, "needs_review") = {}

\* How a request moves the status of an import.
Moves(b) ==
    LET s == batch[b].status
        t == batch'[b].status
    IN
    \/ t = s
    \/ /\ s = "none" /\ t = "uploaded"
       /\ SchoolIdle
       /\ \A a \in Batches : a # b => batch'[a] = batch[a]
    \/ s \in {"uploaded", "analyzed", "mapped"} /\ t \in {"analyzed", "mapped", "previewed"}
    \/ Cancellable(b) /\ t = "cancelled"
    \/ Confirmable(b) /\ t = "processing"
    \/ s = "processing" /\ t = "partial"
    \/ s = "processing" /\ t = "completed" /\ Settled(b) /\ row' = row

\* No request saves a status over one it has not seen.
LEMMA StatusMoves ==
    ASSUME IndInv, SoloInv, NEW r \in Requests, RequestStep(r), NEW b \in Batches
    PROVE  Moves(b)
<1>0. /\ BatchKnown(r) /\ RowsKnown(r)
      /\ req[r].b \in Batches
      /\ batch \in [Batches -> BatchRecords]
  BY DEF SoloInv, IndInv, TypeOK, RequestRecords
<1>1. CASE batch'[b].status = batch[b].status
  BY <1>1 DEF Moves
<1>2. CASE CreateBatch(r)
  <2>1. PICK c \in Batches :
          /\ NextUpload(c)
          /\ batch' = [batch EXCEPT ![c] =
               [NoBatch EXCEPT !.status = "uploaded", !.file = req[r].choice,
                               !.expires = "future"]]
    BY <1>2 DEF CreateBatch
  <2>2. batch[c].status = "none" /\ batch'[c].status = "uploaded"
    BY <1>0, <2>1 DEF NoBatch, NextUpload, Unused, Exists
  <2>3. \A a \in Batches : a # c => batch'[a] = batch[a]
    BY <1>0, <2>1
  <2>4. SchoolIdle
    BY <1>2 DEF CreateBatch
  <2> QED BY <1>1, <2>2, <2>3, <2>4 DEF Moves
<1>3. ASSUME NEW s, TransitionTo(r, s), b = req[r].b
      PROVE  batch'[b].status = s
  BY <1>0, <1>3 DEF TransitionTo, BatchRecords
<1>4. ASSUME NEW s, TransitionTo(r, s), b # req[r].b
      PROVE  batch'[b].status = batch[b].status
  BY <1>0, <1>4 DEF TransitionTo
<1>5. CASE SaveAnalysis(r)
  BY <1>0, <1>3, <1>4, <1>5 DEF SaveAnalysis, Moves, BatchKnown, At
<1>6. CASE SaveMapping(r)
  <2>1. CASE TransitionTo(r, "mapped")
    BY <1>0, <1>3, <1>4, <1>6, <2>1 DEF SaveMapping, Moves, BatchKnown, At
  <2> QED BY <1>1, <1>6, <2>1 DEF SaveMapping
<1>7. CASE SavePreview(r)
  BY <1>0, <1>3, <1>4, <1>7 DEF SavePreview, Moves, BatchKnown, At
<1>8. CASE Settle(r)
  <2>1. req[r].choice \in {"partial", "completed"}
    BY <1>8 DEF IndInv, RequestsSound, RequestSound, Settle, At
  <2>2. req[r].choice = "completed" => Settled(req[r].b)
    BY <1>0, <1>8 DEF RowsKnown, Settle, At, Settled
  <2>3. row' = row /\ batch[req[r].b].status = "processing"
    BY <1>0, <1>8 DEF Settle, BatchKnown, At
  <2>4. TransitionTo(r, req[r].choice)
    BY <1>8 DEF Settle
  <2> QED BY <1>3, <1>4, <2>1, <2>2, <2>3, <2>4 DEF Moves
<1>9. CASE Cancel(r)
  <2>1. PICK c \in Batches : /\ Cancellable(c)
                             /\ batch' = [batch EXCEPT ![c].status = "cancelled",
                                                       ![c].wipes = @ + 1]
    BY <1>9 DEF Cancel
  <2> QED BY <1>0, <2>1 DEF Moves, BatchRecords
<1>10. CASE StartChunk(r)
  <2>1. PICK c \in Batches : /\ Confirmable(c)
                             /\ batch' = [batch EXCEPT ![c].status = "processing"]
    BY <1>10 DEF StartChunk
  <2> QED BY <1>0, <2>1 DEF Moves, BatchRecords
<1>11. CASE WipeRows(r)
  BY <1>0, <1>1, <1>11 DEF WipeRows, BatchRecords
<1>12. CASE ForgetFile(r)
  BY <1>0, <1>1, <1>12 DEF ForgetFile, BatchRecords
<1>13. CASE ApplyRow(r)
  BY <1>0, <1>1, <1>13 DEF ApplyRow, BatchRecords
<1>14. CASE batch' = batch
  BY <1>1, <1>14
<1> QED
  BY <1>2, <1>5, <1>6, <1>7, <1>8, <1>9, <1>10, <1>11, <1>12, <1>13, <1>14
  DEF RequestStep, ChunkStep, RowStep, UploadKnown, UploadNew, CreateRefused,
      CreateInterrupted, BeginSimulation, Reload, InsertRow, InsertCollides, BeginResolve,
      SaveDecision, Unlink, UnlinkFails, SelectRows, SkipRow, RefuseRow, MarkError, RowsDone,
      CountReady, CheckReview, RefreshBatch, Abort

\* What a request does to the rows of an import.
NoRowMoves(b) == row'[b] = row[b]
RowsWiped(b) ==
    /\ batch[b].status \in {"uploaded", "analyzed", "mapped", "previewed"}
    /\ row'[b] = NoRows
RowInserted(b) ==
    /\ batch[b].status = "mapped"
    /\ \E n \in RowNos, c \in Classified :
         row[b][n].status = "absent" /\ row'[b] = [row[b] EXCEPT ![n] = c]
RowDecided(b) ==
    /\ batch[b].status \in {"previewed", "partial"}
    /\ \E n \in RowNos, d \in {"ignore", "update", "create"} :
         /\ row[b][n].status = "needs_review"
         /\ row'[b] = [row[b] EXCEPT ![n] = Decided(@, d)]
RowRejected(b) ==
    /\ batch[b].status = "processing"
    /\ \E n \in RowNos :
         row[b][n].status = "ready" /\ row'[b] = [row[b] EXCEPT ![n] = Rejected(@)]
RowApplied(b) ==
    /\ batch[b].status = "processing" /\ batch'[b].status = "processing"
    /\ \E n \in RowNos :
         LET update == row[b][n].decision = "update" IN
         /\ row[b][n].status = "ready"
         /\ row'[b] = [row[b] EXCEPT ![n] = Applied(@)]
         /\ pupils'[b] = [pupils[b] EXCEPT ![n] = @ + 1]
         /\ batch'[b].created = batch[b].created + IF update THEN 0 ELSE 1
         /\ batch'[b].updated = batch[b].updated + IF update THEN 1 ELSE 0
NothingCounted(b) ==
    /\ pupils'[b] = pupils[b]
    /\ \/ batch'[b].created = batch[b].created /\ batch'[b].updated = batch[b].updated
       \/ batch[b].status = "none" /\ batch'[b].created = 0 /\ batch'[b].updated = 0

\* It changes one row in the state it saw it in, or wipes those of an import that
\* was never processed; it counts a pupil with the row that made it.
LEMMA RowMoves ==
    ASSUME IndInv, SoloInv, NEW r \in Requests, RequestStep(r), NEW b \in Batches
    PROVE  \/ /\ NoRowMoves(b) \/ RowsWiped(b) \/ RowInserted(b) \/ RowDecided(b)
                  \/ RowRejected(b)
              /\ NothingCounted(b)
           \/ RowApplied(b)
<1>0. /\ BatchKnown(r) /\ RowsKnown(r)
      /\ req[r].b \in Batches /\ req[r].todo \in SUBSET RowNos
      /\ batch \in [Batches -> BatchRecords]
      /\ row \in [Batches -> [RowNos -> RowRecords]]
      /\ pupils \in [Batches -> [RowNos -> Nat]]
  BY DEF SoloInv, IndInv, TypeOK, RequestRecords
<1>1. CASE NoRowMoves(b) /\ NothingCounted(b)
  BY <1>1
<1>2. ASSUME batch' = batch, pupils' = pupils PROVE NothingCounted(b)
  BY <1>2 DEF NothingCounted
<1>4. CASE SaveAnalysis(r) \/ SaveMapping(r) \/ SavePreview(r) \/ Settle(r) \/ StartChunk(r)
  <2>1. row' = row /\ pupils' = pupils
    BY <1>4 DEF SaveAnalysis, SaveMapping, SavePreview, Settle, StartChunk
  <2>2. batch' = batch \/ \E c \in Batches : \E s : batch' = [batch EXCEPT ![c].status = s]
    BY <1>0, <1>4 DEF SaveAnalysis, SaveMapping, SavePreview, Settle, StartChunk, TransitionTo
  <2>3. NothingCounted(b)
    <3>1. ASSUME NEW c \in Batches, NEW s, batch' = [batch EXCEPT ![c].status = s]
          PROVE  batch'[b].created = batch[b].created /\ batch'[b].updated = batch[b].updated
      BY <1>0, <3>1 DEF BatchRecords
    <3> QED BY <1>2, <2>1, <2>2, <3>1 DEF NothingCounted
  <2> QED BY <1>1, <2>1, <2>3 DEF NoRowMoves
<1>5. CASE CreateBatch(r)
  <2>1. PICK c \in Batches :
          /\ batch[c].status = "none"
          /\ batch' = [batch EXCEPT ![c] =
               [NoBatch EXCEPT !.status = "uploaded", !.file = req[r].choice,
                               !.expires = "future"]]
    BY <1>5 DEF CreateBatch, NextUpload, Unused, Exists
  <2>2. row' = row /\ pupils' = pupils
    BY <1>5 DEF CreateBatch
  <2>3. NothingCounted(b)
    BY <1>0, <2>1, <2>2 DEF NothingCounted, NoBatch
  <2> QED BY <1>1, <2>2, <2>3 DEF NoRowMoves
<1>6. CASE WipeRows(r)
  <2>1. batch[req[r].b].status = "mapped"
    BY <1>0, <1>6 DEF WipeRows, At, BatchKnown
  <2>2. NothingCounted(b)
    BY <1>0, <1>6 DEF WipeRows, NothingCounted, BatchRecords
  <2>3. NoRowMoves(b) \/ RowsWiped(b)
    BY <1>0, <1>6, <2>1 DEF WipeRows, NoRowMoves, RowsWiped
  <2> QED BY <2>2, <2>3
<1>7. CASE InsertRow(r)
  <2>1. Least(req[r].todo) \in RowNos
    BY <1>0, <1>7, LeastIn DEF InsertRow
  <2>2. NoRowMoves(b) \/ RowInserted(b)
    <3>1. CASE b = req[r].b
      BY <1>0, <1>7, <2>1, <3>1 DEF InsertRow, RowInserted, HasRow, At, BatchKnown
    <3>2. CASE b # req[r].b
      BY <1>0, <1>7, <3>2 DEF InsertRow, NoRowMoves
    <3> QED BY <3>1, <3>2
  <2> QED BY <1>2, <1>7, <2>2 DEF InsertRow
<1>8. CASE SaveDecision(r)
  <2>1. NoRowMoves(b) \/ RowDecided(b)
    <3>1. CASE row' = row BY <3>1 DEF NoRowMoves
    <3>2. CASE row' = [row EXCEPT ![req[r].b][Least(req[r].todo)] = Decided(@, req[r].choice)]
      <4>1. req[r].choice \in {"ignore", "update", "create"}
        BY <1>8 DEF IndInv, RequestsSound, RequestSound, SaveDecision, At
      <4>2. CASE b # req[r].b \/ Least(req[r].todo) \notin RowNos
        BY <1>0, <3>2, <4>2 DEF NoRowMoves
      <4>3. CASE b = req[r].b /\ Least(req[r].todo) \in RowNos
        BY <1>0, <1>8, <3>2, <4>1, <4>3 DEF RowDecided, SaveDecision, At, BatchKnown, RowsKnown
      <4> QED BY <4>2, <4>3
    <3> QED BY <1>8, <3>1, <3>2 DEF SaveDecision
  <2> QED BY <1>2, <1>8, <2>1 DEF SaveDecision
<1>9. CASE MarkError(r)
  <2>1. NoRowMoves(b) \/ RowRejected(b)
    <3>1. CASE b # req[r].b \/ Current(r) \notin RowNos
      BY <1>0, <1>9, <3>1 DEF MarkError, NoRowMoves
    <3>2. CASE b = req[r].b /\ Current(r) \in RowNos
      BY <1>0, <1>9, <3>2 DEF MarkError, RowRejected, At, BatchKnown, RowsKnown
    <3> QED BY <3>1, <3>2
  <2> QED BY <1>2, <1>9, <2>1 DEF MarkError
<1>10. CASE Cancel(r)
  <2>1. PICK c \in Batches : /\ Cancellable(c)
                             /\ row' = [row EXCEPT ![c] = NoRows]
                             /\ batch' = [batch EXCEPT ![c].status = "cancelled",
                                                       ![c].wipes = @ + 1]
    BY <1>10 DEF Cancel
  <2>2. NothingCounted(b)
    BY <1>0, <1>10, <2>1 DEF Cancel, NothingCounted, BatchRecords
  <2>3. NoRowMoves(b) \/ RowsWiped(b)
    BY <1>0, <2>1 DEF NoRowMoves, RowsWiped, Cancellable
  <2> QED BY <2>2, <2>3
<1>11. CASE ForgetFile(r)
  BY <1>0, <1>1, <1>11 DEF ForgetFile, NoRowMoves, NothingCounted, BatchRecords
<1>12. CASE ApplyRow(r)
  <2>1. Current(r) \in RowNos
    BY <1>0, <1>12, LeastIn DEF ApplyRow, Locked, Current
  <2>2. batch[req[r].b].status = "processing"
    BY <1>0, <1>12 DEF ApplyRow, Locked, At, BatchKnown
  <2>3. CASE b # req[r].b
    BY <1>0, <1>1, <1>12, <2>3 DEF ApplyRow, NoRowMoves, NothingCounted
  <2>4. CASE b = req[r].b
    <3> DEFINE update == row[b][Current(r)].decision = "update"
    <3>1. /\ row[b][Current(r)].status = "ready"
          /\ row'[b] = [row[b] EXCEPT ![Current(r)] = Applied(@)]
          /\ pupils'[b] = [pupils[b] EXCEPT ![Current(r)] = @ + 1]
      BY <1>0, <1>12, <2>4 DEF ApplyRow
    <3>2. /\ batch'[b].status = batch[b].status
          /\ batch'[b].created = batch[b].created + IF update THEN 0 ELSE 1
          /\ batch'[b].updated = batch[b].updated + IF update THEN 1 ELSE 0
      <4>1. CASE update
        BY <1>0, <1>12, <2>4, <4>1 DEF ApplyRow, BatchRecords
      <4>2. CASE ~update
        BY <1>0, <1>12, <2>4, <4>2 DEF ApplyRow, BatchRecords
      <4> QED BY <4>1, <4>2
    <3> QED BY <2>1, <2>2, <2>4, <3>1, <3>2 DEF RowApplied
  <2> QED BY <2>3, <2>4
<1> QED
  BY <1>1, <1>2, <1>4, <1>5, <1>6, <1>7, <1>8, <1>9, <1>10, <1>11, <1>12
  DEF RequestStep, ChunkStep, RowStep, UploadKnown, UploadNew, CreateRefused,
      CreateInterrupted, BeginSimulation, Reload, InsertCollides, BeginResolve,
      Unlink, UnlinkFails, SelectRows, SkipRow, RefuseRow, RowsDone,
      CountReady, CheckReview, RefreshBatch, Abort, NoRowMoves

\* Requests only give expiry dates that are to come.
LEMMA UnexpiredStep ==
    ASSUME TypeOK, Unexpired, NEW r \in Requests, RequestStep(r)
    PROVE  Unexpired'
<1>1. batch \in [Batches -> BatchRecords]
  BY DEF TypeOK
<1>2. CASE CreateBatch(r)
  <2>1. PICK c \in Batches : batch' = [batch EXCEPT ![c] =
             [NoBatch EXCEPT !.status = "uploaded", !.file = req[r].choice,
                             !.expires = "future"]]
    BY <1>2 DEF CreateBatch
  <2> QED BY <1>1, <2>1 DEF Unexpired, NoBatch
<1>3. CASE SaveAnalysis(r) \/ SaveMapping(r) \/ SavePreview(r) \/ Settle(r)
  <2>1. batch' = batch \/ \E c, s : batch' = [batch EXCEPT ![c].status = s]
    BY <1>3 DEF SaveAnalysis, SaveMapping, SavePreview, Settle, TransitionTo
  <2>2. ASSUME NEW c, NEW s, batch' = [batch EXCEPT ![c].status = s],
               NEW b \in Batches
        PROVE  batch'[b].expires = batch[b].expires
    BY <1>1, <2>2 DEF BatchRecords
  <2> QED BY <2>1, <2>2 DEF Unexpired
<1>4. CASE WipeRows(r) BY <1>1, <1>4 DEF WipeRows, Unexpired, BatchRecords
<1>5. CASE Cancel(r) BY <1>1, <1>5 DEF Cancel, Unexpired, BatchRecords
<1>6. CASE ForgetFile(r) BY <1>1, <1>6 DEF ForgetFile, Unexpired, BatchRecords
<1>7. CASE StartChunk(r) BY <1>1, <1>7 DEF StartChunk, Unexpired, BatchRecords
<1>8. CASE ApplyRow(r) BY <1>1, <1>8 DEF ApplyRow, Unexpired, BatchRecords
<1>9. CASE batch' = batch BY <1>9 DEF Unexpired
<1> QED
  BY <1>2, <1>3, <1>4, <1>5, <1>6, <1>7, <1>8, <1>9
  DEF RequestStep, ChunkStep, RowStep, UploadKnown, UploadNew, CreateRefused,
      CreateInterrupted, BeginSimulation, Reload, InsertRow, InsertCollides, BeginResolve,
      SaveDecision, Unlink, UnlinkFails, SelectRows, SkipRow, RefuseRow, MarkError, RowsDone,
      CountReady, CheckReview, RefreshBatch, Abort

\* Only a creation makes an import active, and it looks at the others.
LEMMA ActiveStep ==
    ASSUME IndInv, SoloInv, NEW r \in Requests, RequestStep(r)
    PROVE  AtMostOneActive'
<1> DEFINE New(b) == /\ batch'[b].status = "uploaded"
                     /\ SchoolIdle
                     /\ \A a \in Batches : a # b => batch'[a] = batch[a]
<1>1. ASSUME NEW b \in Batches, Active(b)' PROVE Active(b) \/ New(b)
  BY <1>1, StatusMoves DEF Moves, Active, ActiveStatuses, Statuses, Cancellable, Confirmable
<1>2. ASSUME NEW a \in Batches, NEW b \in Batches, New(b), Active(a)' PROVE a = b
  BY <1>2 DEF SchoolIdle, Active
<1>3. AtMostOneActive
  BY DEF SoloInv
<1> QED BY <1>1, <1>2, <1>3 DEF AtMostOneActive

\* An import cannot go back to before its processing.
LEMMA UnprocessedStep ==
    ASSUME IndInv, SoloInv, NEW r \in Requests, RequestStep(r)
    PROVE  UnprocessedSpared'
<1>1. ASSUME NEW b \in Batches, Unprocessed(batch'[b].status)
      PROVE  /\ batch'[b].created = 0 /\ batch'[b].updated = 0
             /\ \A n \in RowNos : pupils'[b][n] = 0
  <2>1. Unprocessed(batch[b].status)
    BY <1>1, StatusMoves DEF Moves, Cancellable, Confirmable, Unprocessed
  <2>2. /\ batch[b].created = 0 /\ batch[b].updated = 0
        /\ \A n \in RowNos : pupils[b][n] = 0
    BY <2>1 DEF Unprocessed, SoloInv, UnprocessedSpared
  <2>3. NothingCounted(b)
    BY <2>1, RowMoves DEF RowApplied, Unprocessed
  <2> QED BY <2>2, <2>3 DEF NothingCounted
<1> QED BY <1>1 DEF UnprocessedSpared, Unprocessed

\* A row that made a pupil is not replaced.
LEMMA PupilsStep ==
    ASSUME IndInv, SoloInv, NEW r \in Requests, RequestStep(r)
    PROVE  PupilsAreRows'
<1> SUFFICES ASSUME NEW b \in Batches, NEW n \in RowNos
             PROVE  pupils'[b][n] = row'[b][n].times
  BY DEF PupilsAreRows
<1>0. /\ pupils[b][n] = row[b][n].times
      /\ row[b] \in [RowNos -> RowRecords] /\ pupils[b] \in [RowNos -> Nat]
      /\ Unprocessed(batch[b].status) => pupils[b][n] = 0
  BY DEF SoloInv, PupilsAreRows, UnprocessedSpared, Unprocessed, IndInv, TypeOK
<1>1. CASE RowApplied(b)
  <2>1. PICK m \in RowNos : /\ row'[b] = [row[b] EXCEPT ![m] = Applied(@)]
                            /\ pupils'[b] = [pupils[b] EXCEPT ![m] = @ + 1]
    BY <1>1 DEF RowApplied
  <2>2. Applied(row[b][m]).times = row[b][m].times + 1
    BY <1>0 DEF Applied, RowRecords
  <2>3. pupils[b][m] = row[b][m].times
    BY DEF SoloInv, PupilsAreRows
  <2> QED BY <1>0, <2>1, <2>2, <2>3
<1>2. CASE NothingCounted(b)
  <2>0. pupils'[b] = pupils[b]
    BY <1>2 DEF NothingCounted
  <2>1. CASE NoRowMoves(b)
    BY <1>0, <2>0, <2>1 DEF NoRowMoves
  <2>2. CASE RowsWiped(b)
    BY <1>0, <2>0, <2>2 DEF RowsWiped, NoRows, NoRow, Unprocessed
  <2>3. CASE RowInserted(b)
    <3>1. \A c \in Classified : c.times = 0
      BY DEF Classified, NoRow
    <3> QED BY <1>0, <2>0, <2>3, <3>1 DEF RowInserted, Unprocessed
  <2>4. ASSUME NEW m \in RowNos, NEW x, x.times = row[b][m].times,
               row'[b] = [row[b] EXCEPT ![m] = x]
        PROVE  pupils'[b][n] = row'[b][n].times
    BY <1>0, <2>0, <2>4
  <2>5. CASE RowDecided(b)
    <3>1. PICK m \in RowNos, d \in {"ignore", "update", "create"} :
            row'[b] = [row[b] EXCEPT ![m] = Decided(row[b][m], d)]
      BY <1>0, <2>5 DEF RowDecided
    <3>2. Decided(row[b][m], d).times = row[b][m].times
      BY <1>0 DEF Decided, RowRecords
    <3> QED BY <2>4, <3>1, <3>2
  <2>6. CASE RowRejected(b)
    <3>1. PICK m \in RowNos : row'[b] = [row[b] EXCEPT ![m] = Rejected(row[b][m])]
      BY <1>0, <2>6 DEF RowRejected
    <3>2. Rejected(row[b][m]).times = row[b][m].times
      BY <1>0 DEF Rejected, RowRecords
    <3> QED BY <2>4, <3>1, <3>2
  <2>7. CASE RowApplied(b) BY <1>1, <2>7
  <2> QED BY <2>1, <2>2, <2>3, <2>5, <2>6, <2>7, RowMoves
<1> QED BY <1>1, <1>2, RowMoves

\* A row that is neither before nor after among those counted leaves the count.
LEMMA CountStep ==
    ASSUME IndInv, SoloInv, NEW r \in Requests, RequestStep(r)
    PROVE  CountersMatchRows'
<1> SUFFICES ASSUME NEW b \in Batches
             PROVE  /\ batch'[b].created = Cardinality(RowsIn(b, "created")')
                    /\ batch'[b].updated = Cardinality(RowsIn(b, "updated")')
  BY DEF CountersMatchRows
<1> DEFINE Among(t, s) == {n \in RowNos : t[n].status = s}
<1>0. /\ batch[b].created = Cardinality(Among(row[b], "created"))
      /\ batch[b].updated = Cardinality(Among(row[b], "updated"))
      /\ row[b] \in [RowNos -> RowRecords]
      /\ Unprocessed(batch[b].status) => batch[b].created = 0 /\ batch[b].updated = 0
  BY DEF SoloInv, CountersMatchRows, UnprocessedSpared, Unprocessed, IndInv, TypeOK, RowsIn
<1>1. SUFFICES /\ batch'[b].created = Cardinality(Among(row'[b], "created"))
               /\ batch'[b].updated = Cardinality(Among(row'[b], "updated"))
  BY DEF RowsIn
<1>2. \A s : IsFiniteSet(Among(row[b], s))
  <2>1. IsFiniteSet(RowNos)
    BY FS_Interval, ConstantsAssumption DEF RowNos
  <2> QED BY <2>1, FS_Subset
<1>3. CASE RowApplied(b)
  <2>1. PICK n \in RowNos :
          LET update == row[b][n].decision = "update" IN
          /\ row[b][n].status = "ready"
          /\ row'[b] = [row[b] EXCEPT ![n] = Applied(@)]
          /\ batch'[b].created = batch[b].created + IF update THEN 0 ELSE 1
          /\ batch'[b].updated = batch[b].updated + IF update THEN 1 ELSE 0
    BY <1>3 DEF RowApplied
  <2> DEFINE s == IF row[b][n].decision = "update" THEN "updated" ELSE "created"
  <2>2. row'[b][n].status = s /\ \A m \in RowNos : m # n => row'[b][m] = row[b][m]
    BY <1>0, <2>1 DEF Applied, RowRecords
  <2>3. ASSUME NEW t \in {"created", "updated"}
        PROVE  /\ t = s => Among(row'[b], t) = Among(row[b], t) \cup {n}
               /\ t # s => Among(row'[b], t) = Among(row[b], t)
               /\ n \notin Among(row[b], t)
    BY <2>1, <2>2
  <2>4. ASSUME NEW t \in {"created", "updated"}
        PROVE  Cardinality(Among(row[b], t) \cup {n}) = Cardinality(Among(row[b], t)) + 1
    <3>1. n \notin Among(row[b], t) /\ IsFiniteSet(Among(row[b], t))
      BY <1>2, <2>3
    <3> HIDE DEF Among
    <3> QED BY <3>1, FS_AddElement
  <2>5. \A t : Cardinality(Among(row[b], t)) \in Nat
    BY <1>2, FS_CardinalityType
  <2> HIDE DEF Among
  <2>6. CASE row[b][n].decision = "update"
    <3>1. /\ Among(row'[b], "updated") = Among(row[b], "updated") \cup {n}
          /\ Among(row'[b], "created") = Among(row[b], "created")
      BY <2>3, <2>6
    <3>2. batch'[b].updated = batch[b].updated + 1 /\ batch'[b].created = batch[b].created + 0
      BY <2>1, <2>6
    <3>3. Cardinality(Among(row'[b], "updated")) = Cardinality(Among(row[b], "updated")) + 1
      BY <2>4, <3>1
    <3>4. batch[b].created \in Nat
      BY <1>0, <2>5
    <3> QED BY <1>0, <3>1, <3>2, <3>3, <3>4
  <2>7. CASE row[b][n].decision # "update"
    <3>1. /\ Among(row'[b], "created") = Among(row[b], "created") \cup {n}
          /\ Among(row'[b], "updated") = Among(row[b], "updated")
      BY <2>3, <2>7
    <3>2. batch'[b].created = batch[b].created + 1 /\ batch'[b].updated = batch[b].updated + 0
      BY <2>1, <2>7
    <3>3. Cardinality(Among(row'[b], "created")) = Cardinality(Among(row[b], "created")) + 1
      BY <2>4, <3>1
    <3>4. batch[b].updated \in Nat
      BY <1>0, <2>5
    <3> QED BY <1>0, <3>1, <3>2, <3>3, <3>4
  <2> QED BY <2>6, <2>7
<1>4. ASSUME NEW n \in RowNos, NEW x, row'[b] = [row[b] EXCEPT ![n] = x],
             {row[b][n].status, x.status} \cap {"created", "updated"} = {},
             NothingCounted(b)
      PROVE  /\ batch'[b].created = Cardinality(Among(row'[b], "created"))
             /\ batch'[b].updated = Cardinality(Among(row'[b], "updated"))
  <2>1. /\ Among(row'[b], "created") = Among(row[b], "created")
        /\ Among(row'[b], "updated") = Among(row[b], "updated")
    BY <1>0, <1>4
  <2> QED BY <1>0, <1>4, <2>1 DEF NothingCounted, Unprocessed
<1>5. CASE NothingCounted(b)
  <2>1. CASE NoRowMoves(b)
    BY <1>0, <1>5, <2>1 DEF NoRowMoves, NothingCounted, Unprocessed
  <2>2. CASE RowsWiped(b)
    <3>1. Among(row'[b], "created") = {} /\ Among(row'[b], "updated") = {}
      BY <2>2 DEF RowsWiped, NoRows, NoRow
    <3>2. batch'[b].created = 0 /\ batch'[b].updated = 0
      BY <1>0, <1>5, <2>2 DEF RowsWiped, NothingCounted, Unprocessed
    <3> QED BY <3>1, <3>2, FS_EmptySet
  <2>3. CASE RowInserted(b)
    <3>1. \A c \in Classified : c.status \notin {"created", "updated"}
      BY DEF Classified, NoRow
    <3> QED BY <1>4, <1>5, <2>3, <3>1 DEF RowInserted
  <2>4. CASE RowDecided(b)
    <3>1. ASSUME NEW x \in RowRecords, NEW d
          PROVE  Decided(x, d).status \in {"ignored", "ready"}
      BY DEF Decided, RowRecords
    <3>2. PICK n \in RowNos, d \in {"ignore", "update", "create"} :
            /\ row[b][n].status = "needs_review"
            /\ row'[b] = [row[b] EXCEPT ![n] = Decided(row[b][n], d)]
      BY <1>0, <2>4 DEF RowDecided
    <3>3. row[b][n] \in RowRecords
      BY <1>0
    <3>4. Decided(row[b][n], d).status \in {"ignored", "ready"}
      BY <3>1, <3>3
    <3> QED BY <1>4, <1>5, <3>2, <3>4
  <2>5. CASE RowRejected(b)
    <3>1. \A x \in RowRecords : Rejected(x).status = "error"
      BY DEF Rejected, RowRecords
    <3> QED BY <1>0, <1>4, <1>5, <2>5, <3>1 DEF RowRejected
  <2>6. CASE RowApplied(b) BY <1>3, <2>6
  <2> QED BY <2>1, <2>2, <2>3, <2>4, <2>5, <2>6, RowMoves
<1> QED BY <1>3, <1>5, RowMoves

\* A completed import gets no row to handle.
LEMMA DoneStep ==
    ASSUME IndInv, SoloInv, NEW r \in Requests, RequestStep(r)
    PROVE  CompletedMeansDone'
<1> SUFFICES ASSUME NEW b \in Batches, batch'[b].status = "completed"
             PROVE  Settled(b)'
  BY DEF CompletedMeansDone, Settled
<1>1. Moves(b)
  BY StatusMoves
<1>2. CASE row' = row /\ Settled(b)
  BY <1>2 DEF Settled, RowsIn
<1>3. CASE batch[b].status = "completed"
  <2>1. NoRowMoves(b)
    BY <1>3, RowMoves DEF RowsWiped, RowInserted, RowDecided, RowRejected, RowApplied
  <2>2. Settled(b)
    BY <1>3 DEF SoloInv, CompletedMeansDone, Settled
  <2> QED BY <2>1, <2>2 DEF NoRowMoves, Settled, RowsIn
<1> QED BY <1>1, <1>2, <1>3 DEF Moves

\* While requests come one after the other and no batch expires, a request finds
\* its batch and its rows as it left them.
THEOREM SoloInductive ==
    ASSUME SingleOperator, ~RetentionEnds
    PROVE  Spec => []SoloInv
<1>1. Init => SoloInv
  <2> SUFFICES ASSUME Init PROVE SoloInv
    OBVIOUS
  <2>1. CountersMatchRows
    <3>1. \A b \in Batches : RowsIn(b, "created") = {} /\ RowsIn(b, "updated") = {}
      BY DEF Init, RowsIn, NoRow
    <3> QED BY <3>1, FS_EmptySet DEF CountersMatchRows, Init, NoBatch
  <2> QED BY <2>1 DEF Init, SoloInv, Unexpired, BatchKnown, RowsKnown, AtMostOneActive, Active,
       ActiveStatuses, Statuses, UnprocessedSpared, PupilsAreRows, CompletedMeansDone, RowsIn,
       NoBatch, NoRow, Idle
<1>2. IndInv /\ SoloInv /\ [Next]_vars => SoloInv'
  <2>1. ASSUME IndInv, SoloInv, Next PROVE SoloInv'
    <3>1. PICK r \in Requests : RequestStep(r)
      BY <2>1, SoloNext DEF IndInv, SoloInv
    <3>2. \A q \in Requests : BatchKnown(q)' /\ RowsKnown(q)'
      BY <2>1, <3>1, KnownStep DEF SingleOperator
    <3>3. Unexpired'
      BY <2>1, <3>1, UnexpiredStep DEF IndInv, SoloInv
    <3> QED BY <2>1, <3>1, <3>2, <3>3, ActiveStep, UnprocessedStep, PupilsStep, CountStep,
         DoneStep DEF SoloInv
  <2>2. ASSUME SoloInv, UNCHANGED vars PROVE SoloInv'
    <3>1. Unexpired' /\ AtMostOneActive' /\ UnprocessedSpared' /\ PupilsAreRows'
      BY <2>2 DEF vars, SoloInv, Unexpired, AtMostOneActive, Active, UnprocessedSpared,
           PupilsAreRows
    <3>2. \A r \in Requests : BatchKnown(r)' /\ RowsKnown(r)'
      BY <2>2 DEF vars, SoloInv, BatchKnown, RowsKnown, Current, RowsIn
    <3>3. CountersMatchRows' /\ CompletedMeansDone'
      BY <2>2 DEF vars, SoloInv, CountersMatchRows, CompletedMeansDone, RowsIn
    <3> QED BY <3>1, <3>2, <3>3 DEF SoloInv
  <2> QED BY <2>1, <2>2
<1> QED BY <1>1, <1>2, Inductive, PTL DEF Spec

\* One import at a time: a school never has two that are under way.
THEOREM AtMostOneActiveThm ==
    ASSUME SingleOperator, ~RetentionEnds
    PROVE  Spec => []AtMostOneActive
<1>1. SoloInv => AtMostOneActive
  BY DEF SoloInv
<1> QED BY <1>1, SoloInductive, PTL

\* A completed import has handled every valid row, in however many chunks and
\* after however many interruptions.
THEOREM CompletedMeansDoneThm ==
    ASSUME SingleOperator, ~RetentionEnds
    PROVE  Spec => []CompletedMeansDone
<1>1. SoloInv => CompletedMeansDone
  BY DEF SoloInv
<1> QED BY <1>1, SoloInductive, PTL

\* The director's counters are the numbers of rows that became pupils.
THEOREM CountersMatchRowsThm ==
    ASSUME SingleOperator, ~RetentionEnds
    PROVE  Spec => []CountersMatchRows
<1>1. SoloInv => CountersMatchRows
  BY DEF SoloInv
<1> QED BY <1>1, SoloInductive, PTL

\* A line of the file makes at most one pupil, over every simulation,
\* interruption and resumption.
THEOREM LineAppliedOnceThm ==
    ASSUME SingleOperator, ~RetentionEnds
    PROVE  Spec => []LineAppliedOnce
<1>1. IndInv /\ SoloInv => LineAppliedOnce
  <2> SUFFICES ASSUME IndInv, SoloInv, NEW b \in Batches, NEW n \in RowNos
               PROVE  pupils[b][n] <= 1
    BY DEF LineAppliedOnce
  <2>1. row[b][n].times = 0 \/ row[b][n].times = 1
    BY DEF IndInv, RowsSpent
  <2> QED BY <2>1 DEF SoloInv, PupilsAreRows
<1> QED BY <1>1, Inductive, SoloInductive, PTL

\* A completed or cancelled import never comes back.
THEOREM TerminalIsFinalThm ==
    ASSUME SingleOperator, ~RetentionEnds
    PROVE  Spec => TerminalIsFinal
<1> DEFINE Final == \A b \in Batches : batch[b].status \in {"completed", "cancelled"}
                            => batch'[b].status = batch[b].status
<1>1. IndInv /\ SoloInv /\ [Next]_vars => [Final]_vars
  <2> SUFFICES ASSUME IndInv, SoloInv, Next PROVE Final
    OBVIOUS
  <2>1. PICK r \in Requests : RequestStep(r)
    BY SoloNext DEF IndInv, SoloInv
  <2> QED BY <2>1, StatusMoves DEF Moves, Cancellable, Confirmable
<1> QED BY <1>1, Inductive, SoloInductive, PTL DEF Spec, TerminalIsFinal

-----------------------------------------------------------------------------
(* The import a director is promised *)

LEMMA StageFacts ==
    ASSUME NEW s
    PROVE  /\ s = "none" => Stage(s) = "none"
           /\ s \in {"uploaded", "analyzed", "mapped", "previewed"} => Stage(s) = "preparing"
           /\ s \in {"processing", "partial"} => Stage(s) = "writing"
           /\ s = "completed" => Stage(s) = "done"
           /\ s = "cancelled" => Stage(s) = "dropped"
           /\ Stage(s) \in {"preparing", "writing"} => s \in ActiveStatuses \cup {"failed"}
BY DEF Stage, ActiveStatuses, Statuses

Same(a) == batch'[a].status = batch[a].status /\ row'[a] = row[a] /\ pupils'[a] = pupils[a]

\* A request works on one import, on its status or on its lines; only a
\* cancellation does both.
LEMMA OneImport ==
    ASSUME IndInv, NEW r \in Requests, RequestStep(r)
    PROVE  \E b \in Batches :
              /\ \A a \in Batches \ {b} : Same(a)
              /\ \/ batch'[b].status = batch[b].status
                 \/ /\ batch'[b].status # "cancelled"
                    /\ row'[b] = row[b] /\ pupils'[b] = pupils[b]
                 \/ /\ Cancellable(b) /\ batch'[b].status = "cancelled"
                    /\ row'[b] = NoRows /\ pupils'[b] = pupils[b]
<1>0. /\ req[r].b \in Batches
      /\ batch \in [Batches -> BatchRecords]
      /\ row \in [Batches -> [RowNos -> RowRecords]]
      /\ pupils \in [Batches -> [RowNos -> Nat]]
  BY DEF IndInv, TypeOK, RequestRecords
<1> DEFINE One(b) ==
              /\ \A a \in Batches \ {b} : Same(a)
              /\ \/ batch'[b].status = batch[b].status
                 \/ /\ batch'[b].status # "cancelled"
                    /\ row'[b] = row[b] /\ pupils'[b] = pupils[b]
                 \/ /\ Cancellable(b) /\ batch'[b].status = "cancelled"
                    /\ row'[b] = NoRows /\ pupils'[b] = pupils[b]
<1>1. ASSUME batch' = batch, row' = row, pupils' = pupils PROVE One(req[r].b)
  BY <1>1 DEF Same
<1>2. ASSUME NEW c \in Batches, NEW s, s # "cancelled",
             batch' = [batch EXCEPT ![c].status = s], row' = row, pupils' = pupils
      PROVE  One(c)
  BY <1>0, <1>2 DEF Same, BatchRecords
<1>3. CASE CreateBatch(r)
  <2>1. PICK c \in Batches :
           batch' = [batch EXCEPT ![c] =
               [NoBatch EXCEPT !.status = "uploaded", !.file = req[r].choice,
                               !.expires = "future"]]
    BY <1>3 DEF CreateBatch
  <2>2. One(c)
    BY <1>0, <1>3, <2>1 DEF CreateBatch, Same, NoBatch
  <2> QED BY <2>2
<1>4. CASE SaveAnalysis(r) \/ SaveMapping(r) \/ SavePreview(r) \/ Settle(r)
  <2>1. row' = row /\ pupils' = pupils
    BY <1>4 DEF SaveAnalysis, SaveMapping, SavePreview, Settle
  <2>2. \/ batch' = batch
        \/ \E s \in {"analyzed", "mapped", "previewed", "partial", "completed"} :
              batch' = [batch EXCEPT ![req[r].b].status = s]
    BY <1>4 DEF SaveAnalysis, SaveMapping, SavePreview, Settle, TransitionTo,
         IndInv, RequestsSound, RequestSound, At
  <2> QED BY <1>0, <1>1, <1>2, <2>1, <2>2
<1>5. CASE StartChunk(r)
  BY <1>0, <1>2, <1>5 DEF StartChunk
<1>6. CASE WipeRows(r) \/ InsertRow(r) \/ SaveDecision(r) \/ ForgetFile(r)
           \/ ApplyRow(r) \/ MarkError(r)
  <2> DEFINE c == req[r].b
  <2>1. CASE WipeRows(r) BY <1>0, <2>1 DEF WipeRows, Same, BatchRecords
  <2>2. CASE InsertRow(r)
    <3>1. PICK x : row' = [row EXCEPT ![c][Least(req[r].todo)] = x]
      BY <2>2 DEF InsertRow
    <3>2. \A a \in Batches \ {c} : row'[a] = row[a]
      BY <1>0, <3>1
    <3> QED BY <1>0, <2>2, <3>2 DEF InsertRow, Same
  <2>3. CASE SaveDecision(r) BY <1>0, <2>3 DEF SaveDecision, Same
  <2>4. CASE ForgetFile(r) BY <1>0, <2>4 DEF ForgetFile, Same, BatchRecords
  <2>5. CASE ApplyRow(r) BY <1>0, <2>5 DEF ApplyRow, Same, BatchRecords
  <2>6. CASE MarkError(r) BY <1>0, <2>6 DEF MarkError, Same
  <2> QED BY <1>6, <2>1, <2>2, <2>3, <2>4, <2>5, <2>6
<1>7. CASE Cancel(r)
  <2>1. PICK c \in Batches : /\ Cancellable(c)
                             /\ row' = [row EXCEPT ![c] = NoRows]
                             /\ batch' = [batch EXCEPT ![c].status = "cancelled",
                                                       ![c].wipes = @ + 1]
    BY <1>7 DEF Cancel
  <2>2. One(c)
    BY <1>0, <1>7, <2>1 DEF Cancel, Same, BatchRecords
  <2> QED BY <2>2
<1> QED
  BY <1>0, <1>1, <1>3, <1>4, <1>5, <1>6, <1>7
  DEF RequestStep, ChunkStep, RowStep, UploadKnown, UploadNew, CreateRefused,
      CreateInterrupted, BeginSimulation, Reload, InsertCollides, BeginResolve,
      Unlink, UnlinkFails, SelectRows, SkipRow, RefuseRow, RowsDone,
      CountReady, CheckReview, RefreshBatch, Abort

\* The state of one import is what the abstract one sees of it.
LEMMA ImportSeen ==
    ASSUME TypeOK, TypeOK', NEW b \in Batches, \A a \in Batches \ {b} : Same(a)
    PROVE  /\ Import!vars' =
                <<[a \in Batches |-> Stage(batch'[a].status)], [a \in Batches |-> Unhandled(a)'],
                  pupils'>>
           /\ [a \in Batches |-> Stage(batch'[a].status)] =
                [[a \in Batches |-> Stage(batch[a].status)] EXCEPT ![b] = Stage(batch'[b].status)]
           /\ [a \in Batches |-> Unhandled(a)'] =
                [[a \in Batches |-> Unhandled(a)] EXCEPT ![b] = Unhandled(b)']
           /\ pupils' = [pupils EXCEPT ![b] = pupils'[b]]
<1>1. \A a \in Batches \ {b} : Stage(batch'[a].status) = Stage(batch[a].status)
                               /\ Unhandled(a)' = Unhandled(a) /\ pupils'[a] = pupils[a]
  BY DEF Same, Unhandled
<1>2. pupils \in [Batches -> [RowNos -> Nat]] /\ pupils' \in [Batches -> [RowNos -> Nat]]
  BY DEF TypeOK
<1> QED BY <1>1, <1>2 DEF Import!vars

\* A move of the status is a step of the abstract import, or none.
LEMMA StatusRefines ==
    ASSUME IndInv, IndInv', SoloInv, NEW b \in Batches, \A a \in Batches \ {b} : Same(a),
           Moves(b), batch'[b].status # "cancelled", row'[b] = row[b], pupils'[b] = pupils[b]
    PROVE  [Import!Next]_(Import!vars)
<1> DEFINE s == batch[b].status
           t == batch'[b].status
           stage == [a \in Batches |-> Stage(batch[a].status)]
           later == [a \in Batches |-> Stage(batch'[a].status)]
<1>t. /\ pupils \in [Batches -> [RowNos -> Nat]]
      /\ pupils' = [pupils EXCEPT ![b] = pupils'[b]]
  <2>1. TypeOK /\ TypeOK'
    BY DEF IndInv
  <2>2. pupils' = [pupils EXCEPT ![b] = pupils'[b]]
    BY <2>1, ImportSeen
  <2> QED BY <2>1, <2>2 DEF TypeOK
<1>1. /\ later = [stage EXCEPT ![b] = Stage(t)]
      /\ [a \in Batches |-> Unhandled(a)'] = [a \in Batches |-> Unhandled(a)]
      /\ pupils' = pupils
  <2>1. Unhandled(b)' = Unhandled(b)
    BY DEF Unhandled
  <2>2. [a \in Batches |-> Unhandled(a)'] = [a \in Batches |-> Unhandled(a)]
    BY <2>1, ImportSeen DEF IndInv
  <2>3. pupils' = pupils
    BY <1>t
  <2>4. later = [stage EXCEPT ![b] = Stage(t)]
    BY ImportSeen DEF IndInv
  <2> QED BY <2>2, <2>3, <2>4
<1>2. CASE Stage(t) = Stage(s)
  BY <1>1, <1>2 DEF Import!vars
<1>3. CASE s = "none" /\ t = "uploaded" /\ SchoolIdle
  <2>1. \A a \in Batches : Stage(batch[a].status) \notin {"preparing", "writing"}
    <3> SUFFICES ASSUME NEW a \in Batches
                 PROVE  Stage(batch[a].status) \notin {"preparing", "writing"}
      OBVIOUS
    <3>1. batch[a].status \notin ActiveStatuses /\ batch[a].status # "failed"
      BY <1>3 DEF SchoolIdle, Active, ActiveStatuses, Statuses
    <3> QED BY <3>1, StageFacts
  <2>2. Import!Begin(b)
    BY <1>1, <1>3, <2>1, StageFacts DEF Import!Begin, Import!UnderWay
  <2> QED BY <2>2 DEF Import!Next
<1>4. CASE Stage(s) = "preparing" /\ Stage(t) = "writing"
  <2>1. Import!Start(b)
    BY <1>1, <1>4 DEF Import!Start
  <2> QED BY <2>1 DEF Import!Next
<1>5. CASE s = "processing" /\ t = "completed" /\ Settled(b)
  <2>1. Unhandled(b) = {}
    BY <1>5 DEF Settled, RowsIn, Unhandled
  <2>2. Import!Conclude(b)
    BY <1>1, <1>5, <2>1, StageFacts DEF Import!Conclude
  <2> QED BY <2>2 DEF Import!Next
<1>6. \/ s = t
      \/ s = "none" /\ t = "uploaded" /\ SchoolIdle
      \/ s \in {"uploaded", "analyzed", "mapped"} /\ t \in {"analyzed", "mapped", "previewed"}
      \/ s \in {"previewed", "partial", "failed", "processing"} /\ t = "processing"
      \/ s = "processing" /\ t = "partial"
      \/ s = "processing" /\ t = "completed" /\ Settled(b)
  BY DEF Moves, Confirmable
<1>7. Stage("failed") = "writing"
  BY DEF Stage
<1> HIDE DEF stage, later
<1>8. \/ Stage(t) = Stage(s)
      \/ s = "none" /\ t = "uploaded" /\ SchoolIdle
      \/ Stage(s) = "preparing" /\ Stage(t) = "writing"
      \/ s = "processing" /\ t = "completed" /\ Settled(b)
  BY <1>6, <1>7, StageFacts
<1> QED BY <1>2, <1>3, <1>4, <1>5, <1>8

\* A cancellation drops the import.
LEMMA CancelRefines ==
    ASSUME IndInv, IndInv', NEW b \in Batches, \A a \in Batches \ {b} : Same(a),
           Cancellable(b), batch'[b].status = "cancelled", row'[b] = NoRows,
           pupils'[b] = pupils[b]
    PROVE  Import!Drop(b)
<1>t. /\ pupils \in [Batches -> [RowNos -> Nat]]
      /\ pupils' = [pupils EXCEPT ![b] = pupils'[b]]
  <2>1. TypeOK /\ TypeOK'
    BY DEF IndInv
  <2>2. pupils' = [pupils EXCEPT ![b] = pupils'[b]]
    BY <2>1, ImportSeen
  <2> QED BY <2>1, <2>2 DEF TypeOK
<1>1. Unhandled(b)' = {}
  BY DEF Unhandled, NoRows, NoRow
<1>2. Stage(batch[b].status) = "preparing" /\ Stage(batch'[b].status) = "dropped"
  BY StageFacts DEF Cancellable
<1>3. pupils' = pupils
  BY <1>t
<1> QED BY <1>1, <1>2, <1>3, ImportSeen DEF IndInv, Import!Drop

\* What a request does to the lines while they are prepared is preparation.
LEMMA PreparationRefines ==
    ASSUME IndInv, IndInv', NEW b \in Batches, \A a \in Batches \ {b} : Same(a),
           batch'[b].status = batch[b].status, Stage(batch[b].status) = "preparing",
           pupils'[b] = pupils[b]
    PROVE  Import!Prepare(b)
<1>t. /\ pupils \in [Batches -> [RowNos -> Nat]]
      /\ pupils' = [pupils EXCEPT ![b] = pupils'[b]]
  <2>1. TypeOK /\ TypeOK'
    BY DEF IndInv
  <2>2. pupils' = [pupils EXCEPT ![b] = pupils'[b]]
    BY <2>1, ImportSeen
  <2> QED BY <2>1, <2>2 DEF TypeOK
<1>1. Unhandled(b)' \in SUBSET RowNos
  BY DEF Unhandled
<1>2. pupils' = pupils
  BY <1>t
<1>3. [a \in Batches |-> Stage(batch'[a].status)] = [a \in Batches |-> Stage(batch[a].status)]
  BY DEF Same
<1> QED BY <1>1, <1>2, <1>3, ImportSeen DEF IndInv, Import!Prepare

\* While an import is written a line is handled, or waits on.
LEMMA HandlingRefines ==
    ASSUME IndInv, IndInv', NEW b \in Batches, \A a \in Batches \ {b} : Same(a),
           batch'[b].status = batch[b].status, Stage(batch[b].status) = "writing",
           NEW n \in RowNos, row[b][n].status \in {"ready", "needs_review"},
           NEW x, row'[b] = [row[b] EXCEPT ![n] = x],
           \/ pupils'[b] = pupils[b]
           \/ /\ x.status \notin {"ready", "needs_review"}
              /\ pupils'[b] = [pupils[b] EXCEPT ![n] = pupils[b][n] + 1]
    PROVE  [Import!Next]_(Import!vars)
<1>t. /\ pupils \in [Batches -> [RowNos -> Nat]]
      /\ pupils' = [pupils EXCEPT ![b] = pupils'[b]]
  <2>1. TypeOK /\ TypeOK'
    BY DEF IndInv
  <2>2. pupils' = [pupils EXCEPT ![b] = pupils'[b]]
    BY <2>1, ImportSeen
  <2> QED BY <2>1, <2>2 DEF TypeOK
<1>0. row[b] \in [RowNos -> RowRecords]
  BY DEF IndInv, TypeOK
<1>1. [a \in Batches |-> Stage(batch'[a].status)] = [a \in Batches |-> Stage(batch[a].status)]
  BY DEF Same
<1>2. n \in Unhandled(b)
  BY DEF Unhandled
<1>3. CASE x.status \in {"ready", "needs_review"}
  <2>1. Unhandled(b)' = Unhandled(b)
    BY <1>0, <1>3 DEF Unhandled
  <2>2. [a \in Batches |-> Unhandled(a)'] = [a \in Batches |-> Unhandled(a)]
    BY <2>1, ImportSeen DEF IndInv
  <2>3. pupils' = pupils
    BY <1>t, <1>3
  <2> QED BY <1>1, <2>2, <2>3 DEF Import!vars
<1>4. CASE x.status \notin {"ready", "needs_review"}
  <2>1. Unhandled(b)' = Unhandled(b) \ {n}
    BY <1>0, <1>4 DEF Unhandled
  <2>2. pupils' = pupils \/ pupils' = [pupils EXCEPT ![b][n] = pupils[b][n] + 1]
    BY <1>t
  <2>3. Import!Handle(b, n)
    BY <1>1, <1>2, <2>1, <2>2, ImportSeen DEF IndInv, Import!Handle
  <2> QED BY <2>3 DEF Import!Next
<1> QED BY <1>3, <1>4

\* So every step of the one request is a step of the abstract import, or none.
LEMMA RequestRefines ==
    ASSUME IndInv, IndInv', SoloInv, NEW r \in Requests, RequestStep(r)
    PROVE  [Import!Next]_(Import!vars)
<1>1. PICK b \in Batches :
         /\ \A a \in Batches \ {b} : Same(a)
         /\ \/ batch'[b].status = batch[b].status
            \/ /\ batch'[b].status # "cancelled"
               /\ row'[b] = row[b] /\ pupils'[b] = pupils[b]
            \/ /\ Cancellable(b) /\ batch'[b].status = "cancelled"
               /\ row'[b] = NoRows /\ pupils'[b] = pupils[b]
  BY OneImport
<1>2. CASE batch'[b].status # "cancelled" /\ row'[b] = row[b] /\ pupils'[b] = pupils[b]
  BY <1>1, <1>2, StatusMoves, StatusRefines
<1>3. CASE Cancellable(b) /\ batch'[b].status = "cancelled" /\ row'[b] = NoRows
           /\ pupils'[b] = pupils[b]
  BY <1>1, <1>3, CancelRefines DEF Import!Next
<1>4. CASE batch'[b].status = batch[b].status
  <2> DEFINE s == batch[b].status
  <2>1. CASE row'[b] = row[b] /\ pupils'[b] = pupils[b]
    <3>1. \A a \in Batches : Same(a)
      BY <1>1, <1>4, <2>1 DEF Same
    <3>2. /\ [a \in Batches |-> Stage(batch'[a].status)] = [a \in Batches |-> Stage(batch[a].status)]
          /\ [a \in Batches |-> Unhandled(a)'] = [a \in Batches |-> Unhandled(a)]
      BY <3>1 DEF Same, Unhandled
    <3>3. pupils' = pupils
      BY <3>1 DEF Same, IndInv, TypeOK
    <3> QED BY <3>2, <3>3 DEF Import!vars
  <2>2. CASE Stage(s) = "preparing" /\ pupils'[b] = pupils[b]
    BY <1>1, <1>4, <2>2, PreparationRefines DEF Import!Next
  <2>3. ASSUME NothingCounted(b),
               RowsWiped(b) \/ RowInserted(b) \/ (RowDecided(b) /\ s = "previewed")
        PROVE  [Import!Next]_(Import!vars)
    BY <2>2, <2>3, StageFacts DEF NothingCounted, RowsWiped, RowInserted
  <2>4. ASSUME NothingCounted(b), RowDecided(b), s = "partial"
        PROVE  [Import!Next]_(Import!vars)
    <3>1. PICK n \in RowNos, d \in {"ignore", "update", "create"} :
             /\ row[b][n].status = "needs_review"
             /\ row'[b] = [row[b] EXCEPT ![n] = Decided(row[b][n], d)]
      BY <2>4 DEF RowDecided
    <3>2. Stage(s) = "writing" /\ pupils'[b] = pupils[b]
      BY <2>4, StageFacts DEF NothingCounted
    <3> QED BY <1>1, <1>4, <3>1, <3>2, HandlingRefines
  <2>5. ASSUME NothingCounted(b), RowRejected(b) PROVE [Import!Next]_(Import!vars)
    <3>1. PICK n \in RowNos :
             row[b][n].status = "ready" /\ row'[b] = [row[b] EXCEPT ![n] = Rejected(row[b][n])]
      BY <2>5 DEF RowRejected
    <3>2. Stage(s) = "writing" /\ pupils'[b] = pupils[b]
      BY <2>5, StageFacts DEF RowRejected, NothingCounted
    <3> QED BY <1>1, <1>4, <3>1, <3>2, HandlingRefines
  <2>6. ASSUME RowApplied(b) PROVE [Import!Next]_(Import!vars)
    <3>1. PICK n \in RowNos :
             /\ row[b][n].status = "ready"
             /\ row'[b] = [row[b] EXCEPT ![n] = Applied(row[b][n])]
             /\ pupils'[b] = [pupils[b] EXCEPT ![n] = pupils[b][n] + 1]
      BY <2>6 DEF RowApplied
    <3>2. Applied(row[b][n]).status \notin {"ready", "needs_review"}
      <4>1. row[b][n] \in RowRecords
        BY DEF IndInv, TypeOK
      <4> QED BY <4>1 DEF Applied, RowRecords
    <3>3. Stage(s) = "writing"
      BY <2>6, StageFacts DEF RowApplied
    <3> QED BY <1>1, <1>4, <3>1, <3>2, <3>3, HandlingRefines
  <2>7. RowDecided(b) => s \in {"previewed", "partial"}
    BY DEF RowDecided
  <2>8. NoRowMoves(b) /\ NothingCounted(b) => row'[b] = row[b] /\ pupils'[b] = pupils[b]
    BY DEF NoRowMoves, NothingCounted
  <2> QED BY <2>1, <2>3, <2>4, <2>5, <2>6, <2>7, <2>8, RowMoves
<1> QED BY <1>1, <1>2, <1>3, <1>4

(***************************************************************************)
(* One director in one tab, with exceptions and restarts between any two   *)
(* commits, sees an import of PupilImport: it is written line by line,     *)
(* each line once, after which nothing drops it, and concludes when no     *)
(* line waits (StudentImportBatchService).                                 *)
(***************************************************************************)
THEOREM ImplementsImportThm ==
    ASSUME SingleOperator, ~RetentionEnds
    PROVE  Spec => ImplementsImport
<1>1. Init => Import!Init
  <2> SUFFICES ASSUME Init PROVE Import!Init
    OBVIOUS
  <2>1. \A b \in Batches : Stage(batch[b].status) = "none" /\ Unhandled(b) = {}
    BY StageFacts DEF Init, NoBatch, NoRow, Unhandled
  <2> QED BY <2>1 DEF Init, Import!Init
<1>2. IndInv /\ IndInv' /\ SoloInv /\ [Next]_vars => [Import!Next]_(Import!vars)
  <2> SUFFICES ASSUME IndInv, IndInv', SoloInv, [Next]_vars PROVE [Import!Next]_(Import!vars)
    OBVIOUS
  <2>1. CASE UNCHANGED vars
    BY <2>1 DEF vars, Import!vars, Unhandled
  <2>2. CASE Next
    BY <2>2, SoloNext, RequestRefines DEF IndInv, SoloInv
  <2> QED BY <2>1, <2>2
<1> QED BY Inductive, SoloInductive, <1>1, <1>2, PTL DEF Spec, ImplementsImport, Import!Spec
=============================================================================
