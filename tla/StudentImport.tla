--------------------------- MODULE StudentImport ---------------------------
(***************************************************************************)
(* The CSV import of pupils of one school                                  *)
(* (app/Services/StudentImportBatchService.php, the Filament page that     *)
(* calls it and the daily purge command).                                  *)
(*                                                                         *)
(* The shared state is what outlives a request: the rows of                *)
(* student_import_batches and student_import_rows and the private disk.    *)
(* A request (a click of a director or secretary) runs one operation as a  *)
(* sequence of database commits; between two commits it knows the batch    *)
(* only through the Eloquent copy it read earlier, kept in req[r].  A      *)
(* transaction that locks what it changes is one action; everything else   *)
(* is one action per commit, so that two requests interleave as the        *)
(* database lets them.                                                     *)
(***************************************************************************)
EXTENDS Naturals, FiniteSets

CONSTANTS
    Requests,       \* concurrent page requests of the school's users
    Files,          \* contents of CSV files (file_sha256, year and class)
    NBatches,       \* bound: uploads that may reach the disk
    NRows,          \* data lines of a file
    ChunkSize,      \* config student-import.chunk_size
    MaxWipes,       \* bound: a batch is simulated while fewer wipes happened
    RetentionEnds   \* bound: whether the 30 days of a batch may elapse

ASSUME ConstantsAssumption ==
    /\ NBatches \in Nat \ {0}
    /\ NRows \in Nat \ {0}
    /\ ChunkSize \in Nat \ {0}
    /\ MaxWipes \in Nat
    /\ RetentionEnds \in BOOLEAN

Batches == 1 .. NBatches
RowNos == 1 .. NRows

VARIABLES
    batch,    \* student_import_batches, by upload
    row,      \* student_import_rows, by batch and row_number
    disk,     \* uploads whose private file is stored
    req,      \* what each running request holds in memory
    pupils    \* history: how often each file line created or updated a pupil

vars == <<batch, row, disk, req, pupils>>

(***************************************************************************)
(* Statuses and the transitions transitionTo() accepts.                    *)
(***************************************************************************)
Statuses == {"uploaded", "analyzed", "mapped", "previewed", "processing",
             "partial", "completed", "failed", "cancelled"}

ActiveStatuses == Statuses \ {"completed", "cancelled"}

NextStates(s) ==
    CASE s = "uploaded" -> {"analyzed", "failed", "cancelled"}
      [] s = "analyzed" -> {"mapped", "failed", "cancelled"}
      [] s = "mapped" -> {"previewed", "analyzed", "failed", "cancelled"}
      [] s = "previewed" -> {"processing", "mapped", "failed", "cancelled"}
      [] s = "processing" -> {"partial", "completed", "failed"}
      [] s = "partial" -> {"processing", "failed", "cancelled"}
      [] s = "failed" -> {"processing", "cancelled"}
      [] OTHER -> {}

RowStatuses == {"ignored", "error", "needs_review", "ready", "created", "updated"}
Decisions == {"none", "ignore", "update", "create"}

\* decision stands for the columns decision and candidate_student_id together:
\* what processRow() will do with the row.
\* A line of the file that has no row in the table.
NoRow == [status |-> "absent", data |-> FALSE, decision |-> "none", times |-> 0]
\* times is history: how often this very row was turned into a pupil.
RowRecords == [status: RowStatuses \cup {"absent"}, data: BOOLEAN,
               decision: Decisions, times: Nat]

\* expires abstracts expires_at; file_path is set exactly when it is, the two
\* are written together everywhere.  wipes numbers the generations of rows: a
\* deleted row and the row inserted later for the same line have different ids.
NoBatch == [status |-> "none", file |-> "none", expires |-> "none",
            created |-> 0, updated |-> 0, wipes |-> 0]
BatchRecords == [status: Statuses \cup {"none"}, file: Files \cup {"none"},
                 expires: {"none", "future", "past"},
                 created: Nat, updated: Nat, wipes: Nat]

Steps == {"idle", "create", "analyze", "map", "fresh", "wipe", "insert",
          "preview", "resolve", "unlink", "forget", "chunk", "rows", "reject",
          "count", "review", "finish", "settle"}

\* copy: the status in the request's model of batch b; gen: the generation of
\* the rows it loaded; todo: the rows it still has to handle; choice: what it
\* was asked for or decided.
Idle == [pc |-> "idle", b |-> 1, copy |-> "none", gen |-> 0, todo |-> {},
         choice |-> "none"]
RequestRecords ==
    [pc: Steps, b: Batches, copy: Statuses \cup {"none"}, gen: Nat,
     todo: SUBSET RowNos,
     choice: Decisions \cup {"partial", "completed"} \cup Files]

Init ==
    /\ batch = [b \in Batches |-> NoBatch]
    /\ row = [b \in Batches |-> [n \in RowNos |-> NoRow]]
    /\ disk = {}
    /\ req = [r \in Requests |-> Idle]
    /\ pupils = [b \in Batches |-> [n \in RowNos |-> 0]]

-----------------------------------------------------------------------------
(* Helpers *)

At(r, step) == req[r].pc = step
Goto(r, step) == req' = [req EXCEPT ![r].pc = step]
\* The request ends, normally or by an exception: PHP keeps nothing.
Finish(r) == req' = [req EXCEPT ![r] = Idle]

Exists(b) == batch[b].status # "none"
Active(b) == batch[b].status \in ActiveStatuses
HasRow(b, n) == row[b][n].status # "absent"
RowsIn(b, s) == {n \in RowNos : row[b][n].status = s}
NoRows == [n \in RowNos |-> NoRow]
Least(S) == CHOOSE n \in S : \A m \in S : n <= m
\* A new upload takes the next identifier, whether or not it is committed.
Unused(b) == ~Exists(b) /\ b \notin disk
NextUpload(b) == Unused(b) /\ \A a \in Batches : Unused(a) => b <= a

\* $batch->transitionTo($s): checks the in-memory status, then a blind UPDATE.
TransitionTo(r, s) ==
    /\ s \in NextStates(req[r].copy)
    /\ batch' = [batch EXCEPT ![req[r].b].status = s]

-----------------------------------------------------------------------------
(* Upload and analysis: StudentImport::analyze, create(), analyze() *)

\* A batch of the same file that was not cancelled is reused: analysis goes on
\* if it is still to be done, else the page only shows it.
UploadKnown(r) ==
    /\ At(r, "idle")
    /\ \E f \in Files, b \in Batches :
        /\ batch[b].file = f
        /\ batch[b].status = "uploaded"
        /\ b \in disk
        /\ \A a \in Batches :
             a > b /\ batch[a].file = f => batch[a].status = "cancelled"
        /\ req' = [req EXCEPT ![r] = [Idle EXCEPT !.pc = "analyze", !.b = b,
                                                  !.copy = "uploaded"]]
    /\ UNCHANGED <<batch, row, disk, pupils>>

UploadNew(r) ==
    /\ At(r, "idle")
    /\ \E f \in Files :
        /\ \A b \in Batches : batch[b].file = f => batch[b].status = "cancelled"
        /\ req' = [req EXCEPT ![r] = [Idle EXCEPT !.pc = "create", !.choice = f]]
    /\ UNCHANGED <<batch, row, disk, pupils>>

\* A plausible bug: an import that waits for reviews is not seen as active.
SchoolIdleButPartial ==
    \A a \in Batches : batch[a].status \in {"none", "completed", "cancelled", "partial"}

SchoolIdle == \A a \in Batches : ~Active(a)

\* The transaction locks the school, refuses a second active batch, stores the
\* file and inserts the batch.
CreateBatch(r) ==
    /\ At(r, "create")
    /\ SchoolIdle
    /\ \E b \in Batches :
        /\ NextUpload(b)
        /\ batch' = [batch EXCEPT ![b] =
             [NoBatch EXCEPT !.status = "uploaded", !.file = req[r].choice,
                             !.expires = "future"]]
        /\ disk' = disk \cup {b}
        /\ req' = [req EXCEPT ![r] = [Idle EXCEPT !.pc = "analyze", !.b = b,
                                                  !.copy = "uploaded"]]
    /\ UNCHANGED <<row, pupils>>

CreateRefused(r) ==
    /\ At(r, "create")
    /\ ~SchoolIdle
    /\ Finish(r)
    /\ UNCHANGED <<batch, row, disk, pupils>>

\* The process dies after putFileAs() and before the commit.
CreateInterrupted(r) ==
    /\ At(r, "create")
    /\ SchoolIdle
    /\ \E b \in Batches : NextUpload(b) /\ disk' = disk \cup {b}
    /\ Finish(r)
    /\ UNCHANGED <<batch, row, pupils>>

SaveAnalysis(r) ==
    /\ At(r, "analyze")
    /\ TransitionTo(r, "analyzed")
    /\ Finish(r)
    /\ UNCHANGED <<row, disk, pupils>>

-----------------------------------------------------------------------------
(* Mapping and simulation: StudentImport::simulate, map(), simulate() *)

BeginSimulation(r) ==
    /\ At(r, "idle")
    /\ \E b \in disk :
        /\ batch[b].status \in {"analyzed", "mapped"}
        /\ batch[b].wipes < MaxWipes
        /\ req' = [req EXCEPT ![r] = [Idle EXCEPT !.pc = "map", !.b = b,
                                                  !.copy = batch[b].status]]
    /\ UNCHANGED <<batch, row, disk, pupils>>

\* Only the changed columns are saved: an unchanged status is not rewritten.
SaveMapping(r) ==
    /\ At(r, "map")
    /\ IF req[r].copy = "mapped"
       THEN UNCHANGED batch
       ELSE TransitionTo(r, "mapped")
    /\ Goto(r, "fresh")
    /\ UNCHANGED <<row, disk, pupils>>

\* simulate($batch->fresh()) refuses a batch that is no longer mapped.
Reload(r) ==
    LET b == req[r].b IN
    /\ At(r, "fresh")
    /\ IF batch[b].status = "mapped"
       THEN req' = [req EXCEPT ![r].pc = "wipe", ![r].copy = "mapped"]
       ELSE Finish(r)
    /\ UNCHANGED <<batch, row, disk, pupils>>

\* $batch->rows()->delete(), then the file is opened.
WipeRows(r) ==
    LET b == req[r].b IN
    /\ At(r, "wipe")
    /\ row' = [row EXCEPT ![b] = NoRows]
    /\ batch' = [batch EXCEPT ![b].wipes = @ + 1]
    /\ IF b \in disk
       THEN req' = [req EXCEPT ![r].pc = "insert", ![r].todo = RowNos]
       ELSE Finish(r)
    /\ UNCHANGED <<disk, pupils>>

\* What a line can be classified as; a footer line keeps no data.
Classified == {[NoRow EXCEPT !.status = "ignored"]} \cup
    {[NoRow EXCEPT !.status = s, !.data = TRUE] : s \in {"error", "needs_review", "ready"}}

\* One INSERT per line, in file order; (batch, row_number) is unique.
InsertRow(r) ==
    LET b == req[r].b
        n == Least(req[r].todo)
    IN
    /\ At(r, "insert")
    /\ req[r].todo # {}
    /\ ~HasRow(b, n)
    /\ \E c \in Classified : row' = [row EXCEPT ![b][n] = c]
    /\ req' = [req EXCEPT ![r].todo = @ \ {n},
                          ![r].pc = IF req[r].todo = {n} THEN "preview" ELSE "insert"]
    /\ UNCHANGED <<batch, disk, pupils>>

InsertCollides(r) ==
    /\ At(r, "insert")
    /\ req[r].todo # {}
    /\ HasRow(req[r].b, Least(req[r].todo))
    /\ Finish(r)
    /\ UNCHANGED <<batch, row, disk, pupils>>

SavePreview(r) ==
    /\ At(r, "preview")
    /\ TransitionTo(r, "previewed")
    /\ Finish(r)
    /\ UNCHANGED <<row, disk, pupils>>

-----------------------------------------------------------------------------
(* Review of duplicates: StudentImport::resolveRow, resolveDuplicate() *)

BeginResolve(r) ==
    /\ At(r, "idle")
    /\ \E b \in Batches, n \in RowNos, d \in {"ignore", "update", "create"} :
        /\ batch[b].status \in {"previewed", "partial"}
        /\ row[b][n].status = "needs_review"
        /\ req' = [req EXCEPT ![r] =
             [Idle EXCEPT !.pc = "resolve", !.b = b, !.copy = batch[b].status,
                          !.gen = batch[b].wipes, !.todo = {n}, !.choice = d]]
    /\ UNCHANGED <<batch, row, disk, pupils>>

\* $row->save() on the loaded row.  Only ignore touches normalized_data.  update
\* keeps the loaded candidate, so it does not write that column back: after a
\* create, which cleared it, processRow() still creates.
Decided(old, d) ==
    IF d = "ignore"
    THEN [old EXCEPT !.status = "ignored", !.data = FALSE, !.decision = d]
    ELSE [old EXCEPT !.status = "ready",
                     !.decision = IF d = "update" /\ @ = "create" THEN @ ELSE d]

\* An UPDATE of a row that was deleted in the meantime changes nothing.
SaveDecision(r) ==
    LET b == req[r].b
        n == Least(req[r].todo)
    IN
    /\ At(r, "resolve")
    /\ row' = IF HasRow(b, n) /\ req[r].gen = batch[b].wipes
              THEN [row EXCEPT ![b][n] = Decided(@, req[r].choice)]
              ELSE row
    /\ Finish(r)
    /\ UNCHANGED <<batch, disk, pupils>>

-----------------------------------------------------------------------------
(* Cancellation: StudentImport::cancelImport, cancel() *)

\* Plausible bugs: the counters are not consulted; any batch at rest will do.
CancellableUncounted(b) ==
    batch[b].status \in {"uploaded", "analyzed", "mapped", "previewed"}
CancellableAtRest(b) ==
    /\ batch[b].status \notin {"none", "processing", "cancelled"}
    /\ batch[b].created = 0
    /\ batch[b].updated = 0

Cancellable(b) ==
    /\ batch[b].status \in {"uploaded", "analyzed", "mapped", "previewed"}
    /\ batch[b].created = 0
    /\ batch[b].updated = 0

\* The transaction re-checks the locked batch; the check before it on the
\* in-memory copy can only refuse more.
Cancel(r) ==
    /\ At(r, "idle")
    /\ \E b \in Batches :
        /\ Cancellable(b)
        /\ row' = [row EXCEPT ![b] = NoRows]
        /\ batch' = [batch EXCEPT ![b].status = "cancelled", ![b].wipes = @ + 1]
        /\ req' = [req EXCEPT ![r] = [Idle EXCEPT !.pc = "unlink", !.b = b]]
    /\ UNCHANGED <<disk, pupils>>

\* After the commit.  A failed deletion throws and leaves file_path to the purge.
Unlink(r) ==
    /\ At(r, "unlink")
    /\ disk' = disk \ {req[r].b}
    /\ Goto(r, "forget")
    /\ UNCHANGED <<batch, row, pupils>>

\* A plausible bug: the outcome of the deletion is ignored.
UnlinkFailsSilently(r) ==
    /\ At(r, "unlink")
    /\ Goto(r, "forget")
    /\ UNCHANGED <<batch, row, disk, pupils>>

UnlinkFails(r) ==
    /\ At(r, "unlink")
    /\ req[r].b \in disk
    /\ Finish(r)
    /\ UNCHANGED <<batch, row, disk, pupils>>

ForgetFile(r) ==
    /\ At(r, "forget")
    /\ batch' = [batch EXCEPT ![req[r].b].expires = "none"]
    /\ Finish(r)
    /\ UNCHANGED <<row, disk, pupils>>

-----------------------------------------------------------------------------
(* Processing: StudentImport::processNextChunk, processNextChunk(),        *)
(* processRow()                                                            *)

\* A plausible bug: an interrupted batch cannot be resumed.
ConfirmableOnce(b) == batch[b].status \in {"previewed", "partial", "failed"}

\* A plausible bug: any import whose simulation is over can be confirmed.
ConfirmableAgain(b) ==
    batch[b].status \in {"previewed", "partial", "failed", "processing", "completed"}

Confirmable(b) == batch[b].status \in {"previewed", "partial", "failed", "processing"}

\* The first transaction locks the batch and makes it processing.
StartChunk(r) ==
    /\ At(r, "idle")
    /\ \E b \in Batches :
        /\ Confirmable(b)
        /\ batch' = [batch EXCEPT ![b].status = "processing"]
        /\ req' = [req EXCEPT ![r] = [Idle EXCEPT !.pc = "chunk", !.b = b,
                                                  !.copy = "processing"]]
    /\ UNCHANGED <<row, disk, pupils>>

\* The first ready rows by row_number, at most a chunk of them.
ChunkOf(b) ==
    {n \in RowsIn(b, "ready") :
        Cardinality({m \in RowsIn(b, "ready") : m <= n}) <= ChunkSize}

SelectRows(r) ==
    LET b == req[r].b IN
    /\ At(r, "chunk")
    /\ req' = [req EXCEPT ![r].pc = "rows", ![r].todo = ChunkOf(b),
                          ![r].gen = batch[b].wipes]
    /\ UNCHANGED <<batch, row, disk, pupils>>

\* The row the request locks next, if it still exists.
Current(r) == Least(req[r].todo)
Locked(r) ==
    /\ At(r, "rows")
    /\ req[r].todo # {}
    /\ HasRow(req[r].b, Current(r))
    /\ req[r].gen = batch[req[r].b].wipes

\* Plausible bugs: the row keeps its data; it is always called created; it is
\* not marked at all.
AppliedKeepingData(old) ==
    [old EXCEPT !.status = IF old.decision = "update" THEN "updated" ELSE "created",
                !.times = @ + 1]
AppliedAsCreated(old) ==
    [old EXCEPT !.status = "created", !.data = FALSE, !.times = @ + 1]
AppliedUnmarked(old) == [old EXCEPT !.times = @ + 1]

\* The row's transaction: pupil, guardian, enrolment, row and counter commit
\* together, and the row gives up its data.
Applied(old) ==
    [old EXCEPT !.status = IF old.decision = "update" THEN "updated" ELSE "created",
                !.data = FALSE,
                !.times = @ + 1]

ApplyRow(r) ==
    LET b == req[r].b
        n == Current(r)
        update == row[b][n].decision = "update"
    IN
    /\ Locked(r)
    /\ row[b][n].status = "ready"
    /\ row[b][n].data
    /\ row' = [row EXCEPT ![b][n] = Applied(@)]
    /\ batch' = [batch EXCEPT ![b].created = IF update THEN @ ELSE @ + 1,
                              ![b].updated = IF update THEN @ + 1 ELSE @]
    /\ pupils' = [pupils EXCEPT ![b][n] = @ + 1]
    /\ req' = [req EXCEPT ![r].todo = @ \ {n}]
    /\ UNCHANGED disk

\* A row another request already handled is passed over.
SkipRow(r) ==
    /\ Locked(r)
    /\ row[req[r].b][Current(r)].status # "ready"
    /\ req' = [req EXCEPT ![r].todo = @ \ {Current(r)}]
    /\ UNCHANGED <<batch, row, disk, pupils>>

\* A unique constraint or a school rule refuses the row: its transaction is
\* rolled back, and the row is marked outside of it.
RefuseRow(r) ==
    /\ Locked(r)
    /\ row[req[r].b][Current(r)].status = "ready"
    /\ row[req[r].b][Current(r)].data
    /\ Goto(r, "reject")
    /\ UNCHANGED <<batch, row, disk, pupils>>

Rejected(old) == [old EXCEPT !.status = "error", !.data = FALSE]

MarkError(r) ==
    LET b == req[r].b
        n == Current(r)
    IN
    /\ At(r, "reject")
    /\ HasRow(b, n) /\ req[r].gen = batch[b].wipes
    /\ row' = [row EXCEPT ![b][n] = Rejected(@)]
    /\ req' = [req EXCEPT ![r].pc = "rows", ![r].todo = @ \ {n}]
    /\ UNCHANGED <<batch, disk, pupils>>

RowsDone(r) ==
    /\ At(r, "rows")
    /\ req[r].todo = {}
    /\ Goto(r, "count")
    /\ UNCHANGED <<batch, row, disk, pupils>>

\* A ready row is left: the batch stays processing until the next chunk.
CountReady(r) ==
    /\ At(r, "count")
    /\ IF RowsIn(req[r].b, "ready") # {} THEN Finish(r) ELSE Goto(r, "review")
    /\ UNCHANGED <<batch, row, disk, pupils>>

\* A plausible bug: rows that wait for a decision are forgotten.
OutcomeOfReady(b) == IF RowsIn(b, "ready") # {} THEN "partial" ELSE "completed"

Outcome(b) == IF RowsIn(b, "needs_review") # {} THEN "partial" ELSE "completed"

CheckReview(r) ==
    /\ At(r, "review")
    /\ req' = [req EXCEPT ![r].pc = "finish", ![r].choice = Outcome(req[r].b)]
    /\ UNCHANGED <<batch, row, disk, pupils>>

\* $batch->refresh(); transitionTo() then throws unless the copy allows it.
RefreshBatch(r) ==
    LET s == batch[req[r].b].status IN
    /\ At(r, "finish")
    /\ IF req[r].choice \in NextStates(s)
       THEN req' = [req EXCEPT ![r].pc = "settle", ![r].copy = s]
       ELSE Finish(r)
    /\ UNCHANGED <<batch, row, disk, pupils>>

Settle(r) ==
    /\ At(r, "settle")
    /\ TransitionTo(r, req[r].choice)
    /\ Finish(r)
    /\ UNCHANGED <<row, disk, pupils>>

\* Any request may die between two commits: an exception, a missing row, a
\* ready row without data, a timeout, a restart of the server.
Abort(r) ==
    /\ req[r].pc # "idle"
    /\ Finish(r)
    /\ UNCHANGED <<batch, row, disk, pupils>>

-----------------------------------------------------------------------------
(* Retention: expires_at and PurgeStudentImportsCommand::handle *)

Expire(b) ==
    /\ RetentionEnds
    /\ batch[b].expires = "future"
    /\ batch' = [batch EXCEPT ![b].expires = "past"]
    /\ UNCHANGED <<row, disk, req, pupils>>

\* A plausible bug: only finished batches are purged.
PurgeableWhenDone(b) ==
    batch[b].expires = "past" /\ batch[b].status \in {"completed", "cancelled"}

Purgeable(b) == batch[b].expires = "past" /\ batch[b].status # "processing"

Purge(b) ==
    /\ Purgeable(b)
    /\ disk' = disk \ {b}
    /\ row' = [row EXCEPT ![b] = NoRows]
    /\ batch' = [batch EXCEPT
         ![b].expires = "none",
         ![b].wipes = @ + 1,
         ![b].status = IF @ \in {"completed", "cancelled"} THEN @ ELSE "cancelled"]
    /\ UNCHANGED <<req, pupils>>

\* The file is deleted inside the transaction, which is then rolled back.
PurgeInterrupted(b) ==
    /\ Purgeable(b)
    /\ disk' = disk \ {b}
    /\ UNCHANGED <<batch, row, req, pupils>>

-----------------------------------------------------------------------------
RowStep(r) == ApplyRow(r) \/ SkipRow(r) \/ RefuseRow(r)
ChunkStep(r) ==
    \/ SelectRows(r) \/ RowStep(r) \/ MarkError(r) \/ RowsDone(r)
    \/ CountReady(r) \/ CheckReview(r) \/ RefreshBatch(r) \/ Settle(r)

RequestStep(r) ==
    \/ UploadKnown(r) \/ UploadNew(r) \/ CreateBatch(r) \/ CreateRefused(r)
    \/ CreateInterrupted(r) \/ SaveAnalysis(r)
    \/ BeginSimulation(r) \/ SaveMapping(r) \/ Reload(r) \/ WipeRows(r)
    \/ InsertRow(r) \/ InsertCollides(r) \/ SavePreview(r)
    \/ BeginResolve(r) \/ SaveDecision(r)
    \/ Cancel(r) \/ Unlink(r) \/ UnlinkFails(r) \/ ForgetFile(r)
    \/ StartChunk(r) \/ ChunkStep(r)
    \/ Abort(r)

RetentionStep(b) == Expire(b) \/ Purge(b) \/ PurgeInterrupted(b)

Next ==
    \/ \E r \in Requests : RequestStep(r)
    \/ \E b \in Batches : RetentionStep(b)

Spec == Init /\ [][Next]_vars

\* The scheduler runs student-imports:purge every day.
SpecScheduled == Spec /\ \A b \in Batches : WF_vars(Purge(b))

\* "Reprendre le traitement": somebody resumes an interrupted batch, and no
\* step of a chunk is interrupted at every attempt; a request that can do
\* nothing more ends (an exception, max_execution_time).
Resume(r) ==
    /\ \E b \in Batches : batch[b].status = "processing"
    /\ StartChunk(r)

ResumedFairness ==
    /\ SF_vars(\E r \in Requests : Resume(r))
    /\ SF_vars(\E r \in Requests : SelectRows(r))
    /\ SF_vars(\E r \in Requests : RowStep(r))
    /\ SF_vars(\E r \in Requests : MarkError(r))
    /\ SF_vars(\E r \in Requests : RowsDone(r))
    /\ SF_vars(\E r \in Requests : CountReady(r))
    /\ SF_vars(\E r \in Requests : CheckReview(r))
    /\ SF_vars(\E r \in Requests : RefreshBatch(r))
    /\ SF_vars(\E r \in Requests : Settle(r))
    /\ \A r \in Requests : WF_vars(Abort(r))

SpecResumed == Spec /\ ResumedFairness

-----------------------------------------------------------------------------
(* Properties *)

\* Every column and every request holds a value the code can give it.
TypeOK ==
    /\ batch \in [Batches -> BatchRecords]
    /\ row \in [Batches -> [RowNos -> RowRecords]]
    /\ disk \subseteq Batches
    /\ req \in [Requests -> RequestRecords]
    /\ pupils \in [Batches -> [RowNos -> Nat]]

\* An import that was begun must be completed or cancelled before the school
\* can begin another (docs/dev/onb-01-guide-directeur.md).
AtMostOneActive == \A a, b \in Batches : Active(a) /\ Active(b) => a = b

\* A completed or cancelled import never comes back.
TerminalIsFinal ==
    [][\A b \in Batches : batch[b].status \in {"completed", "cancelled"}
                            => batch'[b].status = batch[b].status]_vars

\* A completed import has no row left to create or to review.
CompletedMeansDone ==
    \A b \in Batches : batch[b].status = "completed" =>
        RowsIn(b, "ready") \cup RowsIn(b, "needs_review") = {}

\* Until the staging rows are purged, the counters shown to the director are
\* the numbers of rows that became pupils, whatever was interrupted.
CountersMatchRows ==
    \A b \in Batches :
        /\ batch[b].created = Cardinality(RowsIn(b, "created"))
        /\ batch[b].updated = Cardinality(RowsIn(b, "updated"))

\* "Les lignes deja creees ou mises a jour ne sont pas rejouees": a line makes
\* at most one pupil, over every simulation, interruption and resumption.
LineAppliedOnce == \A b \in Batches, n \in RowNos : pupils[b][n] <= 1

\* Resumed often enough, a processing import ends or waits only for reviews.
ProcessingConcludes ==
    \A b \in Batches :
        batch[b].status = "processing" ~> batch[b].status \in {"partial", "completed"}

\* Whatever requests process, decide and simulate at once, one row of the table
\* becomes a pupil at most once.
RowAppliedOnce == \A b \in Batches, n \in RowNos : row[b][n].times <= 1

\* A user's cancellation never hits an import that already made a pupil, even
\* when a stale request has put it back to an earlier status.  (The purge, which
\* may, clears expires_at in the same step.)
CancelSparesPupils ==
    [][\A b \in Batches :
         /\ batch[b].status # "cancelled"
         /\ batch'[b].status = "cancelled"
         /\ batch'[b].expires = batch[b].expires
         => \A n \in RowNos : pupils[b][n] = 0]_vars

\* A stored file that belongs to a batch keeps an expiry date: whatever fails
\* around the deletion, the purge can still find it.
FileStaysReachable ==
    \A b \in disk : Exists(b) => batch[b].expires # "none"

\* After the retention period a file is deleted, or its batch is processing.
RetentionEffective ==
    \A b \in Batches :
        batch[b].expires = "past" ~> b \notin disk \/ batch[b].status = "processing"

\* "Les fichiers et resultats de staging sont supprimes automatiquement apres
\* 30 jours": the promise of the guide, without the exception the code makes.
RetentionDeletesFiles == \A b \in Batches : batch[b].expires = "past" ~> b \notin disk

\* "Les lignes en erreur [...] ne bloquent pas les lignes valides": a valid row
\* of a batch that is resumed for ever is handled in the end.
ValidRowsGetThrough ==
    \A b \in Batches, n \in RowNos :
        /\ batch[b].status = "processing"
        /\ row[b][n].status = "ready"
        /\ row[b][n].data
        ~> row[b][n].status # "ready" \/ batch[b].status # "processing"

-----------------------------------------------------------------------------
(* The inductive invariant behind the theorems of StudentImportProofs *)

\* A request that works on a batch works on one that was committed, and its
\* choice is the kind of answer its next step stores.
RequestSound(r) ==
    /\ req[r].pc \notin {"idle", "create"} => Exists(req[r].b)
    /\ req[r].pc = "create" => req[r].choice \in Files
    /\ req[r].pc = "resolve" => req[r].choice \in {"ignore", "update", "create"}
    /\ req[r].pc \in {"finish", "settle"} => req[r].choice \in {"partial", "completed"}
RequestsSound == \A r \in Requests : RequestSound(r)

\* expires_at is only cleared once the file is gone.
FilesTracked ==
    /\ FileStaysReachable
    /\ \A r \in Requests : req[r].pc = "forget" => req[r].b \notin disk

\* A row that made its pupil has given up its data, and nothing restores it.
RowsSpent ==
    \A b \in Batches, n \in RowNos :
        row[b][n].times = 0 \/ (row[b][n].times = 1 /\ ~row[b][n].data)

\* A batch whose counters are zero, or that was never committed, made no pupil.
PupilsCounted ==
    \A b \in Batches :
        ~Exists(b) \/ (batch[b].created = 0 /\ batch[b].updated = 0)
            => \A n \in RowNos : pupils[b][n] = 0

\* No request, however stale, and no failure between two commits breaks the
\* four facts above together.
IndInv == TypeOK /\ RequestsSound /\ FilesTracked /\ RowsSpent /\ PupilsCounted
-----------------------------------------------------------------------------
(* What one request at a time adds to it, while no batch expires *)

SingleOperator == \A r, q \in Requests : r = q

Unexpired == \A b \in Batches : batch[b].expires # "past"

\* No other request has moved the batch since this one looked at it.
BatchKnown(r) ==
    LET s == batch[req[r].b].status IN
    /\ req[r].pc = "analyze" => s = "uploaded" /\ req[r].copy = s
    /\ req[r].pc = "map" => s \in {"analyzed", "mapped"} /\ req[r].copy = s
    /\ req[r].pc \in {"fresh", "wipe", "insert", "preview"} => s = "mapped"
    /\ req[r].pc \in {"wipe", "insert", "preview"} => req[r].copy = s
    /\ req[r].pc = "resolve" => s \in {"previewed", "partial"}
    /\ req[r].pc \in {"chunk", "rows", "reject", "count", "review", "finish", "settle"}
         => s = "processing"
    /\ req[r].pc = "settle" => req[r].copy = s

\* Nor has it touched the rows this one has read or counted.
RowsKnown(r) ==
    LET b == req[r].b IN
    /\ req[r].pc = "resolve" => row[b][Least(req[r].todo)].status = "needs_review"
    /\ req[r].pc = "reject" => row[b][Current(r)].status = "ready"
    /\ req[r].pc \in {"review", "finish", "settle"} => RowsIn(b, "ready") = {}
    /\ req[r].pc \in {"finish", "settle"} /\ req[r].choice = "completed"
         => RowsIn(b, "needs_review") = {}

\* A batch that was never processed made no pupil, so its rows may be wiped.
UnprocessedSpared ==
    \A b \in Batches :
        batch[b].status \in {"none", "uploaded", "analyzed", "mapped", "previewed"}
            => /\ batch[b].created = 0 /\ batch[b].updated = 0
               /\ \A n \in RowNos : pupils[b][n] = 0

\* No row that made a pupil was ever replaced.
PupilsAreRows == \A b \in Batches, n \in RowNos : pupils[b][n] = row[b][n].times

SoloInv ==
    /\ Unexpired
    /\ \A r \in Requests : BatchKnown(r) /\ RowsKnown(r)
    /\ AtMostOneActive
    /\ UnprocessedSpared
    /\ PupilsAreRows
    /\ CountersMatchRows
    /\ CompletedMeansDone
-----------------------------------------------------------------------------
(* The import a director is promised *)

Stage(s) ==
    CASE s = "none" -> "none"
      [] s \in {"uploaded", "analyzed", "mapped", "previewed"} -> "preparing"
      [] s \in {"processing", "partial", "failed"} -> "writing"
      [] s = "completed" -> "done"
      [] OTHER -> "dropped"

Unhandled(b) == {n \in RowNos : row[b][n].status \in {"ready", "needs_review"}}

\* One director who works in one tab sees, whatever is interrupted between two
\* commits, an import of PupilImport.
Import == INSTANCE PupilImport WITH
    Imports <- Batches, Lines <- RowNos,
    stage <- [b \in Batches |-> Stage(batch[b].status)],
    waiting <- [b \in Batches |-> Unhandled(b)],
    made <- pupils

ImplementsImport == Import!Spec
=============================================================================
