# A TLA+ verification of SCOLARIS

SCOLARIS is a management system for several schools on one PostgreSQL database (Laravel 12,
Filament 3, Eloquent). Requests of users, the panels' Livewire calls and the scheduler's commands
run concurrently; nothing but the database, its locks and its unique indexes orders them. This
directory models the parts of `src/app` whose correctness depends on that order, checks them with
TLC and proves the main results with TLAPS.

The database runs at READ COMMITTED (Laravel's default for PostgreSQL). An Eloquent model is a
copy of a row: a save writes the columns that changed in the copy and does not look at the row. So
the models make one action of what one transaction, or one statement outside of any, does to the
tables, and keep what a request read before in a variable of that request.

## 1. The system

| Component | State | Operations | Interacts with | What is hard |
|---|---|---|---|---|
| Student import (`StudentImportBatchService`, page `StudentImport`) | `student_import_batches`, `student_import_rows`, private file | create, analyze, map, simulate, resolveDuplicate, processNextChunk, cancel | pupils, guardians, enrolments; purge | many small commits, stale copies of the batch, two users, restarts, file and row deleted separately |
| Purge (`student-imports:purge`, daily) | same tables, file | handle | import | runs beside a chunk; a file deletion that fails |
| Invoices (`InvoiceService`, `Invoice`, `Enrollment`) | `invoices` and their status | generateForStudent, refreshStatus | enrolment, payments | the status is stored, not computed |
| Payments (`PaymentService`) | `payments`, `payment_allocations`, `payment_reversals`, `receipts`, `receipt_sequences` | recordManual, confirm, reverse | invoices, notifications | overlapping transactions on one pupil's invoices, double submission, receipt numbers |
| Payment gateway and webhook | `payment_transactions` | createProviderTransaction, handleProviderConfirmation | payments | late and repeated answers; no pending payment is created yet |
| Collections, due reminders (daily) | `collection_reminders` | schedule | invoices, notification queue | row and notification are two statements; reruns, killed commands, payments in between |
| Expenses, cash closures, journal | `expenses`, `cash_closures` | record, approve, reject, resubmit, reverse; submit, approve | payments | status checked in memory, blind updates |
| Notification queue (`NotificationService`, `notifications:dispatch`) | `notification_queue` | queue*, dispatchPending | providers (HTTP, e-mail, WhatsApp) | overlapping runs, killed runs, lost answers, retries |
| Attendance (`AttendanceService`, page `teacher/attendance`) | sessions, records; `localStorage` of each page | create, sync, correct, validateSession; mark, save, validate | notification queue, absence follow-up, terms | calls lost, late or overtaking, overlapping corrections |
| Absence follow-up (`AbsenceFollowUpService`) | `absence_follow_ups` | createForRecord, update | attendance | a roll call validated again |
| Grades, rankings (`GradeCalculationService`) | grades, `grade_validation_status` of the term | saveGrade, rankings, validateTerm | report cards, terms | ties, missing grades, cards that show ranks from before a grade |
| Report cards, term closure (`ReportCardService`, `TermClosureService`) | `report_cards`, `report_card_versions`, `terms` | generate, submitForReview, submitToClassCouncil, approve, publish, requestRevision, overrideAcademicMention, setConduct; close | grades | a row and its version are two statements; workflow checked in memory |
| Certificates | certificates | prepare ... deliver, cancel | — | workflow checked in memory |
| Invitations and registration | invitations, requests, users | create, accept; approve | notifications, users | one-time tokens, double approval |
| Tenancy, roles, policies | school context | global scope, gates | all | — |
| Panels, widgets, documents | — | read | all | — |

What makes each component correct:

- **Import**: one active import per school; final statuses stay final; no line of the file makes two
  pupils, whatever is interrupted and resumed; a cancelled import made no pupil; counters agree
  with the rows; a file is always findable by the purge and gone after its retention; an interrupted
  import can be resumed until it concludes.
- **Payments**: no invoice is paid beyond its total; PAID means settled; money is conserved between
  payments, allocations, credit and reversals; receipts are numbered without gap or double; a
  payment is not given back twice; the stored status follows the payments; overlapping transactions
  add up to some sequence of whole operations.
- **Notifications**: one run per notification at a time; a bounded number of deliveries; SENT and
  FAILED are what the providers answered; a notification settles. **Reminders**: a recorded reminder has its
  notification, once; a family that still owes gets it unless a process died.
- **Attendance**: the last marks of a teacher are the ones that get stored; a validated roll call is
  only corrected; each absence has its message and its follow-up, and contacts stay noted.
- **Report cards**: what is published carries the ranking of that moment, in a term with assessments
  only of complete and validated grades, stays as it is and is archived; drafts follow the grades; the workflow keeps no term open for ever. **Rankings**:
  the rank of a pupil is one more than the number of better ones, in whatever order ties are sorted.
- **Expenses and cash**: vouchers without gap; no more is given back than was spent; an expense and its
  correction never both count; a closure is signed exactly when it is closed and its variance is the
  difference of its balances. **Accounts**: one token makes one user; one request is approved once.

The hazards of the code, line by line, with the properties that cover them, are in `PROJECT.json`.

## 2. Modules

| Modules | What they are |
|---|---|
| `StudentImport`, abstract `PupilImport`, `MCStudentImport`, `StudentImportProofs` | the import and its purge, and what it promises a director |
| `Payments`, abstract `PupilLedger`, `PaymentsProofs` | payments and reversals on one pupil's invoices, and what they promise |
| `NotificationQueue`, abstract `MessageDelivery` | the queue and its dispatcher, and what they promise a recipient |
| `Reminders`, `NotificationProofs` | the two reminder commands composed with `NotificationQueue`, which the composition implements; the proofs about both |
| `Attendance`, `AttendanceProofs` | roll calls, the page that works offline, the follow-up of absences |
| `ReportCards`, `ReportCardsProofs` | grades, report cards, the closing of a term |
| `CashBook`, `CashBookProofs` | expenses, cash journal and closure of one day |
| `Rankings`, `RankingsProofs` | the ranking loop against the definition of competition ranking |
| `SumTheorems` | lemmas on sums over a finite set, for the money of `PaymentsProofs` and `CashBookProofs` |

What could come next: the accounts (invitations and registration requests) and the certificates.

## 3. Student import

`StudentImport.tla` keeps the tables and the disk as the code does: `batch` (status, counters,
file, expiry), `row` (status, data, decision of every staging row), `disk`, and `req`, what each
request holds in memory. Its actions follow the commits of the service:

- `CreateBatch`, `CreateRefused`, `CreateInterrupted`: `create()`; the file is stored inside the
  transaction and survives its rollback when the process dies.
- `SaveAnalysis`, `SaveMapping`: `analyze()` and `map()`, with the status that the request had read.
- `BeginSimulation`, `Reload`, `WipeRows`, `InsertRow`, `InsertCollides`, `SavePreview`: `simulate()`
  without a transaction, row by row.
- `BeginResolve`, `SaveDecision`: `resolveDuplicate()`, which saves only the columns it changed.
- `StartChunk`, `SelectRows`, `ApplyRow`, `SkipRow`, `RefuseRow`, `MarkError`, `CountReady`,
  `CheckReview`, `RefreshBatch`, `Settle`: `processNextChunk()`, each row in its own transaction.
- `Cancel`, `Unlink`, `UnlinkFails`, `ForgetFile`: `cancel()`; `Expire`, `Purge`,
  `PurgeInterrupted`: the retention period and the daily purge.
- `Abort`: an exception, a refusal or a restart at any step.

Abstractions. What a line contains (valid, duplicate, wrong) and whether the database refuses it is
chosen freely. Audit entries and counters only shown on the page are left out. `decision` stands for
the decision and its candidate; `file_path` and `expires_at` are set and cleared together. The check
that `cancel()` makes on its copy is merged with the one it makes under the lock, which decides. A
deleted staging row that a request still refers to is told from its successor by a generation number
(`wipes`).

`PupilImport.tla` is what this promises a director who works in one tab: imports without requests,
chunks, rows or counters. One is under way at a time; its lines are prepared at will (`Prepare`) until
the director starts it; from then on it cannot be dropped, each line is handled once (`Handle`), and it
is done only when none waits (`Conclude`). `StudentImport!ImplementsImport` states the refinement:
`stage` is what a status means (`Stage`), `waiting` the rows that are ready or under review
(`Unhandled`), `made` the pupils. One action of `PupilImport` is many of the code: a simulation wipes
and inserts row by row, and each of these is a `Prepare`; `ApplyRow` is one `Handle` because the
transaction that makes the pupil also marks the row.

| Run | Bounds | Shows |
|---|---|---|
| `import_single_operator` | 1 request, 2 files, 2 imports of 2 rows in chunks of 2, 2 simulations | with one tab, failures and restarts anywhere: `AtMostOneActive`, `TerminalIsFinal`, `CompletedMeansDone`, `CountersMatchRows`, `LineAppliedOnce`, and the refinement `ImplementsImport` |
| `import_concurrent` | 2 requests, 1 import of 1 row, 2 simulations, purge | what holds however requests overlap: `RowAppliedOnce`, `FileStaysReachable`, `CancelSparesPupils`, `RetentionEffective` |
| `import_resume` | 1 request, 3 rows, chunks of 2 | `ProcessingConcludes` under fairness |

Three rows in chunks of two is the smallest file with a full chunk and a partial one; two rows in one
chunk are enough to interrupt it between them. Two files are needed for a second upload: a file that
was not cancelled is found again by its hash. With two requests one row is enough, since a row's
transaction reads and writes that row only and what the batch needs of the others is whether one is left.
The properties of the first run do not hold for two requests (section 11): the lock of the last chunk
orders neither simulations nor decisions.

## 4. Payments

`Payments.tla` models the invoices of one pupil and the requests that record and reverse payments.
A transaction's writes stay in `req[r]` until it commits; its locks are derived from there:
`FOR UPDATE` on the open invoices (`locks`), `FOR KEY SHARE` that the foreign key of a reversal takes
on its invoice (`shares`), the lock of an updated row (`written`), and the rows of the payment and of
the receipt sequence.

- `Issue`, `PassDueDate`: an enrolment's invoice; its due date passes (no job refreshes the status).
- `Begin`, `Insert`, `InsertCollides`: `recordManual()` and the unique index on the idempotency key.
- `LockInvoices`, `Allocate`, `NumberReceipt`, `CommitPayment`: `confirm()`.
- `BeginReversal`, `SkipPortion`, `ReversePortion`, `WriteStatus`, `CommitReversal`: `reverse()`.
- `Abort`: rollback at any step, which is also how the database resolves a deadlock.

`PupilLedger.tla` is what this promises: charge an invoice, receive a payment and split it, give
some back, each at once. `Payments!ImplementsLedger` states the refinement (`due` is the total,
`covered` the sum of what is paid, `share` allocations less reversals, `posted` the recorded
payments). `MoneyConserved` adds up: each payment is what it put on invoices and its credit, what it
gave back beyond its allocations comes out of that credit, and what the record `invoice[i].paid`
abbreviates is the sum that `Invoice::paidAmount()` computes (`PaidAmount`).

| Run | Bounds | Shows |
|---|---|---|
| `payments_cash_desk` | a cashier and a director, 2 payments, 2 invoices, amounts up to 2 | the safety properties (`NeverOverpaid`, `PaidIffSettled`, `ReceiptsGapless`, `ReversalsBounded`, `StatusFollowsPayments`, `MoneyConserved`) and the refinement |
| `payments_two_directors` | 2 directors, 1 invoice | violation of `StatusFollowsPayments`: two reversals on one invoice do not wait for each other, so it stays PARTIALLY_PAID with nothing paid |

Amounts of 1 and 2 give partial payments, exact ones, surplus and payments that span two invoices.
Two transactions are enough for every pair of lock conflicts. Left out: payments that a provider
creates as pending (no code does yet), cancelled and draft invoices (no code sets these statuses),
the notification that confirm() enqueues (module `NotificationQueue`), the balance printed on the
receipt.

## 5. Notifications and reminders

`NotificationQueue.tla` has the table `queue`, the runs of `notifications:dispatch` (`run`), and three
observers: `delivered`, what the recipient got, `taken`, what a provider has said it took, and `killed`,
what killed runs had in hand. `Claim` is the locked transaction of `dispatchPending()`, `Send` the
provider outside of any transaction, `Record` the commit of the outcome,
`Kill` a process that dies or an exception it does not catch. `Enqueue` stands for the three
`queue...()` methods, whose `insertOrIgnore` makes only the first call for a key count; `BecomeDue`
ends the retry delay.

What a provider answers and what becomes of the message are chosen apart from each other. TRUE only
means that a server took the request: an SMS gateway, the mail server, Twilio, whose later status
`PaymentController::twilioWhatsappStatus` logs and nothing else. `MockNotificationProvider`, which is bound
unless another one is configured, answers TRUE and drops the message. FALSE stands for a refusal, a missing
setting or an exception, which may come after the message went out. So SENT does not mean that a message
arrived, nor FAILED that it did not. What the queue can be held to, and `OutcomesTruthful` says, is that
the table is what was answered: SENT if and only if a provider took the message (apart from a run that
died before its commit), FAILED only after the configured number of refusals, and that what was taken is
not sent again.

`MessageDelivery.tla` is what one may expect of a message: once announced it is tried until a provider
takes it, at most as often as allowed, arrives at most once per try, and is declared once, as sent exactly
if it was taken and as failed only after its last try; then nothing more happens to it.
`NotificationQueue!ImplementsDelivery` states the refinement: `Claim` is a `Try`, `Send` an `Answer`,
`Record` a `Declare` unless it schedules a retry; kills, retry delays, and refused messages that did not
arrive are stutters.

`Reminders.tla` EXTENDS it with a morning: `collections:schedule` and `due-reminders:schedule` go
through the open invoices, fill the queue, and the dispatcher empties it, all at once. `owed` says
whether an invoice is open, `reminder` is the table `collection_reminders`, `job` what each process of
a command has in hand.

- `StartJob`, `Rerun`: the scheduler's start, and a second one by hand.
- `LoadChunk`, `EndJob`: `chunkById()` reads the next open invoices as they are at that moment.
- `SkipInvoice`, `TakeInvoice`: the due reminders look at the balance again, the collections do not.
- `InsertReminder`: `insertOrIgnore()`; only a new row leads on to `QueueReminder`, or, when no guardian
  can be written to, to `NobodyToRemind`.
- `KillJob`: a process dies at any step. `Settle`: a payment covers the invoice (module `Payments`).
- `QueueStep`: everything else that happens to the queue, among it the notifications of the other
  callers.

`lost` and `crashed` are history: the reminders that were recorded and have no notification, and the
processes that died. A reminder without its notification is never made good, as every later run finds
its row and skips it; the properties say so. Left out: `--date` for another day than today, whose rows
carry that date while the keys of their notifications carry today's; the column `status` of
`collection_reminders`, which nothing updates; an invoice that a reversal opens again during the morning.

The run `notification_day` has 2 overlapping runs of the dispatcher, 2 notifications of which one is a
due reminder, 2 attempts each, and one process of `due-reminders:schedule` that may run again. It checks
`OneHandler`, `AttemptsBounded`, `RemindersQueued` and `ImplementsDelivery`, and under fairness
`SettledUnlessKilled` (a notification that is enqueued settles) and `RemindedUnlessKilled` (from the
invoice to the answer of a provider). A killed run's notification stays PROCESSING: nothing in the code looks for
such rows, and the properties say exactly that. Two runs and two attempts are enough for a notification
to be claimed, refused and claimed again by the other run; two notifications for one run to hold one
while the other run has the other. The processes of the commands meet only in the rows of
`collection_reminders`, where the theorems `RemindersQueuedThm` and `RemindedOnceThm` cover any number
of them, of both commands.

## 6. Attendance

`Attendance.tla` is the roll call of one class on one day. `page` is what a teacher's browser keeps of it, `call` its calls
under way, `late` those it has given up and the server has yet to see; `session`, `record`,
`followUp` and `queued` are the tables, `edit` the records that a correction has read.

- `Load`, `Mark`, `Save`, `Validate`: the page; every click gives a mark a new `client_operation_id`
  (`op`), and `Save` also stands for the resending at a reload or when the network returns.
- The browser keeps one `sessionId` for whatever class it shows. `loadClass()` does not reset it when a
  class has no local data yet, so a page may start on this roll call with the session of another class
  (`page[p].session` is "other"), stored with the marks of this one; its calls then go to that session,
  which refuses pupils that are not its own (`ServeElsewhere`), and no session is created here. The other
  way round, a page with the session of this roll call may carry it to another class: that class's marks
  are refused here and change nothing, but "Valider l'appel" validates this roll call
  (`ValidateElsewhere`).
- `Receive`, `Fail`: an answer arrives, or the page gives the call up; `Continue` says what the page
  does next, which after a failed synchronisation can still be the validation.
- `Admit`, `Serve`, `AdmitLate`, `ServeLate`: the server, with `ServeCreate`, `ServeSync` and
  `ServeValidate` for the three transactions. `Admit` is the look at the term that `create()` and
  `validateSession()` take beforehand; `sync()` looks under the lock of the session.
- `Read`, `Correct`, `Refuse`: `correct()`, which reads the records without a lock, then writes the
  columns that differ from what it read.
- `FollowUp`, `CloseTerm`, `Leave`: a contact with a family, the closure of the term, a pupil who
  leaves the class.

A transaction under the lock of the session is one action: what it reads before it commits (the
term, the enrolments) is read by nobody as part of the same order, and corrections only meet
validations of a roll call that is validated already, whose messages are queued.

Abstractions. EXCUSED is treated like PRESENT by this code, so it is left out. `late_minutes` is
`long`, above the threshold or not; the page does not send them. The statuses of a follow-up are
reduced to whether `contacted_at` is set. A correction changes one record; one of several is the
same transaction over several. Corrections come from clients of the API: the page sends no comment,
so its own calls on a validated roll call are refused. A page that did not create the session cannot
learn it, as the second creation hits the unique index: then it sends nothing. Left out: a class that is
chosen while a call or the list of pupils is still on its way, or while that list cannot be loaded; the
answer would then be taken for the class shown last.

The run `attendance_day` (1 pupil, 1 page with one call open at a time, 1 late call, 1 correction,
2 marks) checks `AbsencesAnnounced`, `AbsencesFollowed`, `ValidatedFrozen`, `ContactsKept` and
the liveness property `LastMarksSettle`. A late call beside the open one is
enough for an older mark to overtake a newer one; corrections meet follow-ups, validations and
each other only in the record they write, and the theorems of section 12 cover any
number of them, of pupils and of pages. `LastMarksSettle` speaks of pages that have the session of their own
roll call. Two others never get their marks stored: one that lost the answer to its creation, and one that
took the session of another class along. Both are what `EveryPageSettles` denies (section 11).

## 7. Report cards

`ReportCards.tla` is one term. None of its operations runs in a transaction or takes a lock, so every
statement is a step, a request works on the copies in `req`, and it may die between two statements
(`Crash`). `card` and `version` are the tables of the cards and of their newest version, `term` the two
statuses of the term. Grades, averages and ranks are reduced to one number: `book.at` counts the changes
of the grade book, a ranking remembers the count it was computed at (`ranking.at`) and whether it was
definitive. Mention, conduct and comments are one flag (`remark`). The cards in `Annual` are those of the
year, whose `term_id` is NULL: they go through the same workflow, but the closing of a term neither stops
them nor waits for them, and `saveGrade()` does not refresh them.

A ranking is provisional (`Provisional`) only if the card has a term, the term has assessments, and grades
are missing or not validated (`rankingIsProvisional()`). Cards of the year, and those of a term without
assessments, are published with nothing validated, as `tests/Feature/ReportCardWorkflowTest.php:32` and
`:88` and `tests/Feature/AcademicReportEnhancementsTest.php:72` do; `PublishedDefinitive` claims complete
and validated grades for the others only.

- `Start`, `Refuse`: a request loads what it needs, tests it (`Allowed`) and may stop there.
- `Transition`: `submitForReview()`, `submitToClassCouncil()`, `approve()`, `requestRevision()`.
- `PublishRank`, `PublishMove`: `publish()` writes the definitive ranking and then changes the status.
- `Annotate`: `overrideAcademicMention()` and `setConduct()`.
- `Snapshot`: the version that each of these writes at the end.
- `Build`, `Create`: `generate()`, the only operation with a transaction.
- `Grade`, `Reset`, `RefreshRanking`, `RefreshDone`: `saveGrade()` with `refreshDraftRankings()`. A grade
  whose `client_operation_id` is stored already ends at once (`Repeated`): the retry of a request that died
  refreshes nothing, which is one reason why `DraftsFollowGrades` excepts crashes.
- `Roll`: a pupil comes or goes, or an assessment gets another weight, scale or term. `Assess`: a new
  assessment. Neither withdraws the validation, and the form asks nothing of the term. `ValidateTerm`, `Close`: the director's two decisions on the term.

| Run | Bounds | Shows |
|---|---|---|
| `report_cards` | one request after the other, 1 card of the term and 1 of the year, 1 change of the grade book, 1 missing grade, 1 request that dies, a mention or conduct for the first card only | `PublishedArchived`, `DraftsFollowGrades`, `PublishedDefinitive`, `PublishedImmutable`, and `TermGetsClosed` under fairness |
| `report_cards_closed_term` | one request after the other, 1 card | violation of `ClosedTermFrozen`: publishing an approved card after the closing writes its ranking before the closing is noticed |

`MaxChanges`, `MaxMissing`, `MaxCrashes` and `Remarked` bound the run, not the theorems. One change of the
book makes a ranking old, and one card of each kind is enough for everything that a term, its grades and
its closing do to a card. Two cards of the term, which let a crash fall between the refresh of one and of
the other, are covered by the theorems of section 12; TLC finds the four safety properties true of them
too (2 026 011 states, with `Annual` empty).

What the model shows about the code beside its properties. `refreshDraftRankings()` leaves out the cards
at the class council, although its comment speaks of every ranking that is not published; for these
`publish()` computes the ranking again, which is why `PublishedDefinitive` holds and
`DraftsFollowGrades` speaks of drafts and reviews only. The averages of a card are those of its
generation. No operation leads out of `revision_requested`, so `TermGetsClosed` has to except it.
`generate()` does not look at the status of the term. Apart from the tests nothing calls `generate()`,
`requestRevision()` and `setConduct()` yet. The CSV import of grades wraps its calls of `saveGrade()`
in one transaction; it is not modelled.

## 8. Cash book

`CashBook.tla` is one day of the cash desk of a school: the expenses with their approval, correction and
reversals (`expense`, `next`), what was received (`receipts`), the closure (`closure`, `figures`), and
what each accountant's or director's request is doing (`req`, `count`).

- `Enter`, `TakeNumber`, `CommitExpense`: `record()` and `resubmit()`; the row of the voucher sequence is
  locked from the reading of the number to the commit (`SequenceFree`).
- `Decide`, `Approve`, `Reject`: the status of the copy is tested, then the changed columns written,
  without transaction or lock.
- `BeginReversal`, `LockExpense`, `CommitReversal`: `reverse()` under the lock of the expense. It does
  not look at the status.
- `CountReceipts`, `CountExpenses`, `CheckClosure`, `CreateClosure`, `FindClosure`, `SaveClosure`:
  `submit()` of the closure, query by query; the save writes the columns that differ from the row it
  found (`SavedClosure`, `SavedFigures`).
- `LoadClosure`, `SignClosure`: `approve()` of the closure. `Receive`: a payment of the day.
- `Abort`: any request fails before it writes. `Closing` and `NextOpening` are the journal's two sums.

| Run | Bounds | Shows |
|---|---|---|
| `cash_book` | one accountant, one director, 2 expenses, amounts up to 2, threshold 1, 1 receipt | `VouchersGapless`, `ReversalsBounded`, `CorrectedIsRejected`, `SignedIffClosed`, `VarianceAddsUp` |
| `cash_carry_over` | the same | violation of `CarriedOver`: a pending or rejected expense is missing from the next day's opening balance |

By how much the journal fails to carry over is `OpeningGap` (section 12).

An amount on either side of `Threshold` is approved at once or waits. Two expenses are needed for a
correction. Overlapping reversals need two directors and overlapping recordings two accountants: they are
covered by the theorems, which hold for any number of both.

Some properties need that people take turns. With two directors `CorrectedIsRejected` is false (an
approval with an old copy approves what was rejected and corrected meanwhile, though
`tests/Feature/ExpenseWorkflowTest.php` calls a rejected expense immutable); with two accountants
`VarianceAddsUp` is false (each save keeps columns of the other). Their theorems name these hypotheses.
The opening balance is a constant since no code writes `cash_opening_balances`. Reversals of payments
are not subtracted from what was received, and nothing stops an expense or a payment from being dated on
a closed day: the code makes no promise that the model could hold it to.

## 9. Rankings

`Rankings.tla` is the loop of `rankCollection()`: `rest` is what is left of the sorted list, `previous`
and `rank` what it remembers of the pupil before. The sort leaves the order of equal averages open, so
`RankNext` takes any of the best that are left. `RankIsStanding` is the reference: the rank is one more
than the number of pupils with a better average, ties share it and the next rank skips them.

The run `rankings` takes 4 pupils with every combination of the averages 0, 5, 6 and 9, of which 5 and 6
are equal up to `Tolerance`; the theorem holds for any finite set of pupils. Both need
`SpacingAssumption`: averages that are equal up to rounding form groups. The code compares neighbours in
the list only, so a chain of averages each within the tolerance of the next would share one rank although
its ends differ. That averages which are not equal but for rounding lie further apart, as those of scores
with two decimals and small coefficients do, is assumed and not derived from the arithmetic: weighted
averages, bands and mentions are left out.

## 10. Fairness and deadlock

- Import: `SpecResumed` assumes that a director resumes an interrupted import again and again, that a
  request that was not killed goes on, and that not every chunk is killed before it handles a row.
  `SpecScheduled` adds the scheduler: `student-imports:purge` runs every day (`routes/console.php`
  line 9) and not every deletion of a file fails.
- Notifications: the scheduler starts `notifications:dispatch` every minute (line 10), a delay ends,
  a run goes on unless killed, and a run that finds something to claim is not for ever killed first
  (strong fairness of `Claim`). Nothing is assumed about kills, nor about
  providers but that a call returns: e-mail, Twilio and HTTP clients have their timeouts.
- Reminders: the scheduler starts both commands once (lines 7 and 8), and a process that was not killed
  goes on. Nothing is assumed about reruns, payments or kills.
- Attendance: `SpecOnline` assumes that a page resends again and again (it does on every load, on
  every return of the network and at "Enregistrer"), that it takes in its answers, that late calls
  arrive, and that the network does not lose every call before the server sees it (strong fairness
  of `Admit` and `Serve`). A page of the browser's cache carries the CSRF token of its session and is
  refused after a later login: strong fairness of `Serve` presumes a valid session.
- Report cards: a request goes on unless it dies. Staff come back to a card that waits and use the button
  that the panel shows for its status, and the director tries again and again to close the term (strong
  fairness, since other requests come between). Nobody has to enter, override, publish or revise anything.
- Payments, cash book, rankings: safety only, no fairness.

`CHECK_DEADLOCK FALSE` is set for imports, payments and rankings: a state in which every import has ended
and its file is purged, every payment is used and reversed, or every pupil has its rank, is a legal end.
The other systems never stop, and their runs check it.

## 11. Properties of the documentation that the code does not keep

Three runs expect a violation: `payments_two_directors`, `cash_carry_over` and
`report_cards_closed_term`. The following properties are also defined in the modules and also false.
Each can be repeated with a configuration of the given constants.

| Property | Specification and constants | What TLC finds |
|---|---|---|
| `AtMostOneActive` | `StudentImport!Spec`, 2 requests, 1 file, `NBatches` 2, `NRows` 1, `ChunkSize` 1, `MaxWipes` 1 | a stale `transitionTo()` revives a cancelled import beside a new one |
| `ValidRowsGetThrough` | `MCStudentImport!SpecPreviewed`, 2 requests, `NBatches` 1, `NRows` 2, `ChunkSize` 2 | two decisions leave a ready row without data, on which every chunk throws; `docs/dev/onb-01-guide-directeur.md:16` promises the valid rows |
| `RetentionDeletesFiles` | `StudentImport!SpecScheduled`, 1 request, 1 file, `NBatches`, `NRows`, `ChunkSize` and `MaxWipes` 1, `RetentionEnds` TRUE | the purge skips batches that stay `processing` (`PurgeStudentImportsCommand.php:24`); the guide, line 33, says that files are deleted |
| `PublishedImmutable` | `ReportCards!Spec`, 2 requests, 1 card, which is in `Remarked`, the other constants of `ReportCards.cfg` with `Annual` empty | an override of the mention that loaded the card before its publication writes over it |
| `EveryPageSettles` | `Attendance!SpecOnline`, the constants of `AttendanceDay.cfg` | a page that starts with the session of another class sends its marks there for ever and creates no session of its own (`attendance.blade.php:33`); `docs/attendance.md:19` says that the operations are sent to the API at the reconnection |
| `ClosedImmutable` | `CashBook!Spec`, the constants of `CashBook.cfg` | a submission that passed the test of the status writes over a closure signed meanwhile ("Une clôture validée est immuable.", `CashClosureService.php:16`) |
| `SettledNotReminded` | `Reminders!DaySpec`, no run, 1 reminder, one process of either command | the family pays between the look at its invoice and the insertion (`docs/audit/03-workflows.md:360`) |

## 12. Proofs

TLAPS proves the following for every value of the constants: any number of requests, uploads, rows,
payments, invoices, notifications, runs, reminders, processes, pupils, pages, corrections, cards,
expenses and users, and any amounts. The only assumptions are those that each module names: the numbers
are natural (positive where a chunk, a run or a file must hold something), sets from which a record names
an element are not empty, payments, expenses and ranked pupils are finitely many (they are added up or
counted), the pupils with a guardian to
reach are pupils of the class, reminders are notifications and no process runs both commands, and
averages keep their `SpacingAssumption`.

Hypotheses are stated in the theorems that need them, because without them the properties are false:
`SingleOperator` and `SingleUser` (requests on the imports of a school, or on one term, come one after
the other), `SingleDirector`, `SingleAccountant`, and `~RetentionEnds` for imports (the 30 days do not
end: the purge deletes the rows that are counted, and it may cancel an import that a request works on).

| Module | Theorems |
|---|---|
| `StudentImportProofs` | `Inductive` (`IndInv`), `TypeCorrect`, `RowAppliedOnceThm`, `FileStaysReachableThm`, `CancelSparesPupilsThm`; for one request at a time `SoloInductive` (`SoloInv`), `AtMostOneActiveThm`, `TerminalIsFinalThm`, `CompletedMeansDoneThm`, `CountersMatchRowsThm`, `LineAppliedOnceThm`, `ImplementsImportThm` |
| `PaymentsProofs` | `Inductive` (`IndInv`), `TypeCorrect`, `NeverOverpaidThm`, `PaidIffSettledThm`, `ReceiptsGaplessThm`, `ReversalsBoundedThm`, `MoneyConservedThm`, `Refinement` (`ImplementsLedger`); `StatusFollowsPaymentsThm` for one director |
| `AttendanceProofs` | `Inductive` (`IndInv`), `AbsencesAnnouncedThm`, `AbsencesFollowedThm`, `ValidatedFrozenThm`, `ContactsKeptThm` |
| `NotificationProofs` | of the queue `Inductive` (`IndInv`), `OneHandlerThm`, `AttemptsBoundedThm`, `OutcomesTruthfulThm`, `ImplementsDeliveryThm`; of the morning `DayInductive` (`DayInv` beside the queue's `IndInv`), `DayImplementsQueue` (`DaySpec => Spec` of the queue, fairness included), `DayOneHandler`, `DayImplementsDelivery`, `RemindersQueuedThm`, `RemindedOnceThm` |
| `ReportCardsProofs` | `TypeCorrect`; for one request at a time `Inductive` (`IndInv`), `PublishedDefinitiveThm`, `PublishedImmutableThm`, `PublishedArchivedThm`, `DraftsFollowGradesThm` |
| `CashBookProofs` | `Inductive` (`IndInv`), `TypeCorrect`, `VouchersGaplessThm`, `ReversalsBoundedThm`, `CountedIsSignedThm`, `SignedIffClosedThm`, `OpeningGapThm`; `CorrectedIsRejectedThm` for one director, `VarianceAddsUpThm` for one accountant |
| `RankingsProofs` | `Inductive` (`IndInv`), `RankIsStandingThm` |
| `SumTheorems` | lemmas only |

Each proof has one lemma per action, per kind of write, or per variable, and a theorem `Inductive` that
puts them together. The inductive invariants were tried with TLC before they were proved; the runs check
the properties that follow from them.

- **Sums.** `SumFunctionOnSet` of the community modules folds a function over a set in an order that
  CHOOSE picks. `SumIsFold` unfolds it, `SumsUnique` and `SumsExists` show that the recursive function
  behind it exists on the subsets of a finite set, and `SumTake`, `SumChange`, `SumSame`, `SumSplit` and
  `SumPlus` give what the money needs: the order does not matter, and a change in one term changes the
  sum by as much. Induction over subsets is itself derived, from the well-founded order of finite sets.
- **Import.** `RowAppliedOnce` is not inductive: nothing in it says why a row that was used cannot be
  used again. `RowsSpent` does: a row that made its pupil has lost its data, and neither a decision
  nor a stale copy brings them back. `CancelSparesPupils` needs `PupilsCounted` (a batch whose
  counters are zero made no pupil) because `cancel()` looks at the counters only; `FileStaysReachable`
  needs to know that a request about to clear `expires_at` has already deleted the file
  (`FilesTracked`); and all of them that a request only ever works on a committed batch
  (`RequestsSound`).
  With one request at a time its copies are current (`BatchKnown`, `RowsKnown`). An import that was not
  processed yet made no pupil (`UnprocessedSpared`), so wiping its rows loses none: pupils and applied
  rows stay the same (`PupilsAreRows`), which `RowAppliedOnce` turns into `LineAppliedOnce`. `RowMoves`
  says what a step can do to the rows of an import; `LeastIn` (a set of rows has a first one) is derived
  from the library's theorem on the well-founded order of finite sets.
  `ImplementsImport` then needs nothing new: `StatusMoves` and `RowMoves` say what a step changes of one
  import, `OneImport` that it leaves the others alone, and `SoloInv` which status and rows it starts
  from: a chunk handles a row only while its import is being written, an import concludes only with no
  row unhandled (`CompletedMeansDone`) and begins only with no other under way (`AtMostOneActive`).
- **Payments.** What a transaction will commit was computed from tables that others may change
  meanwhile. `ConfirmationSound` says that a confirmation only writes invoices it has locked and that
  its sums and statuses fit what is in the tables now; `ReversalSound` says that a reversal shares the
  invoices it writes, gives back no more than is there and leaves none of them PAID. They survive the
  steps of the other requests because of `Apart`: nobody else locks, shares or has written a locked
  invoice, one transaction inserts a key, one reverses a payment, one holds the receipt sequence.
  `InvoicesSound`, `PaymentsSound` and the three safety properties then follow at each commit.
  `Refinement` maps `Issue`, `CommitPayment` and `CommitReversal` to the operations of `PupilLedger`
  and every other step to a stutter. `StatusFollowsPayments` is false with two directors (section 4).
  With one, nobody else reverses while a reversal runs, so what a transaction writes as a status fits
  the sums it commits (`CommitFits`), and with that for every request (`StatusesSound`) it is inductive.
  `MoneyConserved` speaks of tables only; a commit keeps it because of what the transaction holds in
  memory (`MoneyInHand`): the amount is what is distributed and what is left, and a reversal that still
  has money left has used up every allocation it has passed. So what stays when the last allocation is
  done is at most the credit that was not returned yet.
- **Notifications.** `OutcomesTruthful` follows from `AnswersKept`: what a run is about to send nobody has
  taken, and what it is about to record is the answer it got; as nobody else has the notification in hand
  (`OneHandler`), the answer is still the last one at the commit. Nothing relates `delivered` to the
  answers. `AttemptsBounded` needs `AttemptsLeft`: a notification that waits or is about to
  be sent still has an attempt that pays for the delivery; `OneHandler` makes the outcome the run's
  own to write, and `RunsBounded` its counter well typed. `ImplementsDelivery` showed that one fact was
  missing: that what is claimed was tried (`ClaimedTried`), without which, were no attempt configured,
  a refusal could be declared a failure before the first try.
- **Attendance.** `AbsencesAnnounced` and `AbsencesFollowed` are inductive beside types and
  `CallsSound` (a call under way asks for something): `ServeKeeps` shows that no request undoes them,
  since synchronisations are refused once the roll call is validated, and `CorrectKeeps` that a
  correction queues messages for the records as it leaves them, not as it read them.
  `AbsencesFollowed` speaks of marks of teachers only, because `correct()` creates no follow-up.
- **Reminders.** `DayInv` adds to the queue's invariant that a process that is about to enqueue works on
  a recorded reminder (`HandsSound`) and that nobody else uses the key of one that is not recorded
  (`KeysReserved`): the unique row of `collection_reminders` is what makes `RemindedOnce` hold.
  `DayImplementsQueue` shows that every step of the composition is a step of `NotificationQueue` or
  leaves the queue alone, so whatever is proved of the queue holds beside the commands too, among it
  that it delivers as `MessageDelivery` does.
- **Report cards.** With one request at a time a running request's copies are the rows (`CopiesCurrent`),
  and each step knows what the steps before it left (`StepsFollow`): a card at `PublishMove` has the
  ranking of the grades as they are, which is not provisional, and a card to be refreshed is still
  refreshable. `PublishedDefinitiveThm` then unfolds `Provisional`: for a card of a term with assessments
  it gives complete and validated grades, for the others only the ranking of the moment. The theorems follow
  from where statuses and data are written (`StatusWritten`, `DataWritten`, `VersionWritten`).
- **Cash book.** `Apart` (no two requests hold one lock) and `RequestsSound` (what was read under a lock
  is what the table holds) carry the vouchers and the reversals. `SignedIffClosed` needs that a row that
  was found had both or neither. `OpeningGap` measures what the violation `CarriedOver` shows: the
  sum over all expenses is that of the approved ones and that of the others (`SumSplit`), so the next day
  opens short of the day's closing by exactly what the pending and rejected expenses still cost, never
  with more, and the two agree only when all of these were given back in full.
- **Rankings.** The loop invariant says that those ranked are no worse than the rest (`Sorted`) and that
  `rank` is the standing of the last one (`LastRanked`). `TieKeepsRank` uses `SpacingAssumption`,
  `NewRankCountsRanked` counts those ranked when a new rank is due.

Out of the prover's reach and left to TLC: liveness under fairness (`ProcessingConcludes`,
`RetentionEffective`, `SettledUnlessKilled`, `RemindedUnlessKilled`, `LastMarksSettle`,
`TermGetsClosed`). Every other property of a passing run is a theorem.

## 13. Not modelled

- Payment gateways and webhooks: no code creates a pending payment for `handleProviderConfirmation()`.
- Fee structures and the creation of invoices by enrolments, of which `Payments!Issue` is the result.
- The reading of CSV files and the two older importers: functions on text, one transaction per file.
- Academic years: one transaction for activation, one update for closing; nothing between can be seen.
- Certificates: the same shape as a report card's workflow and as the vouchers, with nothing that
  depends on them.
- Invitations and registration requests: one transaction each. That a status is read before it is listed
  among the hazards.
- Tenancy, roles and policies: every query is scoped to one school, so each module models one; rights
  are guards where a property depends on them (`Directors`, `Accountants`).
- Panels, widgets and documents only read. The JavaScript files of the repository are the compiled assets
  of the panels' framework and scripts of the test suite, none of which keeps state of this system; what
  the attendance page runs in the browser stands in its template
  (`resources/views/teacher/attendance.blade.php`) and is modelled in `Attendance`.

## 14. Reading the models

A module EXTENDS standard and community modules; `Reminders` EXTENDS `NotificationQueue`, `Payments`,
`StudentImport` and `NotificationQueue` use the module they implement, and `MC...` modules add what TLC needs.
Bounds are constants (`NBatches`, `NRows`, `MaxWipes`, `NInvoices`, `MaxAmount`, `RunLimit`, `Tabs`,
`MaxMarks`, `MaxLate`, `MaxChanges`, `MaxMissing`, `MaxCrashes`, `Remarked`, `MaxReceipts`), named in the modules that
use them. Next to some definitions stand variants of them under the comment "a plausible bug": they
are used nowhere in the specifications, and each one, put in the place of the definition, makes TLC
report one of the properties violated.
