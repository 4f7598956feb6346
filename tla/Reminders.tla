----------------------------- MODULE Reminders -----------------------------
(***************************************************************************)
(* The commands due-reminders:schedule and collections:schedule of one day *)
(* (app/Services/DueReminderService.php, Payments/CollectionService.php)   *)
(* beside the queue they fill and the dispatcher that empties it.  Each    *)
(* command goes through the open invoices in chunks; for each one it       *)
(* inserts the row of the reminder, and if that is new enqueues its        *)
(* notification, in two statements without a transaction.                  *)
(***************************************************************************)
EXTENDS NotificationQueue

CONSTANTS
    Reminders,       \* the notifications that remind of an invoice
    Due,             \* those of due-reminders:schedule; the other ones are those
                     \* of collections:schedule
    DueJobs,         \* processes of due-reminders:schedule
    CollectionJobs   \* processes of collections:schedule

ASSUME RemindersAssumption ==
    /\ Reminders \subseteq Notices
    /\ Due \subseteq Reminders
    /\ DueJobs \cap CollectionJobs = {}

VARIABLES
    owed,       \* the invoice of the reminder is open and has a balance
    reminder,   \* collection_reminders: the rows of the day
    job,        \* what each process of a command has in hand
    lost,       \* history: reminders recorded, but left without a notification
    crashed     \* history: processes that were killed

reminderVars == <<owed, reminder, job, lost, crashed>>
dayVars == <<vars, reminderVars>>

Jobs == DueJobs \cup CollectionJobs

JobRecords ==
    [pc: {"waiting", "scan", "insert", "queue", "ended"}, n: Notices,
     todo: SUBSET Reminders, seen: SUBSET Reminders]

Waiting == [pc |-> "waiting", n |-> CHOOSE n \in Notices : TRUE, todo |-> {}, seen |-> {}]
Ended == [Waiting EXCEPT !.pc = "ended"]

\* The morning of a day: every invoice is open.
DayInit ==
    /\ Init
    /\ owed = [n \in Reminders |-> TRUE]
    /\ reminder = {}
    /\ job = [j \in Jobs |-> Waiting]
    /\ lost = {}
    /\ crashed = {}

JobAt(j, step) == job[j].pc = step

-----------------------------------------------------------------------------
(* The invoices *)

\* A payment covers the invoice (PaymentService, Payments.tla).
Settle(n) ==
    /\ owed[n]
    /\ owed' = [owed EXCEPT ![n] = FALSE]
    /\ UNCHANGED <<vars, reminder, job, lost, crashed>>

-----------------------------------------------------------------------------
(* schedule() *)

\* The scheduler runs the command once a day, a user perhaps again.
StartJob(j) ==
    /\ JobAt(j, "waiting")
    /\ job' = [job EXCEPT ![j].pc = "scan"]
    /\ UNCHANGED <<vars, owed, reminder, lost, crashed>>

Rerun(j) ==
    /\ JobAt(j, "ended")
    /\ job' = [job EXCEPT ![j].pc = "scan"]
    /\ UNCHANGED <<vars, owed, reminder, lost, crashed>>

RemindersOf(j) == IF j \in DueJobs THEN Due ELSE Reminders \ Due

\* The open invoices that no chunk of this run has held.
Ahead(j) == {n \in RemindersOf(j) \ job[j].seen : owed[n]}

\* chunkById(): the next invoices by id, as their status is now.
LoadChunk(j) ==
    /\ JobAt(j, "scan")
    /\ job[j].todo = {}
    /\ \E chunk \in SUBSET Ahead(j) :
        /\ chunk # {}
        /\ job' = [job EXCEPT ![j].todo = chunk, ![j].seen = @ \cup chunk]
    /\ UNCHANGED <<vars, owed, reminder, lost, crashed>>

EndJob(j) ==
    /\ JobAt(j, "scan")
    /\ job[j].todo = {}
    /\ Ahead(j) = {}
    /\ job' = [job EXCEPT ![j] = Ended]
    /\ UNCHANGED <<vars, owed, reminder, lost, crashed>>

\* A plausible bug: the comparison of the balance is turned around.
SettledMeanwhileInverted(n) == n \in Due /\ owed[n]

\* Only the due reminders look at the balance again.
SettledMeanwhile(n) == n \in Due /\ ~owed[n]

SkipInvoice(j) ==
    /\ JobAt(j, "scan")
    /\ \E n \in job[j].todo :
        /\ SettledMeanwhile(n)
        /\ job' = [job EXCEPT ![j].todo = @ \ {n}]
    /\ UNCHANGED <<vars, owed, reminder, lost, crashed>>

TakeInvoice(j) ==
    /\ JobAt(j, "scan")
    /\ \E n \in job[j].todo :
        /\ ~SettledMeanwhile(n)
        /\ job' = [job EXCEPT ![j].pc = "insert", ![j].n = n, ![j].todo = @ \ {n}]
    /\ UNCHANGED <<vars, owed, reminder, lost, crashed>>

\* A plausible bug: the reminder is repeated when it is not new.
AfterInsertInverted(n) == IF n \in reminder THEN "queue" ELSE "scan"

\* insertOrIgnore() says whether the row is new; if not, the next invoice.
AfterInsert(n) == IF n \in reminder THEN "scan" ELSE "queue"

InsertReminder(j) ==
    /\ JobAt(j, "insert")
    /\ reminder' = reminder \cup {job[j].n}
    /\ job' = [job EXCEPT ![j].pc = AfterInsert(job[j].n)]
    /\ UNCHANGED <<vars, owed, lost, crashed>>

\* queueFinancial() enqueues under the key of the reminder.
QueueReminder(j) ==
    /\ JobAt(j, "queue")
    /\ IF queue[job[j].n].status = "none" THEN Enqueue(job[j].n) ELSE UNCHANGED vars
    /\ job' = [job EXCEPT ![j].pc = "scan"]
    /\ UNCHANGED <<owed, reminder, lost, crashed>>

\* It does nothing for a family without an active guardian at that moment.
NobodyToRemind(j) ==
    /\ JobAt(j, "queue")
    /\ lost' = lost \cup {job[j].n}
    /\ job' = [job EXCEPT ![j].pc = "scan"]
    /\ UNCHANGED <<vars, owed, reminder, crashed>>

\* The process dies, or an exception that nothing catches ends the command.
KillJob(j) ==
    /\ job[j].pc \in {"scan", "insert", "queue"}
    /\ lost' = IF JobAt(j, "queue") THEN lost \cup {job[j].n} ELSE lost
    /\ crashed' = crashed \cup {j}
    /\ job' = [job EXCEPT ![j] = Ended]
    /\ UNCHANGED <<vars, owed, reminder>>

JobStep(j) ==
    \/ StartJob(j) \/ Rerun(j) \/ LoadChunk(j) \/ EndJob(j) \/ SkipInvoice(j)
    \/ TakeInvoice(j) \/ InsertReminder(j) \/ QueueReminder(j) \/ NobodyToRemind(j)
    \/ KillJob(j)

\* Attendance, receipts and invitations enqueue the other notifications.
QueueStep ==
    /\ \/ \E n \in Notices \ Reminders : Enqueue(n)
       \/ \E n \in Notices : BecomeDue(n)
       \/ \E d \in Runs : RunStep(d)
    /\ UNCHANGED reminderVars

DayNext ==
    \/ QueueStep
    \/ \E n \in Reminders : Settle(n)
    \/ \E j \in Jobs : JobStep(j)

\* The scheduler starts the commands at 05:00 and 05:05 (routes/console.php);
\* a process goes on unless it is killed.
JobFairness ==
    \A j \in Jobs :
        /\ WF_dayVars(StartJob(j))
        /\ WF_dayVars(LoadChunk(j) \/ EndJob(j) \/ SkipInvoice(j) \/ TakeInvoice(j)
                        \/ InsertReminder(j) \/ QueueReminder(j) \/ NobodyToRemind(j))

DaySpec == DayInit /\ [][DayNext]_dayVars /\ Fairness /\ JobFairness

-----------------------------------------------------------------------------
(* Properties *)

\* A reminder that is recorded has its notification.  Only a process killed
\* between the two statements, or a family nobody can write to, leaves one
\* without, and then no later run, which finds the row, enqueues it.
RemindersQueued ==
    \A n \in reminder :
        \/ queue[n].status # "none"
        \/ n \in lost
        \/ \E j \in Jobs : JobAt(j, "queue") /\ job[j].n = n

\* "idempotence sur l'echeance" (docs/audit/03-workflows.md): a reminder that a
\* process is about to enqueue was not enqueued before and is in no other hand.
RemindedOnce ==
    \A j, k \in Jobs : JobAt(j, "queue") =>
        /\ queue[job[j].n].status = "none"
        /\ JobAt(k, "queue") /\ job[k].n = job[j].n => j = k

\* From the invoice to the provider: a provider takes the reminder of a family that
\* still owes, or it was refused as often as configured, unless a process was killed.
RemindedUnlessKilled ==
    \A n \in Reminders :
        <>(\/ ~owed[n]
           \/ queue[n].status \in {"SENT", "FAILED"}
           \/ n \in killed \cup lost
           \/ \E j \in crashed : n \in RemindersOf(j))

\* "relance uniquement pour les echeances non soldees"
\* (docs/audit/03-workflows.md).  Not so: collections:schedule trusts the status
\* its chunk was loaded with, and a payment can come before any insertion.
SettledNotReminded == [][\A n \in Reminders \ reminder : n \in reminder' => owed[n]]_dayVars

-----------------------------------------------------------------------------
(* The inductive invariant behind the theorems of NotificationProofs *)

DayTypes ==
    /\ owed \in [Reminders -> BOOLEAN]
    /\ reminder \subseteq Reminders
    /\ job \in [Jobs -> JobRecords]

\* What a process works on is a reminder, and one that it enqueues has its row.
HandsSound ==
    \A j \in Jobs :
        /\ job[j].pc \in {"insert", "queue"} => job[j].n \in Reminders
        /\ JobAt(j, "queue") => job[j].n \in reminder

\* Nobody else enqueues under the key of a reminder.
KeysReserved == \A n \in Reminders \ reminder : queue[n].status = "none"

DayInv ==
    /\ DayTypes
    /\ HandsSound
    /\ KeysReserved
    /\ RemindersQueued
    /\ RemindedOnce
=============================================================================
