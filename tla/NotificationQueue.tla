------------------------- MODULE NotificationQueue -------------------------
(***************************************************************************)
(* The table notification_queue and the command notifications:dispatch     *)
(* (app/Services/NotificationService.php).  The scheduler starts the       *)
(* command every minute without waiting for the run before, so runs may    *)
(* overlap; each claims one notification in a transaction, sends it        *)
(* outside of any, and records the outcome in a commit of its own.         *)
(***************************************************************************)
EXTENDS Naturals

CONSTANTS
    Runs,          \* overlapping runs of notifications:dispatch
    Notices,       \* notifications, by idempotency_key
    MaxAttempts,   \* config attendance.notifications.max_attempts
    RunLimit       \* notifications one run handles at most: 100 in the code

ASSUME ConstantsAssumption ==
    /\ Notices # {}
    /\ MaxAttempts \in Nat
    /\ RunLimit \in Nat \ {0}

VARIABLES
    queue,       \* notification_queue; due: scheduled_at has passed
    run,         \* what each run of the command has in hand
    delivered,   \* external: how often each notification reached its recipient
    taken,       \* history: notifications a provider has said it took
    killed       \* history: notifications in the hands of a run that was killed

vars == <<queue, run, delivered, taken, killed>>

QueueStatuses == {"none", "PENDING", "PROCESSING", "SENT", "FAILED"}

Absent == [status |-> "none", attempts |-> 0, due |-> FALSE]
QueueRecords == [status: QueueStatuses, attempts: Nat, due: BOOLEAN]

NotRunning == [pc |-> "idle", n |-> CHOOSE n \in Notices : TRUE, handled |-> 0,
               accepted |-> FALSE]
RunRecords == [pc: {"idle", "claim", "send", "record"}, n: Notices,
               handled: 0 .. RunLimit, accepted: BOOLEAN]

Init ==
    /\ queue = [n \in Notices |-> Absent]
    /\ run = [d \in Runs |-> NotRunning]
    /\ delivered = [n \in Notices |-> 0]
    /\ taken = {}
    /\ killed = {}

At(d, step) == run[d].pc = step

-----------------------------------------------------------------------------
(* queue(), queueFinancial(), queueInvitation(): insertOrIgnore on the      *)
(* idempotency key, so that only the first call for a key has an effect.    *)

Enqueue(n) ==
    /\ queue[n].status = "none"
    /\ queue' = [queue EXCEPT ![n] = [status |-> "PENDING", attempts |-> 0, due |-> TRUE]]
    /\ UNCHANGED <<run, delivered, taken, killed>>

\* The retry delay of a rejected notification is over.
BecomeDue(n) ==
    /\ queue[n].status = "PENDING"
    /\ ~queue[n].due
    /\ queue' = [queue EXCEPT ![n].due = TRUE]
    /\ UNCHANGED <<run, delivered, taken, killed>>

-----------------------------------------------------------------------------
(* dispatchPending()                                                        *)

StartRun(d) ==
    /\ At(d, "idle")
    /\ run' = [run EXCEPT ![d] = [NotRunning EXCEPT !.pc = "claim"]]
    /\ UNCHANGED <<queue, delivered, taken, killed>>

\* A plausible bug: what a killed run left behind is claimed again, whether or
\* not a run still has it in hand.
ClaimableAgain(n) == queue[n].status \in {"PENDING", "PROCESSING"} /\ queue[n].due

Claimable(n) == queue[n].status = "PENDING" /\ queue[n].due

\* One transaction, the row locked: two runs never claim the same row.
Claim(d) ==
    /\ At(d, "claim")
    /\ run[d].handled < RunLimit
    /\ \E n \in Notices :
        /\ Claimable(n)
        /\ queue' = [queue EXCEPT ![n].status = "PROCESSING", ![n].attempts = @ + 1]
        /\ run' = [run EXCEPT ![d].pc = "send", ![d].n = n]
    /\ UNCHANGED <<delivered, taken, killed>>

EndRun(d) ==
    /\ At(d, "claim")
    /\ run[d].handled = RunLimit \/ \A n \in Notices : ~Claimable(n)
    /\ run' = [run EXCEPT ![d] = NotRunning]
    /\ UNCHANGED <<queue, delivered, taken, killed>>

\* The provider's answer and what becomes of the message are two things.  TRUE is
\* a server that took the request (SMS, Twilio, mail), or the default provider of
\* AppServiceProvider, which drops it; FALSE is a refusal, a setting that is
\* missing, or an exception, perhaps after the message had gone out.  A message
\* that arrives later counts as delivered here, at most once for each call.
Send(d) ==
    /\ At(d, "send")
    /\ \E reached, accepted \in BOOLEAN :
        /\ delivered' = [delivered EXCEPT ![run[d].n] = IF reached THEN @ + 1 ELSE @]
        /\ taken' = IF accepted THEN taken \cup {run[d].n} ELSE taken
        /\ run' = [run EXCEPT ![d].pc = "record", ![d].accepted = accepted]
    /\ UNCHANGED <<queue, killed>>

\* Plausible bugs: one attempt too many; the last attempt always counts as sent;
\* a notification to be retried is not put back.
ExhaustedLate(n) == queue[n].attempts > MaxAttempts
OutcomeSentAtLast(n, accepted) ==
    IF accepted \/ queue[n].attempts >= MaxAttempts THEN "SENT" ELSE "PENDING"
OutcomeKept(n, accepted) ==
    IF accepted THEN "SENT"
    ELSE IF queue[n].attempts >= MaxAttempts THEN "FAILED" ELSE "PROCESSING"

Exhausted(n) == queue[n].attempts >= MaxAttempts

Outcome(n, accepted) ==
    IF accepted THEN "SENT" ELSE IF Exhausted(n) THEN "FAILED" ELSE "PENDING"

\* SENT, FAILED, or PENDING again after the retry delay.
Record(d) ==
    LET n == run[d].n
        s == Outcome(n, run[d].accepted)
    IN
    /\ At(d, "record")
    /\ queue' = [queue EXCEPT ![n].status = s, ![n].due = (s # "PENDING")]
    /\ run' = [run EXCEPT ![d].pc = "claim", ![d].handled = @ + 1]
    /\ UNCHANGED <<delivered, taken, killed>>

\* The process dies.  Nothing looks for rows that stay PROCESSING.
Kill(d) ==
    /\ ~At(d, "idle")
    /\ killed' = IF At(d, "claim") THEN killed ELSE killed \cup {run[d].n}
    /\ run' = [run EXCEPT ![d] = NotRunning]
    /\ UNCHANGED <<queue, delivered, taken>>

RunStep(d) ==
    StartRun(d) \/ Claim(d) \/ EndRun(d) \/ Send(d) \/ Record(d) \/ Kill(d)

Next ==
    \/ \E n \in Notices : Enqueue(n) \/ BecomeDue(n)
    \/ \E d \in Runs : RunStep(d)

\* The scheduler starts a run every minute and the delay passes; a run goes on
\* unless it is killed, and not every run is killed before its first claim.
Fairness ==
    /\ \A n \in Notices : WF_vars(BecomeDue(n))
    /\ \A d \in Runs : /\ WF_vars(StartRun(d)) /\ SF_vars(Claim(d)) /\ WF_vars(EndRun(d))
                       /\ WF_vars(Send(d)) /\ WF_vars(Record(d))

Spec == Init /\ [][Next]_vars /\ Fairness

-----------------------------------------------------------------------------
(* Properties *)

\* Every column and every run holds a value the code can give it.
TypeOK ==
    /\ queue \in [Notices -> QueueRecords]
    /\ run \in [Runs -> RunRecords]
    /\ delivered \in [Notices -> Nat]
    /\ taken \subseteq Notices
    /\ killed \subseteq Notices

InHand(d, n) == run[d].n = n /\ run[d].pc \in {"send", "record"}

\* "afin que deux workers ne traitent pas la meme notification"
\* (docs/attendance.md): overlapping runs never have one notification in hand
\* together, and what a run has in hand is PROCESSING.
OneHandler ==
    \A d \in Runs, n \in Notices : InHand(d, n) =>
        /\ queue[n].status = "PROCESSING"
        /\ \A e \in Runs : InHand(e, n) => e = d

\* A recipient gets a message at most as often as it was tried, and it is never
\* tried more often than configured (once, if the configuration says 0).
AttemptsBounded ==
    \A n \in Notices :
        /\ delivered[n] <= queue[n].attempts
        /\ queue[n].attempts <= MaxAttempts \/ queue[n].attempts <= 1

\* What the table says of a message is what a provider answered: SENT if one took
\* it, FAILED if all attempts were refused; and one that was taken is not sent
\* again.  Whether it arrived the table cannot know.
OutcomesTruthful ==
    \A n \in Notices :
        /\ queue[n].status = "SENT" => n \in taken
        /\ queue[n].status \in {"none", "PENDING", "FAILED"} => n \notin taken
        /\ queue[n].status = "FAILED" => queue[n].attempts >= MaxAttempts

\* Every notification is sent or has failed in the end, unless the run that had
\* it in hand was killed: then it stays PROCESSING for ever.
SettledUnlessKilled ==
    \A n \in Notices :
        queue[n].status = "PENDING" ~>
            queue[n].status \in {"SENT", "FAILED"} \/ n \in killed

-----------------------------------------------------------------------------
(* The inductive invariant behind the theorems of NotificationProofs *)

\* While a notification waits or is about to be sent, one more delivery and one
\* more attempt are still within bounds.
AttemptsLeft ==
    \A n \in Notices :
        /\ queue[n].status = "none" => queue[n].attempts = 0
        /\ queue[n].status \in {"none", "PENDING"} =>
             /\ queue[n].attempts = 0 \/ queue[n].attempts < MaxAttempts
             /\ delivered[n] <= queue[n].attempts
        /\ \A d \in Runs : InHand(d, n) /\ At(d, "send") =>
             delivered[n] < queue[n].attempts

\* What a run sends nobody has taken yet, and what it records is the answer.
AnswersKept ==
    \A d \in Runs :
        /\ At(d, "send") => run[d].n \notin taken
        /\ At(d, "record") => (run[d].accepted <=> run[d].n \in taken)

\* A run that has a notification in hand has not reached its limit.
RunsBounded ==
    \A d \in Runs : run[d].pc \in {"send", "record"} => run[d].handled < RunLimit

IndInv ==
    /\ TypeOK
    /\ RunsBounded
    /\ OneHandler
    /\ AttemptsBounded
    /\ AttemptsLeft
    /\ AnswersKept
    /\ OutcomesTruthful
-----------------------------------------------------------------------------
(* The delivery a recipient is promised *)

Fate(s) ==
    CASE s = "none" -> "unknown"
      [] s \in {"PENDING", "PROCESSING"} -> "open"
      [] s = "SENT" -> "sent"
      [] OTHER -> "failed"

\* Whatever runs overlap, answers get lost and processes die, the queue treats a
\* message as MessageDelivery says.
Delivery == INSTANCE MessageDelivery WITH
    Messages <- Notices, MaxTries <- MaxAttempts,
    fate <- [n \in Notices |-> Fate(queue[n].status)],
    tries <- [n \in Notices |-> queue[n].attempts],
    took <- taken,
    received <- delivered

ImplementsDelivery == Delivery!Spec

\* What a run has in hand has been tried, even if no attempt is configured.
ClaimedTried == \A n \in Notices : queue[n].status = "PROCESSING" => queue[n].attempts > 0
=============================================================================
