------------------------------ MODULE Payments ------------------------------
(***************************************************************************)
(* Payments, invoices and receipts of one pupil                            *)
(* (app/Services/Payments/PaymentService.php, InvoiceService.php and       *)
(* app/Models/Invoice.php).                                                *)
(*                                                                         *)
(* A request runs recordManual() or reverse() as one database transaction  *)
(* under READ COMMITTED: what it wrote is in req[r] until it commits, the  *)
(* other variables are what everybody reads.  The transactions meet at     *)
(* four kinds of locks, all held until the end of the transaction:         *)
(*   - FOR UPDATE on the open invoices, taken by confirm();                *)
(*   - FOR KEY SHARE on an invoice, taken by the foreign key of a new      *)
(*     reversal: it excludes FOR UPDATE but neither another KEY SHARE nor  *)
(*     the UPDATE of the status;                                           *)
(*   - the lock of an updated invoice, excluding all of them but KEY SHARE; *)
(*   - the rows of the payment (reverse) and of the receipt sequence.      *)
(***************************************************************************)
EXTENDS Integers, FiniteSets, Functions

CONSTANTS
    Requests,    \* concurrent requests of the school's users
    Directors,   \* those of them whose user may reverse a payment
    Payments,    \* idempotency keys; a payment without one is its own key
    NInvoices,   \* the pupil's invoices, in the order of due_date and id
    MaxAmount    \* bound: amounts of invoices and payments

ASSUME ConstantsAssumption ==
    /\ IsFiniteSet(Payments) /\ Payments # {}
    /\ Directors \subseteq Requests
    /\ NInvoices \in Nat
    /\ MaxAmount \in Nat

Invoices == 1 .. NInvoices
Amounts == 1 .. MaxAmount

VARIABLES
    invoice,   \* invoices; paid is the SUM of paidAmount() before max(0, ...)
    payment,   \* payments and their receipts
    alloc,     \* payment_allocations, by payment and invoice
    undone,    \* payment_reversals, summed by payment and invoice
    sequence,  \* next_number of the school's receipt sequence
    req        \* the transaction of each request

vars == <<invoice, payment, alloc, undone, sequence, req>>

OpenStatuses == {"ISSUED", "PARTIALLY_PAID", "OVERDUE"}
InvoiceStatuses == OpenStatuses \cup {"PAID"}

\* late: due_date is before today.
NoInvoice == [status |-> "none", total |-> 0, paid |-> 0, late |-> FALSE]
InvoiceRecords == [status: InvoiceStatuses \cup {"none"}, total: Nat, paid: Int,
                   late: BOOLEAN]

\* credit: unallocated_amount; reversed: the SUM of its reversals, with or without
\* an invoice; receipt: its number, 0 for a payment that was not recorded.
NoPayment == [amount |-> 0, credit |-> 0, reversed |-> 0, receipt |-> 0]
PaymentRecords == [amount: Nat, credit: Nat, reversed: Nat, receipt: Nat]

Steps == {"idle", "insert", "lock", "allocate", "record", "portion", "status"}
Nothing == [i \in Invoices |-> 0]
Unwritten == [i \in Invoices |-> "none"]

\* part: allocations or reversals inserted so far; written: invoice statuses
\* updated so far; todo: the invoices of the loop; left: $remaining; locks and
\* shares: invoices held FOR UPDATE and FOR KEY SHARE; at, next: the status the
\* request is about to write.
Idle(k) == [pc |-> "idle", k |-> k, amount |-> 0, left |-> 0, todo |-> {},
            part |-> Nothing, written |-> Unwritten, locks |-> {}, shares |-> {},
            at |-> 0, next |-> "none", number |-> 0]
SomePayment == CHOOSE k \in Payments : TRUE
RequestRecords ==
    [pc: Steps, k: Payments, amount: Nat, left: Nat, todo: SUBSET Invoices,
     part: [Invoices -> Nat], written: [Invoices -> InvoiceStatuses \cup {"none"}],
     locks: SUBSET Invoices, shares: SUBSET Invoices,
     at: 0 .. NInvoices, next: InvoiceStatuses \cup {"none"}, number: Nat]

Init ==
    /\ invoice = [i \in Invoices |-> NoInvoice]
    /\ payment = [k \in Payments |-> NoPayment]
    /\ alloc = [k \in Payments |-> Nothing]
    /\ undone = [k \in Payments |-> Nothing]
    /\ sequence = 1
    /\ req = [r \in Requests |-> Idle(SomePayment)]

-----------------------------------------------------------------------------
(* Helpers *)

At(r, step) == req[r].pc = step
\* The transaction ends: its locks go, and with a rollback its writes.
Finish(r) == req' = [req EXCEPT ![r] = Idle(SomePayment)]

Smaller(a, b) == IF a <= b THEN a ELSE b
AtLeastZero(a) == IF a <= 0 THEN 0 ELSE a

Issued(i) == invoice[i].status # "none"
Open(i) == invoice[i].status \in OpenStatuses
Recorded(k) == payment[k].receipt # 0
Others(r) == Requests \ {r}

Balance(i) == AtLeastZero(invoice[i].total - AtLeastZero(invoice[i].paid))

\* Invoice::refreshStatus, sum being what paidAmount() adds up.
StatusOf(i, sum) ==
    IF AtLeastZero(sum) >= invoice[i].total THEN "PAID"
    ELSE IF invoice[i].late THEN "OVERDUE"
    ELSE IF sum > 0 THEN "PARTIALLY_PAID" ELSE "ISSUED"

-----------------------------------------------------------------------------
(* Invoices: InvoiceService::generateForStudent, called once per enrolment *)

Issue(i) ==
    /\ ~Issued(i)
    /\ \E t \in Amounts :
        invoice' = [invoice EXCEPT ![i] =
            [NoInvoice EXCEPT !.status = "ISSUED", !.total = t]]
    /\ UNCHANGED <<payment, alloc, undone, sequence, req>>

\* The due date passes; no job refreshes the status.
PassDueDate(i) ==
    /\ Issued(i)
    /\ ~invoice[i].late
    /\ invoice' = [invoice EXCEPT ![i].late = TRUE]
    /\ UNCHANGED <<payment, alloc, undone, sequence, req>>

-----------------------------------------------------------------------------
(* Recording a payment: PaymentService::recordManual, confirm *)

\* The key is not known yet.  A known key returns its payment at once.
Begin(r) ==
    /\ At(r, "idle")
    /\ \E k \in Payments, a \in Amounts :
        /\ ~Recorded(k)
        /\ req' = [req EXCEPT ![r] = [Idle(k) EXCEPT !.pc = "insert", !.amount = a,
                                                     !.left = a]]
    /\ UNCHANGED <<invoice, payment, alloc, undone, sequence>>

\* The unique index makes the INSERT wait for a transaction that inserted the
\* same key.  The select that follows sees the invoices open now.
Inserting(q, k) == req[q].k = k /\ req[q].pc \in {"lock", "allocate", "record"}

Insert(r) ==
    /\ At(r, "insert")
    /\ ~Recorded(req[r].k)
    /\ \A q \in Others(r) : ~Inserting(q, req[r].k)
    /\ req' = [req EXCEPT ![r].pc = "lock", ![r].todo = {i \in Invoices : Open(i)}]
    /\ UNCHANGED <<invoice, payment, alloc, undone, sequence>>

\* The other submission committed first: its payment is returned.
InsertCollides(r) ==
    /\ At(r, "insert")
    /\ Recorded(req[r].k)
    /\ Finish(r)
    /\ UNCHANGED <<invoice, payment, alloc, undone, sequence>>

\* Plausible bugs: a payment does not wait for another one, or for a reversal.
LockableOverPayment(r, i) ==
    \A q \in Others(r) : i \notin req[q].shares /\ req[q].written[i] = "none"
LockableOverReversal(r, i) == \A q \in Others(r) : i \notin req[q].locks

\* FOR UPDATE is granted on an invoice that nobody holds in any way.
Lockable(r, i) ==
    \A q \in Others(r) :
        /\ i \notin req[q].locks
        /\ i \notin req[q].shares
        /\ req[q].written[i] = "none"

\* lockForUpdate() on the selected invoices, each of which must still match the
\* query once its lock is granted.
LockInvoices(r) ==
    /\ At(r, "lock")
    /\ \A i \in req[r].todo : Lockable(r, i)
    /\ LET open == {i \in req[r].todo : Open(i)} IN
        req' = [req EXCEPT ![r].pc = "allocate", ![r].locks = open, ![r].todo = open]
    /\ UNCHANGED <<invoice, payment, alloc, undone, sequence>>

Portion(r, i) == Smaller(req[r].left, Balance(i))

\* The next invoice by due date takes what is left, up to its balance.
Allocate(r) ==
    /\ At(r, "allocate")
    /\ \E i \in req[r].todo :
        LET a == Portion(r, i) IN
        /\ \A j \in req[r].todo : i <= j
        /\ req' = [req EXCEPT
             ![r].todo = @ \ {i},
             ![r].part[i] = a,
             ![r].left = @ - a,
             ![r].written[i] = IF a > 0 THEN StatusOf(i, invoice[i].paid + a) ELSE "none"]
    /\ UNCHANGED <<invoice, payment, alloc, undone, sequence>>

\* A plausible bug: the number is read without locking the sequence.
SequenceFreeAlways(r) == TRUE

SequenceFree(r) == \A q \in Others(r) : ~At(q, "record")

NumberReceipt(r) ==
    /\ At(r, "allocate")
    /\ req[r].todo = {}
    /\ SequenceFree(r)
    /\ req' = [req EXCEPT ![r].pc = "record", ![r].number = sequence]
    /\ UNCHANGED <<invoice, payment, alloc, undone, sequence>>

\* What a committed transaction leaves in an invoice.
Updated(i, written, paid) ==
    [invoice[i] EXCEPT !.paid = paid,
                       !.status = IF written[i] = "none" THEN @ ELSE written[i]]

\* A plausible bug: the surplus is lost.
CreditDropped(r) == 0

Credit(r) == req[r].left

CommitPayment(r) ==
    LET q == req[r] IN
    /\ At(r, "record")
    /\ payment' = [payment EXCEPT ![q.k] =
         [amount |-> q.amount, credit |-> Credit(r), reversed |-> 0, receipt |-> q.number]]
    /\ alloc' = [alloc EXCEPT ![q.k] = q.part]
    /\ invoice' = [i \in Invoices |->
                     Updated(i, q.written, invoice[i].paid + q.part[i])]
    /\ sequence' = sequence + 1
    /\ Finish(r)
    /\ UNCHANGED undone

-----------------------------------------------------------------------------
(* Correcting a payment: PaymentService::reverse *)

\* The payment is locked for as long as it is being reversed.
Reversing(q, k) == req[q].k = k /\ req[q].pc \in {"portion", "status"}

\* A plausible bug: what was reversed before is not subtracted.
ReversibleAgain(k) == payment[k].amount

Reversible(k) == payment[k].amount - payment[k].reversed

BeginReversal(r) ==
    /\ r \in Directors
    /\ At(r, "idle")
    /\ \E k \in Payments, a \in Amounts :
        /\ Recorded(k)
        /\ \A q \in Others(r) : ~Reversing(q, k)
        /\ a <= Reversible(k)
        /\ req' = [req EXCEPT ![r] =
             [Idle(k) EXCEPT !.pc = "portion", !.amount = a, !.left = a,
                             !.todo = {i \in Invoices : alloc[k][i] > 0}]]
    /\ UNCHANGED <<invoice, payment, alloc, undone, sequence>>

\* A plausible bug: earlier reversals of the allocation are not subtracted.
AvailableAgain(k, i) == alloc[k][i]

Available(k, i) == AtLeastZero(alloc[k][i] - undone[k][i])

\* A plausible bug: the reversal has no foreign key that waits.
ShareableAlways(r, i) == TRUE

\* FOR KEY SHARE is granted on an invoice that no payment has locked.
Shareable(r, i) == \A q \in Others(r) : i \notin req[q].locks

\* An allocation that was already reversed is passed over.
SkipPortion(r) ==
    /\ At(r, "portion")
    /\ req[r].left > 0
    /\ \E i \in req[r].todo :
        /\ Available(req[r].k, i) = 0
        /\ req' = [req EXCEPT ![r].todo = @ \ {i}]
    /\ UNCHANGED <<invoice, payment, alloc, undone, sequence>>

\* The reversal is inserted, which waits for a payment that locked the invoice;
\* then refreshStatus() reads the invoice and what is paid on it.  The order of
\* $payment->allocations is not specified.
ReversePortion(r) ==
    /\ At(r, "portion")
    /\ req[r].left > 0
    /\ \E i \in req[r].todo :
        LET a == Smaller(req[r].left, Available(req[r].k, i))
            s == StatusOf(i, invoice[i].paid - a)
            same == s = invoice[i].status
        IN
        /\ a > 0
        /\ Shareable(r, i)
        /\ req' = [req EXCEPT
             ![r].todo = @ \ {i},
             ![r].part[i] = a,
             ![r].left = @ - a,
             ![r].shares = @ \cup {i},
             ![r].pc = IF same THEN "portion" ELSE "status",
             ![r].at = i,
             ![r].next = s]
    /\ UNCHANGED <<invoice, payment, alloc, undone, sequence>>

\* Only a changed status is saved; the UPDATE waits for another one of the same
\* invoice, then overwrites it.
WriteStatus(r) ==
    LET i == req[r].at IN
    /\ At(r, "status")
    /\ \A q \in Others(r) : req[q].written[i] = "none"
    /\ req' = [req EXCEPT ![r].pc = "portion", ![r].written[i] = req[r].next]
    /\ UNCHANGED <<invoice, payment, alloc, undone, sequence>>

\* What no allocation could give back is reversed without an invoice.
CommitReversal(r) ==
    LET q == req[r] IN
    /\ At(r, "portion")
    /\ q.left = 0 \/ q.todo = {}
    /\ payment' = [payment EXCEPT ![q.k].reversed = @ + q.amount]
    /\ undone' = [undone EXCEPT ![q.k] = [i \in Invoices |-> @[i] + q.part[i]]]
    /\ invoice' = [i \in Invoices |->
                     Updated(i, q.written, invoice[i].paid - q.part[i])]
    /\ Finish(r)
    /\ UNCHANGED <<alloc, sequence>>

\* An exception, a deadlock broken by the database, a timeout, a restart.
Abort(r) ==
    /\ req[r].pc # "idle"
    /\ Finish(r)
    /\ UNCHANGED <<invoice, payment, alloc, undone, sequence>>

-----------------------------------------------------------------------------
PaymentStep(r) ==
    \/ Begin(r) \/ Insert(r) \/ InsertCollides(r) \/ LockInvoices(r)
    \/ Allocate(r) \/ NumberReceipt(r) \/ CommitPayment(r)

ReversalStep(r) ==
    \/ BeginReversal(r) \/ SkipPortion(r) \/ ReversePortion(r) \/ WriteStatus(r)
    \/ CommitReversal(r)

Next ==
    \/ \E r \in Requests : PaymentStep(r) \/ ReversalStep(r) \/ Abort(r)
    \/ \E i \in Invoices : Issue(i) \/ PassDueDate(i)

Spec == Init /\ [][Next]_vars

-----------------------------------------------------------------------------
(* Properties *)

\* Every table and every transaction holds a value the code can give it.
TypeOK ==
    /\ invoice \in [Invoices -> InvoiceRecords]
    /\ payment \in [Payments -> PaymentRecords]
    /\ alloc \in [Payments -> [Invoices -> Nat]]
    /\ undone \in [Payments -> [Invoices -> Nat]]
    /\ sequence \in Nat \ {0}
    /\ req \in [Requests -> RequestRecords]

\* However payments and reversals overlap, an invoice never receives more than
\* its total: the surplus stays with the payment as a credit.
NeverOverpaid == \A i \in Invoices : invoice[i].paid <= invoice[i].total

\* An invoice is PAID exactly when nothing is owed on it.  A PAID invoice that
\* is still owed would be skipped by every later payment.
PaidIffSettled ==
    \A i \in Invoices :
        Issued(i) => (invoice[i].status = "PAID" <=> Balance(i) = 0)

\* Receipts are numbered 1, 2, 3... without a gap or a double, whatever is
\* rolled back: an auditor can tell that none is missing.
ReceiptsGapless ==
    /\ \A n \in 1 .. sequence - 1 : \E k \in Payments : payment[k].receipt = n
    /\ \A k \in Payments : payment[k].receipt < sequence
    /\ \A j, k \in Payments :
         Recorded(j) /\ payment[j].receipt = payment[k].receipt => j = k

\* A payment is never given back more than once, in all and invoice by invoice.
ReversalsBounded ==
    \A k \in Payments :
        /\ payment[k].reversed <= payment[k].amount
        /\ \A i \in Invoices : undone[k][i] <= alloc[k][i]

\* What a payment put on invoices and took back from them, and what is paid on an
\* invoice by all of them (Invoice::paidAmount, whose max(0, ...) never has an
\* effect: the invoice's paid is a natural number and MoneyConserved equates them).
Allocated(k) == SumFunctionOnSet(alloc[k], Invoices)
Returned(k) == SumFunctionOnSet(undone[k], Invoices)
PaidAmount(i) == SumFunctionOnSet([k \in Payments |-> alloc[k][i] - undone[k][i]], Payments)

\* No money appears or is lost, however payments and reversals overlap and fail:
\* the amount of a payment is what it put on invoices and its credit; what it gave
\* back without an invoice comes out of that credit; and what is paid on an
\* invoice is what payments put on it and did not take back.
MoneyConserved ==
    /\ \A k \in Payments :
        /\ payment[k].amount = payment[k].credit + Allocated(k)
        /\ payment[k].reversed - Returned(k) \in 0 .. payment[k].credit
    /\ \A i \in Invoices : invoice[i].paid = PaidAmount(i)

\* A status that refreshStatus() computed for a sum, perhaps before the due date.
StatusFits(i, status, sum) ==
    \/ status = StatusOf(i, sum)
    \/ invoice[i].late /\ status = IF sum > 0 THEN "PARTIALLY_PAID" ELSE "ISSUED"

\* The status is the one refreshStatus() would compute, except that an invoice
\* whose due date has passed may not have been refreshed since.
StatusFollowsPayments ==
    \A i \in Invoices : Issued(i) => StatusFits(i, invoice[i].status, invoice[i].paid)

\* Once committed, concurrent payments and reversals are operations of the
\* ledger that happened one after the other.
Ledger == INSTANCE PupilLedger WITH
    due <- [i \in Invoices |-> invoice[i].total],
    covered <- [i \in Invoices |-> invoice[i].paid],
    share <- [k \in Payments |-> [i \in Invoices |-> alloc[k][i] - undone[k][i]]],
    posted <- {k \in Payments : Recorded(k)}

ImplementsLedger == Ledger!Spec

-----------------------------------------------------------------------------
(* The inductive invariant behind the theorems of PaymentsProofs *)

\* A payment that is being confirmed only writes invoices that it has locked,
\* and what it will leave in them is right.
ConfirmationSound(r) ==
    LET q == req[r] IN
    /\ q.shares = {}
    /\ q.todo \subseteq q.locks
    /\ q.pc = "record" => q.number = sequence
    /\ \A i \in Invoices :
        /\ i \in q.locks => Open(i) /\ invoice[i].paid + q.part[i] <= invoice[i].total
        /\ i \in q.todo \/ i \notin q.locks => q.part[i] = 0
        /\ q.written[i] = "none" <=> q.part[i] = 0
        /\ q.part[i] > 0 =>
             (q.written[i] = "PAID" <=> invoice[i].paid + q.part[i] = invoice[i].total)

\* A reversal shares the invoices it gives back from, gives back what is there,
\* and leaves none of them PAID.
ReversalSound(r) ==
    LET q == req[r] IN
    /\ q.locks = {}
    /\ Recorded(q.k)
    /\ q.amount <= Reversible(q.k)
    /\ \A i \in Invoices :
        /\ i \in q.shares <=> q.part[i] > 0
        /\ i \in q.todo => i \notin q.shares
        /\ q.part[i] <= alloc[q.k][i] - undone[q.k][i]
        /\ q.written[i] # "none" => i \in q.shares
        /\ q.written[i] # "PAID"
        /\ i \in q.shares /\ q.written[i] = "none" /\ ~(q.pc = "status" /\ q.at = i)
             => invoice[i].status # "PAID"
    /\ q.pc = "status" => q.at \in q.shares /\ q.next \in OpenStatuses

HoldsNothing(r) ==
    /\ req[r].part = Nothing
    /\ req[r].written = Unwritten
    /\ req[r].locks = {}
    /\ req[r].shares = {}

RequestSound(r) ==
    /\ req[r].pc \in {"idle", "insert", "lock"} => HoldsNothing(r)
    /\ req[r].pc \in {"allocate", "record"} => ConfirmationSound(r)
    /\ req[r].pc \in {"portion", "status"} => ReversalSound(r)

\* What the locks of the database keep apart.
Apart(r, q) ==
    /\ \A i \in req[r].locks :
         /\ i \notin req[q].locks
         /\ i \notin req[q].shares
         /\ req[q].written[i] = "none"
    /\ ~(At(r, "record") /\ At(q, "record"))
    /\ \A k \in Payments :
         /\ ~(Inserting(r, k) /\ Inserting(q, k))
         /\ ~(Reversing(r, k) /\ Reversing(q, k))

InvoicesSound ==
    \A i \in Invoices :
        /\ ~Issued(i) => invoice[i] = NoInvoice
        /\ Issued(i) => invoice[i].total > 0
        /\ Issued(i) => (invoice[i].status = "PAID" <=> invoice[i].paid = invoice[i].total)

PaymentsSound ==
    \A k \in Payments :
        /\ ~Recorded(k) => payment[k] = NoPayment /\ alloc[k] = Nothing /\ undone[k] = Nothing
        /\ \A r \in Requests : Inserting(r, k) => ~Recorded(k)
        /\ \A i \in Invoices : alloc[k][i] > 0 => Issued(i)

IndInv ==
    /\ TypeOK
    /\ \A r \in Requests : RequestSound(r)
    /\ \A r, q \in Requests : r # q => Apart(r, q)
    /\ InvoicesSound
    /\ PaymentsSound
    /\ NeverOverpaid
    /\ ReversalsBounded
    /\ ReceiptsGapless

-----------------------------------------------------------------------------
(* The money of the transactions under way *)

\* A transaction has distributed what it no longer has left, and a reversal goes
\* on to the next allocation only once the one before is used up.
MoneyInHand(r) ==
    LET q == req[r] IN
    /\ q.amount = q.left + SumFunctionOnSet(q.part, Invoices)
    /\ q.pc \in {"portion", "status"} /\ q.left > 0 =>
         \A i \in Invoices \ q.todo : q.part[i] = alloc[q.k][i] - undone[q.k][i]

MoneySound == MoneyConserved /\ \A r \in Requests : MoneyInHand(r)

-----------------------------------------------------------------------------
(* The statuses, when one director at a time reverses payments *)

SingleDirector == \A d, e \in Directors : d = e

\* The status that a reversal leaves in an invoice it shares.
StatusLeft(r, i) ==
    IF At(r, "status") /\ req[r].at = i THEN req[r].next
    ELSE IF req[r].written[i] # "none" THEN req[r].written[i] ELSE invoice[i].status

\* What a transaction commits fits the sums that it commits.
CommitFits(r) ==
    /\ req[r].pc \in {"allocate", "record"} => \A i \in Invoices :
         req[r].part[i] > 0 =>
           StatusFits(i, req[r].written[i], invoice[i].paid + req[r].part[i])
    /\ req[r].pc \in {"portion", "status"} =>
         /\ r \in Directors
         /\ \A i \in req[r].shares :
              StatusFits(i, StatusLeft(r, i), invoice[i].paid - req[r].part[i])

StatusesSound ==
    /\ StatusFollowsPayments
    /\ \A r \in Requests : CommitFits(r)
=============================================================================
