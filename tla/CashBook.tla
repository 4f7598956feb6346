------------------------------ MODULE CashBook ------------------------------
(***************************************************************************)
(* The cash book of one day: its expenses with their approval and their    *)
(* reversals (ExpenseService), the journal that adds it up                 *)
(* (CashJournalService) and the closure of the day (CashClosureService).   *)
(*                                                                         *)
(* Recording and reversing run in a transaction with a lock.  Approvals,   *)
(* rejections and closures do not: they write the columns that differ from *)
(* the copy they loaded, whatever the row has become.                      *)
(***************************************************************************)
EXTENDS Integers, FiniteSets, Functions

CONSTANTS Accountants, Directors,  \* their requests, one at a time each
          Expenses,                \* the rows of expenses, created or not
          Threshold,               \* schools.expense_approval_threshold
          MaxAmount,               \* bound on one amount
          MaxReceipts,             \* bound on the cash received in the day
          Opening                  \* the opening balance recorded for the day

ASSUME ConstantsAssumption ==
    /\ IsFiniteSet(Expenses) /\ Expenses # {}
    /\ Threshold \in Nat /\ MaxAmount \in Nat \ {0} /\ MaxReceipts \in Nat
    /\ Opening \in Nat

VARIABLES
    expense,   \* the tables expenses and expense_reversals
    next,      \* receipt_sequences.next_number of the vouchers
    receipts,  \* the confirmed cash payments of the day
    closure,   \* the row of cash_closures: its status and its signature
    figures,   \* its balances
    req,       \* what each request is doing
    count      \* what a submission has added up and loaded

vars == <<expense, next, receipts, closure, figures, req, count>>
expenseVars == <<expense, next>>
closureVars == <<closure, figures>>

Users == Accountants \cup Directors
Amounts == 1..MaxAmount

\* corrects: correction_of_id; signed: approved_by; reversed: the sum of the reversals.
ExpenseRow == [status : {"absent", "pending", "approved", "rejected"}, amount : Amounts,
               corrects : SUBSET Expenses, signed : BOOLEAN, reversed : 0..MaxAmount,
               voucher : Nat]
NoExpense == [status |-> "absent", amount |-> 1, corrects |-> {}, signed |-> FALSE,
              reversed |-> 0, voucher |-> 0]
Recorded == {e \in Expenses : expense[e].status # "absent"}

ClosureRow == [status : {"none", "pending", "closed"}, signed : BOOLEAN]
NoClosure == [status |-> "none", signed |-> FALSE]

Steps == {"idle", "entered", "numbered", "approve", "reject", "reverse", "locked",
          "receipts", "expenses", "checked", "found", "sign"}
RequestRow == [pc : Steps, e : Expenses, amount : Amounts, corrects : SUBSET Expenses,
               number : Nat, available : 0..MaxAmount]
Idle == [pc |-> "idle", e |-> CHOOSE e \in Expenses : TRUE, amount |-> 1, corrects |-> {},
         number |-> 0, available |-> 0]

NoFigures == [theoretical |-> 0, physical |-> 0, variance |-> 0]
NoCount == [total |-> 0, physical |-> 0, row |-> NoClosure, copy |-> NoFigures]

Init ==
    /\ expense = [e \in Expenses |-> NoExpense]
    /\ next = 1
    /\ receipts = 0
    /\ closure = NoClosure
    /\ figures = NoFigures
    /\ req = [u \in Users |-> Idle]
    /\ count = [u \in Users |-> NoCount]

At(u, pc) == req[u].pc = pc
Goto(u, pc) == req' = [req EXCEPT ![u].pc = pc]
Finish(u) == req' = [req EXCEPT ![u] = Idle] /\ count' = [count EXCEPT ![u] = NoCount]

-----------------------------------------------------------------------------
(* ExpenseService                                                           *)

\* A plausible bug: any expense can be submitted again.
ResubmittableAlways(u, e) == u \in Accountants /\ expense[e].status # "absent"

\* ExpensePolicy: an accountant submits a rejected expense again.
Resubmittable(u, e) == u \in Accountants /\ expense[e].status = "rejected"

\* record(), and resubmit() whose test comes before the transaction.
Enter(u) ==
    /\ At(u, "idle")
    /\ \E a \in Amounts, c \in {{}} \cup {{e} : e \in {f \in Expenses : Resubmittable(u, f)}} :
          req' = [req EXCEPT ![u] =
                     [Idle EXCEPT !.pc = "entered", !.amount = a, !.corrects = c]]
    /\ UNCHANGED <<expenseVars, receipts, closureVars, count>>

\* A plausible bug: the sequence is read without a lock.
SequenceUnlocked == TRUE

\* The row of the sequence is locked from the reading of the number to the commit.
SequenceFree == \A v \in Users : ~At(v, "numbered")

TakeNumber(u) ==
    /\ At(u, "entered")
    /\ SequenceFree
    /\ Recorded # Expenses
    /\ req' = [req EXCEPT ![u].pc = "numbered", ![u].number = next]
    /\ UNCHANGED <<expenseVars, receipts, closureVars, count>>

\* Up to the threshold nobody is asked.
Approved(amount) == amount <= Threshold

\* The transaction commits: the increment and the new expense.
CommitExpense(u) ==
    /\ At(u, "numbered")
    /\ \E e \in Expenses \ Recorded :
          expense' = [expense EXCEPT ![e] =
             [NoExpense EXCEPT !.status = IF Approved(req[u].amount) THEN "approved" ELSE "pending",
                               !.amount = req[u].amount, !.corrects = req[u].corrects,
                               !.voucher = req[u].number]]
    /\ next' = req[u].number + 1
    /\ Finish(u)
    /\ UNCHANGED <<receipts, closureVars>>

\* approve() and reject() look at the copy of the expense that the page loaded.
Decide(u) ==
    /\ u \in Directors
    /\ At(u, "idle")
    /\ \E e \in Expenses, pc \in {"approve", "reject"} :
          /\ expense[e].status = "pending"
          /\ req' = [req EXCEPT ![u] = [Idle EXCEPT !.pc = pc, !.e = e]]
    /\ UNCHANGED <<expenseVars, receipts, closureVars, count>>

Approve(u) ==
    /\ At(u, "approve")
    /\ expense' = [expense EXCEPT ![req[u].e].status = "approved", ![req[u].e].signed = TRUE]
    /\ Finish(u)
    /\ UNCHANGED <<next, receipts, closureVars>>

\* The copy has no approver, so approved_by => null writes nothing.
Reject(u) ==
    /\ At(u, "reject")
    /\ expense' = [expense EXCEPT ![req[u].e].status = "rejected"]
    /\ Finish(u)
    /\ UNCHANGED <<next, receipts, closureVars>>

\* The row of an expense is locked until the reversal commits.
ExpenseFree(e) == \A v \in Users : ~(At(v, "locked") /\ req[v].e = e)

\* reverse(): under the lock of the expense; its status does not matter.
BeginReversal(u) ==
    /\ u \in Directors
    /\ At(u, "idle")
    /\ \E e \in Recorded, a \in Amounts :
          req' = [req EXCEPT ![u] = [Idle EXCEPT !.pc = "reverse", !.e = e, !.amount = a]]
    /\ UNCHANGED <<expenseVars, receipts, closureVars, count>>

\* A plausible bug: what was given back before is forgotten.
AvailableAmount(e) == expense[e].amount

Available(e) == expense[e].amount - expense[e].reversed

LockExpense(u) ==
    /\ At(u, "reverse")
    /\ ExpenseFree(req[u].e)
    /\ req' = [req EXCEPT ![u].pc = "locked", ![u].available = Available(req[u].e)]
    /\ UNCHANGED <<expenseVars, receipts, closureVars, count>>

CommitReversal(u) ==
    LET e == req[u].e IN
    /\ At(u, "locked")
    /\ expense' = IF req[u].amount <= req[u].available
                    THEN [expense EXCEPT ![e].reversed = expense[e].reversed + req[u].amount]
                    ELSE expense
    /\ Finish(u)
    /\ UNCHANGED <<next, receipts, closureVars>>

-----------------------------------------------------------------------------
(* CashJournalService                                                       *)

\* netAmount() of the expenses the journal takes.
Net == [e \in Expenses |-> Available(e)]
Spent(set) == SumFunctionOnSet(Net, set)

\* summary() counts what is approved; the opening balance of the next day comes
\* from closing(), which counts every expense.
Counting == {e \in Expenses : expense[e].status = "approved"}
Closing == Opening + receipts - Spent(Counting)
NextOpening == Opening + receipts - Spent(Recorded)

\* A cash payment of the day is confirmed (module Payments).
Receive ==
    /\ receipts < MaxReceipts
    /\ receipts' = receipts + 1
    /\ UNCHANGED <<expenseVars, closureVars, req, count>>

-----------------------------------------------------------------------------
(* CashClosureService                                                       *)

\* submit() adds up the journal, one query after the other.
CountReceipts(u) ==
    /\ u \in Accountants
    /\ At(u, "idle")
    /\ Goto(u, "receipts")
    /\ \E p \in 0..MaxAmount :
          count' = [count EXCEPT ![u] = [NoCount EXCEPT !.total = Opening + receipts,
                                                        !.physical = p]]
    /\ UNCHANGED <<expenseVars, receipts, closureVars>>

CountExpenses(u) ==
    /\ At(u, "receipts")
    /\ Goto(u, "expenses")
    /\ count' = [count EXCEPT ![u].total =
           count[u].total - Spent(Counting)]
    /\ UNCHANGED <<expenseVars, receipts, closureVars>>

\* A closed day is refused.
CheckClosure(u) ==
    /\ At(u, "expenses")
    /\ IF closure.status = "closed" THEN Finish(u) ELSE Goto(u, "checked") /\ UNCHANGED count
    /\ UNCHANGED <<expenseVars, receipts, closureVars>>

Counted(u) == [theoretical |-> count[u].total, physical |-> count[u].physical,
               variance |-> count[u].physical - count[u].total]

\* updateOrCreate(): a first submission inserts the row, any other loads it.
CreateClosure(u) ==
    /\ At(u, "checked")
    /\ closure.status = "none"
    /\ closure' = [status |-> "pending", signed |-> FALSE]
    /\ figures' = Counted(u)
    /\ Finish(u)
    /\ UNCHANGED <<expenseVars, receipts>>

FindClosure(u) ==
    /\ At(u, "checked")
    /\ closure.status # "none"
    /\ Goto(u, "found")
    /\ count' = [count EXCEPT ![u].row = closure, ![u].copy = figures]
    /\ UNCHANGED <<expenseVars, receipts, closureVars>>

\* A plausible bug: the row is made pending and keeps its approver.
SavedClosureSigned(u) ==
    [status |-> IF count[u].row.status = "pending" THEN closure.status ELSE "pending",
     signed |-> closure.signed]

\* ... and writes the columns that differ from what it has loaded.
SavedClosure(u) ==
    [status |-> IF count[u].row.status = "pending" THEN closure.status ELSE "pending",
     signed |-> IF count[u].row.signed THEN FALSE ELSE closure.signed]

\* A plausible bug: the variance is taken over from the row.
SavedFiguresStale(u) == [Counted(u) EXCEPT !.variance = figures.variance]

SavedFigures(u) ==
    [k \in DOMAIN NoFigures |->
        IF Counted(u)[k] = count[u].copy[k] THEN figures[k] ELSE Counted(u)[k]]

SaveClosure(u) ==
    /\ At(u, "found")
    /\ closure' = SavedClosure(u)
    /\ figures' = SavedFigures(u)
    /\ Finish(u)
    /\ UNCHANGED <<expenseVars, receipts>>

\* approve(): a director has loaded a pending closure and signs it.
LoadClosure(u) ==
    /\ u \in Directors
    /\ At(u, "idle")
    /\ closure.status = "pending"
    /\ Goto(u, "sign")
    /\ UNCHANGED <<expenseVars, receipts, closureVars, count>>

SignClosure(u) ==
    /\ At(u, "sign")
    /\ closure' = [status |-> "closed", signed |-> TRUE]
    /\ Finish(u)
    /\ UNCHANGED <<expenseVars, receipts, figures>>

-----------------------------------------------------------------------------
\* A request that fails or dies has written nothing.
Abort(u) ==
    /\ ~At(u, "idle")
    /\ Finish(u)
    /\ UNCHANGED <<expenseVars, receipts, closureVars>>

Next ==
    \/ Receive
    \/ \E u \in Users :
          \/ Enter(u) \/ TakeNumber(u) \/ CommitExpense(u)
          \/ Decide(u) \/ Approve(u) \/ Reject(u)
          \/ BeginReversal(u) \/ LockExpense(u) \/ CommitReversal(u)
          \/ CountReceipts(u) \/ CountExpenses(u) \/ CheckClosure(u)
          \/ CreateClosure(u) \/ FindClosure(u) \/ SaveClosure(u)
          \/ LoadClosure(u) \/ SignClosure(u)
          \/ Abort(u)

Spec == Init /\ [][Next]_vars

-----------------------------------------------------------------------------
(* Properties                                                               *)

TypeOK ==
    /\ expense \in [Expenses -> ExpenseRow]
    /\ next \in Nat \ {0}
    /\ receipts \in 0..MaxReceipts
    /\ closure \in ClosureRow
    /\ req \in [Users -> RequestRow]
    /\ DOMAIN count = Users
    /\ \A u \in Users : DOMAIN count[u] = DOMAIN NoCount

(***************************************************************************)
(* Vouchers DEP-000001, DEP-000002, ... are given without gap or double,   *)
(* however recordings overlap and fail (the sequence is locked and rolled  *)
(* back with its transaction).                                             *)
(***************************************************************************)
VouchersGapless ==
    /\ \A e, f \in Recorded : expense[e].voucher = expense[f].voucher => e = f
    /\ {expense[e].voucher : e \in Recorded} = 1..(next - 1)

(***************************************************************************)
(* Reversals give back at most what was spent, however they overlap.       *)
(***************************************************************************)
ReversalsBounded == \A e \in Expenses : expense[e].reversed <= expense[e].amount

(***************************************************************************)
(* An expense counts in the journal only if it needs no approval or a      *)
(* director has given one, even when approvals and rejections overlap.     *)
(***************************************************************************)
CountedIsSigned ==
    \A e \in Expenses :
       expense[e].status = "approved" => expense[e].amount <= Threshold \/ expense[e].signed

(***************************************************************************)
(* With one director at a time, an expense and its correction never both   *)
(* count: what is corrected is rejected and stays so (resubmit()).         *)
(***************************************************************************)
CorrectedIsRejected ==
    \A e \in Expenses : \A f \in expense[e].corrects : expense[f].status = "rejected"

(***************************************************************************)
(* The signature goes with the status: a submission that makes the closure *)
(* pending again takes the approval back with it, whatever row it loaded.  *)
(***************************************************************************)
SignedIffClosed == closure.signed <=> closure.status = "closed"

(***************************************************************************)
(* With one submission at a time, the variance is the difference of the    *)
(* two balances beside it, although only changed columns are written.      *)
(***************************************************************************)
VarianceAddsUp ==
    closure.status # "none" => figures.variance = figures.physical - figures.theoretical

(***************************************************************************)
(* CashClosureService::submit(): "Une cloture validee est immuable."       *)
(***************************************************************************)
ClosedImmutable ==
    [][closure.status = "closed" => UNCHANGED closureVars]_vars

(***************************************************************************)
(* The journal opens a day with what it closed the day before with         *)
(* (CashJournalService: summary() takes the opening balance of closing()). *)
(***************************************************************************)
CarriedOver == NextOpening = Closing

(***************************************************************************)
(* What CarriedOver misses: the next day opens with less than the day      *)
(* closed with, short of exactly the expenses that wait for approval or    *)
(* were rejected, and with as much only when these were all given back     *)
(* (closing() sums what summary() leaves out).                             *)
(***************************************************************************)
OpeningGap ==
    /\ Closing - NextOpening = Spent(Recorded \ Counting)
    /\ NextOpening <= Closing
    /\ CarriedOver <=> \A e \in Recorded \ Counting : Available(e) = 0

-----------------------------------------------------------------------------
(* The inductive invariants                                                 *)

\* What a request has read under a lock is what the tables hold.
Sound(u) ==
    /\ At(u, "numbered") => req[u].number = next
    /\ req[u].pc \in {"approve", "reject", "reverse", "locked"} =>
          expense[req[u].e].status # "absent"
    /\ At(u, "locked") => req[u].available = Available(req[u].e)
    /\ At(u, "found") => /\ count[u].row \in ClosureRow
                         /\ count[u].row.status # "none"
                         /\ count[u].row.signed <=> count[u].row.status = "closed"

RequestsSound == \A u \in Users : Sound(u)

\* Two requests never hold the same lock.
Apart ==
    \A u, v \in Users : u # v =>
       /\ ~(At(u, "numbered") /\ At(v, "numbered"))
       /\ ~(At(u, "locked") /\ At(v, "locked") /\ req[u].e = req[v].e)

VouchersBelowNext == \A e \in Recorded : expense[e].voucher \in 1..(next - 1)

IndInv ==
    /\ TypeOK
    /\ RequestsSound
    /\ Apart
    /\ VouchersBelowNext
    /\ VouchersGapless
    /\ ReversalsBounded
    /\ CountedIsSigned
    /\ SignedIffClosed

\* One director decides at a time.
SingleDirector == \A u, v \in Directors : u = v

DecisionsSound ==
    \A u \in Users :
       /\ At(u, "approve") \/ At(u, "reject") =>
             u \in Directors /\ expense[req[u].e].status = "pending"
       /\ \A e \in req[u].corrects : expense[e].status = "rejected"

\* One accountant submits at a time.
SingleAccountant == \A u, v \in Accountants : u = v

Submitting == {"receipts", "expenses", "checked", "found"}
SubmissionsSound ==
    \A u \in Users :
       /\ req[u].pc \in Submitting => u \in Accountants
       /\ At(u, "found") => count[u].copy = figures
       /\ At(u, "found") \/ At(u, "sign") => closure.status # "none"

=============================================================================
