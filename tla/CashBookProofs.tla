--------------------------- MODULE CashBookProofs ---------------------------
(***************************************************************************)
(* Theorems about CashBook, for any number of users and expenses, any      *)
(* threshold and any bounds.  The one about corrections assumes a single   *)
(* director, the one about the variance a single accountant.               *)
(*                                                                         *)
(* The sums of the journal are those of SumTheorems; only the theorem      *)
(* about the opening balance of the next day looks into them.              *)
(***************************************************************************)
EXTENDS CashBook, SumTheorems

USE DEF At

\* The amounts that a request or a row starts with are well typed.
LEMMA EmptyTypes ==
    /\ NoExpense \in ExpenseRow
    /\ Idle \in RequestRow
    /\ NoClosure \in ClosureRow
<1>1. NoExpense \in ExpenseRow
  BY ConstantsAssumption DEF NoExpense, ExpenseRow, Amounts
<1>2. NoClosure \in ClosureRow
  BY DEF NoClosure, ClosureRow
<1>3. (CHOOSE e \in Expenses : TRUE) \in Expenses
  BY ConstantsAssumption
<1>4. Idle \in RequestRow
  BY <1>3, ConstantsAssumption DEF Idle, RequestRow, Steps, Amounts
<1> QED BY <1>1, <1>2, <1>4

\* Nothing is held by a request that has ended.
LEMMA IdleHoldsNothing ==
    Idle.pc = "idle" /\ Idle.corrects = {} /\ DOMAIN NoCount = {"total", "physical", "row", "copy"}
BY DEF Idle, NoCount

(***************************************************************************)
(* A step that only moves the request of u, to x and y, keeps the          *)
(* invariant when x and y hold what the tables hold.                       *)
(***************************************************************************)
LEMMA QuietStep ==
    ASSUME IndInv, NEW u \in Users, NEW x \in RequestRow, NEW y,
           req' = [req EXCEPT ![u] = x],
           DOMAIN count' = Users, count'[u] = y, DOMAIN y = DOMAIN NoCount,
           \A v \in Users \ {u} : count'[v] = count[v],
           x.pc = "numbered" => x.number = next /\ SequenceFree,
           x.pc \in {"approve", "reject", "reverse", "locked"} =>
              expense[x.e].status # "absent",
           x.pc = "locked" => x.available = Available(x.e) /\ ExpenseFree(x.e),
           x.pc = "found" => /\ y.row \in ClosureRow /\ y.row.status # "none"
                             /\ y.row.signed <=> y.row.status = "closed",
           expense' = expense, next' = next, closure' = closure, receipts' = receipts
    PROVE  IndInv'
<1>t. req \in [Users -> RequestRow]
  BY DEF IndInv, TypeOK
<1>r. req'[u] = x /\ \A v \in Users \ {u} : req'[v] = req[v]
  BY <1>t
<1>1. TypeOK'
  <2>1. req' \in [Users -> RequestRow]
    BY <1>t
  <2>2. \A v \in Users : DOMAIN count'[v] = DOMAIN NoCount
    BY DEF IndInv, TypeOK
  <2> QED BY <2>1, <2>2 DEF IndInv, TypeOK
<1>2. RequestsSound'
  <2>1. Sound(u)'
    BY <1>r DEF Sound, Available
  <2>2. ASSUME NEW v \in Users \ {u} PROVE Sound(v)'
    BY <1>r DEF IndInv, RequestsSound, Sound, Available
  <2> QED BY <2>1, <2>2 DEF RequestsSound
<1>3. Apart'
  BY <1>r DEF IndInv, Apart, SequenceFree, ExpenseFree
<1> QED BY <1>1, <1>2, <1>3 DEF IndInv, VouchersBelowNext, VouchersGapless, Recorded,
        ReversalsBounded, CountedIsSigned, SignedIffClosed

\* A request that ends without having written anything keeps the invariant.
LEMMA FinishStep ==
    ASSUME IndInv, NEW u \in Users, Finish(u),
           expense' = expense, next' = next, closure' = closure, receipts' = receipts
    PROVE  IndInv'
<1>1. DOMAIN count = Users /\ req' = [req EXCEPT ![u] = Idle] /\ count' = [count EXCEPT ![u] = NoCount]
  BY DEF IndInv, TypeOK, Finish
<1>2. DOMAIN count' = Users /\ count'[u] = NoCount /\ \A v \in Users \ {u} : count'[v] = count[v]
  BY <1>1
<1> QED BY QuietStep, EmptyTypes, IdleHoldsNothing, <1>1, <1>2

\* Initially nothing is recorded.
LEMMA InitInv == Init => IndInv
<1> SUFFICES ASSUME Init PROVE IndInv
  OBVIOUS
<1>1. TypeOK
  BY EmptyTypes, ConstantsAssumption DEF Init, TypeOK
<1>2. Recorded = {}
  BY DEF Init, Recorded, NoExpense
<1>3. RequestsSound /\ Apart
  BY DEF Init, RequestsSound, Sound, Apart, Idle
<1>4. VouchersBelowNext /\ VouchersGapless
  <2>1. 1..(next - 1) = {}
    BY DEF Init
  <2> QED BY <1>2, <2>1 DEF VouchersBelowNext, VouchersGapless
<1>5. ReversalsBounded /\ CountedIsSigned /\ SignedIffClosed
  BY DEF Init, ReversalsBounded, CountedIsSigned, SignedIffClosed, NoExpense, NoClosure
<1> QED BY <1>1, <1>3, <1>4, <1>5 DEF IndInv

\* The steps of a request that read, one lemma for each group of them.
LEMMA ExpenseReads ==
    ASSUME IndInv, NEW u \in Users,
           Enter(u) \/ TakeNumber(u) \/ Decide(u) \/ BeginReversal(u) \/ LockExpense(u)
    PROVE  IndInv'
<1>t. /\ req[u] \in RequestRow /\ next \in Nat /\ DOMAIN count = Users
      /\ DOMAIN count[u] = DOMAIN NoCount /\ expense \in [Expenses -> ExpenseRow]
  BY DEF IndInv, TypeOK
<1>s. {"entered", "numbered", "approve", "reject", "reverse", "locked"} \subseteq Steps
  BY DEF Steps
<1>1. CASE Enter(u)
  <2>1. PICK a \in Amounts, c \in {{}} \cup {{e} : e \in {f \in Expenses : Resubmittable(u, f)}} :
           req' = [req EXCEPT ![u] =
                     [Idle EXCEPT !.pc = "entered", !.amount = a, !.corrects = c]]
    BY <1>1 DEF Enter
  <2> DEFINE x == [Idle EXCEPT !.pc = "entered", !.amount = a, !.corrects = c]
  <2>2. c \in SUBSET Expenses
    OBVIOUS
  <2>3. x \in RequestRow /\ x.pc = "entered"
    BY <2>2, <1>s, EmptyTypes DEF RequestRow
  <2> HIDE DEF x
  <2> QED BY QuietStep, <2>1, <2>3, <1>1, <1>t DEF Enter, expenseVars, closureVars, x
<1>2. CASE TakeNumber(u)
  <2> DEFINE x == [req[u] EXCEPT !.pc = "numbered", !.number = next]
  <2>1. x \in RequestRow /\ x.pc = "numbered" /\ x.number = next
    BY <1>t, <1>s DEF RequestRow
  <2>2. req' = [req EXCEPT ![u] = x]
    BY <1>2 DEF TakeNumber
  <2> HIDE DEF x
  <2> QED BY QuietStep, <2>1, <2>2, <1>2, <1>t DEF TakeNumber, expenseVars, closureVars
<1>3. CASE Decide(u)
  <2>1. PICK e \in Expenses, pc \in {"approve", "reject"} :
          /\ expense[e].status = "pending"
          /\ req' = [req EXCEPT ![u] = [Idle EXCEPT !.pc = pc, !.e = e]]
    BY <1>3 DEF Decide
  <2> DEFINE x == [Idle EXCEPT !.pc = pc, !.e = e]
  <2>2. x \in RequestRow /\ x.pc = pc /\ x.e = e
    BY <1>s, EmptyTypes DEF RequestRow
  <2>3. req' = [req EXCEPT ![u] = x]
    BY <2>1
  <2>4. expense[x.e].status # "absent" /\ x.pc \notin {"numbered", "locked", "found"}
    BY <2>1, <2>2
  <2>5. /\ expense' = expense /\ next' = next /\ closure' = closure /\ receipts' = receipts
        /\ count' = count
    BY <1>3 DEF Decide, expenseVars, closureVars
  <2> HIDE DEF x
  <2> QED BY QuietStep, <2>2, <2>3, <2>4, <2>5, <1>t
<1>4. CASE BeginReversal(u)
  <2>1. PICK e \in Recorded, a \in Amounts :
          req' = [req EXCEPT ![u] = [Idle EXCEPT !.pc = "reverse", !.e = e, !.amount = a]]
    BY <1>4 DEF BeginReversal
  <2> DEFINE x == [Idle EXCEPT !.pc = "reverse", !.e = e, !.amount = a]
  <2>2. x \in RequestRow /\ x.pc = "reverse" /\ x.e = e
    BY <1>s, EmptyTypes DEF RequestRow, Recorded
  <2>3. expense[e].status # "absent"
    BY DEF Recorded
  <2>4. req' = [req EXCEPT ![u] = x]
    BY <2>1
  <2> HIDE DEF x
  <2> QED BY QuietStep, <2>2, <2>3, <2>4, <1>4, <1>t DEF BeginReversal, expenseVars, closureVars
<1>5. CASE LockExpense(u)
  <2> DEFINE e == req[u].e
             x == [req[u] EXCEPT !.pc = "locked", !.available = Available(e)]
  <2>1. e \in Expenses /\ expense[e].reversed <= expense[e].amount
    BY <1>t DEF RequestRow, IndInv, ReversalsBounded
  <2>2. expense[e].amount \in 1..MaxAmount /\ expense[e].reversed \in 0..MaxAmount
    BY <2>1, <1>t DEF ExpenseRow, Amounts
  <2>3. Available(e) \in 0..MaxAmount
    BY <2>1, <2>2, ConstantsAssumption DEF Available
  <2>4. x \in RequestRow /\ x.pc = "locked" /\ x.e = e /\ x.available = Available(e)
    BY <2>3, <1>t, <1>s DEF RequestRow
  <2>5. req' = [req EXCEPT ![u] = x]
    BY <1>5 DEF LockExpense
  <2>6. expense[e].status # "absent"
    BY <1>5 DEF LockExpense, IndInv, RequestsSound, Sound
  <2> HIDE DEF x, e
  <2>7. ExpenseFree(e)
    BY <1>5 DEF LockExpense, e
  <2>8. /\ count' = count /\ expense' = expense /\ next' = next /\ closure' = closure
        /\ receipts' = receipts
    BY <1>5 DEF LockExpense, expenseVars, closureVars
  <2> QED BY QuietStep, <2>4, <2>5, <2>6, <2>7, <2>8, <1>t
<1> QED BY <1>1, <1>2, <1>3, <1>4, <1>5

\* A closure goes on; what it has loaded is what the table holds.
LEMMA GotoStep ==
    ASSUME IndInv, NEW u \in Users,
           NEW pc \in {"receipts", "expenses", "checked", "found", "sign"}, Goto(u, pc),
           DOMAIN count' = Users, DOMAIN count'[u] = DOMAIN NoCount,
           \A v \in Users \ {u} : count'[v] = count[v],
           pc = "found" => count'[u].row = closure /\ closure.status # "none",
           expense' = expense, next' = next, closure' = closure, receipts' = receipts
    PROVE  IndInv'
<1> DEFINE x == [req[u] EXCEPT !.pc = pc]
<1>1. x \in RequestRow /\ x.pc = pc
  BY DEF IndInv, TypeOK, RequestRow, Steps
<1>2. req' = [req EXCEPT ![u] = x]
  BY DEF Goto
<1>3. closure \in ClosureRow /\ (closure.signed <=> closure.status = "closed")
  BY DEF IndInv, TypeOK, SignedIffClosed
<1>4. x.pc \notin {"numbered", "approve", "reject", "reverse", "locked"}
  BY <1>1
<1> HIDE DEF x
<1> QED BY QuietStep, <1>1, <1>2, <1>3, <1>4

LEMMA ClosureReads ==
    ASSUME IndInv, NEW u \in Users,
           \/ CountReceipts(u) \/ CountExpenses(u) \/ CheckClosure(u)
           \/ FindClosure(u) \/ LoadClosure(u)
    PROVE  IndInv'
<1>t. /\ req[u] \in RequestRow /\ DOMAIN count = Users
      /\ DOMAIN count[u] = {"total", "physical", "row", "copy"}
      /\ DOMAIN NoCount = {"total", "physical", "row", "copy"}
  BY IdleHoldsNothing DEF IndInv, TypeOK
<1>1. CASE CountReceipts(u)
  <2>1. PICK p \in 0..MaxAmount :
          count' = [count EXCEPT ![u] = [NoCount EXCEPT !.total = Opening + receipts,
                                                        !.physical = p]]
    BY <1>1 DEF CountReceipts
  <2>2. DOMAIN count' = Users /\ DOMAIN count'[u] = DOMAIN NoCount
        /\ \A v \in Users \ {u} : count'[v] = count[v]
    BY <2>1, <1>t
  <2> QED BY GotoStep, <2>2, <1>1 DEF CountReceipts, expenseVars, closureVars
<1>2. CASE CountExpenses(u)
  <2>1. DOMAIN count' = Users /\ DOMAIN count'[u] = DOMAIN NoCount
        /\ \A v \in Users \ {u} : count'[v] = count[v]
    BY <1>2, <1>t DEF CountExpenses
  <2> QED BY GotoStep, <2>1, <1>2 DEF CountExpenses, expenseVars, closureVars
<1>3. CASE CheckClosure(u)
  <2>1. CASE Finish(u)
    BY FinishStep, <2>1, <1>3 DEF CheckClosure, expenseVars, closureVars
  <2>2. CASE Goto(u, "checked") /\ count' = count
    BY GotoStep, <2>2, <1>3, <1>t DEF CheckClosure, expenseVars, closureVars
  <2> QED BY <2>1, <2>2, <1>3 DEF CheckClosure
<1>4. CASE FindClosure(u)
  <2>1. /\ DOMAIN count' = Users /\ DOMAIN count'[u] = DOMAIN NoCount
        /\ count'[u].row = closure
        /\ \A v \in Users \ {u} : count'[v] = count[v]
    BY <1>4, <1>t DEF FindClosure
  <2> QED BY GotoStep, <2>1, <1>4 DEF FindClosure, expenseVars, closureVars
<1>5. CASE LoadClosure(u)
  BY GotoStep, <1>5, <1>t DEF LoadClosure, expenseVars, closureVars
<1> QED BY <1>1, <1>2, <1>3, <1>4, <1>5

(***************************************************************************)
(* A request that changes the row of a recorded expense and ends keeps the *)
(* invariant when the row keeps its amount and voucher, is sound by itself *)
(* and nobody else holds its lock while its reversals change.              *)
(***************************************************************************)
LEMMA RowStep ==
    ASSUME IndInv, NEW u \in Users, NEW e \in Expenses, NEW x \in ExpenseRow,
           expense[e].status # "absent", x.status # "absent",
           x.amount = expense[e].amount, x.voucher = expense[e].voucher,
           x.reversed <= x.amount,
           x.status = "approved" => x.amount <= Threshold \/ x.signed,
           \/ x.reversed = expense[e].reversed
           \/ \A v \in Users \ {u} : ~(At(v, "locked") /\ req[v].e = e),
           expense' = [expense EXCEPT ![e] = x], Finish(u),
           next' = next, closure' = closure, receipts' = receipts
    PROVE  IndInv'
<1>t. /\ expense \in [Expenses -> ExpenseRow] /\ req \in [Users -> RequestRow]
      /\ DOMAIN count = Users
  BY DEF IndInv, TypeOK
<1>e. expense'[e] = x /\ \A f \in Expenses \ {e} : expense'[f] = expense[f]
  BY <1>t
<1>r. /\ req'[u] = Idle /\ \A v \in Users \ {u} : req'[v] = req[v] /\ count'[v] = count[v]
      /\ count'[u] = NoCount
  BY <1>t DEF Finish
<1>1. TypeOK'
  <2>1. expense' \in [Expenses -> ExpenseRow] /\ req' \in [Users -> RequestRow]
    BY <1>t, EmptyTypes DEF Finish
  <2>2. DOMAIN count' = Users
    BY <1>t DEF Finish
  <2>3. \A v \in Users : DOMAIN count'[v] = DOMAIN NoCount
    BY <1>r DEF IndInv, TypeOK
  <2> QED BY <2>1, <2>2, <2>3 DEF IndInv, TypeOK
<1>2. RequestsSound'
  <2>1. Sound(u)'
    BY <1>r, IdleHoldsNothing DEF Sound
  <2>2. ASSUME NEW v \in Users \ {u} PROVE Sound(v)'
    <3>1. req[v] \in RequestRow /\ Sound(v)
      BY <1>t DEF IndInv, RequestsSound
    <3>2. req[v].e \in Expenses
      BY <3>1 DEF RequestRow
    <3>3. CASE req[v].e = e
      BY <3>1, <3>3, <1>r, <1>e DEF Sound, Available
    <3>4. CASE req[v].e # e
      BY <3>1, <3>2, <3>4, <1>r, <1>e DEF Sound, Available
    <3> QED BY <3>3, <3>4
  <2> QED BY <2>1, <2>2 DEF RequestsSound
<1>3. Apart'
  BY <1>r, IdleHoldsNothing DEF IndInv, Apart
<1>4. Recorded' = Recorded
  BY <1>e DEF Recorded
<1>5. \A f \in Expenses : expense'[f].voucher = expense[f].voucher
  BY <1>e
<1>6. VouchersBelowNext'
  BY <1>4, <1>5 DEF IndInv, VouchersBelowNext, Recorded
<1>7. VouchersGapless'
  <2>1. {expense'[f].voucher : f \in Recorded} = {expense[f].voucher : f \in Recorded}
    BY <1>5 DEF Recorded
  <2>2. \A f, g \in Recorded : expense'[f].voucher = expense'[g].voucher => f = g
    BY <1>5 DEF IndInv, VouchersGapless, Recorded
  <2> QED BY <1>4, <2>1, <2>2 DEF IndInv, VouchersGapless
<1>8. ReversalsBounded'
  BY <1>e DEF IndInv, ReversalsBounded
<1>9. CountedIsSigned'
  BY <1>e DEF IndInv, CountedIsSigned
<1>10. SignedIffClosed'
  BY DEF IndInv, SignedIffClosed
<1> QED BY <1>1, <1>2, <1>3, <1>6, <1>7, <1>8, <1>9, <1>10 DEF IndInv

\* approve() and reject().
LEMMA DecisionStep ==
    ASSUME IndInv, NEW u \in Users, Approve(u) \/ Reject(u)
    PROVE  IndInv'
<1> DEFINE e == req[u].e
<1>1. e \in Expenses /\ expense[e] \in ExpenseRow /\ expense[e].status # "absent"
      /\ expense[e].reversed <= expense[e].amount
  BY DEF IndInv, TypeOK, RequestRow, RequestsSound, Sound, Approve, Reject, ReversalsBounded
<1>2. CASE Approve(u)
  <2> DEFINE x == [expense[e] EXCEPT !.status = "approved", !.signed = TRUE]
  <2>1. x \in ExpenseRow /\ x.status = "approved" /\ x.signed /\ x.amount = expense[e].amount
        /\ x.voucher = expense[e].voucher /\ x.reversed = expense[e].reversed
    BY <1>1 DEF ExpenseRow
  <2>2. expense' = [expense EXCEPT ![e] = x]
    BY <1>1, <1>2 DEF Approve, IndInv, TypeOK
  <2> HIDE DEF x, e
  <2> QED BY RowStep, <1>1, <1>2, <2>1, <2>2 DEF Approve, closureVars
<1>3. CASE Reject(u)
  <2> DEFINE x == [expense[e] EXCEPT !.status = "rejected"]
  <2>1. x \in ExpenseRow /\ x.status = "rejected" /\ x.amount = expense[e].amount
        /\ x.voucher = expense[e].voucher /\ x.reversed = expense[e].reversed
    BY <1>1 DEF ExpenseRow
  <2>2. expense' = [expense EXCEPT ![e] = x]
    BY <1>1, <1>3 DEF Reject, IndInv, TypeOK
  <2> HIDE DEF x, e
  <2> QED BY RowStep, <1>1, <1>3, <2>1, <2>2 DEF Reject, closureVars
<1> QED BY <1>2, <1>3

\* reverse(): the lock makes the amount that is available the one in the table.
LEMMA ReversalStep ==
    ASSUME IndInv, NEW u \in Users, CommitReversal(u)
    PROVE  IndInv'
<1> DEFINE e == req[u].e
<1>1. /\ e \in Expenses /\ expense[e] \in ExpenseRow /\ expense[e].status # "absent"
      /\ req[u].amount \in Nat \ {0} /\ req[u].available = Available(e)
  BY DEF IndInv, TypeOK, RequestRow, RequestsSound, Sound, CommitReversal, Amounts
<1>2. CASE req[u].amount <= req[u].available
  <2> DEFINE x == [expense[e] EXCEPT !.reversed = expense[e].reversed + req[u].amount]
  <2>1. /\ expense[e].reversed \in Nat /\ expense[e].amount \in 1..MaxAmount
        /\ expense[e].reversed + req[u].amount <= expense[e].amount
    BY <1>1, <1>2, ConstantsAssumption DEF ExpenseRow, Amounts, Available
  <2>2. expense[e].reversed + req[u].amount \in 0..MaxAmount
    BY <1>1, <2>1, ConstantsAssumption
  <2>3. x \in ExpenseRow /\ x.status = expense[e].status /\ x.amount = expense[e].amount
        /\ x.voucher = expense[e].voucher /\ x.signed = expense[e].signed
        /\ x.reversed = expense[e].reversed + req[u].amount
    BY <1>1, <2>2 DEF ExpenseRow
  <2>4. expense' = [expense EXCEPT ![e] = x]
    BY <1>1, <1>2 DEF CommitReversal, IndInv, TypeOK
  <2>5. x.status = "approved" => x.amount <= Threshold \/ x.signed
    BY <1>1, <2>3 DEF IndInv, CountedIsSigned
  <2>6. \A v \in Users \ {u} : ~(At(v, "locked") /\ req[v].e = e)
    BY DEF IndInv, Apart, CommitReversal
  <2>7. Finish(u) /\ next' = next /\ closure' = closure /\ receipts' = receipts
    BY DEF CommitReversal, closureVars
  <2> HIDE DEF x, e
  <2> QED BY RowStep, <1>1, <2>1, <2>3, <2>4, <2>5, <2>6, <2>7
<1>3. CASE ~(req[u].amount <= req[u].available)
  BY FinishStep, <1>3 DEF CommitReversal, closureVars
<1> QED BY <1>2, <1>3

\* record() and resubmit(): the number read under the lock is the next one.
LEMMA RecordStep ==
    ASSUME IndInv, NEW u \in Users, CommitExpense(u)
    PROVE  IndInv'
<1>t. /\ expense \in [Expenses -> ExpenseRow] /\ req \in [Users -> RequestRow]
      /\ DOMAIN count = Users /\ next \in Nat \ {0} /\ req[u] \in RequestRow
  BY DEF IndInv, TypeOK
<1>n. req[u].number = next /\ next' = next + 1
  BY DEF IndInv, RequestsSound, Sound, CommitExpense
<1> DEFINE x == [NoExpense EXCEPT
                   !.status = IF Approved(req[u].amount) THEN "approved" ELSE "pending",
                   !.amount = req[u].amount, !.corrects = req[u].corrects,
                   !.voucher = req[u].number]
<1>p. PICK e \in Expenses \ Recorded : expense' = [expense EXCEPT ![e] = x]
  BY DEF CommitExpense
<1>x. /\ x \in ExpenseRow /\ x.status \in {"approved", "pending"} /\ x.voucher = next
      /\ x.amount = req[u].amount /\ x.reversed = 0
      /\ x.status = "approved" => x.amount <= Threshold
  <2>1. NoExpense \in ExpenseRow
    BY EmptyTypes
  <2>2. /\ req[u].amount \in Amounts /\ req[u].corrects \in SUBSET Expenses
        /\ req[u].number \in Nat
    BY <1>t DEF RequestRow
  <2>3. x.status = IF Approved(req[u].amount) THEN "approved" ELSE "pending"
    BY DEF NoExpense
  <2>4. /\ x.voucher = req[u].number /\ x.amount = req[u].amount
        /\ x.reversed = 0
    BY DEF NoExpense
  <2>5. x \in ExpenseRow
    BY <2>1, <2>2 DEF ExpenseRow
  <2> QED BY <2>3, <2>4, <2>5, <1>n DEF Approved
<1>w. /\ Finish(u) /\ closure' = closure /\ receipts' = receipts
  BY DEF CommitExpense, closureVars
<1> HIDE DEF x
<1>e. expense'[e] = x /\ \A f \in Expenses \ {e} : expense'[f] = expense[f]
  BY <1>t, <1>p
<1>a. expense[e].status = "absent"
  BY <1>p DEF Recorded
<1>r. /\ req'[u] = Idle /\ \A v \in Users \ {u} : req'[v] = req[v] /\ count'[v] = count[v]
      /\ count'[u] = NoCount
  BY <1>t, <1>w DEF Finish
<1>1. TypeOK'
  <2>1. expense' \in [Expenses -> ExpenseRow] /\ req' \in [Users -> RequestRow]
    BY <1>t, <1>p, <1>x, <1>w, EmptyTypes DEF Finish
  <2>2. DOMAIN count' = Users /\ next' \in Nat \ {0}
    BY <1>t, <1>w, <1>n DEF Finish
  <2>3. \A v \in Users : DOMAIN count'[v] = DOMAIN NoCount
    BY <1>r DEF IndInv, TypeOK
  <2> QED BY <2>1, <2>2, <2>3, <1>w DEF IndInv, TypeOK
<1>2. RequestsSound'
  <2>1. Sound(u)'
    BY <1>r, IdleHoldsNothing DEF Sound
  <2>2. ASSUME NEW v \in Users \ {u} PROVE Sound(v)'
    <3>1. req[v] \in RequestRow /\ Sound(v) /\ ~At(v, "numbered")
      BY <1>t DEF IndInv, RequestsSound, Apart, CommitExpense
    <3>2. req[v].e \in Expenses
      BY <3>1 DEF RequestRow
    <3>3. CASE req[v].e = e
      BY <3>1, <3>3, <1>r, <1>a DEF Sound
    <3>4. CASE req[v].e # e
      BY <3>1, <3>2, <3>4, <1>r, <1>e DEF Sound, Available
    <3> QED BY <3>3, <3>4
  <2> QED BY <2>1, <2>2 DEF RequestsSound
<1>3. Apart'
  BY <1>r, IdleHoldsNothing DEF IndInv, Apart
<1>4. Recorded' = Recorded \cup {e} /\ e \notin Recorded
  BY <1>e, <1>x, <1>p DEF Recorded
<1>5. \A f \in Recorded : expense'[f].voucher = expense[f].voucher
                          /\ expense[f].voucher \in 1..(next - 1)
  BY <1>e, <1>p DEF Recorded, IndInv, VouchersBelowNext
<1>6. expense'[e].voucher = next
  BY <1>e, <1>x
<1>7. next' - 1 = next /\ 1..next = 1..(next - 1) \cup {next} /\ next \notin 1..(next - 1)
  BY <1>t, <1>n
<1>8. VouchersBelowNext'
  <2> SUFFICES ASSUME NEW f \in Recorded' PROVE expense'[f].voucher \in 1..(next' - 1)
    BY DEF VouchersBelowNext
  <2> QED BY <1>4, <1>5, <1>6, <1>7
<1>9. VouchersGapless'
  <2>1. ASSUME NEW f \in Recorded', NEW g \in Recorded',
               expense'[f].voucher = expense'[g].voucher
        PROVE  f = g
    BY <2>1, <1>4, <1>5, <1>6, <1>7 DEF IndInv, VouchersGapless
  <2>2. {expense'[f].voucher : f \in Recorded'}
           = {expense[f].voucher : f \in Recorded} \cup {next}
    BY <1>4, <1>5, <1>6
  <2>3. {expense'[f].voucher : f \in Recorded'} = 1..(next' - 1)
    BY <2>2, <1>7 DEF IndInv, VouchersGapless
  <2> QED BY <2>1, <2>3 DEF VouchersGapless
<1>10. ReversalsBounded' /\ CountedIsSigned'
  <2>1. x.amount \in Nat
    BY <1>x DEF ExpenseRow, Amounts
  <2> QED BY <2>1, <1>e, <1>x DEF IndInv, ReversalsBounded, CountedIsSigned
<1>11. SignedIffClosed'
  BY <1>w DEF IndInv, SignedIffClosed
<1> QED BY <1>1, <1>2, <1>3, <1>8, <1>9, <1>10, <1>11 DEF IndInv

\* What a step does to the closure leaves the rest of the invariant alone.
LEMMA ClosureWrites ==
    ASSUME IndInv, NEW u \in Users, CreateClosure(u) \/ SaveClosure(u) \/ SignClosure(u)
    PROVE  IndInv'
<1>t. /\ closure \in ClosureRow /\ (closure.signed <=> closure.status = "closed")
      /\ req \in [Users -> RequestRow] /\ DOMAIN count = Users
  BY DEF IndInv, TypeOK, SignedIffClosed
<1>w. /\ Finish(u) /\ expense' = expense /\ next' = next /\ receipts' = receipts
  BY DEF CreateClosure, SaveClosure, SignClosure, expenseVars
<1>r. /\ req'[u] = Idle /\ \A v \in Users \ {u} : req'[v] = req[v] /\ count'[v] = count[v]
      /\ count'[u] = NoCount
  BY <1>t, <1>w DEF Finish
<1>1. closure' \in ClosureRow /\ (closure'.signed <=> closure'.status = "closed")
  <2>1. CASE CreateClosure(u)
    BY <2>1 DEF CreateClosure, ClosureRow
  <2>2. CASE SaveClosure(u)
    <3>1. /\ count[u].row \in ClosureRow /\ count[u].row.status # "none"
          /\ count[u].row.signed <=> count[u].row.status = "closed"
      BY <2>2 DEF SaveClosure, IndInv, RequestsSound, Sound
    <3>2. CASE count[u].row.status = "pending"
      <4>1. closure'.status = closure.status /\ closure'.signed = closure.signed
            /\ closure' \in ClosureRow
        BY <2>2, <3>1, <3>2, <1>t DEF SaveClosure, SavedClosure, ClosureRow
      <4> QED BY <4>1, <1>t
    <3>3. CASE count[u].row.status = "closed"
      <4>1. closure' = [status |-> "pending", signed |-> FALSE]
        BY <2>2, <3>1, <3>3 DEF SaveClosure, SavedClosure
      <4> QED BY <4>1 DEF ClosureRow
    <3> QED BY <3>1, <3>2, <3>3 DEF ClosureRow
  <2>3. CASE SignClosure(u)
    BY <2>3 DEF SignClosure, ClosureRow
  <2> QED BY <2>1, <2>2, <2>3
<1>2. TypeOK'
  <2>1. req' \in [Users -> RequestRow]
    BY <1>t, <1>w, EmptyTypes DEF Finish
  <2>2. DOMAIN count' = Users
    BY <1>t, <1>w DEF Finish
  <2>3. \A v \in Users : DOMAIN count'[v] = DOMAIN NoCount
    BY <1>r DEF IndInv, TypeOK
  <2> QED BY <2>1, <2>2, <2>3, <1>1, <1>w DEF IndInv, TypeOK
<1>3. RequestsSound'
  <2>1. Sound(u)'
    BY <1>r, IdleHoldsNothing DEF Sound
  <2>2. ASSUME NEW v \in Users \ {u} PROVE Sound(v)'
    BY <1>r, <1>w DEF IndInv, RequestsSound, Sound, Available
  <2> QED BY <2>1, <2>2 DEF RequestsSound
<1>4. Apart'
  BY <1>r, IdleHoldsNothing DEF IndInv, Apart
<1> QED BY <1>1, <1>2, <1>3, <1>4, <1>w DEF IndInv, VouchersBelowNext, VouchersGapless,
        Recorded, ReversalsBounded, CountedIsSigned, SignedIffClosed

\* A payment does not touch the rest.
LEMMA ReceiveStep == ASSUME IndInv, Receive PROVE IndInv'
<1>1. /\ expense' = expense /\ next' = next /\ closure' = closure /\ req' = req
      /\ count' = count /\ receipts' \in 0..MaxReceipts
  BY ConstantsAssumption DEF Receive, expenseVars, closureVars, IndInv, TypeOK
<1> QED BY <1>1 DEF IndInv, TypeOK, RequestsSound, Sound, Available, Apart, VouchersBelowNext,
        VouchersGapless, Recorded, ReversalsBounded, CountedIsSigned, SignedIffClosed

(***************************************************************************)
(* The invariant of the cash book holds for any number of accountants and  *)
(* directors whose requests overlap: what ExpenseService locks is enough.  *)
(***************************************************************************)
THEOREM Inductive == Spec => []IndInv
<1>1. IndInv /\ [Next]_vars => IndInv'
  <2> SUFFICES ASSUME IndInv, [Next]_vars PROVE IndInv'
    OBVIOUS
  <2>1. CASE UNCHANGED vars
    BY <2>1 DEF vars, IndInv, TypeOK, RequestsSound, Sound, Available, Apart,
       VouchersBelowNext, VouchersGapless, Recorded, ReversalsBounded, CountedIsSigned,
       SignedIffClosed
  <2>2. CASE Receive
    BY <2>2, ReceiveStep
  <2>3. ASSUME NEW u \in Users, Abort(u) PROVE IndInv'
    BY <2>3, FinishStep DEF Abort, expenseVars, closureVars
  <2> QED BY <2>1, <2>2, <2>3, ExpenseReads, ClosureReads, DecisionStep, ReversalStep,
          RecordStep, ClosureWrites DEF Next
<1> QED BY <1>1, InitInv, PTL DEF Spec

(***************************************************************************)
(* TypeOK, VouchersGapless, ReversalsBounded, CountedIsSigned and          *)
(* SignedIffClosed hold whatever requests overlap.                         *)
(***************************************************************************)
THEOREM TypeCorrect == Spec => []TypeOK
<1>1. IndInv => TypeOK
  BY DEF IndInv
<1> QED BY <1>1, Inductive, PTL

\* Vouchers have no gap and no double (ExpenseService::record, resubmit).
THEOREM VouchersGaplessThm == Spec => []VouchersGapless
<1>1. IndInv => VouchersGapless
  BY DEF IndInv
<1> QED BY <1>1, Inductive, PTL

\* Reversals never exceed the expense (ExpenseService::reverse).
THEOREM ReversalsBoundedThm == Spec => []ReversalsBounded
<1>1. IndInv => ReversalsBounded
  BY DEF IndInv
<1> QED BY <1>1, Inductive, PTL

\* What counts above the threshold was signed (ExpenseService::record, approve).
THEOREM CountedIsSignedThm == Spec => []CountedIsSigned
<1>1. IndInv => CountedIsSigned
  BY DEF IndInv
<1> QED BY <1>1, Inductive, PTL

\* A closed day is signed and a reopened one is not (CashClosureService::submit, approve).
THEOREM SignedIffClosedThm == Spec => []SignedIffClosed
<1>1. IndInv => SignedIffClosed
  BY DEF IndInv
<1> QED BY <1>1, Inductive, PTL

-----------------------------------------------------------------------------
(* The opening balance of the next day                                      *)

\* What counts and what does not make up the expenses of the day.
LEMMA GapIsWaiting == IndInv => OpeningGap
<1> SUFFICES ASSUME IndInv PROVE OpeningGap
  OBVIOUS
<1> DEFINE Waiting == Recorded \ Counting
<1>1. Counting \in SUBSET Recorded /\ Recorded \in SUBSET Expenses
  BY DEF Counting, Recorded
<1>2. IsFiniteSet(Recorded) /\ IsFiniteSet(Counting) /\ IsFiniteSet(Waiting)
  BY <1>1, FS_Subset, ConstantsAssumption
<1>3. \A e \in Expenses : Net[e] = Available(e) /\ Net[e] \in Nat
  BY DEF IndInv, TypeOK, ReversalsBounded, ExpenseRow, Amounts, Available, Net
<1>4. Spent(Recorded) = Spent(Counting) + Spent(Waiting)
  BY <1>1, <1>2, <1>3, SumSplit DEF Spent
<1>5. Spent(Counting) \in Nat
  BY <1>1, <1>2, <1>3, SumNat DEF Spent
<1>6. Spent(Waiting) \in Nat /\ \A e \in Waiting : Net[e] <= Spent(Waiting)
  BY <1>1, <1>2, <1>3, SumNat DEF Spent
<1>7. (\A e \in Waiting : Net[e] = 0) => Spent(Waiting) = 0
  BY <1>2, SumZeros DEF Spent
<1>8. Spent(Waiting) = 0 <=> \A e \in Waiting : Available(e) = 0
  <2>1. ASSUME Spent(Waiting) = 0, NEW e \in Waiting PROVE Available(e) = 0
    <3>1. Net[e] = Available(e) /\ Net[e] \in Nat /\ Net[e] <= 0
      BY <1>1, <1>3, <1>6, <2>1
    <3> QED BY <3>1
  <2>2. ASSUME \A e \in Waiting : Available(e) = 0 PROVE Spent(Waiting) = 0
    <3>1. \A e \in Waiting : Net[e] = 0
      BY <1>1, <1>3, <2>2
    <3> QED BY <3>1, <1>7
  <2> QED BY <2>1, <2>2
<1>9. Opening \in Nat /\ receipts \in Nat
  BY ConstantsAssumption DEF IndInv, TypeOK
<1> DEFINE all == Spent(Recorded)
           some == Spent(Counting)
           rest == Spent(Waiting)
<1>10. all = some + rest /\ some \in Nat /\ rest \in Nat
  BY <1>4, <1>5, <1>6
<1>11. Closing = Opening + receipts - some /\ NextOpening = Opening + receipts - all
  BY DEF Closing, NextOpening
<1> HIDE DEF all, some, rest
<1>12. /\ Closing - NextOpening = rest
       /\ NextOpening <= Closing
       /\ NextOpening = Closing <=> rest = 0
  BY <1>9, <1>10, <1>11
<1> QED BY <1>8, <1>12 DEF OpeningGap, CarriedOver, rest

(***************************************************************************)
(* The next day opens short of exactly what waits for approval or was      *)
(* rejected (CashJournalService: closing() against summary()).             *)
(***************************************************************************)
THEOREM OpeningGapThm == Spec => []OpeningGap
BY Inductive, GapIsWaiting, PTL

-----------------------------------------------------------------------------
(* Corrections, with one director                                           *)

\* What is corrected stays rejected when decisions are made one at a time.
LEMMA DecisionsStep ==
    ASSUME SingleDirector, IndInv, DecisionsSound, CorrectedIsRejected, [Next]_vars
    PROVE  DecisionsSound' /\ CorrectedIsRejected'
<1>t. /\ expense \in [Expenses -> ExpenseRow] /\ req \in [Users -> RequestRow]
      /\ \A e \in Expenses : expense[e].corrects \in SUBSET Expenses
      /\ \A u \in Users : req[u].corrects \in SUBSET Expenses /\ req[u].e \in Expenses
  BY DEF IndInv, TypeOK, ExpenseRow, RequestRow
<1> DEFINE Sure(u) == /\ At(u, "approve") \/ At(u, "reject") =>
                            u \in Directors /\ expense[req[u].e].status = "pending"
                      /\ \A e \in req[u].corrects : expense[e].status = "rejected"
<1>d. \A u \in Users : Sure(u)
  BY DEF DecisionsSound
\* Steps that leave the expenses alone.
<1>q. ASSUME expense' = expense, NEW u \in Users,
             \A v \in Users \ {u} : req'[v] = req[v],
             /\ At(u, "approve")' \/ At(u, "reject")' =>
                   u \in Directors /\ expense[req'[u].e].status = "pending"
             /\ \A e \in req'[u].corrects : expense[e].status = "rejected"
      PROVE  DecisionsSound' /\ CorrectedIsRejected'
  BY <1>q DEF DecisionsSound, CorrectedIsRejected
<1>f. ASSUME NEW u \in Users, Finish(u), expense' = expense
      PROVE  DecisionsSound' /\ CorrectedIsRejected'
  <2>1. req'[u] = Idle /\ \A v \in Users \ {u} : req'[v] = req[v]
    BY <1>t, <1>f DEF Finish
  <2> QED BY <2>1, <1>f, <1>q, IdleHoldsNothing
\* Steps that write one row.
<1>w. ASSUME NEW u \in Users, Finish(u), NEW e \in Expenses,
             \A f \in Expenses \ {e} : expense'[f] = expense[f],
             expense[e].status = "rejected" => expense'[e].status = "rejected",
             expense'[e].corrects \subseteq Expenses,
             \A f \in expense'[e].corrects : expense[f].status = "rejected",
             \A v \in Users \ {u} :
                (At(v, "approve") \/ At(v, "reject")) /\ req[v].e = e
                => expense'[e].status = expense[e].status
      PROVE  DecisionsSound' /\ CorrectedIsRejected'
  <2>1. req'[u] = Idle /\ \A v \in Users \ {u} : req'[v] = req[v]
    BY <1>t, <1>w DEF Finish
  <2>2. \A f \in Expenses : expense[f].status = "rejected" => expense'[f].status = "rejected"
    BY <1>w
  <2>3. ASSUME NEW v \in Users \ {u} PROVE Sure(v)'
    <3>1. Sure(v) /\ req'[v] = req[v]
      BY <1>d, <2>1
    <3>2. \A f \in req'[v].corrects : expense'[f].status = "rejected"
      BY <3>1, <2>2, <1>t
    <3>3. At(v, "approve")' \/ At(v, "reject")' =>
             v \in Directors /\ expense'[req'[v].e].status = "pending"
      BY <3>1, <1>w, <1>t
    <3> QED BY <3>2, <3>3
  <2>4. Sure(u)'
    BY <2>1, IdleHoldsNothing
  <2>5. DecisionsSound'
    BY <2>3, <2>4 DEF DecisionsSound
  <2>6. ASSUME NEW f \in Expenses, NEW g \in expense'[f].corrects
        PROVE  expense'[g].status = "rejected"
    <3>1. CASE f = e
      <4>1. expense[g].status = "rejected"
        BY <1>w, <2>6, <3>1
      <4>2. g \in Expenses
        BY <3>1, <1>w, <2>6
      <4> QED BY <4>1, <4>2, <2>2
    <3>2. CASE f # e
      BY <1>w, <2>2, <2>6, <3>2, <1>t DEF CorrectedIsRejected
    <3> QED BY <3>1, <3>2
  <2> QED BY <2>5, <2>6 DEF CorrectedIsRejected
<1> HIDE DEF Sure
<1>1. CASE UNCHANGED vars
  BY <1>1, <1>t DEF vars, DecisionsSound, CorrectedIsRejected
<1>2. CASE Receive
  BY <1>2, <1>t DEF Receive, expenseVars, DecisionsSound, CorrectedIsRejected
<1>3. ASSUME NEW u \in Users, Enter(u) PROVE DecisionsSound' /\ CorrectedIsRejected'
  <2>1. PICK a \in Amounts, c \in {{}} \cup {{e} : e \in {f \in Expenses : Resubmittable(u, f)}} :
           req' = [req EXCEPT ![u] =
                     [Idle EXCEPT !.pc = "entered", !.amount = a, !.corrects = c]]
    BY <1>3 DEF Enter
  <2>2. req'[u].pc = "entered" /\ req'[u].corrects = c
        /\ \A v \in Users \ {u} : req'[v] = req[v]
    BY <2>1, <1>t DEF Idle
  <2>3. \A e \in c : expense[e].status = "rejected"
    BY DEF Resubmittable
  <2> QED BY <1>q, <1>3, <2>2, <2>3 DEF Enter, expenseVars
<1>4. ASSUME NEW u \in Users, TakeNumber(u) PROVE DecisionsSound' /\ CorrectedIsRejected'
  <2>1. req'[u].pc = "numbered" /\ req'[u].corrects = req[u].corrects
        /\ \A v \in Users \ {u} : req'[v] = req[v]
    BY <1>4, <1>t DEF TakeNumber, RequestRow
  <2> QED BY <1>q, <1>4, <2>1, <1>d DEF TakeNumber, expenseVars, Sure
<1>5. ASSUME NEW u \in Users, Decide(u) PROVE DecisionsSound' /\ CorrectedIsRejected'
  <2>1. PICK e \in Expenses, pc \in {"approve", "reject"} :
          /\ expense[e].status = "pending"
          /\ req' = [req EXCEPT ![u] = [Idle EXCEPT !.pc = pc, !.e = e]]
    BY <1>5 DEF Decide
  <2>2. req'[u].e = e /\ req'[u].corrects = {} /\ \A v \in Users \ {u} : req'[v] = req[v]
    BY <2>1, <1>t DEF Idle
  <2> QED BY <1>q, <1>5, <2>1, <2>2 DEF Decide, expenseVars
<1>6. ASSUME NEW u \in Users, BeginReversal(u) PROVE DecisionsSound' /\ CorrectedIsRejected'
  <2>1. PICK e \in Recorded, a \in Amounts :
          req' = [req EXCEPT ![u] = [Idle EXCEPT !.pc = "reverse", !.e = e, !.amount = a]]
    BY <1>6 DEF BeginReversal
  <2>2. req'[u].pc = "reverse" /\ req'[u].corrects = {}
        /\ \A v \in Users \ {u} : req'[v] = req[v]
    BY <2>1, <1>t DEF Idle
  <2> QED BY <1>q, <1>6, <2>2 DEF BeginReversal, expenseVars
<1>7. ASSUME NEW u \in Users, LockExpense(u) PROVE DecisionsSound' /\ CorrectedIsRejected'
  <2>1. req'[u].pc = "locked" /\ req'[u].corrects = req[u].corrects
        /\ \A v \in Users \ {u} : req'[v] = req[v]
    BY <1>7, <1>t DEF LockExpense, RequestRow
  <2> QED BY <1>q, <1>7, <2>1, <1>d DEF LockExpense, expenseVars, Sure
<1>8. ASSUME NEW u \in Users,
             \/ CountReceipts(u) \/ CountExpenses(u) \/ CheckClosure(u)
             \/ FindClosure(u) \/ LoadClosure(u)
      PROVE  DecisionsSound' /\ CorrectedIsRejected'
  <2>1. expense' = expense
    BY <1>8 DEF CountReceipts, CountExpenses, CheckClosure, FindClosure, LoadClosure, expenseVars
  <2>2. CASE Finish(u)
    BY <1>f, <2>1, <2>2
  <2>3. ASSUME NEW pc \in {"receipts", "expenses", "checked", "found", "sign"}, Goto(u, pc)
        PROVE  DecisionsSound' /\ CorrectedIsRejected'
    <3>1. req'[u].pc = pc /\ req'[u].corrects = req[u].corrects
          /\ \A v \in Users \ {u} : req'[v] = req[v]
      BY <2>3, <1>t DEF Goto, RequestRow
    <3> QED BY <1>q, <2>1, <3>1, <1>d DEF Sure
  <2>4. Finish(u) \/ \E pc \in {"receipts", "expenses", "checked", "found", "sign"} : Goto(u, pc)
    BY <1>8 DEF CountReceipts, CountExpenses, CheckClosure, FindClosure, LoadClosure
  <2> QED BY <2>2, <2>3, <2>4
<1>9. ASSUME NEW u \in Users,
             CreateClosure(u) \/ SaveClosure(u) \/ SignClosure(u) \/ Abort(u)
      PROVE  DecisionsSound' /\ CorrectedIsRejected'
  BY <1>f, <1>9 DEF CreateClosure, SaveClosure, SignClosure, Abort, expenseVars
<1>10. ASSUME NEW u \in Users, CommitExpense(u) PROVE DecisionsSound' /\ CorrectedIsRejected'
  <2> DEFINE x == [NoExpense EXCEPT
                     !.status = IF Approved(req[u].amount) THEN "approved" ELSE "pending",
                     !.amount = req[u].amount, !.corrects = req[u].corrects,
                     !.voucher = req[u].number]
  <2>1. PICK e \in Expenses \ Recorded : expense' = [expense EXCEPT ![e] = x]
    BY <1>10 DEF CommitExpense
  <2>2. x.corrects = req[u].corrects
    BY DEF NoExpense
  <2> HIDE DEF x
  <2>3. expense'[e] = x /\ \A f \in Expenses \ {e} : expense'[f] = expense[f]
    BY <2>1, <1>t
  <2>4. expense[e].status = "absent"
    BY <2>1 DEF Recorded
  <2>5. \A v \in Users \ {u} : ~((At(v, "approve") \/ At(v, "reject")) /\ req[v].e = e)
    BY <1>d, <2>4 DEF Sure
  <2>6. \A f \in req[u].corrects : expense[f].status = "rejected"
    BY <1>d DEF Sure
  <2>7. Finish(u)
    BY <1>10 DEF CommitExpense
  <2>8. expense'[e].corrects = req[u].corrects /\ req[u].corrects \subseteq Expenses
    BY <2>2, <2>3, <1>t
  <2> QED BY <1>w, <2>3, <2>4, <2>5, <2>6, <2>7, <2>8
<1>11. ASSUME NEW u \in Users, Approve(u) \/ Reject(u)
       PROVE  DecisionsSound' /\ CorrectedIsRejected'
  <2> DEFINE e == req[u].e
  <2>1. e \in Expenses /\ expense[e].status = "pending" /\ u \in Directors
    BY <1>11, <1>t, <1>d DEF Approve, Reject, Sure
  <2>2. /\ \A f \in Expenses \ {e} : expense'[f] = expense[f]
        /\ expense'[e].corrects = expense[e].corrects
    BY <1>11, <1>t, <2>1 DEF Approve, Reject, ExpenseRow, IndInv, TypeOK
  <2>3. \A v \in Users \ {u} : ~(At(v, "approve") \/ At(v, "reject"))
    BY <1>d, <2>1 DEF Sure, SingleDirector
  <2>4. \A f \in expense'[e].corrects : expense[f].status = "rejected"
    BY <2>1, <2>2 DEF CorrectedIsRejected
  <2>5. Finish(u) /\ expense'[e].corrects \subseteq Expenses
    BY <1>11, <1>t, <2>1, <2>2 DEF Approve, Reject
  <2> HIDE DEF e
  <2> QED BY <1>w, <2>1, <2>2, <2>3, <2>4, <2>5
<1>12. ASSUME NEW u \in Users, CommitReversal(u) PROVE DecisionsSound' /\ CorrectedIsRejected'
  <2> DEFINE e == req[u].e
  <2>1. e \in Expenses /\ Finish(u)
    BY <1>12, <1>t DEF CommitReversal
  <2>2. CASE expense' = expense
    BY <1>f, <2>1, <2>2
  <2>3. CASE expense' = [expense EXCEPT ![e].reversed = expense[e].reversed + req[u].amount]
    <3>1. /\ \A f \in Expenses \ {e} : expense'[f] = expense[f]
          /\ expense'[e].corrects = expense[e].corrects
          /\ expense'[e].status = expense[e].status
      BY <2>1, <2>3, <1>t DEF ExpenseRow, IndInv, TypeOK
    <3>2. \A f \in expense'[e].corrects : expense[f].status = "rejected"
      BY <2>1, <3>1 DEF CorrectedIsRejected
    <3>3. expense'[e].corrects \subseteq Expenses
      BY <2>1, <3>1, <1>t
    <3> HIDE DEF e
    <3> QED BY <1>w, <2>1, <3>1, <3>2, <3>3
  <2> QED BY <2>2, <2>3, <1>12 DEF CommitReversal
<1> QED BY <1>1, <1>2, <1>3, <1>4, <1>5, <1>6, <1>7, <1>8, <1>9, <1>10, <1>11, <1>12 DEF Next

(***************************************************************************)
(* An expense and its correction never both count (resubmit()), provided   *)
(* that the decisions of directors do not overlap.                         *)
(***************************************************************************)
THEOREM CorrectedIsRejectedThm ==
    ASSUME SingleDirector PROVE Spec => []CorrectedIsRejected
<1>1. Init => DecisionsSound /\ CorrectedIsRejected
  BY DEF Init, DecisionsSound, CorrectedIsRejected, Idle, NoExpense
<1>2. IndInv /\ DecisionsSound /\ CorrectedIsRejected /\ [Next]_vars
      => DecisionsSound' /\ CorrectedIsRejected'
  BY DecisionsStep
<1> QED BY <1>1, <1>2, Inductive, PTL DEF Spec

-----------------------------------------------------------------------------
(* The balances, with one accountant                                        *)

\* Two submissions never overlap, so what one has loaded is what it overwrites.
LEMMA SubmissionsStep ==
    ASSUME SingleAccountant, IndInv, SubmissionsSound, VarianceAddsUp, [Next]_vars
    PROVE  SubmissionsSound' /\ VarianceAddsUp'
<1>t. /\ req \in [Users -> RequestRow] /\ DOMAIN count = Users
      /\ \A u \in Users : DOMAIN count[u] = {"total", "physical", "row", "copy"}
      /\ "idle" \notin Submitting
  BY IdleHoldsNothing DEF IndInv, TypeOK, Submitting
<1> DEFINE Sure(u) == /\ req[u].pc \in Submitting => u \in Accountants
                      /\ At(u, "found") => count[u].copy = figures
                      /\ At(u, "found") \/ At(u, "sign") => closure.status # "none"
<1>d. \A u \in Users : Sure(u)
  BY DEF SubmissionsSound
\* Steps that leave the closure alone.
<1>q. ASSUME figures' = figures, closure' = closure, NEW u \in Users,
             \A v \in Users \ {u} : req'[v] = req[v] /\ count'[v] = count[v],
             req'[u].pc \in Submitting => u \in Accountants,
             At(u, "found")' => count'[u].copy = figures,
             At(u, "found")' \/ At(u, "sign")' => closure.status # "none"
      PROVE  SubmissionsSound' /\ VarianceAddsUp'
  BY <1>q DEF SubmissionsSound, VarianceAddsUp
<1>f. ASSUME NEW u \in Users, Finish(u)
      PROVE  /\ req'[u].pc \notin Submitting /\ req'[u].pc # "sign"
             /\ \A v \in Users \ {u} : req'[v] = req[v] /\ count'[v] = count[v]
  BY <1>t, <1>f, IdleHoldsNothing DEF Finish
<1>i. "found" \in Submitting
  BY DEF Submitting
<1> HIDE DEF Sure
<1>1. CASE UNCHANGED vars
  BY <1>1 DEF vars, SubmissionsSound, VarianceAddsUp
<1>2. CASE Receive
  BY <1>2 DEF Receive, closureVars, SubmissionsSound, VarianceAddsUp
<1>3. ASSUME NEW u \in Users,
             \/ CommitExpense(u) \/ Approve(u) \/ Reject(u) \/ CommitReversal(u) \/ Abort(u)
      PROVE  SubmissionsSound' /\ VarianceAddsUp'
  <2>1. CASE CommitExpense(u) BY <1>q, <1>f, <1>i, <2>1 DEF CommitExpense, closureVars
  <2>2. CASE Approve(u) \/ Reject(u) BY <1>q, <1>f, <1>i, <2>2 DEF Approve, Reject, closureVars
  <2>3. CASE CommitReversal(u) BY <1>q, <1>f, <1>i, <2>3 DEF CommitReversal, closureVars
  <2>4. CASE Abort(u) BY <1>q, <1>f, <1>i, <2>4 DEF Abort, closureVars
  <2> QED BY <1>3, <2>1, <2>2, <2>3, <2>4
<1>4. ASSUME NEW u \in Users,
             Enter(u) \/ TakeNumber(u) \/ Decide(u) \/ BeginReversal(u) \/ LockExpense(u)
      PROVE  SubmissionsSound' /\ VarianceAddsUp'
  <2>1. /\ figures' = figures /\ closure' = closure /\ count' = count
        /\ \A v \in Users \ {u} : req'[v] = req[v]
    BY <1>4, <1>t DEF Enter, TakeNumber, Decide, BeginReversal, LockExpense, closureVars
  <2>2. req'[u].pc \in {"entered", "numbered", "approve", "reject", "reverse", "locked"}
    <3>1. CASE Enter(u) BY <1>t, <3>1 DEF Enter, Idle, RequestRow
    <3>2. CASE TakeNumber(u) BY <1>t, <3>2 DEF TakeNumber, RequestRow
    <3>3. CASE Decide(u) BY <1>t, <3>3 DEF Decide, Idle, RequestRow
    <3>4. CASE BeginReversal(u) BY <1>t, <3>4 DEF BeginReversal, Idle, RequestRow
    <3>5. CASE LockExpense(u) BY <1>t, <3>5 DEF LockExpense, RequestRow
    <3> QED BY <1>4, <3>1, <3>2, <3>3, <3>4, <3>5
  <2>3. req'[u].pc \notin Submitting /\ ~At(u, "found")' /\ ~At(u, "sign")'
    BY <2>2 DEF Submitting
  <2> QED BY <1>q, <2>1, <2>3
<1>5. ASSUME NEW u \in Users,
             CountReceipts(u) \/ CountExpenses(u) \/ CheckClosure(u) \/ LoadClosure(u)
      PROVE  SubmissionsSound' /\ VarianceAddsUp'
  <2>1. figures' = figures /\ closure' = closure
    BY <1>5 DEF CountReceipts, CountExpenses, CheckClosure, LoadClosure, closureVars
  <2>2. \A v \in Users \ {u} : req'[v] = req[v] /\ count'[v] = count[v]
    BY <1>5, <1>t DEF CountReceipts, CountExpenses, CheckClosure, LoadClosure, Goto, Finish
  <2>3. \A pc \in {"receipts", "expenses", "checked", "sign"} :
           Goto(u, pc) => req'[u].pc = pc
    BY <1>t DEF Goto, RequestRow
  <2>4. CASE LoadClosure(u)
    <3>1. req'[u].pc = "sign" /\ closure.status # "none"
      BY <2>3, <2>4 DEF LoadClosure
    <3> QED BY <1>q, <2>1, <2>2, <3>1 DEF Submitting
  <2>5. CASE Finish(u)
    BY <1>q, <1>f, <1>i, <2>1, <2>5, IdleHoldsNothing, <1>t DEF Finish
  <2>6. CASE \E pc \in {"receipts", "expenses", "checked"} : Goto(u, pc) /\ u \in Accountants
    BY <1>q, <2>1, <2>2, <2>3, <2>6
  <2>7. LoadClosure(u) \/ Finish(u)
        \/ \E pc \in {"receipts", "expenses", "checked"} : Goto(u, pc) /\ u \in Accountants
    <3>1. CASE CountReceipts(u)
      BY <3>1 DEF CountReceipts
    <3>2. CASE CountExpenses(u)
      BY <3>2, <1>d DEF CountExpenses, Sure, Submitting
    <3>3. CASE CheckClosure(u)
      BY <3>3, <1>d DEF CheckClosure, Sure, Submitting
    <3> QED BY <1>5, <3>1, <3>2, <3>3
  <2> QED BY <2>4, <2>5, <2>6, <2>7
<1>6. ASSUME NEW u \in Users, FindClosure(u) PROVE SubmissionsSound' /\ VarianceAddsUp'
  <2>1. figures' = figures /\ closure' = closure /\ closure.status # "none"
    BY <1>6 DEF FindClosure, closureVars
  <2>2. \A v \in Users \ {u} : req'[v] = req[v] /\ count'[v] = count[v]
    BY <1>6, <1>t DEF FindClosure, Goto
  <2>3. count'[u].copy = figures
    BY <1>6, <1>t DEF FindClosure
  <2>4. u \in Accountants
    BY <1>6, <1>d DEF FindClosure, Sure, Submitting
  <2> QED BY <1>q, <2>1, <2>2, <2>3, <2>4
<1>7. ASSUME NEW u \in Users, SignClosure(u) PROVE SubmissionsSound' /\ VarianceAddsUp'
  <2>1. figures' = figures /\ closure'.status = "closed" /\ closure.status # "none"
    BY <1>7, <1>d DEF SignClosure, Sure
  <2>2. SubmissionsSound'
    BY <1>7, <1>f, <1>i, <2>1 DEF SignClosure, SubmissionsSound
  <2>3. VarianceAddsUp'
    BY <2>1 DEF VarianceAddsUp
  <2> QED BY <2>2, <2>3
<1>8. ASSUME NEW u \in Users, CreateClosure(u) \/ SaveClosure(u)
      PROVE  SubmissionsSound' /\ VarianceAddsUp'
  <2>1. u \in Accountants /\ Finish(u)
    BY <1>8, <1>d DEF CreateClosure, SaveClosure, Sure, Submitting
  <2>2. \A v \in Users \ {u} : req[v].pc \notin Submitting
    BY <1>d, <2>1 DEF Sure, SingleAccountant
  <2>c. closure'.status # "none"
    <3>1. CASE CreateClosure(u)
      BY <3>1 DEF CreateClosure
    <3>2. CASE SaveClosure(u)
      <4>1. closure.status # "none"
        BY <3>2, <1>d DEF SaveClosure, Sure
      <4>2. closure'.status = SavedClosure(u).status
        BY <3>2 DEF SaveClosure
      <4>3. SavedClosure(u).status \in {closure.status, "pending"}
        BY DEF SavedClosure
      <4> QED BY <4>1, <4>2, <4>3
    <3> QED BY <1>8, <3>1, <3>2
  <2>3. SubmissionsSound'
    BY <1>d, <1>f, <1>i, <2>1, <2>2, <2>c DEF SubmissionsSound, Sure
  <2>4. /\ figures'.theoretical = Counted(u).theoretical
        /\ figures'.physical = Counted(u).physical
        /\ figures'.variance = Counted(u).variance
    <3>1. CASE CreateClosure(u)
      BY <3>1 DEF CreateClosure
    <3>2. CASE SaveClosure(u)
      <4>1. count[u].copy = figures
        BY <3>2, <1>d DEF SaveClosure, Sure
      <4>2. DOMAIN NoFigures = {"theoretical", "physical", "variance"}
        BY DEF NoFigures
      <4>3. \A k \in DOMAIN NoFigures : figures'[k] = Counted(u)[k]
        BY <3>2, <4>1 DEF SaveClosure, SavedFigures
      <4> QED BY <4>2, <4>3
    <3> QED BY <1>8, <3>1, <3>2
  <2>5. VarianceAddsUp'
    BY <2>4 DEF VarianceAddsUp, Counted
  <2> QED BY <2>3, <2>5
<1> QED BY <1>1, <1>2, <1>3, <1>4, <1>5, <1>6, <1>7, <1>8 DEF Next

(***************************************************************************)
(* The variance beside a closure is the difference of its balances         *)
(* (CashClosureService::submit), provided that submissions do not overlap. *)
(***************************************************************************)
THEOREM VarianceAddsUpThm ==
    ASSUME SingleAccountant PROVE Spec => []VarianceAddsUp
<1>1. Init => SubmissionsSound /\ VarianceAddsUp
  BY DEF Init, SubmissionsSound, VarianceAddsUp, Idle, NoClosure, Submitting
<1>2. IndInv /\ SubmissionsSound /\ VarianceAddsUp /\ [Next]_vars
      => SubmissionsSound' /\ VarianceAddsUp'
  BY SubmissionsStep
<1> QED BY <1>1, <1>2, Inductive, PTL DEF Spec

=============================================================================
