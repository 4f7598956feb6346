--------------------------- MODULE PaymentsProofs ---------------------------
(***************************************************************************)
(* Theorems about Payments, for any number of requests, payments, invoices *)
(* and amounts: IndInv is an invariant, so is MoneySound beside it, and    *)
(* every committed step is a step of PupilLedger.                          *)
(***************************************************************************)
EXTENDS Payments, SumTheorems

-----------------------------------------------------------------------------
(* Facts about the operators *)

\* max(0, a) and min(a, b).
LEMMA ArithmeticFacts ==
    ASSUME NEW a \in Int, NEW b \in Int
    PROVE  /\ Smaller(a, b) <= a /\ Smaller(a, b) <= b /\ Smaller(a, b) \in {a, b}
           /\ AtLeastZero(a) \in Nat /\ a <= AtLeastZero(a)
           /\ a > 0 => AtLeastZero(a) = a
           /\ a <= 0 => AtLeastZero(a) = 0
BY DEF Smaller, AtLeastZero

\* An issued invoice is PAID exactly when its sum reaches the total.
LEMMA StatusFacts ==
    ASSUME NEW i \in Invoices, NEW sum \in Int
    PROVE  /\ StatusOf(i, sum) \in InvoiceStatuses
           /\ TypeOK /\ invoice[i].total > 0
                => (StatusOf(i, sum) = "PAID" <=> sum >= invoice[i].total)
<1>1. StatusOf(i, sum) \in InvoiceStatuses
  BY DEF StatusOf, InvoiceStatuses, OpenStatuses
<1>2. ASSUME TypeOK, invoice[i].total > 0
      PROVE  StatusOf(i, sum) = "PAID" <=> AtLeastZero(sum) >= invoice[i].total
  BY DEF StatusOf
<1>3. ASSUME TypeOK, invoice[i].total > 0
      PROVE  AtLeastZero(sum) >= invoice[i].total <=> sum >= invoice[i].total
  BY <1>3 DEF AtLeastZero, TypeOK, InvoiceRecords
<1> QED BY <1>1, <1>2, <1>3

\* What an open invoice still takes.
LEMMA BalanceFacts ==
    ASSUME TypeOK, NEW i \in Invoices
    PROVE  /\ Balance(i) \in Nat
           /\ invoice[i].paid + Balance(i) <= invoice[i].total
                \/ invoice[i].paid > invoice[i].total
BY DEF Balance, AtLeastZero, TypeOK, InvoiceRecords

\* A request that begins or has ended is well typed and holds nothing.
LEMMA IdleFacts ==
    ASSUME NEW k \in Payments
    PROVE  /\ Idle(k) \in RequestRecords
           /\ Idle(k).part = Nothing /\ Idle(k).written = Unwritten
           /\ Idle(k).locks = {} /\ Idle(k).shares = {} /\ Idle(k).pc = "idle"
           /\ Idle(k).k = k
<1>1. Nothing \in [Invoices -> Nat] /\ Unwritten \in [Invoices -> InvoiceStatuses \cup {"none"}]
  BY DEF Nothing, Unwritten
<1>2. 0 \in 0 .. NInvoices
  BY ConstantsAssumption
<1> QED BY <1>1, <1>2 DEF Idle, RequestRecords, Steps

\* A request that is idle has some payment in its record.
LEMMA SomePaymentType == SomePayment \in Payments
BY ConstantsAssumption DEF SomePayment

-----------------------------------------------------------------------------
(* Steps that move one request and leave the tables alone *)

\* Such a step preserves the invariant when the request is still sound and still
\* apart from the other ones.
LEMMA RequestMoves ==
    ASSUME IndInv, NEW r \in Requests,
           UNCHANGED <<invoice, payment, alloc, undone, sequence>>,
           req' \in [Requests -> RequestRecords],
           \A q \in Others(r) : req'[q] = req[q],
           RequestSound(r)',
           \A q \in Others(r) : Apart(r, q)' /\ Apart(q, r)',
           \A k \in Payments : Inserting(r, k)' => ~Recorded(k)
    PROVE  IndInv'
<1>1. TypeOK'
  BY DEF IndInv, TypeOK
<1>2. ASSUME NEW q \in Requests PROVE RequestSound(q)'
  <2>1. CASE q = r
    BY <2>1
  <2>2. CASE q # r
    <3>1. req'[q] = req[q]
      BY <2>2 DEF Others
    <3> QED
      BY <3>1 DEF IndInv, RequestSound, HoldsNothing, ConfirmationSound, ReversalSound,
                  Open, Recorded, Reversible
  <2> QED BY <2>1, <2>2
<1>3. ASSUME NEW p \in Requests, NEW q \in Requests, p # q PROVE Apart(p, q)'
  <2>1. CASE p = r \/ q = r
    BY <1>3, <2>1 DEF Others
  <2>2. CASE p # r /\ q # r
    <3>1. req'[p] = req[p] /\ req'[q] = req[q] /\ Apart(p, q)
      BY <1>3, <2>2 DEF Others, IndInv
    <3> QED BY <3>1 DEF Apart, At, Inserting, Reversing
  <2> QED BY <2>1, <2>2
<1>4. PaymentsSound'
  <2>1. ASSUME NEW k \in Payments, NEW q \in Requests, Inserting(q, k)'
        PROVE  ~Recorded(k)
    <3>1. CASE q = r
      BY <2>1, <3>1
    <3>2. CASE q # r
      <4>1. Inserting(q, k)
        BY <2>1, <3>2 DEF Others, Inserting
      <4> QED BY <4>1 DEF IndInv, PaymentsSound
    <3> QED BY <3>1, <3>2
  <2> QED BY <2>1 DEF IndInv, PaymentsSound, Recorded, Issued
<1>5. InvoicesSound' /\ NeverOverpaid' /\ ReversalsBounded' /\ ReceiptsGapless'
  BY DEF IndInv, InvoicesSound, NeverOverpaid, ReversalsBounded, ReceiptsGapless, Issued,
         Recorded
<1> QED BY <1>1, <1>2, <1>3, <1>4, <1>5 DEF IndInv

\* A request that holds nothing and is not further than the INSERT is apart from
\* every other one.
LEMMA HoldingNothing ==
    ASSUME IndInv, NEW r \in Requests, NEW x \in RequestRecords,
           req' = [req EXCEPT ![r] = x],
           x.pc \in {"idle", "insert"},
           x.part = Nothing, x.written = Unwritten, x.locks = {}, x.shares = {}
    PROVE  /\ req' \in [Requests -> RequestRecords]
           /\ req'[r] = x
           /\ \A q \in Others(r) : req'[q] = req[q]
           /\ RequestSound(r)'
           /\ \A q \in Others(r) : Apart(r, q)' /\ Apart(q, r)'
           /\ \A k \in Payments : ~Inserting(r, k)' /\ ~Reversing(r, k)'
<1>1. req' \in [Requests -> RequestRecords] /\ req'[r] = x
      /\ \A q \in Others(r) : req'[q] = req[q]
  BY DEF IndInv, TypeOK, Others
<1>2. RequestSound(r)'
  BY <1>1 DEF RequestSound, HoldsNothing
<1>3. \A k \in Payments : ~Inserting(r, k)' /\ ~Reversing(r, k)'
  BY <1>1 DEF Inserting, Reversing
<1>4. ASSUME NEW q \in Others(r) PROVE Apart(r, q)'
  BY <1>1, <1>3 DEF Apart, At
<1>5. ASSUME NEW q \in Others(r) PROVE Apart(q, r)'
  <2>1. req'[q] = req[q] /\ req[q].locks \subseteq Invoices
    BY <1>1 DEF Others, IndInv, TypeOK, RequestRecords
  <2>2. \A i \in Invoices : req'[r].written[i] = "none"
    BY <1>1 DEF Unwritten
  <2> QED BY <1>1, <1>3, <2>1, <2>2 DEF Apart, At
<1> QED BY <1>1, <1>2, <1>3, <1>4, <1>5

\* A request that begins to record a payment.
LEMMA BeginStep ==
    ASSUME IndInv, NEW r \in Requests, Begin(r)
    PROVE  IndInv'
<1>1. PICK k \in Payments, a \in Amounts :
        req' = [req EXCEPT ![r] = [Idle(k) EXCEPT !.pc = "insert", !.amount = a, !.left = a]]
  BY DEF Begin
<1> DEFINE x == [Idle(k) EXCEPT !.pc = "insert", !.amount = a, !.left = a]
<1>2. x \in RequestRecords /\ x.pc = "insert" /\ x.part = Nothing /\ x.written = Unwritten
      /\ x.locks = {} /\ x.shares = {}
  <2>1. a \in Nat
    BY ConstantsAssumption DEF Amounts
  <2>2. \A y \in RequestRecords :
          [y EXCEPT !.pc = "insert", !.amount = a, !.left = a] \in RequestRecords
    BY <2>1 DEF RequestRecords, Steps
  <2>3. Idle(k) \in RequestRecords
    BY IdleFacts
  <2>4. x \in RequestRecords
    BY <2>2, <2>3
  <2> QED BY <2>4, IdleFacts DEF Idle
<1> QED BY <1>1, <1>2, HoldingNothing, RequestMoves DEF Begin

\* A request that ends without a trace: a collision or a rollback.
LEMMA EndStep ==
    ASSUME IndInv, NEW r \in Requests, InsertCollides(r) \/ Abort(r)
    PROVE  IndInv'
<1>1. req' = [req EXCEPT ![r] = Idle(SomePayment)]
      /\ UNCHANGED <<invoice, payment, alloc, undone, sequence>>
  BY DEF InsertCollides, Abort, Finish
<1> QED BY <1>1, IdleFacts, SomePaymentType, HoldingNothing, RequestMoves

\* The INSERT claims a key that nobody else is inserting.
LEMMA InsertStep ==
    ASSUME IndInv, NEW r \in Requests, Insert(r)
    PROVE  IndInv'
<1> DEFINE open == {i \in Invoices : Open(i)}
<1>1. req' = [req EXCEPT ![r].pc = "lock", ![r].todo = open]
  BY DEF Insert
<1>2. /\ req' \in [Requests -> RequestRecords]
      /\ \A q \in Others(r) : req'[q] = req[q]
      /\ req'[r].pc = "lock" /\ req'[r].k = req[r].k
      /\ req'[r].part = req[r].part /\ req'[r].written = req[r].written
      /\ req'[r].locks = req[r].locks /\ req'[r].shares = req[r].shares
  <2>1. req \in [Requests -> RequestRecords] /\ req[r] \in RequestRecords
    BY DEF IndInv, TypeOK
  <2>2. [req[r] EXCEPT !.pc = "lock", !.todo = open] \in RequestRecords
    BY <2>1 DEF RequestRecords, Steps
  <2>3. req' = [req EXCEPT ![r] = [req[r] EXCEPT !.pc = "lock", !.todo = open]]
    BY <1>1, <2>1 DEF RequestRecords
  <2> QED BY <2>1, <2>2, <2>3 DEF RequestRecords, Others
<1>3. HoldsNothing(r)
  BY DEF Insert, At, IndInv, RequestSound
<1>4. RequestSound(r)'
  BY <1>2, <1>3 DEF RequestSound, HoldsNothing
<1>5. ~Recorded(req[r].k) /\ \A q \in Others(r) : ~Inserting(q, req[r].k)
  BY DEF Insert
<1>6. ASSUME NEW q \in Others(r) PROVE Apart(r, q)' /\ Apart(q, r)'
  <2>1. req'[q] = req[q] /\ req[q].locks \subseteq Invoices
    BY <1>2 DEF Others, IndInv, TypeOK, RequestRecords
  <2>2. req'[r].locks = {} /\ req'[r].shares = {} /\ \A i \in Invoices : req'[r].written[i] = "none"
    BY <1>2, <1>3 DEF HoldsNothing, Unwritten
  <2>3. \A k \in Payments : Inserting(r, k)' => ~Inserting(q, k)'
    BY <1>2, <1>5, <2>1 DEF Inserting
  <2>4. \A k \in Payments : ~Reversing(r, k)'
    BY <1>2 DEF Reversing
  <2> QED BY <1>2, <2>1, <2>2, <2>3, <2>4 DEF Apart, At
<1>7. \A k \in Payments : Inserting(r, k)' => ~Recorded(k)
  BY <1>2, <1>5 DEF Inserting
<1> QED BY <1>2, <1>4, <1>6, <1>7, RequestMoves DEF Insert

\* FOR UPDATE is granted on invoices that nobody else holds.
LEMMA LockStep ==
    ASSUME IndInv, NEW r \in Requests, LockInvoices(r)
    PROVE  IndInv'
<1> DEFINE open == {i \in req[r].todo : Open(i)}
<1>1. req' = [req EXCEPT ![r].pc = "allocate", ![r].locks = open, ![r].todo = open]
      /\ req[r].pc = "lock"
      /\ \A i \in open : Lockable(r, i)
  BY DEF LockInvoices, At
<1>2. open \subseteq Invoices
  BY DEF IndInv, TypeOK, RequestRecords
<1>3. /\ req' \in [Requests -> RequestRecords]
      /\ \A q \in Others(r) : req'[q] = req[q]
      /\ req'[r].pc = "allocate" /\ req'[r].k = req[r].k
      /\ req'[r].part = req[r].part /\ req'[r].written = req[r].written
      /\ req'[r].locks = open /\ req'[r].todo = open /\ req'[r].shares = req[r].shares
  <2>1. req \in [Requests -> RequestRecords] /\ req[r] \in RequestRecords
    BY DEF IndInv, TypeOK
  <2>2. [req[r] EXCEPT !.pc = "allocate", !.locks = open, !.todo = open] \in RequestRecords
    BY <2>1, <1>2 DEF RequestRecords, Steps
  <2>3. req' = [req EXCEPT ![r] = [req[r] EXCEPT !.pc = "allocate", !.locks = open, !.todo = open]]
    BY <1>1, <2>1 DEF RequestRecords
  <2> QED BY <2>1, <2>2, <2>3 DEF RequestRecords, Others
<1>4. HoldsNothing(r)
  BY <1>1 DEF IndInv, RequestSound
<1>5. \A i \in Invoices : req'[r].part[i] = 0 /\ req'[r].written[i] = "none"
  BY <1>3, <1>4 DEF HoldsNothing, Nothing, Unwritten
<1>6. UNCHANGED <<invoice, payment, alloc, undone, sequence>>
  BY DEF LockInvoices
<1>7. ConfirmationSound(r)'
  <2>1. \A i \in open : Open(i) /\ invoice[i].paid + 0 <= invoice[i].total
    BY <1>2 DEF IndInv, NeverOverpaid, TypeOK, InvoiceRecords
  <2> QED BY <1>3, <1>4, <1>5, <1>6, <2>1 DEF ConfirmationSound, HoldsNothing, Open
<1>8. RequestSound(r)'
  BY <1>3, <1>7 DEF RequestSound
<1>9. ASSUME NEW q \in Others(r) PROVE Apart(r, q)' /\ Apart(q, r)'
  <2>1. req'[q] = req[q] /\ q \in Requests /\ q # r /\ req[q].locks \subseteq Invoices
    BY <1>3 DEF Others, IndInv, TypeOK, RequestRecords
  <2>2. \A i \in open : i \notin req[q].locks /\ i \notin req[q].shares
                        /\ req[q].written[i] = "none"
    BY <1>1 DEF Lockable
  <2>3. Apart(r, q) /\ Apart(q, r)
    BY <2>1 DEF IndInv
  <2>4. \A k \in Payments : (Inserting(r, k)' <=> Inserting(r, k)) /\ ~Reversing(r, k)'
                            /\ (Inserting(q, k)' <=> Inserting(q, k))
    BY <1>1, <1>3, <2>1 DEF Inserting, Reversing
  <2> QED BY <1>3, <1>4, <1>5, <2>1, <2>2, <2>3, <2>4 DEF Apart, At, HoldsNothing
<1>10. \A k \in Payments : Inserting(r, k)' => ~Recorded(k)
  <2>1. \A k \in Payments : Inserting(r, k)' => Inserting(r, k)
    BY <1>1, <1>3 DEF Inserting
  <2> QED BY <2>1 DEF IndInv, PaymentsSound
<1> QED BY <1>3, <1>6, <1>8, <1>9, <1>10, RequestMoves

\* An invoice takes what is left, up to its balance, and gets its status.
LEMMA AllocateStep ==
    ASSUME IndInv, NEW r \in Requests, Allocate(r)
    PROVE  IndInv'
<1>1. PICK i \in req[r].todo :
        req' = [req EXCEPT
             ![r].todo = @ \ {i},
             ![r].part[i] = Portion(r, i),
             ![r].left = @ - Portion(r, i),
             ![r].written[i] = IF Portion(r, i) > 0
                               THEN StatusOf(i, invoice[i].paid + Portion(r, i)) ELSE "none"]
  BY DEF Allocate
<1> DEFINE a == Portion(r, i)
<1> DEFINE w == IF a > 0 THEN StatusOf(i, invoice[i].paid + a) ELSE "none"
<1>2. req[r].pc = "allocate" /\ UNCHANGED <<invoice, payment, alloc, undone, sequence>>
  BY DEF Allocate, At
<1>3. ConfirmationSound(r)
  BY <1>2 DEF IndInv, RequestSound
<1>4. /\ i \in Invoices /\ i \in req[r].locks /\ Open(i) /\ req[r].todo \subseteq Invoices
      /\ req[r].left \in Nat /\ invoice[i].paid \in Int /\ invoice[i].total \in Nat
  BY <1>3 DEF ConfirmationSound, IndInv, TypeOK, RequestRecords, InvoiceRecords
<1>5. /\ a \in Nat /\ a <= req[r].left /\ invoice[i].paid + a <= invoice[i].total
  <2>1. Balance(i) \in Nat /\ invoice[i].paid <= invoice[i].total
    BY <1>4, BalanceFacts DEF IndInv, NeverOverpaid
  <2>2. a \in Nat /\ a <= req[r].left /\ a <= Balance(i)
    BY <1>4, <2>1 DEF Portion, Smaller
  <2>3. invoice[i].paid + Balance(i) <= invoice[i].total \/ Balance(i) = 0
    BY <1>4 DEF Balance, AtLeastZero
  <2>4. CASE Balance(i) = 0 BY <1>4, <2>1, <2>2, <2>4
  <2>5. CASE invoice[i].paid + Balance(i) <= invoice[i].total BY <1>4, <2>1, <2>2, <2>5
  <2> QED BY <2>3, <2>4, <2>5
<1>6. /\ w \in InvoiceStatuses \cup {"none"}
      /\ w = "none" <=> a = 0
      /\ a > 0 => (w = "PAID" <=> invoice[i].paid + a = invoice[i].total)
  <2>1. invoice[i].total > 0
    BY <1>4 DEF IndInv, InvoicesSound, Open, Issued, OpenStatuses
  <2>2. "none" \notin InvoiceStatuses
    BY DEF InvoiceStatuses, OpenStatuses
  <2>3. /\ StatusOf(i, invoice[i].paid + a) \in InvoiceStatuses
        /\ StatusOf(i, invoice[i].paid + a) = "PAID" <=> invoice[i].paid + a >= invoice[i].total
    BY <1>4, <1>5, <2>1, StatusFacts DEF IndInv
  <2> QED BY <1>4, <1>5, <2>2, <2>3
<1>7. req' = [req EXCEPT ![r].todo = @ \ {i}, ![r].part[i] = a, ![r].left = @ - a,
                         ![r].written[i] = w]
  BY <1>1
<1>8. /\ \A q \in Others(r) : req'[q] = req[q]
      /\ req'[r].pc = "allocate" /\ req'[r].k = req[r].k
      /\ req'[r].part = [req[r].part EXCEPT ![i] = a]
      /\ req'[r].written = [req[r].written EXCEPT ![i] = w]
      /\ req'[r].locks = req[r].locks /\ req'[r].todo = req[r].todo \ {i}
      /\ req'[r].shares = req[r].shares
  BY <1>2, <1>7 DEF IndInv, TypeOK, RequestRecords, Others
<1>9. req' \in [Requests -> RequestRecords]
  <2>1. req[r] \in RequestRecords /\ req \in [Requests -> RequestRecords]
    BY DEF IndInv, TypeOK
  <2>2. req[r].left - a \in Nat
    BY <1>4, <1>5
  <2>3. [req[r].part EXCEPT ![i] = a] \in [Invoices -> Nat]
    BY <1>4, <1>5, <2>1 DEF RequestRecords
  <2>4. [req[r].written EXCEPT ![i] = w] \in [Invoices -> InvoiceStatuses \cup {"none"}]
    BY <1>4, <1>6, <2>1 DEF RequestRecords
  <2>5. [req[r] EXCEPT !.todo = @ \ {i}, !.part = [req[r].part EXCEPT ![i] = a],
                       !.left = @ - a, !.written = [req[r].written EXCEPT ![i] = w]]
          \in RequestRecords
    BY <2>1, <2>2, <2>3, <2>4 DEF RequestRecords
  <2>6. req' = [req EXCEPT ![r] =
          [req[r] EXCEPT !.todo = @ \ {i}, !.part = [req[r].part EXCEPT ![i] = a],
                         !.left = @ - a, !.written = [req[r].written EXCEPT ![i] = w]]]
    BY <1>7, <2>1 DEF RequestRecords
  <2> QED BY <2>1, <2>5, <2>6
<1>10. \A j \in Invoices :
         /\ req'[r].part[j] = IF j = i THEN a ELSE req[r].part[j]
         /\ req'[r].written[j] = IF j = i THEN w ELSE req[r].written[j]
  BY <1>4, <1>8 DEF IndInv, TypeOK, RequestRecords
<1>11. ConfirmationSound(r)'
  BY <1>2, <1>3, <1>4, <1>5, <1>6, <1>8, <1>10 DEF ConfirmationSound, Open
<1>12. RequestSound(r)'
  BY <1>8, <1>11 DEF RequestSound
<1>13. ASSUME NEW q \in Others(r) PROVE Apart(r, q)' /\ Apart(q, r)'
  <2>1. req'[q] = req[q] /\ Apart(r, q) /\ Apart(q, r) /\ req[q].locks \subseteq Invoices
    BY <1>8 DEF Others, IndInv, TypeOK, RequestRecords
  <2>2. i \notin req[q].locks
    BY <1>4, <2>1 DEF Apart
  <2>3. \A k \in Payments : (Inserting(r, k)' <=> Inserting(r, k)) /\ ~Reversing(r, k)'
                            /\ (Inserting(q, k)' <=> Inserting(q, k))
    BY <1>2, <1>8, <2>1 DEF Inserting, Reversing
  <2> QED BY <1>8, <1>10, <2>1, <2>2, <2>3 DEF Apart, At
<1>14. \A k \in Payments : Inserting(r, k)' => ~Recorded(k)
  <2>1. \A k \in Payments : Inserting(r, k)' => Inserting(r, k)
    BY <1>2, <1>8 DEF Inserting
  <2> QED BY <2>1 DEF IndInv, PaymentsSound
<1> QED BY <1>2, <1>8, <1>9, <1>12, <1>13, <1>14, RequestMoves

\* One payment at a time holds the receipt sequence.
LEMMA NumberStep ==
    ASSUME IndInv, NEW r \in Requests, NumberReceipt(r)
    PROVE  IndInv'
<1>1. /\ req' = [req EXCEPT ![r].pc = "record", ![r].number = sequence]
      /\ req[r].pc = "allocate"
      /\ UNCHANGED <<invoice, payment, alloc, undone, sequence>>
      /\ \A q \in Others(r) : req[q].pc # "record"
  BY DEF NumberReceipt, At, SequenceFree
<1>2. /\ req' \in [Requests -> RequestRecords]
      /\ \A q \in Others(r) : req'[q] = req[q]
      /\ req'[r].pc = "record" /\ req'[r].k = req[r].k /\ req'[r].number = sequence
      /\ req'[r].part = req[r].part /\ req'[r].written = req[r].written
      /\ req'[r].locks = req[r].locks /\ req'[r].todo = req[r].todo
      /\ req'[r].shares = req[r].shares
  <2>1. req \in [Requests -> RequestRecords] /\ req[r] \in RequestRecords /\ sequence \in Nat
    BY DEF IndInv, TypeOK
  <2>2. [req[r] EXCEPT !.pc = "record", !.number = sequence] \in RequestRecords
    BY <2>1 DEF RequestRecords, Steps
  <2>3. req' = [req EXCEPT ![r] = [req[r] EXCEPT !.pc = "record", !.number = sequence]]
    BY <1>1, <2>1 DEF RequestRecords
  <2> QED BY <2>1, <2>2, <2>3 DEF RequestRecords, Others
<1>3. RequestSound(r)'
  <2>1. ConfirmationSound(r)
    BY <1>1 DEF IndInv, RequestSound
  <2>2. ConfirmationSound(r)'
    BY <1>1, <1>2, <2>1 DEF ConfirmationSound, Open
  <2> QED BY <1>2, <2>2 DEF RequestSound
<1>4. ASSUME NEW q \in Others(r) PROVE Apart(r, q)' /\ Apart(q, r)'
  <2>1. req'[q] = req[q] /\ Apart(r, q) /\ Apart(q, r) /\ req[q].pc # "record"
    BY <1>1, <1>2 DEF Others, IndInv
  <2>2. \A k \in Payments : (Inserting(r, k)' <=> Inserting(r, k)) /\ ~Reversing(r, k)'
                            /\ (Inserting(q, k)' <=> Inserting(q, k))
    BY <1>1, <1>2, <2>1 DEF Inserting, Reversing
  <2> QED BY <1>2, <2>1, <2>2 DEF Apart, At
<1>5. \A k \in Payments : Inserting(r, k)' => ~Recorded(k)
  <2>1. \A k \in Payments : Inserting(r, k)' => Inserting(r, k)
    BY <1>1, <1>2 DEF Inserting
  <2> QED BY <2>1 DEF IndInv, PaymentsSound
<1> QED BY <1>1, <1>2, <1>3, <1>4, <1>5, RequestMoves

\* A reversal begins with nothing given back.
LEMMA BeginReversalStep ==
    ASSUME IndInv, NEW r \in Requests, BeginReversal(r)
    PROVE  IndInv'
<1>1. PICK k \in Payments, a \in Amounts :
        /\ Recorded(k)
        /\ \A q \in Others(r) : ~Reversing(q, k)
        /\ a <= Reversible(k)
        /\ req' = [req EXCEPT ![r] =
             [Idle(k) EXCEPT !.pc = "portion", !.amount = a, !.left = a,
                             !.todo = {i \in Invoices : alloc[k][i] > 0}]]
  BY DEF BeginReversal
<1> DEFINE todo == {i \in Invoices : alloc[k][i] > 0}
<1> DEFINE x == [Idle(k) EXCEPT !.pc = "portion", !.amount = a, !.left = a, !.todo = todo]
<1>2. UNCHANGED <<invoice, payment, alloc, undone, sequence>>
  BY DEF BeginReversal
<1>3. x \in RequestRecords
  <2>1. a \in Nat
    BY ConstantsAssumption DEF Amounts
  <2>2. \A y \in RequestRecords :
          [y EXCEPT !.pc = "portion", !.amount = a, !.left = a, !.todo = todo]
            \in RequestRecords
    BY <2>1 DEF RequestRecords, Steps
  <2>3. Idle(k) \in RequestRecords
    BY IdleFacts
  <2> QED BY <2>2, <2>3
<1>4. /\ x.pc = "portion" /\ x.k = k /\ x.amount = a /\ x.todo = todo
      /\ x.part = Nothing /\ x.written = Unwritten /\ x.locks = {} /\ x.shares = {}
  BY DEF Idle
<1>5. req' \in [Requests -> RequestRecords] /\ req'[r] = x
      /\ \A q \in Others(r) : req'[q] = req[q]
  BY <1>1, <1>3 DEF IndInv, TypeOK, Others
<1>6. /\ req'[r].pc = "portion" /\ req'[r].k = k /\ req'[r].amount = a
      /\ req'[r].todo = todo /\ req'[r].locks = {} /\ req'[r].shares = {}
      /\ \A i \in Invoices : req'[r].part[i] = 0 /\ req'[r].written[i] = "none"
  <2> HIDE DEF x
  <2> QED BY <1>4, <1>5 DEF Nothing, Unwritten
<1> HIDE DEF x, todo
<1>7. RequestSound(r)'
  <2>1. \A i \in Invoices : 0 <= alloc[k][i] - undone[k][i]
    BY DEF IndInv, TypeOK, ReversalsBounded
  <2>2. payment[k].receipt # 0 /\ a <= payment[k].amount - payment[k].reversed
    BY <1>1 DEF Recorded, Reversible
  <2>3. ReversalSound(r)'
    BY <1>2, <1>6, <2>1, <2>2 DEF ReversalSound, Recorded, Reversible
  <2> QED BY <1>6, <2>3 DEF RequestSound
<1>8. \A j \in Payments : ~Inserting(r, j)' /\ (Reversing(r, j)' => j = k)
  BY <1>6 DEF Inserting, Reversing
<1>9. ASSUME NEW q \in Others(r) PROVE Apart(r, q)' /\ Apart(q, r)'
  <2>1. req'[q] = req[q] /\ req[q].locks \subseteq Invoices
    BY <1>5 DEF Others, IndInv, TypeOK, RequestRecords
  <2>2. ~Reversing(q, k)'
    BY <1>1, <2>1 DEF Reversing
  <2>3. Apart(r, q)'
    BY <1>6, <1>8, <2>2 DEF Apart, At
  <2>4. Apart(q, r)'
    BY <1>6, <1>8, <2>1, <2>2 DEF Apart, At
  <2> QED BY <2>3, <2>4
<1> QED BY <1>2, <1>5, <1>7, <1>8, <1>9, RequestMoves

\* An invoice that a reversal shares was issued.
LEMMA SharedIssued ==
    ASSUME IndInv, NEW r \in Requests, req[r].pc \in {"portion", "status"},
           NEW i \in Invoices, alloc[req[r].k][i] > 0 \/ i \in req[r].shares
    PROVE  Issued(i)
<1>1. req[r].k \in Payments /\ req[r].part[i] \in Nat
      /\ alloc[req[r].k][i] \in Nat /\ undone[req[r].k][i] \in Nat
  BY DEF IndInv, TypeOK, RequestRecords
<1>2. ReversalSound(r)
  BY DEF IndInv, RequestSound
<1>3. alloc[req[r].k][i] > 0
  BY <1>1, <1>2 DEF ReversalSound
<1> QED BY <1>1, <1>3 DEF IndInv, PaymentsSound

\* Steps of a reversal between two other ones, all of which keep its key, amount
\* and locks, and leave it apart from the others if what it adds is.
LEMMA ReversalMoves ==
    ASSUME IndInv, NEW r \in Requests,
           UNCHANGED <<invoice, payment, alloc, undone, sequence>>,
           req' \in [Requests -> RequestRecords],
           \A q \in Others(r) : req'[q] = req[q],
           req[r].pc \in {"portion", "status"}, req'[r].pc \in {"portion", "status"},
           req'[r].k = req[r].k, req'[r].locks = req[r].locks,
           ReversalSound(r)',
           \A q \in Others(r) : \A i \in req[q].locks :
              i \notin req'[r].shares /\ req'[r].written[i] = "none"
    PROVE  IndInv'
<1>1. RequestSound(r)'
  BY DEF RequestSound
<1>2. ASSUME NEW q \in Others(r) PROVE Apart(r, q)' /\ Apart(q, r)'
  <2>1. req'[q] = req[q] /\ Apart(r, q) /\ Apart(q, r)
    BY DEF Others, IndInv
  <2>2. req[r].locks = {}
    BY DEF IndInv, RequestSound, ReversalSound
  <2>3. \A k \in Payments : /\ ~Inserting(r, k)'
                            /\ Reversing(r, k)' <=> Reversing(r, k)
                            /\ Reversing(q, k)' <=> Reversing(q, k)
    BY <2>1 DEF Inserting, Reversing
  <2> QED BY <2>1, <2>2, <2>3 DEF Apart, At
<1>3. \A k \in Payments : ~Inserting(r, k)'
  BY DEF Inserting
<1> QED BY <1>1, <1>2, <1>3, RequestMoves

\* What a reversal shares or has written is locked by no payment.
LEMMA SharesUnlocked ==
    ASSUME IndInv, NEW r \in Requests, NEW q \in Others(r)
    PROVE  \A i \in req[q].locks : i \notin req[r].shares /\ req[r].written[i] = "none"
BY DEF IndInv, Others, Apart

\* Passing over an allocation changes only the invoices that are left to visit.
LEMMA SkipStep ==
    ASSUME IndInv, NEW r \in Requests, SkipPortion(r)
    PROVE  IndInv'
<1>1. PICK i \in req[r].todo : req' = [req EXCEPT ![r].todo = @ \ {i}]
  BY DEF SkipPortion
<1>2. req[r].pc = "portion" /\ UNCHANGED <<invoice, payment, alloc, undone, sequence>>
  BY DEF SkipPortion, At
<1>3. /\ req' \in [Requests -> RequestRecords]
      /\ \A q \in Others(r) : req'[q] = req[q]
      /\ req'[r] = [req[r] EXCEPT !.todo = @ \ {i}]
  <2>1. req \in [Requests -> RequestRecords] /\ req[r] \in RequestRecords
    BY DEF IndInv, TypeOK
  <2>2. [req[r] EXCEPT !.todo = @ \ {i}] \in RequestRecords
    BY <2>1 DEF RequestRecords
  <2>3. req' = [req EXCEPT ![r] = [req[r] EXCEPT !.todo = @ \ {i}]]
    BY <1>1, <2>1 DEF RequestRecords
  <2> QED BY <2>1, <2>2, <2>3 DEF Others
<1>4. /\ req'[r].pc = req[r].pc /\ req'[r].k = req[r].k /\ req'[r].amount = req[r].amount
      /\ req'[r].part = req[r].part /\ req'[r].written = req[r].written
      /\ req'[r].locks = req[r].locks /\ req'[r].shares = req[r].shares
      /\ req'[r].todo = req[r].todo \ {i}
  BY <1>3 DEF IndInv, TypeOK, RequestRecords
<1>5. ReversalSound(r)
  BY <1>2 DEF IndInv, RequestSound
<1>6. ReversalSound(r)'
  BY <1>2, <1>4, <1>5 DEF ReversalSound, Recorded, Reversible
<1>7. \A q \in Others(r) : \A j \in req[q].locks :
        j \notin req'[r].shares /\ req'[r].written[j] = "none"
  BY <1>4, SharesUnlocked
<1> QED BY <1>2, <1>3, <1>4, <1>6, <1>7, ReversalMoves

\* What is given back leaves the invoice owed, so its status is not PAID.
LEMMA ReverseStep ==
    ASSUME IndInv, NEW r \in Requests, ReversePortion(r)
    PROVE  IndInv'
<1> DEFINE a(i) == Smaller(req[r].left, Available(req[r].k, i))
<1> DEFINE s(i) == StatusOf(i, invoice[i].paid - a(i))
<1> DEFINE c(i) == IF s(i) = invoice[i].status THEN "portion" ELSE "status"
<1>1. PICK i \in req[r].todo :
        /\ a(i) > 0
        /\ Shareable(r, i)
        /\ req' = [req EXCEPT
             ![r].todo = @ \ {i}, ![r].part[i] = a(i), ![r].left = @ - a(i),
             ![r].shares = @ \cup {i}, ![r].pc = c(i), ![r].at = i, ![r].next = s(i)]
  BY DEF ReversePortion
<1>2. req[r].pc = "portion" /\ UNCHANGED <<invoice, payment, alloc, undone, sequence>>
  BY DEF ReversePortion, At
<1>3. ReversalSound(r)
  BY <1>2 DEF IndInv, RequestSound
<1>4. /\ req \in [Requests -> RequestRecords] /\ req[r] \in RequestRecords
      /\ i \in Invoices /\ req[r].k \in Payments /\ req[r].left \in Nat
      /\ alloc[req[r].k][i] \in Nat /\ undone[req[r].k][i] \in Nat
      /\ invoice[i].paid \in Int /\ invoice[i].total \in Nat
  BY DEF IndInv, TypeOK, RequestRecords, InvoiceRecords
<1>5. /\ a(i) \in Nat /\ a(i) <= req[r].left
      /\ a(i) <= alloc[req[r].k][i] - undone[req[r].k][i]
  <2>1. Available(req[r].k, i) \in Nat
    BY <1>4 DEF Available, AtLeastZero
  <2>2. a(i) \in Nat /\ a(i) <= req[r].left /\ a(i) <= Available(req[r].k, i)
    BY <1>4, <2>1, ArithmeticFacts
  <2>3. a(i) > 0
    BY <1>1
  <2> HIDE DEF a
  <2> QED BY <1>4, <2>2, <2>3 DEF Available, AtLeastZero
<1>6. /\ s(i) \in OpenStatuses
      /\ c(i) \in {"portion", "status"}
      /\ c(i) = "portion" => invoice[i].status # "PAID"
  <2>1. alloc[req[r].k][i] > 0
    BY <1>1, <1>4, <1>5
  <2>2. Issued(i)
    BY <1>2, <1>4, <2>1, SharedIssued
  <2>3. invoice[i].total > 0 /\ invoice[i].paid <= invoice[i].total
    BY <1>4, <2>2 DEF IndInv, InvoicesSound, NeverOverpaid
  <2>4. invoice[i].paid - a(i) \in Int /\ ~(invoice[i].paid - a(i) >= invoice[i].total)
    BY <1>1, <1>4, <1>5, <2>3
  <2>5. s(i) \in InvoiceStatuses /\ s(i) # "PAID"
    BY <1>4, <2>3, <2>4, StatusFacts DEF IndInv
  <2> QED BY <2>5 DEF InvoiceStatuses, OpenStatuses
<1> DEFINE x == [req[r] EXCEPT
             !.todo = @ \ {i}, !.part = [req[r].part EXCEPT ![i] = a(i)], !.left = @ - a(i),
             !.shares = @ \cup {i}, !.pc = c(i), !.at = i, !.next = s(i)]
<1>7. x \in RequestRecords
  <2>1. req[r].left - a(i) \in Nat
    BY <1>4, <1>5
  <2>2. [req[r].part EXCEPT ![i] = a(i)] \in [Invoices -> Nat]
    BY <1>4, <1>5 DEF RequestRecords
  <2>3. s(i) \in InvoiceStatuses \cup {"none"} /\ c(i) \in Steps
    BY <1>6 DEF InvoiceStatuses, Steps
  <2>4. i \in 0 .. NInvoices
    BY <1>4, ConstantsAssumption DEF Invoices
  <2>5. req[r].shares \cup {i} \in SUBSET Invoices /\ req[r].todo \ {i} \in SUBSET Invoices
    BY <1>4 DEF RequestRecords
  <2> HIDE DEF a, s, c
  <2> QED BY <1>4, <2>1, <2>2, <2>3, <2>4, <2>5 DEF RequestRecords
<1>8. req' = [req EXCEPT ![r] = x]
  <2> HIDE DEF a, s, c
  <2> QED BY <1>1, <1>4 DEF RequestRecords
<1>9. /\ req' \in [Requests -> RequestRecords] /\ req'[r] = x
      /\ \A q \in Others(r) : req'[q] = req[q]
  <2> HIDE DEF x
  <2> QED BY <1>4, <1>7, <1>8 DEF Others
<1>10. /\ x.pc = c(i) /\ x.k = req[r].k /\ x.amount = req[r].amount
       /\ x.written = req[r].written /\ x.locks = req[r].locks
       /\ x.shares = req[r].shares \cup {i} /\ x.todo = req[r].todo \ {i}
       /\ x.at = i /\ x.next = s(i)
       /\ \A j \in Invoices : x.part[j] = IF j = i THEN a(i) ELSE req[r].part[j]
  <2> HIDE DEF a, s, c
  <2> QED BY <1>4 DEF RequestRecords
<1> HIDE DEF a, s, c, x
<1>11. ReversalSound(r)'
  <2>1. /\ x.locks = {}
        /\ payment[x.k].receipt # 0
        /\ x.amount <= payment[x.k].amount - payment[x.k].reversed
    BY <1>3, <1>10 DEF ReversalSound, Recorded, Reversible
  <2>2. ASSUME NEW j \in Invoices
        PROVE  /\ j \in x.shares <=> x.part[j] > 0
               /\ j \in x.todo => j \notin x.shares
               /\ x.part[j] <= alloc[x.k][j] - undone[x.k][j]
               /\ x.written[j] # "none" => j \in x.shares
               /\ x.written[j] # "PAID"
    BY <1>1, <1>3, <1>5, <1>10 DEF ReversalSound
  <2>3. ASSUME NEW j \in Invoices, j \in x.shares, x.written[j] = "none",
               ~(x.pc = "status" /\ x.at = j)
        PROVE  invoice[j].status # "PAID"
    <3>1. CASE j = i
      BY <1>6, <1>10, <2>3, <3>1
    <3>2. CASE j # i
      BY <1>2, <1>3, <1>10, <2>3, <3>2 DEF ReversalSound
    <3> QED BY <3>1, <3>2
  <2>4. x.pc = "status" => x.at \in x.shares /\ x.next \in OpenStatuses
    BY <1>6, <1>10
  <2> QED BY <1>2, <1>9, <2>1, <2>2, <2>3, <2>4 DEF ReversalSound, Recorded, Reversible
<1>12. \A q \in Others(r) : \A j \in req[q].locks :
         j \notin req'[r].shares /\ req'[r].written[j] = "none"
  <2>1. \A q \in Others(r) : i \notin req[q].locks
    BY <1>1 DEF Shareable
  <2> QED BY <1>9, <1>10, <2>1, SharesUnlocked
<1>13. req'[r].pc \in {"portion", "status"} /\ req'[r].k = req[r].k
       /\ req'[r].locks = req[r].locks
  BY <1>6, <1>9, <1>10
<1> QED BY <1>2, <1>9, <1>11, <1>12, <1>13, ReversalMoves

\* The status written is the one computed, of an invoice that the request shares.
LEMMA WriteStep ==
    ASSUME IndInv, NEW r \in Requests, WriteStatus(r)
    PROVE  IndInv'
<1> DEFINE i == req[r].at
<1>1. /\ req' = [req EXCEPT ![r].pc = "portion", ![r].written[i] = req[r].next]
      /\ req[r].pc = "status" /\ UNCHANGED <<invoice, payment, alloc, undone, sequence>>
  BY DEF WriteStatus, At
<1>2. ReversalSound(r)
  BY <1>1 DEF IndInv, RequestSound
<1>3. /\ req \in [Requests -> RequestRecords] /\ req[r] \in RequestRecords
      /\ i \in req[r].shares /\ i \in Invoices /\ req[r].next \in OpenStatuses
  BY <1>1, <1>2 DEF ReversalSound, IndInv, TypeOK, RequestRecords
<1> DEFINE x == [req[r] EXCEPT !.pc = "portion",
                               !.written = [req[r].written EXCEPT ![i] = req[r].next]]
<1>4. x \in RequestRecords
  <2>1. [req[r].written EXCEPT ![i] = req[r].next] \in [Invoices -> InvoiceStatuses \cup {"none"}]
    BY <1>3 DEF RequestRecords, InvoiceStatuses
  <2> QED BY <1>3, <2>1 DEF RequestRecords, Steps
<1>5. req' = [req EXCEPT ![r] = x]
  BY <1>1, <1>3 DEF RequestRecords
<1>6. /\ req' \in [Requests -> RequestRecords] /\ req'[r] = x
      /\ \A q \in Others(r) : req'[q] = req[q]
  <2> HIDE DEF x
  <2> QED BY <1>3, <1>4, <1>5 DEF Others
<1>7. /\ x.pc = "portion" /\ x.k = req[r].k /\ x.amount = req[r].amount
      /\ x.part = req[r].part /\ x.locks = req[r].locks
      /\ x.shares = req[r].shares /\ x.todo = req[r].todo
      /\ \A j \in Invoices : x.written[j] = IF j = i THEN req[r].next ELSE req[r].written[j]
  BY <1>3 DEF RequestRecords
<1> HIDE DEF i, x
<1>8. ReversalSound(r)'
  <2>1. /\ x.locks = {}
        /\ payment[x.k].receipt # 0
        /\ x.amount <= payment[x.k].amount - payment[x.k].reversed
    BY <1>2, <1>7 DEF ReversalSound, Recorded, Reversible
  <2>2. req[r].next # "none" /\ req[r].next # "PAID"
    BY <1>3 DEF OpenStatuses
  <2>3. ASSUME NEW j \in Invoices
        PROVE  /\ j \in x.shares <=> x.part[j] > 0
               /\ j \in x.todo => j \notin x.shares
               /\ x.part[j] <= alloc[x.k][j] - undone[x.k][j]
               /\ x.written[j] # "none" => j \in x.shares
               /\ x.written[j] # "PAID"
    BY <1>2, <1>3, <1>7, <2>2 DEF ReversalSound
  <2>4. ASSUME NEW j \in Invoices, j \in x.shares, x.written[j] = "none"
        PROVE  invoice[j].status # "PAID"
    <3>1. j # i /\ req[r].written[j] = "none"
      BY <1>7, <2>2, <2>4
    <3> QED BY <1>2, <1>7, <2>4, <3>1 DEF ReversalSound, i
  <2> QED BY <1>1, <1>6, <1>7, <2>1, <2>3, <2>4 DEF ReversalSound, Recorded, Reversible
<1>9. \A q \in Others(r) : \A j \in req[q].locks :
        j \notin req'[r].shares /\ req'[r].written[j] = "none"
  <2>1. ASSUME NEW q \in Others(r), NEW j \in req[q].locks
        PROVE  j \in Invoices /\ j # i
    <3>1. j \in Invoices
      BY DEF Others, IndInv, TypeOK, RequestRecords
    <3> QED BY <1>3, <2>1, <3>1, SharesUnlocked
  <2> QED BY <1>6, <1>7, <2>1, SharesUnlocked
<1>10. req'[r].pc \in {"portion", "status"} /\ req'[r].k = req[r].k
       /\ req'[r].locks = req[r].locks
  BY <1>6, <1>7
<1> QED BY <1>1, <1>6, <1>8, <1>9, <1>10, ReversalMoves

-----------------------------------------------------------------------------
(* Steps that change the tables *)

\* A commit lets everything go; the other requests are as far apart as before.
LEMMA CommitLetsGo ==
    ASSUME IndInv, NEW r \in Requests, Finish(r)
    PROVE  /\ req' \in [Requests -> RequestRecords]
           /\ \A q \in Others(r) : req'[q] = req[q]
           /\ RequestSound(r)'
           /\ \A p, q \in Requests : p # q => Apart(p, q)'
           /\ \A q \in Requests, k \in Payments :
                Inserting(q, k)' => q # r /\ Inserting(q, k)
<1>1. req' = [req EXCEPT ![r] = Idle(SomePayment)]
  BY DEF Finish
<1>2. /\ req' \in [Requests -> RequestRecords]
      /\ \A q \in Others(r) : req'[q] = req[q]
      /\ RequestSound(r)'
      /\ \A q \in Others(r) : Apart(r, q)' /\ Apart(q, r)'
      /\ \A k \in Payments : ~Inserting(r, k)' /\ ~Reversing(r, k)'
  BY <1>1, IdleFacts, SomePaymentType, HoldingNothing
<1>3. ASSUME NEW p \in Requests, NEW q \in Requests, p # q PROVE Apart(p, q)'
  <2>1. CASE p = r \/ q = r
    BY <1>2, <1>3, <2>1 DEF Others
  <2>2. CASE p # r /\ q # r
    <3>1. req'[p] = req[p] /\ req'[q] = req[q] /\ Apart(p, q)
      BY <1>2, <1>3, <2>2 DEF Others, IndInv
    <3> QED BY <3>1 DEF Apart, At, Inserting, Reversing
  <2> QED BY <2>1, <2>2
<1>4. ASSUME NEW q \in Requests, NEW k \in Payments, Inserting(q, k)'
      PROVE  q # r /\ Inserting(q, k)
  <2>1. q # r
    BY <1>2, <1>4
  <2>2. req'[q] = req[q]
    BY <1>2, <2>1 DEF Others
  <2> QED BY <1>4, <2>1, <2>2 DEF Inserting
<1> QED BY <1>2, <1>3, <1>4

\* What the commit of request r leaves in invoice i.
LEMMA UpdatedFacts ==
    ASSUME TypeOK, NEW i \in Invoices, NEW paid \in Int,
           NEW written \in [Invoices -> InvoiceStatuses \cup {"none"}]
    PROVE  /\ Updated(i, written, paid) \in InvoiceRecords
           /\ Updated(i, written, paid).paid = paid
           /\ Updated(i, written, paid).total = invoice[i].total
           /\ Updated(i, written, paid).late = invoice[i].late
           /\ Updated(i, written, paid).status =
                IF written[i] = "none" THEN invoice[i].status ELSE written[i]
<1>1. invoice[i] \in InvoiceRecords /\ written[i] \in InvoiceStatuses \cup {"none"}
  BY DEF TypeOK
<1> QED BY <1>1 DEF Updated, InvoiceRecords

\* The tables after a confirmed payment: only locked invoices change, as the
\* transaction computed it.
LEMMA PaymentTables ==
    ASSUME IndInv, NEW r \in Requests, CommitPayment(r)
    PROVE  /\ req[r].k \in Payments /\ ~Recorded(req[r].k)
           /\ ConfirmationSound(r)
           /\ invoice' \in [Invoices -> InvoiceRecords]
           /\ \A i \in Invoices :
                /\ invoice'[i].total = invoice[i].total
                /\ invoice'[i].late = invoice[i].late
                /\ invoice'[i].paid = invoice[i].paid + req[r].part[i]
                /\ invoice'[i].status = IF req[r].written[i] = "none"
                                        THEN invoice[i].status ELSE req[r].written[i]
                /\ i \notin req[r].locks => invoice'[i] = invoice[i]
           /\ payment' = [payment EXCEPT ![req[r].k] =
                [amount |-> req[r].amount, credit |-> req[r].left, reversed |-> 0,
                 receipt |-> sequence]]
           /\ alloc' = [alloc EXCEPT ![req[r].k] = req[r].part]
           /\ undone' = undone /\ sequence' = sequence + 1 /\ Finish(r)
<1>1. req[r].pc = "record" /\ req[r] \in RequestRecords /\ req[r].k \in Payments
  BY DEF CommitPayment, At, IndInv, TypeOK, RequestRecords
<1>2. ConfirmationSound(r)
  BY <1>1 DEF IndInv, RequestSound
<1>3. ~Recorded(req[r].k)
  BY <1>1 DEF IndInv, PaymentsSound, Inserting
<1>4. invoice' = [i \in Invoices |->
                    Updated(i, req[r].written, invoice[i].paid + req[r].part[i])]
  BY DEF CommitPayment
<1>5. ASSUME NEW i \in Invoices
      PROVE  /\ invoice'[i] \in InvoiceRecords
             /\ invoice'[i].total = invoice[i].total
             /\ invoice'[i].paid = invoice[i].paid + req[r].part[i]
             /\ invoice'[i].late = invoice[i].late
             /\ invoice'[i].status = IF req[r].written[i] = "none"
                                     THEN invoice[i].status ELSE req[r].written[i]
  <2>1. invoice[i].paid + req[r].part[i] \in Int
    BY <1>1 DEF IndInv, TypeOK, RequestRecords, InvoiceRecords
  <2>2. TypeOK /\ req[r].written \in [Invoices -> InvoiceStatuses \cup {"none"}]
    BY <1>1 DEF IndInv, RequestRecords
  <2>3. invoice'[i] = Updated(i, req[r].written, invoice[i].paid + req[r].part[i])
    BY <1>4
  <2> QED BY <2>1, <2>2, <2>3, UpdatedFacts
<1>6. ASSUME NEW i \in Invoices, i \notin req[r].locks PROVE invoice'[i] = invoice[i]
  <2>1. req[r].part[i] = 0 /\ req[r].written[i] = "none"
    BY <1>2, <1>6 DEF ConfirmationSound
  <2>2. invoice[i] \in InvoiceRecords /\ invoice[i].paid + 0 = invoice[i].paid
    BY DEF IndInv, TypeOK, InvoiceRecords
  <2> QED BY <1>5, <2>1, <2>2 DEF InvoiceRecords
<1>7. req[r].number = sequence
  BY <1>1, <1>2 DEF ConfirmationSound
<1> QED BY <1>1, <1>2, <1>3, <1>4, <1>5, <1>6, <1>7 DEF CommitPayment, Credit

\* A commit of a payment disturbs nobody: what others lock or share is not what
\* it changes, and nobody else reads its key or holds the sequence.
LEMMA PaymentSpares ==
    ASSUME IndInv, NEW r \in Requests, CommitPayment(r), NEW q \in Others(r)
    PROVE  RequestSound(q)'
<1>1. q \in Requests /\ q # r /\ req'[q] = req[q] /\ req[q] \in RequestRecords
  BY PaymentTables, CommitLetsGo DEF Others, IndInv, TypeOK
<1>2. RequestSound(q) /\ Apart(r, q) /\ Apart(q, r)
  BY <1>1 DEF IndInv
<1>3. CASE req[q].pc \in {"idle", "insert", "lock"}
  BY <1>1, <1>2, <1>3 DEF RequestSound, HoldsNothing
<1>4. CASE req[q].pc \in {"allocate", "record"}
  <2>1. ConfirmationSound(q)
    BY <1>2, <1>4 DEF RequestSound
  <2>2. req[q].pc # "record"
    BY <1>2 DEF Apart, At, CommitPayment
  <2>3. \A i \in Invoices : i \in req[q].locks => invoice'[i] = invoice[i]
    BY <1>2, PaymentTables DEF Apart
  <2>4. ConfirmationSound(q)'
    BY <1>1, <2>1, <2>2, <2>3 DEF ConfirmationSound, Open
  <2> QED BY <1>1, <1>4, <2>4 DEF RequestSound
<1>5. CASE req[q].pc \in {"portion", "status"}
  <2>1. ReversalSound(q)
    BY <1>2, <1>5 DEF RequestSound
  <2>2. req[q].k \in Payments /\ req[q].k # req[r].k
    BY <1>1, <2>1, PaymentTables DEF ReversalSound, RequestRecords
  <2>3. /\ payment'[req[q].k] = payment[req[q].k] /\ alloc'[req[q].k] = alloc[req[q].k]
        /\ undone' = undone
    BY <2>2, PaymentTables DEF IndInv, TypeOK
  <2>4. \A i \in Invoices : i \in req[q].shares => invoice'[i] = invoice[i]
    BY <1>2, PaymentTables DEF Apart
  <2>5. ReversalSound(q)'
    BY <1>1, <2>1, <2>3, <2>4 DEF ReversalSound, Recorded, Reversible
  <2> QED BY <1>1, <1>5, <2>5 DEF RequestSound
<1> QED BY <1>1, <1>3, <1>4, <1>5 DEF RequestRecords, Steps

\* A confirmed payment keeps the invariant.
LEMMA CommitPaymentStep ==
    ASSUME IndInv, NEW r \in Requests, CommitPayment(r)
    PROVE  IndInv'
<1> DEFINE k == req[r].k
<1>1. /\ k \in Payments /\ ~Recorded(k) /\ ConfirmationSound(r)
      /\ req[r] \in RequestRecords /\ sequence \in Nat \ {0}
      /\ payment' = [payment EXCEPT ![k] =
           [amount |-> req[r].amount, credit |-> req[r].left, reversed |-> 0,
            receipt |-> sequence]]
      /\ alloc' = [alloc EXCEPT ![k] = req[r].part]
      /\ undone' = undone /\ sequence' = sequence + 1 /\ Finish(r)
  BY PaymentTables DEF IndInv, TypeOK
<1>2. /\ payment'[k].amount = req[r].amount /\ payment'[k].reversed = 0
      /\ payment'[k].receipt = sequence /\ alloc'[k] = req[r].part
      /\ \A j \in Payments : j # k => payment'[j] = payment[j] /\ alloc'[j] = alloc[j]
  BY <1>1 DEF IndInv, TypeOK
<1>3. TypeOK'
  <2>1. payment' \in [Payments -> PaymentRecords]
    BY <1>1 DEF IndInv, TypeOK, PaymentRecords, RequestRecords
  <2>2. alloc' \in [Payments -> [Invoices -> Nat]]
    BY <1>1 DEF IndInv, TypeOK, RequestRecords
  <2>3. req' \in [Requests -> RequestRecords]
    BY <1>1, CommitLetsGo
  <2>4. invoice' \in [Invoices -> InvoiceRecords]
    BY PaymentTables
  <2>5. sequence' \in Nat \ {0}
    BY <1>1
  <2> QED BY <1>1, <2>1, <2>2, <2>3, <2>4, <2>5 DEF IndInv, TypeOK
<1>4. ASSUME NEW q \in Requests PROVE RequestSound(q)'
  BY <1>1, PaymentSpares, CommitLetsGo DEF Others
<1>5. \A p, q \in Requests : p # q => Apart(p, q)'
  BY <1>1, CommitLetsGo
<1>6. ASSUME NEW i \in Invoices
      PROVE  /\ Issued(i)' <=> Issued(i)
             /\ ~Issued(i) => invoice'[i] = invoice[i]
             /\ invoice'[i].total = invoice[i].total
             /\ invoice'[i].paid <= invoice[i].total
             /\ Issued(i) => (invoice'[i].status = "PAID" <=> invoice'[i].paid = invoice[i].total)
             /\ req[r].part[i] > 0 => Issued(i)
  <2>1. CASE i \notin req[r].locks
    <3>1. invoice'[i] = invoice[i] /\ req[r].part[i] = 0
      BY <1>1, <2>1, PaymentTables DEF ConfirmationSound
    <3> QED BY <3>1 DEF Issued, IndInv, InvoicesSound, NeverOverpaid
  <2>2. CASE i \in req[r].locks
    <3>1. /\ Open(i) /\ invoice[i].paid + req[r].part[i] <= invoice[i].total
          /\ req[r].written[i] = "none" <=> req[r].part[i] = 0
          /\ req[r].part[i] > 0 =>
              (req[r].written[i] = "PAID" <=> invoice[i].paid + req[r].part[i] = invoice[i].total)
      BY <1>1, <2>2 DEF ConfirmationSound
    <3>2. /\ req[r].part[i] \in Nat /\ req[r].written[i] \in InvoiceStatuses \cup {"none"}
          /\ invoice[i].paid \in Int
      BY <1>1 DEF IndInv, TypeOK, RequestRecords, InvoiceRecords
    <3>3. Issued(i) /\ invoice[i].status # "PAID"
      BY <3>1 DEF Open, Issued, OpenStatuses
    <3>4. invoice[i].paid # invoice[i].total
      BY <3>3 DEF IndInv, InvoicesSound
    <3>5. /\ invoice'[i].total = invoice[i].total
          /\ invoice'[i].paid = invoice[i].paid + req[r].part[i]
          /\ invoice'[i].status = IF req[r].written[i] = "none"
                                  THEN invoice[i].status ELSE req[r].written[i]
      BY PaymentTables
    <3>6. invoice'[i].status # "none"
      BY <3>2, <3>3, <3>5 DEF Issued, InvoiceStatuses, OpenStatuses
    <3>7. invoice'[i].status = "PAID" <=> invoice'[i].paid = invoice[i].total
      BY <3>1, <3>2, <3>3, <3>4, <3>5
    <3> QED BY <3>1, <3>3, <3>5, <3>6, <3>7 DEF Issued
  <2> QED BY <2>1, <2>2
<1>7. InvoicesSound' /\ NeverOverpaid'
  BY <1>6 DEF IndInv, InvoicesSound, NeverOverpaid
<1>8. PaymentsSound'
  <2>1. ASSUME NEW j \in Payments PROVE Recorded(j)' <=> j = k \/ Recorded(j)
    BY <1>1, <1>2 DEF Recorded
  <2>2. ASSUME NEW j \in Payments, NEW q \in Requests, Inserting(q, j)' PROVE ~Recorded(j)'
    <3>1. q # r /\ Inserting(q, j)
      BY <1>1, <2>2, CommitLetsGo
    <3>2. Inserting(r, k) /\ Apart(r, q)
      BY <1>1, <3>1 DEF Inserting, CommitPayment, At, IndInv
    <3>3. j # k /\ ~Recorded(j)
      BY <1>1, <3>1, <3>2 DEF Apart, IndInv, PaymentsSound
    <3> QED BY <2>1, <3>3
  <2>3. ASSUME NEW j \in Payments, NEW i \in Invoices, alloc'[j][i] > 0 PROVE Issued(i)'
    BY <1>2, <1>6, <2>3 DEF IndInv, PaymentsSound
  <2>4. ASSUME NEW j \in Payments, ~Recorded(j)'
        PROVE  payment'[j] = NoPayment /\ alloc'[j] = Nothing /\ undone'[j] = Nothing
    BY <1>1, <1>2, <2>1, <2>4 DEF IndInv, PaymentsSound
  <2> QED BY <2>2, <2>3, <2>4 DEF PaymentsSound
<1>9. ReversalsBounded'
  <2>1. undone[k] = Nothing /\ req[r].part \in [Invoices -> Nat] /\ req[r].amount \in Nat
    BY <1>1 DEF IndInv, PaymentsSound, RequestRecords
  <2>2. 0 <= req[r].amount /\ \A i \in Invoices : undone[k][i] <= req[r].part[i]
    BY <2>1 DEF Nothing
  <2> QED BY <1>1, <1>2, <2>2 DEF IndInv, ReversalsBounded
<1>10. ReceiptsGapless'
  <2>1. \A j \in Payments : j # k => payment'[j].receipt = payment[j].receipt
                                     /\ payment[j].receipt < sequence
    BY <1>2 DEF IndInv, ReceiptsGapless
  <2>2. \A n \in 1 .. sequence' - 1 : \E j \in Payments : payment'[j].receipt = n
    <3>1. ASSUME NEW n \in 1 .. sequence' - 1
          PROVE  \E j \in Payments : payment'[j].receipt = n
      <4>1. CASE n = sequence
        BY <1>1, <1>2, <4>1
      <4>2. CASE n # sequence
        <5>1. n \in 1 .. sequence - 1
          BY <1>1, <3>1, <4>2
        <5>2. PICK j \in Payments : payment[j].receipt = n
          BY <5>1 DEF IndInv, ReceiptsGapless
        <5>3. j # k
          BY <1>1, <5>1, <5>2 DEF Recorded
        <5> QED BY <2>1, <5>2, <5>3
      <4> QED BY <4>1, <4>2
    <3> QED BY <3>1
  <2>3. \A j \in Payments : payment'[j].receipt < sequence'
    <3>1. \A j \in Payments : payment[j].receipt \in Nat
      BY DEF IndInv, TypeOK, PaymentRecords
    <3> QED BY <1>1, <1>2, <2>1, <3>1
  <2>4. \A i, j \in Payments :
          Recorded(i)' /\ payment'[i].receipt = payment'[j].receipt => i = j
    <3>1. \A j \in Payments : payment[j].receipt \in Nat
      BY DEF IndInv, TypeOK, PaymentRecords
    <3>2. ASSUME NEW i \in Payments, NEW j \in Payments, Recorded(i)',
                 payment'[i].receipt = payment'[j].receipt
          PROVE  i = j
      <4>1. CASE i = k \/ j = k
        BY <1>1, <1>2, <2>1, <3>1, <3>2, <4>1
      <4>2. CASE i # k /\ j # k
        BY <2>1, <3>2, <4>2 DEF IndInv, ReceiptsGapless, Recorded
      <4> QED BY <4>1, <4>2
    <3> QED BY <3>2
  <2> QED BY <2>2, <2>3, <2>4 DEF ReceiptsGapless
<1> QED BY <1>3, <1>4, <1>5, <1>7, <1>8, <1>9, <1>10 DEF IndInv

\* The tables after a reversal: only shared invoices change, and they stay owed.
LEMMA ReversalTables ==
    ASSUME IndInv, NEW r \in Requests, CommitReversal(r)
    PROVE  /\ req[r].k \in Payments /\ req[r].amount \in Nat
           /\ ReversalSound(r)
           /\ invoice' \in [Invoices -> InvoiceRecords]
           /\ \A i \in Invoices :
                /\ invoice'[i].total = invoice[i].total
                /\ invoice'[i].late = invoice[i].late
                /\ invoice'[i].paid = invoice[i].paid - req[r].part[i]
                /\ invoice'[i].status = IF req[r].written[i] = "none"
                                        THEN invoice[i].status ELSE req[r].written[i]
                /\ i \notin req[r].shares => invoice'[i] = invoice[i]
                /\ i \in req[r].shares =>
                     /\ Issued(i) /\ req[r].part[i] > 0
                     /\ invoice'[i].status \in OpenStatuses
           /\ payment' = [payment EXCEPT ![req[r].k].reversed = @ + req[r].amount]
           /\ undone' = [undone EXCEPT ![req[r].k] = [i \in Invoices |-> @[i] + req[r].part[i]]]
           /\ alloc' = alloc /\ sequence' = sequence /\ Finish(r)
<1>1. req[r].pc = "portion" /\ req[r] \in RequestRecords /\ req[r].k \in Payments
      /\ req[r].amount \in Nat
  BY DEF CommitReversal, At, IndInv, TypeOK, RequestRecords
<1>2. ReversalSound(r)
  BY <1>1 DEF IndInv, RequestSound
<1>3. invoice' = [i \in Invoices |->
                    Updated(i, req[r].written, invoice[i].paid - req[r].part[i])]
  BY DEF CommitReversal
<1>4. ASSUME NEW i \in Invoices
      PROVE  /\ invoice'[i] \in InvoiceRecords
             /\ invoice'[i].total = invoice[i].total
             /\ invoice'[i].paid = invoice[i].paid - req[r].part[i]
             /\ invoice'[i].late = invoice[i].late
             /\ invoice'[i].status = IF req[r].written[i] = "none"
                                     THEN invoice[i].status ELSE req[r].written[i]
  <2>1. invoice[i].paid - req[r].part[i] \in Int
    BY <1>1 DEF IndInv, TypeOK, RequestRecords, InvoiceRecords
  <2>2. TypeOK /\ req[r].written \in [Invoices -> InvoiceStatuses \cup {"none"}]
    BY <1>1 DEF IndInv, RequestRecords
  <2>3. invoice'[i] = Updated(i, req[r].written, invoice[i].paid - req[r].part[i])
    BY <1>3
  <2> QED BY <2>1, <2>2, <2>3, UpdatedFacts
<1>5. ASSUME NEW i \in Invoices, i \notin req[r].shares PROVE invoice'[i] = invoice[i]
  <2>1. req[r].part[i] \in Nat
    BY <1>1 DEF RequestRecords
  <2>2. req[r].part[i] = 0 /\ req[r].written[i] = "none"
    BY <1>2, <1>5, <2>1 DEF ReversalSound
  <2>3. invoice[i] \in InvoiceRecords /\ invoice[i].paid - 0 = invoice[i].paid
    BY DEF IndInv, TypeOK, InvoiceRecords
  <2> QED BY <1>4, <2>2, <2>3 DEF InvoiceRecords
<1>6. ASSUME NEW i \in Invoices, i \in req[r].shares
      PROVE  Issued(i) /\ req[r].part[i] > 0 /\ invoice'[i].status \in OpenStatuses
  <2>1. Issued(i) /\ req[r].part[i] > 0
    BY <1>1, <1>2, <1>6, SharedIssued DEF ReversalSound
  <2>2. invoice[i].status \in InvoiceStatuses
        /\ req[r].written[i] \in InvoiceStatuses \cup {"none"}
    BY <1>1, <2>1 DEF IndInv, TypeOK, RequestRecords, InvoiceRecords, Issued
  <2>3. req[r].written[i] # "PAID" /\ (req[r].written[i] = "none" => invoice[i].status # "PAID")
    BY <1>1, <1>2, <1>6 DEF ReversalSound
  <2> QED BY <1>4, <2>1, <2>2, <2>3 DEF InvoiceStatuses
<1> QED BY <1>1, <1>2, <1>3, <1>4, <1>5, <1>6 DEF CommitReversal

\* The commit of a reversal disturbs nobody: payments have not locked what it
\* shares, and other reversals only care that the invoice is not PAID.
LEMMA ReversalSpares ==
    ASSUME IndInv, NEW r \in Requests, CommitReversal(r), NEW q \in Others(r)
    PROVE  RequestSound(q)'
<1>1. q \in Requests /\ q # r /\ req'[q] = req[q] /\ req[q] \in RequestRecords
  BY ReversalTables, CommitLetsGo DEF Others, IndInv, TypeOK
<1>2. RequestSound(q) /\ Apart(r, q) /\ Apart(q, r)
  BY <1>1 DEF IndInv
<1>3. CASE req[q].pc \in {"idle", "insert", "lock"}
  BY <1>1, <1>2, <1>3 DEF RequestSound, HoldsNothing
<1>4. CASE req[q].pc \in {"allocate", "record"}
  <2>1. ConfirmationSound(q) /\ sequence' = sequence
    BY <1>2, <1>4, ReversalTables DEF RequestSound
  <2>2. \A i \in Invoices : i \in req[q].locks => invoice'[i] = invoice[i]
    BY <1>2, ReversalTables DEF Apart
  <2>3. ConfirmationSound(q)'
    BY <1>1, <2>1, <2>2 DEF ConfirmationSound, Open
  <2> QED BY <1>1, <1>4, <2>3 DEF RequestSound
<1>5. CASE req[q].pc \in {"portion", "status"}
  <2>1. ReversalSound(q)
    BY <1>2, <1>5 DEF RequestSound
  <2>2. req[q].k \in Payments /\ req[q].k # req[r].k
    <3>1. Reversing(r, req[r].k) /\ req[q].k \in Payments /\ req[r].k \in Payments
      BY <1>1, ReversalTables DEF Reversing, CommitReversal, At, RequestRecords
    <3>2. Reversing(q, req[q].k)
      BY <1>5 DEF Reversing
    <3> QED BY <1>2, <3>1, <3>2 DEF Apart
  <2>3. /\ payment'[req[q].k] = payment[req[q].k] /\ undone'[req[q].k] = undone[req[q].k]
        /\ alloc' = alloc
    BY <2>2, ReversalTables DEF IndInv, TypeOK
  <2>4. ASSUME NEW i \in Invoices, invoice[i].status # "PAID" PROVE invoice'[i].status # "PAID"
    BY <2>4, ReversalTables DEF OpenStatuses
  <2>5. ReversalSound(q)'
    BY <1>1, <2>1, <2>3, <2>4, ReversalTables DEF ReversalSound, Recorded, Reversible
  <2> QED BY <1>1, <1>5, <2>5 DEF RequestSound
<1> QED BY <1>1, <1>3, <1>4, <1>5 DEF RequestRecords, Steps

\* A reversal keeps the invariant.
LEMMA CommitReversalStep ==
    ASSUME IndInv, NEW r \in Requests, CommitReversal(r)
    PROVE  IndInv'
<1> DEFINE k == req[r].k
<1>1. /\ k \in Payments /\ ReversalSound(r) /\ req[r] \in RequestRecords
      /\ payment \in [Payments -> PaymentRecords]
      /\ payment' = [payment EXCEPT ![k].reversed = @ + req[r].amount]
      /\ undone' = [undone EXCEPT ![k] = [i \in Invoices |-> @[i] + req[r].part[i]]]
      /\ alloc' = alloc /\ sequence' = sequence /\ Finish(r)
  BY ReversalTables DEF IndInv, TypeOK
<1>2. /\ payment'[k].amount = payment[k].amount
      /\ payment'[k].reversed = payment[k].reversed + req[r].amount
      /\ payment'[k].receipt = payment[k].receipt
      /\ \A i \in Invoices : undone'[k][i] = undone[k][i] + req[r].part[i]
      /\ \A j \in Payments : j # k => payment'[j] = payment[j] /\ undone'[j] = undone[j]
  BY <1>1 DEF IndInv, TypeOK, PaymentRecords
<1>3. TypeOK'
  <2>1. payment' \in [Payments -> PaymentRecords]
    <3>1. req[r].amount \in Nat
      BY <1>1 DEF RequestRecords
    <3>2. ASSUME NEW p \in PaymentRecords
          PROVE  [p EXCEPT !.reversed = @ + req[r].amount] \in PaymentRecords
      BY <3>1 DEF PaymentRecords
    <3>3. payment' = [payment EXCEPT ![k] = [payment[k] EXCEPT !.reversed = @ + req[r].amount]]
      BY <1>1
    <3>4. [payment[k] EXCEPT !.reversed = @ + req[r].amount] \in PaymentRecords
      BY <1>1, <3>2
    <3> QED BY <1>1, <3>3, <3>4
  <2>2. undone' \in [Payments -> [Invoices -> Nat]]
    <3>1. [i \in Invoices |-> undone[k][i] + req[r].part[i]] \in [Invoices -> Nat]
      BY <1>1 DEF IndInv, TypeOK, RequestRecords
    <3> QED BY <1>1, <3>1 DEF IndInv, TypeOK
  <2>3. req' \in [Requests -> RequestRecords]
    BY <1>1, CommitLetsGo
  <2>4. invoice' \in [Invoices -> InvoiceRecords]
    BY ReversalTables
  <2> QED BY <1>1, <2>1, <2>2, <2>3, <2>4 DEF IndInv, TypeOK
<1>4. ASSUME NEW q \in Requests PROVE RequestSound(q)'
  BY <1>1, ReversalSpares, CommitLetsGo DEF Others
<1>5. \A p, q \in Requests : p # q => Apart(p, q)'
  BY <1>1, CommitLetsGo
<1>6. ASSUME NEW i \in Invoices
      PROVE  /\ Issued(i)' <=> Issued(i)
             /\ ~Issued(i) => invoice'[i] = invoice[i]
             /\ invoice'[i].total = invoice[i].total
             /\ invoice'[i].paid <= invoice[i].total
             /\ Issued(i) => (invoice'[i].status = "PAID" <=> invoice'[i].paid = invoice[i].total)
  <2>1. CASE i \notin req[r].shares
    <3>1. invoice'[i] = invoice[i]
      BY <2>1, ReversalTables
    <3> QED BY <3>1 DEF Issued, IndInv, InvoicesSound, NeverOverpaid
  <2>2. CASE i \in req[r].shares
    <3>1. /\ Issued(i) /\ req[r].part[i] > 0 /\ invoice'[i].status \in OpenStatuses
          /\ invoice'[i].total = invoice[i].total
          /\ invoice'[i].paid = invoice[i].paid - req[r].part[i]
      BY <2>2, ReversalTables
    <3>2. /\ req[r].part[i] \in Nat /\ invoice[i].paid \in Int /\ invoice[i].total \in Nat
          /\ invoice[i].paid <= invoice[i].total
      BY <1>1 DEF IndInv, TypeOK, RequestRecords, InvoiceRecords, NeverOverpaid
    <3>3. invoice'[i].status # "none" /\ invoice'[i].status # "PAID"
      BY <3>1 DEF OpenStatuses
    <3>4. invoice'[i].paid < invoice[i].total
      BY <3>1, <3>2
    <3> QED BY <3>1, <3>2, <3>3, <3>4 DEF Issued
  <2> QED BY <2>1, <2>2
<1>7. InvoicesSound' /\ NeverOverpaid'
  BY <1>6 DEF IndInv, InvoicesSound, NeverOverpaid
<1>8. PaymentsSound'
  <2>1. Recorded(k) /\ \A j \in Payments : Recorded(j)' <=> Recorded(j)
    BY <1>1, <1>2 DEF Recorded, ReversalSound
  <2>2. ASSUME NEW j \in Payments, NEW q \in Requests, Inserting(q, j)' PROVE ~Recorded(j)'
    <3>1. Inserting(q, j)
      BY <1>1, <2>2, CommitLetsGo
    <3> QED BY <2>1, <3>1 DEF IndInv, PaymentsSound
  <2>3. ASSUME NEW j \in Payments, NEW i \in Invoices, alloc'[j][i] > 0 PROVE Issued(i)'
    BY <1>1, <1>6, <2>3 DEF IndInv, PaymentsSound
  <2>4. ASSUME NEW j \in Payments, ~Recorded(j)'
        PROVE  payment'[j] = NoPayment /\ alloc'[j] = Nothing /\ undone'[j] = Nothing
    BY <1>1, <1>2, <2>1, <2>4 DEF IndInv, PaymentsSound
  <2> QED BY <2>2, <2>3, <2>4 DEF PaymentsSound
<1>9. ReversalsBounded'
  <2>1. /\ payment[k].amount \in Nat /\ payment[k].reversed \in Nat /\ req[r].amount \in Nat
        /\ req[r].amount <= payment[k].amount - payment[k].reversed
    BY <1>1 DEF ReversalSound, Reversible, PaymentRecords, RequestRecords
  <2>2. payment'[k].reversed <= payment'[k].amount
    BY <1>2, <2>1
  <2>3. ASSUME NEW i \in Invoices PROVE undone'[k][i] <= alloc[k][i]
    <3>1. /\ undone[k][i] \in Nat /\ alloc[k][i] \in Nat /\ req[r].part[i] \in Nat
          /\ req[r].part[i] <= alloc[k][i] - undone[k][i]
      BY <1>1 DEF ReversalSound, IndInv, TypeOK, RequestRecords
    <3> QED BY <1>2, <3>1
  <2> QED BY <1>1, <1>2, <2>2, <2>3 DEF IndInv, ReversalsBounded
<1>10. ReceiptsGapless'
  <2>1. \A j \in Payments : payment'[j].receipt = payment[j].receipt
    BY <1>2
  <2> QED BY <1>1, <2>1 DEF IndInv, ReceiptsGapless, Recorded
<1> QED BY <1>3, <1>4, <1>5, <1>7, <1>8, <1>9, <1>10 DEF IndInv

\* A new invoice, or a due date that passes, changes one invoice: it keeps the
\* invariant if the invoice keeps its sums or was held by nobody.
LEMMA InvoiceChanges ==
    ASSUME IndInv, NEW i \in Invoices, UNCHANGED <<payment, alloc, undone, sequence, req>>,
           invoice' \in [Invoices -> InvoiceRecords],
           \A j \in Invoices : j # i => invoice'[j] = invoice[j],
           \/ Issued(i) /\ invoice'[i].status = invoice[i].status
                        /\ invoice'[i].paid = invoice[i].paid
                        /\ invoice'[i].total = invoice[i].total
           \/ ~Issued(i) /\ invoice'[i].status = "ISSUED" /\ invoice'[i].paid = 0
                         /\ invoice'[i].total > 0
    PROVE  IndInv'
<1>1. TypeOK'
  BY DEF IndInv, TypeOK
<1>2. ASSUME NEW j \in Invoices, Issued(j)
      PROVE  /\ invoice'[j].status = invoice[j].status /\ invoice'[j].paid = invoice[j].paid
             /\ invoice'[j].total = invoice[j].total
  BY <1>2
<1>3. ASSUME NEW r \in Requests PROVE RequestSound(r)'
  <2>1. RequestSound(r) /\ req[r] \in RequestRecords
    BY DEF IndInv, TypeOK
  <2>2. CASE req[r].pc \in {"idle", "insert", "lock"}
    BY <2>1, <2>2 DEF RequestSound, HoldsNothing
  <2>3. CASE req[r].pc \in {"allocate", "record"}
    <3>1. ConfirmationSound(r)
      BY <2>1, <2>3 DEF RequestSound
    <3>2. \A j \in Invoices : j \in req[r].locks => Issued(j)
      BY <3>1 DEF ConfirmationSound, Open, Issued, OpenStatuses
    <3>3. \A j \in Invoices : req[r].part[j] > 0 => Issued(j)
      BY <3>1, <3>2 DEF ConfirmationSound
    <3>4. ConfirmationSound(r)'
      BY <1>2, <3>1, <3>2, <3>3 DEF ConfirmationSound, Open
    <3> QED BY <2>3, <3>4 DEF RequestSound
  <2>4. CASE req[r].pc \in {"portion", "status"}
    <3>1. ReversalSound(r)
      BY <2>1, <2>4 DEF RequestSound
    <3>2. \A j \in Invoices : j \in req[r].shares => Issued(j)
      BY <2>4, SharedIssued
    <3>3. ReversalSound(r)'
      BY <1>2, <3>1, <3>2 DEF ReversalSound, Recorded, Reversible
    <3> QED BY <2>4, <3>3 DEF RequestSound
  <2> QED BY <2>1, <2>2, <2>3, <2>4 DEF RequestRecords, Steps
<1>4. \A p, q \in Requests : p # q => Apart(p, q)'
  BY DEF IndInv, Apart, At, Inserting, Reversing
<1>5. ASSUME NEW j \in Invoices
      PROVE  /\ Issued(j)' <=> Issued(j) \/ j = i
             /\ invoice'[j].total > 0 \/ ~Issued(j)'
             /\ invoice'[j].paid <= invoice'[j].total
             /\ Issued(j)' => (invoice'[j].status = "PAID" <=> invoice'[j].paid = invoice'[j].total)
             /\ j # i => invoice'[j] = invoice[j]
  <2>1. CASE Issued(j)
    BY <1>2, <2>1 DEF Issued, IndInv, InvoicesSound, NeverOverpaid
  <2>2. CASE ~Issued(j) /\ j # i
    BY <2>2 DEF Issued, IndInv, InvoicesSound, NeverOverpaid
  <2>3. CASE ~Issued(j) /\ j = i
    <3>1. /\ invoice'[i].status = "ISSUED" /\ invoice'[i].paid = 0 /\ invoice'[i].total > 0
          /\ invoice'[i].total \in Nat
      BY <2>3 DEF InvoiceRecords
    <3> QED BY <2>3, <3>1 DEF Issued
  <2> QED BY <2>1, <2>2, <2>3
<1>6. InvoicesSound' /\ NeverOverpaid'
  BY <1>5 DEF IndInv, InvoicesSound, NeverOverpaid, Issued
<1>7. PaymentsSound'
  BY <1>5 DEF IndInv, PaymentsSound, Recorded, Inserting
<1>8. ReversalsBounded' /\ ReceiptsGapless'
  BY DEF IndInv, ReversalsBounded, ReceiptsGapless, Recorded
<1> QED BY <1>1, <1>3, <1>4, <1>6, <1>7, <1>8 DEF IndInv

\* An invoice is issued unpaid, and passing its due date keeps its sums.
LEMMA IssueStep ==
    ASSUME IndInv, NEW i \in Invoices, Issue(i) \/ PassDueDate(i)
    PROVE  IndInv'
<1>1. CASE Issue(i)
  <2>1. PICK t \in Amounts :
          invoice' = [invoice EXCEPT ![i] = [NoInvoice EXCEPT !.status = "ISSUED", !.total = t]]
    BY <1>1 DEF Issue
  <2>2. [NoInvoice EXCEPT !.status = "ISSUED", !.total = t] \in InvoiceRecords
    <3>1. t \in Nat
      BY ConstantsAssumption DEF Amounts
    <3>2. NoInvoice \in InvoiceRecords
      BY DEF NoInvoice, InvoiceRecords
    <3>3. "ISSUED" \in InvoiceStatuses
      BY DEF InvoiceStatuses, OpenStatuses
    <3>4. ASSUME NEW y \in InvoiceRecords
          PROVE  [y EXCEPT !.status = "ISSUED", !.total = t] \in InvoiceRecords
      BY <3>1, <3>3 DEF InvoiceRecords
    <3> QED BY <3>2, <3>4
  <2>3. /\ invoice' \in [Invoices -> InvoiceRecords]
        /\ invoice'[i] = [NoInvoice EXCEPT !.status = "ISSUED", !.total = t]
        /\ \A j \in Invoices : j # i => invoice'[j] = invoice[j]
    BY <2>1, <2>2 DEF IndInv, TypeOK
  <2>4. invoice'[i].status = "ISSUED" /\ invoice'[i].paid = 0 /\ invoice'[i].total > 0
    BY <2>3, ConstantsAssumption DEF NoInvoice, Amounts
  <2> QED BY <1>1, <2>3, <2>4, InvoiceChanges DEF Issue
<1>2. CASE PassDueDate(i)
  <2>1. invoice' = [invoice EXCEPT ![i].late = TRUE] /\ Issued(i)
    BY <1>2 DEF PassDueDate
  <2>2. invoice[i] \in InvoiceRecords
    BY DEF IndInv, TypeOK
  <2>3. [invoice[i] EXCEPT !.late = TRUE] \in InvoiceRecords
    BY <2>2 DEF InvoiceRecords
  <2>4. /\ invoice' \in [Invoices -> InvoiceRecords]
        /\ invoice'[i] = [invoice[i] EXCEPT !.late = TRUE]
        /\ \A j \in Invoices : j # i => invoice'[j] = invoice[j]
    BY <2>1, <2>3 DEF IndInv, TypeOK
  <2>5. invoice'[i].status = invoice[i].status /\ invoice'[i].paid = invoice[i].paid
        /\ invoice'[i].total = invoice[i].total
    BY <2>2, <2>4 DEF InvoiceRecords
  <2> QED BY <1>2, <2>1, <2>4, <2>5, InvoiceChanges DEF PassDueDate
<1> QED BY <1>1, <1>2

-----------------------------------------------------------------------------
(* Theorems *)

\* The empty tables satisfy the invariant.
LEMMA InitInv == Init => IndInv
<1> SUFFICES ASSUME Init PROVE IndInv
  OBVIOUS
<1>1. TypeOK
  BY IdleFacts, SomePaymentType
     DEF Init, TypeOK, NoInvoice, InvoiceRecords, NoPayment, PaymentRecords, Nothing
<1>2. \A r \in Requests : RequestSound(r) /\ req[r].pc = "idle" /\ req[r].locks = {}
  BY IdleFacts, SomePaymentType DEF Init, RequestSound, HoldsNothing
<1>3. \A r, q \in Requests : r # q => Apart(r, q)
  BY <1>2 DEF Apart, At, Inserting, Reversing
<1>4. InvoicesSound /\ NeverOverpaid
  BY DEF Init, InvoicesSound, NeverOverpaid, Issued, NoInvoice
<1>5. PaymentsSound /\ ReversalsBounded
  BY <1>2 DEF Init, PaymentsSound, ReversalsBounded, Recorded, Inserting, NoPayment, Nothing
<1>6. ReceiptsGapless
  BY DEF Init, ReceiptsGapless, Recorded, NoPayment
<1> QED BY <1>1, <1>2, <1>3, <1>4, <1>5, <1>6 DEF IndInv

\* The inductive invariant: what each transaction will commit is right as long as
\* its locks keep the others from what it has read.
THEOREM Inductive == Spec => []IndInv
<1>1. IndInv /\ [Next]_vars => IndInv'
  <2>1. ASSUME IndInv, UNCHANGED vars PROVE IndInv'
    <3>1. TypeOK'
      BY <2>1 DEF vars, IndInv, TypeOK
    <3>2. ASSUME NEW r \in Requests PROVE RequestSound(r)'
      BY <2>1 DEF vars, IndInv, RequestSound, HoldsNothing, ConfirmationSound, ReversalSound,
                  Open, Recorded, Reversible
    <3>3. \A r, q \in Requests : r # q => Apart(r, q)'
      BY <2>1 DEF vars, IndInv, Apart, At, Inserting, Reversing
    <3>4. /\ InvoicesSound' /\ PaymentsSound' /\ NeverOverpaid'
          /\ ReversalsBounded' /\ ReceiptsGapless'
      BY <2>1 DEF vars, IndInv, InvoicesSound, PaymentsSound, NeverOverpaid, ReversalsBounded,
                  ReceiptsGapless, Issued, Recorded, Inserting
    <3> QED BY <3>1, <3>2, <3>3, <3>4 DEF IndInv
  <2>2. ASSUME IndInv, NEW r \in Requests, PaymentStep(r) PROVE IndInv'
    BY <2>2, BeginStep, InsertStep, EndStep, LockStep, AllocateStep, NumberStep,
       CommitPaymentStep DEF PaymentStep
  <2>3. ASSUME IndInv, NEW r \in Requests, ReversalStep(r) PROVE IndInv'
    BY <2>3, BeginReversalStep, SkipStep, ReverseStep, WriteStep, CommitReversalStep
       DEF ReversalStep
  <2>4. ASSUME IndInv, NEW r \in Requests, Abort(r) PROVE IndInv'
    BY <2>4, EndStep
  <2>5. ASSUME IndInv, NEW i \in Invoices, Issue(i) \/ PassDueDate(i) PROVE IndInv'
    BY <2>5, IssueStep
  <2> QED BY <2>1, <2>2, <2>3, <2>4, <2>5 DEF Next
<1> QED BY InitInv, <1>1, PTL DEF Spec

\* Every reachable state is well typed.
THEOREM TypeCorrect == Spec => []TypeOK
<1>1. IndInv => TypeOK
  BY DEF IndInv
<1> QED BY Inductive, <1>1, PTL

\* However payments and reversals overlap, no invoice is paid beyond its total.
THEOREM NeverOverpaidThm == Spec => []NeverOverpaid
<1>1. IndInv => NeverOverpaid
  BY DEF IndInv
<1> QED BY Inductive, <1>1, PTL

\* PAID always means that nothing is owed, and an invoice with nothing owed is PAID.
THEOREM PaidIffSettledThm == Spec => []PaidIffSettled
<1>1. IndInv => PaidIffSettled
  <2> SUFFICES ASSUME IndInv, NEW i \in Invoices, Issued(i)
               PROVE  invoice[i].status = "PAID" <=> Balance(i) = 0
    BY DEF PaidIffSettled
  <2>1. /\ invoice[i].paid \in Int /\ invoice[i].total \in Nat /\ invoice[i].total > 0
        /\ invoice[i].paid <= invoice[i].total
        /\ invoice[i].status = "PAID" <=> invoice[i].paid = invoice[i].total
    BY DEF IndInv, TypeOK, InvoiceRecords, InvoicesSound, NeverOverpaid
  <2>2. Balance(i) = 0 <=> invoice[i].paid = invoice[i].total
    BY <2>1 DEF Balance, AtLeastZero
  <2> QED BY <2>1, <2>2
<1> QED BY Inductive, <1>1, PTL

\* Receipts are numbered without a gap or a double, whatever is rolled back.
THEOREM ReceiptsGaplessThm == Spec => []ReceiptsGapless
<1>1. IndInv => ReceiptsGapless
  BY DEF IndInv
<1> QED BY Inductive, <1>1, PTL

\* No payment is given back more than once, in all or on one invoice.
THEOREM ReversalsBoundedThm == Spec => []ReversalsBounded
<1>1. IndInv => ReversalsBounded
  BY DEF IndInv
<1> QED BY Inductive, <1>1, PTL

-----------------------------------------------------------------------------
(* The statuses, when one director at a time reverses payments *)

\* A status still fits its sum when the due date has passed meanwhile.
LEMMA FitsLater ==
    ASSUME NEW i \in Invoices, NEW status, NEW sum,
           invoice'[i].total = invoice[i].total, invoice[i].late => invoice'[i].late,
           StatusFits(i, status, sum)
    PROVE  \/ status = IF AtLeastZero(sum) >= invoice'[i].total THEN "PAID"
                       ELSE IF invoice'[i].late THEN "OVERDUE"
                       ELSE IF sum > 0 THEN "PARTIALLY_PAID" ELSE "ISSUED"
           \/ invoice'[i].late /\ status = IF sum > 0 THEN "PARTIALLY_PAID" ELSE "ISSUED"
BY DEF StatusFits, StatusOf

\* What a transaction holds is issued, and what it will commit is in what it holds.
LEMMA HeldIssued ==
    ASSUME IndInv, NEW q \in Requests, NEW i \in req[q].locks \cup req[q].shares
    PROVE  i \in Invoices /\ Issued(i)
<1>1. req[q] \in RequestRecords /\ i \in Invoices /\ RequestSound(q)
  BY DEF IndInv, TypeOK, RequestRecords
<1>2. CASE req[q].pc \in {"idle", "insert", "lock"}
  BY <1>1, <1>2 DEF RequestSound, HoldsNothing
<1>3. CASE req[q].pc \in {"allocate", "record"}
  BY <1>1, <1>3 DEF RequestSound, ConfirmationSound, Open, Issued, OpenStatuses
<1>4. CASE req[q].pc \in {"portion", "status"}
  <2>1. /\ req[q].k \in Payments /\ req[q].part[i] \in Nat /\ req[q].part[i] > 0
        /\ req[q].part[i] <= alloc[req[q].k][i] - undone[req[q].k][i]
    BY <1>1, <1>4 DEF RequestSound, ReversalSound, RequestRecords
  <2>2. alloc[req[q].k][i] \in Nat /\ undone[req[q].k][i] \in Nat
    BY <1>1, <2>1 DEF IndInv, TypeOK
  <2>3. alloc[req[q].k][i] > 0
    BY <2>1, <2>2
  <2> QED BY <1>1, <2>1, <2>3 DEF IndInv, PaymentsSound
<1> QED BY <1>1, <1>2, <1>3, <1>4 DEF RequestRecords, Steps

\* A request that a step leaves alone still fits, when the step leaves the
\* invoices it holds alone, but for their due date.
LEMMA SparedFits ==
    ASSUME IndInv, NEW q \in Requests, CommitFits(q), req'[q] = req[q],
           \A i \in req[q].locks \cup req[q].shares :
             /\ invoice'[i].total = invoice[i].total /\ invoice'[i].paid = invoice[i].paid
             /\ invoice'[i].status = invoice[i].status
             /\ invoice[i].late => invoice'[i].late
    PROVE  CommitFits(q)'
<1>1. req[q] \in RequestRecords
  BY DEF IndInv, TypeOK
<1>2. ASSUME req[q].pc \in {"allocate", "record"}, NEW i \in Invoices, req[q].part[i] > 0
      PROVE  StatusFits(i, req[q].written[i], invoice[i].paid + req[q].part[i])'
  <2>1. i \in req[q].locks
    BY <1>2, <1>1 DEF IndInv, RequestSound, ConfirmationSound, RequestRecords
  <2>2. StatusFits(i, req[q].written[i], invoice[i].paid + req[q].part[i])
    BY <1>2 DEF CommitFits
  <2> QED BY <2>1, <2>2, FitsLater DEF StatusFits, StatusOf
<1>3. ASSUME req[q].pc \in {"portion", "status"}, NEW i \in req[q].shares
      PROVE  StatusFits(i, StatusLeft(q, i), invoice[i].paid - req[q].part[i])'
  <2>1. i \in Invoices
    BY <1>1, <1>3 DEF RequestRecords
  <2>2. StatusFits(i, StatusLeft(q, i), invoice[i].paid - req[q].part[i])
    BY <1>3 DEF CommitFits
  <2>3. StatusLeft(q, i)' = StatusLeft(q, i)
    BY <1>3 DEF StatusLeft, At
  <2> QED BY <1>3, <2>1, <2>2, <2>3, FitsLater DEF StatusFits, StatusOf
<1>4. req[q].pc \in {"portion", "status"} => q \in Directors
  BY DEF CommitFits
<1> QED BY <1>2, <1>3, <1>4 DEF CommitFits

\* Steps that move one request and leave the tables alone.
LEMMA MoveFits ==
    ASSUME IndInv, StatusesSound, NEW r \in Requests, invoice' = invoice,
           \A q \in Others(r) : req'[q] = req[q],
           CommitFits(r)'
    PROVE  StatusesSound'
<1>1. ASSUME NEW q \in Requests, q # r PROVE CommitFits(q)'
  BY <1>1, SparedFits DEF Others, StatusesSound
<1>2. StatusFollowsPayments'
  BY DEF StatusesSound, StatusFollowsPayments, StatusFits, StatusOf, Issued
<1> QED BY <1>1, <1>2 DEF StatusesSound

\* A request that holds nothing has nothing to commit.
LEMMA EarlyFits ==
    ASSUME NEW r \in Requests, req'[r].pc \in {"idle", "insert", "lock"}
    PROVE  CommitFits(r)'
BY DEF CommitFits

\* The steps before the locks, and those that end without a trace.
LEMMA EarlyStep ==
    ASSUME IndInv, StatusesSound, NEW r \in Requests,
           Begin(r) \/ Insert(r) \/ InsertCollides(r) \/ Abort(r)
    PROVE  StatusesSound'
<1>1. req \in [Requests -> RequestRecords] /\ invoice' = invoice
  BY DEF IndInv, TypeOK, Begin, Insert, InsertCollides, Abort
<1>2. req'[r].pc \in {"idle", "insert", "lock"}
  <2>1. CASE Begin(r)
    <3>1. PICK k \in Payments, a \in Amounts :
            req' = [req EXCEPT ![r] = [Idle(k) EXCEPT !.pc = "insert", !.amount = a, !.left = a]]
      BY <2>1 DEF Begin
    <3> QED BY <1>1, <3>1 DEF Idle
  <2>2. CASE Insert(r)
    BY <1>1, <2>2 DEF Insert, RequestRecords
  <2>3. CASE InsertCollides(r) \/ Abort(r)
    BY <1>1, <2>3, IdleFacts, SomePaymentType DEF InsertCollides, Abort, Finish
  <2> QED BY <2>1, <2>2, <2>3
<1>3. \A q \in Others(r) : req'[q] = req[q]
  BY <1>1 DEF Others, Begin, Insert, InsertCollides, Abort, Finish
<1> QED BY <1>1, <1>2, <1>3, EarlyFits, MoveFits

\* Locking and numbering add nothing to what will be committed.
LEMMA LockingStep ==
    ASSUME IndInv, StatusesSound, NEW r \in Requests, LockInvoices(r) \/ NumberReceipt(r)
    PROVE  StatusesSound'
<1>1. /\ req \in [Requests -> RequestRecords] /\ invoice' = invoice
      /\ req[r].pc \in {"lock", "allocate"}
  BY DEF IndInv, TypeOK, LockInvoices, NumberReceipt, At
<1>2. /\ \A q \in Others(r) : req'[q] = req[q]
      /\ req'[r].pc \in {"allocate", "record"}
      /\ req'[r].part = req[r].part /\ req'[r].written = req[r].written
  <2>1. CASE LockInvoices(r)
    BY <1>1, <2>1 DEF Others, LockInvoices, RequestRecords
  <2>2. CASE NumberReceipt(r)
    BY <1>1, <2>2 DEF Others, NumberReceipt, RequestRecords
  <2> QED BY <2>1, <2>2
<1>3. ASSUME NEW i \in Invoices, req[r].part[i] > 0
      PROVE  StatusFits(i, req[r].written[i], invoice[i].paid + req[r].part[i])
  <2>1. CASE req[r].pc = "lock"
    BY <1>3, <2>1 DEF IndInv, RequestSound, HoldsNothing, Nothing
  <2>2. CASE req[r].pc = "allocate"
    BY <1>3, <2>2 DEF StatusesSound, CommitFits
  <2> QED BY <1>1, <2>1, <2>2
<1>4. CommitFits(r)'
  BY <1>1, <1>2, <1>3 DEF CommitFits, StatusFits, StatusOf
<1> QED BY <1>1, <1>2, <1>4, MoveFits

\* An allocation writes the status of the sum it leaves.
LEMMA AllocateFits ==
    ASSUME IndInv, StatusesSound, NEW r \in Requests, Allocate(r)
    PROVE  StatusesSound'
<1>1. PICK i \in req[r].todo :
        req' = [req EXCEPT
             ![r].todo = @ \ {i},
             ![r].part[i] = Portion(r, i),
             ![r].left = @ - Portion(r, i),
             ![r].written[i] = IF Portion(r, i) > 0
                               THEN StatusOf(i, invoice[i].paid + Portion(r, i)) ELSE "none"]
  BY DEF Allocate
<1> DEFINE a == Portion(r, i)
<1> DEFINE w == IF a > 0 THEN StatusOf(i, invoice[i].paid + a) ELSE "none"
<1>2. /\ req \in [Requests -> RequestRecords] /\ req[r] \in RequestRecords
      /\ req[r].pc = "allocate" /\ invoice' = invoice
  BY DEF IndInv, TypeOK, Allocate, At
<1>3. req' = [req EXCEPT ![r].todo = @ \ {i}, ![r].part[i] = a, ![r].left = @ - a,
                         ![r].written[i] = w]
  BY <1>1
<1>4. i \in Invoices
  BY <1>2 DEF RequestRecords
<1> HIDE DEF a, w
<1>5. /\ \A q \in Others(r) : req'[q] = req[q]
      /\ req'[r].pc = "allocate"
      /\ req'[r].part = [req[r].part EXCEPT ![i] = a]
      /\ req'[r].written = [req[r].written EXCEPT ![i] = w]
  BY <1>2, <1>3 DEF RequestRecords, Others
<1>6. ASSUME NEW j \in Invoices, req'[r].part[j] > 0
      PROVE  StatusFits(j, req'[r].written[j], invoice[j].paid + req'[r].part[j])
  <2>1. CASE j = i
    <3>1. req'[r].part[i] = a /\ req'[r].written[i] = w
      BY <1>2, <1>4, <1>5 DEF RequestRecords
    <3>2. w = StatusOf(i, invoice[i].paid + a)
      BY <1>6, <2>1, <3>1 DEF w
    <3> QED BY <2>1, <3>1, <3>2 DEF StatusFits
  <2>2. CASE j # i
    <3>1. req'[r].part[j] = req[r].part[j] /\ req'[r].written[j] = req[r].written[j]
      BY <1>2, <1>5, <2>2 DEF RequestRecords
    <3> QED BY <1>2, <1>6, <3>1 DEF StatusesSound, CommitFits
  <2> QED BY <2>1, <2>2
<1>7. CommitFits(r)'
  BY <1>2, <1>5, <1>6 DEF CommitFits, StatusFits, StatusOf
<1> QED BY <1>2, <1>5, <1>7, MoveFits

\* A director's reversal starts with nothing given back.
LEMMA BeginReversalFits ==
    ASSUME IndInv, StatusesSound, NEW r \in Requests, BeginReversal(r)
    PROVE  StatusesSound'
<1>1. PICK k \in Payments, a \in Amounts :
        req' = [req EXCEPT ![r] =
             [Idle(k) EXCEPT !.pc = "portion", !.amount = a, !.left = a,
                             !.todo = {i \in Invoices : alloc[k][i] > 0}]]
  BY DEF BeginReversal
<1>2. r \in Directors /\ invoice' = invoice /\ req \in [Requests -> RequestRecords]
  BY DEF BeginReversal, IndInv, TypeOK
<1>3. /\ \A q \in Others(r) : req'[q] = req[q]
      /\ req'[r].pc = "portion" /\ req'[r].shares = {}
  BY <1>1, <1>2, IdleFacts DEF Others, Idle
<1>4. CommitFits(r)'
  BY <1>2, <1>3 DEF CommitFits
<1> QED BY <1>2, <1>3, <1>4, MoveFits

\* Passing over an allocation changes nothing that will be committed.
LEMMA SkipFits ==
    ASSUME IndInv, StatusesSound, NEW r \in Requests, SkipPortion(r)
    PROVE  StatusesSound'
<1>1. /\ req \in [Requests -> RequestRecords] /\ invoice' = invoice
      /\ req[r].pc = "portion"
  BY DEF IndInv, TypeOK, SkipPortion, At
<1>2. /\ \A q \in Others(r) : req'[q] = req[q]
      /\ req'[r].pc = "portion"
      /\ req'[r].part = req[r].part /\ req'[r].written = req[r].written
      /\ req'[r].shares = req[r].shares
  BY <1>1 DEF Others, SkipPortion, RequestRecords
<1>3. ASSUME NEW i \in req[r].shares
      PROVE  StatusFits(i, StatusLeft(r, i), invoice[i].paid - req[r].part[i])
  BY <1>1, <1>3 DEF StatusesSound, CommitFits
<1>4. ASSUME NEW i \in req[r].shares
      PROVE  StatusFits(i, StatusLeft(r, i), invoice[i].paid - req[r].part[i])'
  <2>1. StatusLeft(r, i)' = StatusLeft(r, i)
    BY <1>1, <1>2 DEF StatusLeft, At
  <2> QED BY <1>1, <1>2, <1>3, <2>1 DEF StatusFits, StatusOf
<1>5. r \in Directors
  BY <1>1 DEF StatusesSound, CommitFits
<1>6. CommitFits(r)'
  BY <1>2, <1>4, <1>5 DEF CommitFits
<1> QED BY <1>1, <1>2, <1>6, MoveFits

\* A reversal on an invoice computes the status of the sum it leaves.
LEMMA ReverseFits ==
    ASSUME IndInv, StatusesSound, NEW r \in Requests, ReversePortion(r)
    PROVE  StatusesSound'
<1> DEFINE a(i) == Smaller(req[r].left, Available(req[r].k, i))
<1> DEFINE s(i) == StatusOf(i, invoice[i].paid - a(i))
<1> DEFINE c(i) == IF s(i) = invoice[i].status THEN "portion" ELSE "status"
<1>1. PICK i \in req[r].todo :
        req' = [req EXCEPT
             ![r].todo = @ \ {i}, ![r].part[i] = a(i), ![r].left = @ - a(i),
             ![r].shares = @ \cup {i}, ![r].pc = c(i), ![r].at = i, ![r].next = s(i)]
  BY DEF ReversePortion
<1>2. /\ req \in [Requests -> RequestRecords] /\ req[r] \in RequestRecords
      /\ req[r].pc = "portion" /\ invoice' = invoice
  BY DEF IndInv, TypeOK, ReversePortion, At
<1>3. i \in Invoices /\ ReversalSound(r)
  BY <1>2 DEF RequestRecords, IndInv, RequestSound
<1>4. i \notin req[r].shares /\ req[r].written[i] = "none"
  BY <1>1, <1>3 DEF ReversalSound
<1> DEFINE ai == a(i)
<1> DEFINE si == s(i)
<1> DEFINE ci == c(i)
<1>5. si = StatusOf(i, invoice[i].paid - ai)
  OBVIOUS
<1>6. ci = IF si = invoice[i].status THEN "portion" ELSE "status"
  OBVIOUS
<1>7. req' = [req EXCEPT
             ![r].todo = @ \ {i}, ![r].part[i] = ai, ![r].left = @ - ai,
             ![r].shares = @ \cup {i}, ![r].pc = ci, ![r].at = i, ![r].next = si]
  BY <1>1
<1> HIDE DEF ai, si, ci
<1>8. /\ \A q \in Others(r) : req'[q] = req[q]
      /\ req'[r].pc = ci /\ req'[r].at = i /\ req'[r].next = si
      /\ req'[r].part = [req[r].part EXCEPT ![i] = ai]
      /\ req'[r].written = req[r].written
      /\ req'[r].shares = req[r].shares \cup {i}
  BY <1>2, <1>7 DEF RequestRecords, Others
<1>9. ASSUME NEW j \in req'[r].shares
      PROVE  StatusFits(j, StatusLeft(r, j), invoice[j].paid - req[r].part[j])'
  <2>1. CASE j = i
    <3>1. req'[r].part[i] = ai /\ req'[r].written[i] = "none"
      BY <1>2, <1>3, <1>4, <1>8 DEF RequestRecords
    <3>2. StatusLeft(r, i)' = si
      BY <1>2, <1>6, <1>8, <3>1 DEF StatusLeft, At
    <3> QED BY <1>2, <1>5, <2>1, <3>1, <3>2 DEF StatusFits, StatusOf
  <2>2. CASE j # i
    <3>1. j \in req[r].shares /\ req'[r].part[j] = req[r].part[j]
      BY <1>2, <1>8, <1>9, <2>2 DEF RequestRecords
    <3>2. StatusFits(j, StatusLeft(r, j), invoice[j].paid - req[r].part[j])
      BY <1>2, <3>1 DEF StatusesSound, CommitFits
    <3>3. StatusLeft(r, j)' = StatusLeft(r, j)
      BY <1>2, <1>8, <2>2 DEF StatusLeft, At
    <3> QED BY <1>2, <3>1, <3>2, <3>3 DEF StatusFits, StatusOf
  <2> QED BY <2>1, <2>2
<1>10. r \in Directors
  BY <1>2 DEF StatusesSound, CommitFits
<1>11. ci \in {"portion", "status"}
  BY <1>6
<1>12. CommitFits(r)'
  BY <1>8, <1>9, <1>10, <1>11 DEF CommitFits
<1> QED BY <1>2, <1>8, <1>12, MoveFits

\* The UPDATE writes what was computed.
LEMMA WriteFits ==
    ASSUME IndInv, StatusesSound, NEW r \in Requests, WriteStatus(r)
    PROVE  StatusesSound'
<1> DEFINE i == req[r].at
<1>1. /\ req \in [Requests -> RequestRecords] /\ req[r] \in RequestRecords
      /\ req[r].pc = "status" /\ invoice' = invoice
      /\ req' = [req EXCEPT ![r].pc = "portion", ![r].written[i] = req[r].next]
  BY DEF IndInv, TypeOK, WriteStatus, At
<1>2. i \in req[r].shares /\ req[r].next \in OpenStatuses /\ i \in Invoices
  BY <1>1 DEF IndInv, RequestSound, ReversalSound, RequestRecords
<1>3. "none" \notin OpenStatuses
  BY DEF OpenStatuses
<1>4. /\ \A q \in Others(r) : req'[q] = req[q]
      /\ req'[r].pc = "portion" /\ req'[r].part = req[r].part
      /\ req'[r].written = [req[r].written EXCEPT ![i] = req[r].next]
      /\ req'[r].shares = req[r].shares
  BY <1>1 DEF RequestRecords, Others
<1>5. ASSUME NEW j \in req[r].shares
      PROVE  StatusFits(j, StatusLeft(r, j), invoice[j].paid - req[r].part[j])'
  <2>1. j \in Invoices /\ StatusFits(j, StatusLeft(r, j), invoice[j].paid - req[r].part[j])
    BY <1>1, <1>5 DEF StatusesSound, CommitFits, RequestRecords
  <2>2. StatusLeft(r, j)' = IF j = i THEN req[r].next ELSE StatusLeft(r, j)
    <3>1. req'[r].written[j] = IF j = i THEN req[r].next ELSE req[r].written[j]
      BY <1>1, <1>4, <2>1 DEF RequestRecords
    <3> QED BY <1>1, <1>2, <1>3, <1>4, <3>1 DEF StatusLeft, At
  <2>3. j = i => StatusLeft(r, j) = req[r].next
    BY <1>1 DEF StatusLeft, At
  <2> QED BY <1>1, <1>4, <2>1, <2>2, <2>3 DEF StatusFits, StatusOf
<1>6. r \in Directors
  BY <1>1 DEF StatusesSound, CommitFits
<1>7. CommitFits(r)'
  BY <1>4, <1>5, <1>6 DEF CommitFits
<1> QED BY <1>1, <1>4, <1>7, MoveFits

\* A confirmation commits statuses that fit, in invoices nobody else holds.
LEMMA CommitPaymentFits ==
    ASSUME IndInv, StatusesSound, NEW r \in Requests, CommitPayment(r)
    PROVE  StatusesSound'
<1>1. /\ req \in [Requests -> RequestRecords] /\ req[r] \in RequestRecords
      /\ req[r].pc = "record" /\ ConfirmationSound(r)
  BY PaymentTables DEF IndInv, TypeOK, CommitPayment, At
<1>2. /\ \A q \in Others(r) : req'[q] = req[q]
      /\ req'[r].pc = "idle"
  <2>1. Finish(r)
    BY PaymentTables
  <2>2. req'[r] = Idle(SomePayment)
    BY <1>1, <2>1 DEF Finish
  <2>3. \A q \in Others(r) : req'[q] = req[q]
    BY <2>1, CommitLetsGo
  <2> QED BY <2>2, <2>3, IdleFacts, SomePaymentType
<1>3. ASSUME NEW q \in Others(r) PROVE CommitFits(q)'
  <2>1. q \in Requests /\ req[q] \in RequestRecords /\ Apart(r, q) /\ CommitFits(q)
    BY <1>1 DEF Others, IndInv, StatusesSound
  <2>2. ASSUME NEW i \in req[q].locks \cup req[q].shares PROVE invoice'[i] = invoice[i]
    <3>1. i \in Invoices /\ i \notin req[r].locks
      BY <2>1 DEF RequestRecords, Apart
    <3> QED BY <3>1, PaymentTables
  <2> QED BY <1>2, <2>1, <2>2, SparedFits
<1>4. ASSUME NEW i \in Invoices, Issued(i)'
      PROVE  StatusFits(i, invoice[i].status, invoice[i].paid)'
  <2>1. /\ invoice'[i].total = invoice[i].total /\ invoice'[i].late = invoice[i].late
        /\ invoice'[i].paid = invoice[i].paid + req[r].part[i]
        /\ invoice'[i].status = IF req[r].written[i] = "none"
                                THEN invoice[i].status ELSE req[r].written[i]
    BY PaymentTables
  <2>2. CASE req[r].part[i] = 0
    <3>1. req[r].written[i] = "none" /\ invoice[i].paid \in Int
      BY <1>1, <2>2 DEF ConfirmationSound, IndInv, TypeOK, InvoiceRecords
    <3>2. StatusFits(i, invoice[i].status, invoice[i].paid)
      BY <1>4, <2>1, <3>1 DEF StatusesSound, StatusFollowsPayments, Issued
    <3> QED BY <2>1, <2>2, <3>1, <3>2 DEF StatusFits, StatusOf
  <2>3. CASE req[r].part[i] # 0
    <3>1. req[r].written[i] # "none" /\ req[r].part[i] > 0
      BY <1>1, <2>3 DEF ConfirmationSound, RequestRecords
    <3>2. StatusFits(i, req[r].written[i], invoice[i].paid + req[r].part[i])
      BY <1>1, <3>1 DEF StatusesSound, CommitFits
    <3> QED BY <2>1, <3>1, <3>2 DEF StatusFits, StatusOf
  <2> QED BY <2>2, <2>3
<1>5. CommitFits(r)'
  BY <1>2, EarlyFits
<1> QED BY <1>3, <1>4, <1>5 DEF StatusesSound, StatusFollowsPayments, Others

\* So does a reversal, as long as no other one shares its invoices.
LEMMA CommitReversalFits ==
    ASSUME SingleDirector, IndInv, StatusesSound, NEW r \in Requests, CommitReversal(r)
    PROVE  StatusesSound'
<1>1. /\ req \in [Requests -> RequestRecords] /\ req[r] \in RequestRecords
      /\ req[r].pc = "portion" /\ ReversalSound(r) /\ r \in Directors
  BY ReversalTables DEF IndInv, TypeOK, CommitReversal, At, StatusesSound, CommitFits
<1>2. /\ \A q \in Others(r) : req'[q] = req[q]
      /\ req'[r].pc = "idle"
  <2>1. Finish(r)
    BY ReversalTables
  <2>2. req'[r] = Idle(SomePayment)
    BY <1>1, <2>1 DEF Finish
  <2>3. \A q \in Others(r) : req'[q] = req[q]
    BY <2>1, CommitLetsGo
  <2> QED BY <2>2, <2>3, IdleFacts, SomePaymentType
<1>3. ASSUME NEW q \in Others(r) PROVE CommitFits(q)'
  <2>1. /\ q \in Requests /\ q # r /\ req[q] \in RequestRecords
        /\ Apart(q, r) /\ CommitFits(q) /\ RequestSound(q)
    BY <1>1 DEF Others, IndInv, StatusesSound
  <2>2. req[q].pc \notin {"portion", "status"}
    BY <1>1, <2>1 DEF CommitFits, SingleDirector
  <2>3. req[q].shares = {}
    BY <2>1, <2>2 DEF RequestSound, HoldsNothing, ConfirmationSound, RequestRecords, Steps
  <2>4. ASSUME NEW i \in req[q].locks \cup req[q].shares PROVE invoice'[i] = invoice[i]
    <3>1. i \in Invoices /\ i \notin req[r].shares
      BY <2>1, <2>3 DEF RequestRecords, Apart
    <3> QED BY <3>1, ReversalTables
  <2> QED BY <1>2, <2>1, <2>4, SparedFits
<1>4. ASSUME NEW i \in Invoices, Issued(i)'
      PROVE  StatusFits(i, invoice[i].status, invoice[i].paid)'
  <2>1. /\ invoice'[i].total = invoice[i].total /\ invoice'[i].late = invoice[i].late
        /\ invoice'[i].paid = invoice[i].paid - req[r].part[i]
        /\ invoice'[i].status = IF req[r].written[i] = "none"
                                THEN invoice[i].status ELSE req[r].written[i]
    BY ReversalTables
  <2>2. CASE i \notin req[r].shares
    <3>1. invoice'[i] = invoice[i]
      BY <2>2, ReversalTables
    <3> QED BY <1>4, <3>1 DEF StatusesSound, StatusFollowsPayments, Issued, StatusFits, StatusOf
  <2>3. CASE i \in req[r].shares
    <3>1. StatusFits(i, StatusLeft(r, i), invoice[i].paid - req[r].part[i])
      BY <1>1, <2>3 DEF StatusesSound, CommitFits
    <3>2. StatusLeft(r, i) = invoice'[i].status
      BY <1>1, <2>1 DEF StatusLeft, At
    <3> QED BY <2>1, <3>1, <3>2 DEF StatusFits, StatusOf
  <2> QED BY <2>2, <2>3
<1>5. CommitFits(r)'
  BY <1>2, EarlyFits
<1> QED BY <1>3, <1>4, <1>5 DEF StatusesSound, StatusFollowsPayments, Others

\* A new invoice is ISSUED and unpaid; a due date that passes leaves every status.
LEMMA InvoiceFits ==
    ASSUME IndInv, StatusesSound, NEW i \in Invoices, Issue(i) \/ PassDueDate(i)
    PROVE  StatusesSound'
<1>1. req' = req /\ invoice \in [Invoices -> InvoiceRecords]
  BY DEF Issue, PassDueDate, IndInv, TypeOK
<1>2. CASE Issue(i)
  <2>1. PICK t \in Amounts :
          invoice' = [invoice EXCEPT ![i] = [NoInvoice EXCEPT !.status = "ISSUED", !.total = t]]
    BY <1>2 DEF Issue
  <2>2. t \in Nat /\ t > 0 /\ ~Issued(i)
    <3>1. t \in Nat /\ t > 0
      BY ConstantsAssumption DEF Amounts
    <3> QED BY <1>2, <3>1 DEF Issue
  <2>3. /\ invoice'[i].total = t /\ invoice'[i].paid = 0 /\ invoice'[i].status = "ISSUED"
        /\ invoice'[i].late = FALSE
        /\ \A j \in Invoices : j # i => invoice'[j] = invoice[j]
    BY <1>1, <2>1 DEF NoInvoice
  <2>4. StatusFits(i, invoice[i].status, invoice[i].paid)'
    BY <2>2, <2>3 DEF StatusFits, StatusOf, AtLeastZero
  <2>5. StatusFollowsPayments'
    BY <2>3, <2>4 DEF StatusesSound, StatusFollowsPayments, StatusFits, StatusOf, Issued
  <2>6. ASSUME NEW q \in Requests PROVE CommitFits(q)'
    <3>1. \A j \in req[q].locks \cup req[q].shares : invoice'[j] = invoice[j]
      BY <2>2, <2>3, HeldIssued
    <3> QED BY <1>1, <3>1, SparedFits DEF StatusesSound
  <2> QED BY <2>5, <2>6 DEF StatusesSound
<1>3. CASE PassDueDate(i)
  <2>1. ASSUME NEW j \in Invoices
        PROVE  /\ invoice'[j].total = invoice[j].total /\ invoice'[j].paid = invoice[j].paid
               /\ invoice'[j].status = invoice[j].status
               /\ invoice[j].late => invoice'[j].late
    <3>1. invoice[j] \in InvoiceRecords
      BY <1>1
    <3>2. invoice'[j] = invoice[j] \/ invoice'[j] = [invoice[j] EXCEPT !.late = TRUE]
      BY <1>1, <1>3 DEF PassDueDate
    <3> QED BY <3>1, <3>2 DEF InvoiceRecords
  <2>2. ASSUME NEW j \in Invoices, Issued(j)'
        PROVE  StatusFits(j, invoice[j].status, invoice[j].paid)'
    <3>1. StatusFits(j, invoice[j].status, invoice[j].paid)
      BY <2>1, <2>2 DEF StatusesSound, StatusFollowsPayments, Issued
    <3> QED BY <2>1, <3>1, FitsLater DEF StatusFits, StatusOf
  <2>3. ASSUME NEW q \in Requests PROVE CommitFits(q)'
    <3>1. req[q].locks \cup req[q].shares \subseteq Invoices
      BY HeldIssued
    <3> QED BY <1>1, <2>1, <3>1, SparedFits DEF StatusesSound
  <2> QED BY <2>2, <2>3 DEF StatusesSound, StatusFollowsPayments
<1> QED BY <1>2, <1>3

\* With one director at a time, the stored status is the one that refreshStatus()
\* would compute from what is paid; with two it need not be.
THEOREM StatusFollowsPaymentsThm ==
    ASSUME SingleDirector PROVE Spec => []StatusFollowsPayments
<1>1. Init => StatusesSound
  <2> SUFFICES ASSUME Init PROVE StatusesSound
    OBVIOUS
  <2>1. \A i \in Invoices : ~Issued(i)
    BY DEF Init, Issued, NoInvoice
  <2>2. \A r \in Requests : req[r].pc = "idle"
    BY IdleFacts, SomePaymentType DEF Init
  <2> QED BY <2>1, <2>2 DEF StatusesSound, StatusFollowsPayments, CommitFits
<1>2. IndInv /\ StatusesSound /\ [Next]_vars => StatusesSound'
  <2> SUFFICES ASSUME IndInv, StatusesSound, [Next]_vars PROVE StatusesSound'
    OBVIOUS
  <2>1. CASE UNCHANGED vars
    BY <2>1 DEF vars, StatusesSound, StatusFollowsPayments, CommitFits, StatusFits, StatusOf,
                StatusLeft, At, Issued
  <2>2. ASSUME NEW r \in Requests, PaymentStep(r) PROVE StatusesSound'
    BY <2>2, EarlyStep, LockingStep, AllocateFits, CommitPaymentFits DEF PaymentStep
  <2>3. ASSUME NEW r \in Requests, ReversalStep(r) PROVE StatusesSound'
    BY <2>3, BeginReversalFits, SkipFits, ReverseFits, WriteFits, CommitReversalFits
       DEF ReversalStep
  <2>4. ASSUME NEW r \in Requests, Abort(r) PROVE StatusesSound'
    BY <2>4, EarlyStep
  <2>5. ASSUME NEW i \in Invoices, Issue(i) \/ PassDueDate(i) PROVE StatusesSound'
    BY <2>5, InvoiceFits
  <2> QED BY <2>1, <2>2, <2>3, <2>4, <2>5 DEF Next
<1>3. StatusesSound => StatusFollowsPayments
  BY DEF StatusesSound
<1> QED BY Inductive, <1>1, <1>2, <1>3, PTL DEF Spec

-----------------------------------------------------------------------------
(* The money *)

\* The portions of a request add up.
LEMMA PortionFacts ==
    /\ IsFiniteSet(Invoices)
    /\ SumFunctionOnSet(Nothing, Invoices) = 0
    /\ \A part \in [Invoices -> Nat] : SumFunctionOnSet(part, Invoices) \in Nat
<1>1. IsFiniteSet(Invoices)
  BY FS_Interval, ConstantsAssumption DEF Invoices
<1>2. \A i \in Invoices : Nothing[i] = 0
  BY DEF Nothing
<1> QED BY <1>1, <1>2, SumZeros, SumNat

\* A portion that was not set yet counts with what it is set to.
LEMMA PortionAdded ==
    ASSUME NEW part \in [Invoices -> Nat], NEW i \in Invoices, NEW a \in Nat, part[i] = 0
    PROVE  SumFunctionOnSet([part EXCEPT ![i] = a], Invoices)
             = SumFunctionOnSet(part, Invoices) + a
<1> DEFINE more == [part EXCEPT ![i] = a]
<1>1. /\ \A j \in Invoices : part[j] \in Int /\ more[j] \in Int
      /\ \A j \in Invoices : j # i => more[j] = part[j]
      /\ more[i] = a
  OBVIOUS
<1>2. SumFunctionOnSet(part, Invoices) \in Nat
  BY PortionFacts
<1> HIDE DEF more
<1>3. SumFunctionOnSet(more, Invoices)
        = SumFunctionOnSet(part, Invoices) + more[i] - part[i]
  BY <1>1, PortionFacts, SumChange
<1>4. SumFunctionOnSet(more, Invoices) = SumFunctionOnSet(part, Invoices) + a
  BY <1>1, <1>2, <1>3
<1> QED BY <1>4 DEF more

\* What is summed over the payments of an invoice.
LEMMA PaidFacts ==
    ASSUME TypeOK, NEW i \in Invoices
    PROVE  /\ \A k \in Payments : alloc[k][i] \in Nat /\ undone[k][i] \in Nat
           /\ PaidAmount(i) \in Int
<1> DEFINE paid == [k \in Payments |-> alloc[k][i] - undone[k][i]]
<1>1. \A k \in Payments : alloc[k][i] \in Nat /\ undone[k][i] \in Nat
  BY DEF TypeOK
<1>2. \A k \in Payments : paid[k] \in Int
  BY <1>1
<1> HIDE DEF paid
<1>3. SumFunctionOnSet(paid, Payments) \in Int
  BY <1>2, ConstantsAssumption, SumInt
<1> QED BY <1>1, <1>3 DEF PaidAmount, paid

\* A step that leaves the tables of payments alone, and the sums of the invoices.
LEMMA MoneyUntouched ==
    ASSUME IndInv, MoneySound, NEW r \in Requests,
           UNCHANGED <<payment, alloc, undone>>,
           \A i \in Invoices : invoice'[i].paid = invoice[i].paid,
           \A q \in Others(r) : req'[q] = req[q],
           MoneyInHand(r)'
    PROVE  MoneySound'
<1>1. MoneyConserved'
  BY DEF MoneySound, MoneyConserved, Allocated, Returned, PaidAmount
<1>2. ASSUME NEW q \in Others(r) PROVE MoneyInHand(q)'
  BY DEF Others, MoneySound, MoneyInHand
<1> QED BY <1>1, <1>2 DEF MoneySound, Others

\* A request that begins has everything left, one that ends had nothing to keep.
LEMMA MoneyBegins ==
    ASSUME IndInv, MoneySound, NEW r \in Requests,
           Begin(r) \/ InsertCollides(r) \/ BeginReversal(r) \/ Abort(r)
    PROVE  MoneySound'
<1>1. /\ UNCHANGED <<invoice, payment, alloc, undone>>
      /\ \A q \in Others(r) : req'[q] = req[q]
  BY DEF Begin, InsertCollides, BeginReversal, Abort, Finish, Others, IndInv, TypeOK
<1>2. MoneyInHand(r)'
  <2>0. req \in [Requests -> RequestRecords] /\ \A a \in Amounts : a \in Nat
    BY ConstantsAssumption DEF IndInv, TypeOK, Amounts
  <2>1. CASE InsertCollides(r) \/ Abort(r)
    <3>1. req'[r] = Idle(SomePayment)
      BY <2>0, <2>1 DEF InsertCollides, Abort, Finish
    <3> QED BY <3>1, PortionFacts DEF MoneyInHand, Idle
  <2>2. CASE Begin(r)
    <3>1. PICK k \in Payments, a \in Amounts :
            req'[r] = [Idle(k) EXCEPT !.pc = "insert", !.amount = a, !.left = a]
      BY <2>0, <2>2 DEF Begin
    <3>2. a = a + SumFunctionOnSet(Nothing, Invoices)
      BY <2>0, PortionFacts
    <3> QED BY <3>1, <3>2 DEF MoneyInHand, Idle
  <2>3. CASE BeginReversal(r)
    <3>1. PICK k \in Payments, a \in Amounts :
            req'[r] = [Idle(k) EXCEPT !.pc = "portion", !.amount = a, !.left = a,
                                      !.todo = {i \in Invoices : alloc[k][i] > 0}]
      BY <2>0, <2>3 DEF BeginReversal
    <3>2. a = a + SumFunctionOnSet(Nothing, Invoices)
      BY <2>0, PortionFacts
    <3>3. ASSUME NEW i \in Invoices, ~(alloc[k][i] > 0)
          PROVE  0 = alloc[k][i] - undone[k][i]
      <4>1. alloc[k][i] \in Nat /\ undone[k][i] \in Nat /\ undone[k][i] <= alloc[k][i]
        BY PaidFacts DEF IndInv, ReversalsBounded
      <4> QED BY <3>3, <4>1
    <3>4. \A i \in Invoices \ {j \in Invoices : alloc[k][j] > 0} :
            Nothing[i] = alloc[k][i] - undone[k][i]
      BY <3>3 DEF Nothing
    <3>5. /\ req'[r].amount = a /\ req'[r].left = a /\ req'[r].part = Nothing
          /\ req'[r].k = k /\ req'[r].todo = {j \in Invoices : alloc[k][j] > 0}
      BY <3>1 DEF Idle
    <3> QED BY <1>1, <3>2, <3>4, <3>5 DEF MoneyInHand
  <2> QED BY <2>1, <2>2, <2>3
<1> QED BY <1>1, <1>2, MoneyUntouched

\* A step that does not distribute anything.
LEMMA MoneyWaits ==
    ASSUME IndInv, MoneySound, NEW r \in Requests,
           Insert(r) \/ LockInvoices(r) \/ NumberReceipt(r) \/ WriteStatus(r)
    PROVE  MoneySound'
<1>1. /\ UNCHANGED <<invoice, payment, alloc, undone>>
      /\ \A q \in Others(r) : req'[q] = req[q]
  BY DEF Insert, LockInvoices, NumberReceipt, WriteStatus, Others, IndInv, TypeOK
<1>2. MoneyInHand(r)
  BY DEF MoneySound
<1>3. req \in [Requests -> RequestRecords] /\ req[r] \in RequestRecords
  BY DEF IndInv, TypeOK
<1>4. /\ req'[r].amount = req[r].amount /\ req'[r].left = req[r].left
      /\ req'[r].part = req[r].part /\ req'[r].k = req[r].k
      /\ req'[r].pc \in {"portion", "status"} =>
           req[r].pc \in {"portion", "status"} /\ req'[r].todo = req[r].todo
  <2>1. CASE Insert(r)
    BY <1>3, <2>1 DEF Insert, RequestRecords
  <2>2. CASE LockInvoices(r)
    BY <1>3, <2>2 DEF LockInvoices, RequestRecords
  <2>3. CASE NumberReceipt(r)
    BY <1>3, <2>3 DEF NumberReceipt, RequestRecords
  <2>4. CASE WriteStatus(r)
    BY <1>3, <2>4 DEF WriteStatus, At, RequestRecords
  <2> QED BY <2>1, <2>2, <2>3, <2>4
<1>5. MoneyInHand(r)'
  BY <1>1, <1>2, <1>4 DEF MoneyInHand
<1> QED BY <1>1, <1>5, MoneyUntouched

\* An invoice takes a portion of what is left.
LEMMA MoneyAllocated ==
    ASSUME IndInv, MoneySound, NEW r \in Requests, Allocate(r)
    PROVE  MoneySound'
<1>1. PICK i \in req[r].todo :
        req' = [req EXCEPT
             ![r].todo = @ \ {i},
             ![r].part[i] = Portion(r, i),
             ![r].left = @ - Portion(r, i),
             ![r].written[i] = IF Portion(r, i) > 0
                               THEN StatusOf(i, invoice[i].paid + Portion(r, i)) ELSE "none"]
  BY DEF Allocate
<1> DEFINE a == Portion(r, i)
<1>2. req[r].pc = "allocate" /\ UNCHANGED <<invoice, payment, alloc, undone, sequence>>
  BY DEF Allocate, At
<1>3. /\ req \in [Requests -> RequestRecords] /\ req[r] \in RequestRecords /\ i \in Invoices
      /\ req[r].left \in Nat /\ req[r].part \in [Invoices -> Nat]
  BY DEF IndInv, TypeOK, RequestRecords
<1>4. req[r].part[i] = 0
  BY <1>2, <1>3 DEF IndInv, RequestSound, ConfirmationSound
<1>5. a \in Nat /\ a <= req[r].left
  <2>1. Balance(i) \in Nat
    BY <1>3, BalanceFacts DEF IndInv
  <2> QED BY <1>3, <2>1 DEF Portion, Smaller
<1> HIDE DEF a
<1>6. /\ \A q \in Others(r) : req'[q] = req[q]
      /\ req'[r].pc = "allocate" /\ req'[r].amount = req[r].amount
      /\ req'[r].part = [req[r].part EXCEPT ![i] = a] /\ req'[r].left = req[r].left - a
  BY <1>1, <1>2, <1>3 DEF RequestRecords, Others, a
<1>7. MoneyInHand(r)'
  <2> DEFINE sum == SumFunctionOnSet(req[r].part, Invoices)
  <2>1. SumFunctionOnSet(req'[r].part, Invoices) = sum + a
    BY <1>3, <1>4, <1>5, <1>6, PortionAdded
  <2>2. sum \in Nat /\ req[r].amount = req[r].left + sum
    BY <1>3, PortionFacts DEF MoneySound, MoneyInHand
  <2> HIDE DEF sum
  <2>3. req'[r].amount = req'[r].left + SumFunctionOnSet(req'[r].part, Invoices)
    BY <1>3, <1>5, <1>6, <2>1, <2>2
  <2> QED BY <1>6, <2>3 DEF MoneyInHand
<1> QED BY <1>2, <1>6, <1>7, MoneyUntouched

\* An allocation that is used up has been given back as far as it was there.
LEMMA MoneySkips ==
    ASSUME IndInv, MoneySound, NEW r \in Requests, SkipPortion(r)
    PROVE  MoneySound'
<1>1. PICK i \in req[r].todo :
        Available(req[r].k, i) = 0 /\ req' = [req EXCEPT ![r].todo = @ \ {i}]
  BY DEF SkipPortion
<1>2. req[r].pc = "portion" /\ UNCHANGED <<invoice, payment, alloc, undone, sequence>>
  BY DEF SkipPortion, At
<1>3. /\ req \in [Requests -> RequestRecords] /\ req[r] \in RequestRecords /\ i \in Invoices
      /\ req[r].k \in Payments /\ req[r].part[i] \in Nat
  BY DEF IndInv, TypeOK, RequestRecords
<1>4. /\ \A q \in Others(r) : req'[q] = req[q]
      /\ req'[r].pc = "portion" /\ req'[r].amount = req[r].amount
      /\ req'[r].part = req[r].part /\ req'[r].left = req[r].left
      /\ req'[r].k = req[r].k /\ req'[r].todo = req[r].todo \ {i}
  BY <1>1, <1>2, <1>3 DEF RequestRecords, Others
<1>5. req[r].part[i] = alloc[req[r].k][i] - undone[req[r].k][i]
  <2>1. /\ alloc[req[r].k][i] \in Nat /\ undone[req[r].k][i] \in Nat
        /\ undone[req[r].k][i] <= alloc[req[r].k][i]
    BY <1>3, PaidFacts DEF IndInv, ReversalsBounded
  <2>2. req[r].part[i] <= alloc[req[r].k][i] - undone[req[r].k][i]
    BY <1>2, <1>3 DEF IndInv, RequestSound, ReversalSound
  <2> QED BY <1>1, <1>3, <2>1, <2>2 DEF Available, AtLeastZero
<1>6. MoneyInHand(r)'
  BY <1>2, <1>4, <1>5 DEF MoneySound, MoneyInHand
<1> QED BY <1>2, <1>4, <1>6, MoneyUntouched

\* A reversal takes all of an allocation, or all it has left.
LEMMA MoneyReversed ==
    ASSUME IndInv, MoneySound, NEW r \in Requests, ReversePortion(r)
    PROVE  MoneySound'
<1> DEFINE a(i) == Smaller(req[r].left, Available(req[r].k, i))
<1> DEFINE s(i) == StatusOf(i, invoice[i].paid - a(i))
<1> DEFINE c(i) == IF s(i) = invoice[i].status THEN "portion" ELSE "status"
<1>1. PICK i \in req[r].todo :
        /\ a(i) > 0
        /\ req' = [req EXCEPT
             ![r].todo = @ \ {i}, ![r].part[i] = a(i), ![r].left = @ - a(i),
             ![r].shares = @ \cup {i}, ![r].pc = c(i), ![r].at = i, ![r].next = s(i)]
  BY DEF ReversePortion
<1>2. req[r].pc = "portion" /\ UNCHANGED <<invoice, payment, alloc, undone, sequence>>
  BY DEF ReversePortion, At
<1>3. /\ req \in [Requests -> RequestRecords] /\ req[r] \in RequestRecords /\ i \in Invoices
      /\ req[r].k \in Payments /\ req[r].left \in Nat /\ req[r].part \in [Invoices -> Nat]
  BY DEF IndInv, TypeOK, RequestRecords
<1> DEFINE due == alloc[req[r].k][i] - undone[req[r].k][i]
<1>4. alloc[req[r].k][i] \in Nat /\ undone[req[r].k][i] \in Nat /\ undone[req[r].k][i] <= alloc[req[r].k][i]
  BY <1>3, PaidFacts DEF IndInv, ReversalsBounded
<1>5. a(i) \in Nat /\ a(i) <= req[r].left /\ (req[r].left - a(i) > 0 => a(i) = due)
  BY <1>3, <1>4 DEF Smaller, Available, AtLeastZero
<1>6. req[r].part[i] = 0
  BY <1>2, <1>3 DEF IndInv, RequestSound, ReversalSound
<1>7. /\ \A q \in Others(r) : req'[q] = req[q]
      /\ req'[r].amount = req[r].amount /\ req'[r].k = req[r].k
      /\ req'[r].todo = req[r].todo \ {i}
      /\ req'[r].part = [req[r].part EXCEPT ![i] = a(i)]
      /\ req'[r].left = req[r].left - a(i)
  <2> HIDE DEF a, s, c
  <2> QED BY <1>1, <1>3 DEF RequestRecords, Others
<1> HIDE DEF a
<1>8. req'[r].amount = req'[r].left + SumFunctionOnSet(req'[r].part, Invoices)
  <2> DEFINE sum == SumFunctionOnSet(req[r].part, Invoices)
  <2>1. SumFunctionOnSet(req'[r].part, Invoices) = sum + a(i)
    BY <1>3, <1>5, <1>6, <1>7, PortionAdded
  <2>2. sum \in Nat /\ req[r].amount = req[r].left + sum
    BY <1>3, PortionFacts DEF MoneySound, MoneyInHand
  <2> HIDE DEF sum
  <2> QED BY <1>3, <1>5, <1>7, <2>1, <2>2
<1>9. ASSUME req'[r].left > 0, NEW j \in Invoices, j \notin req'[r].todo
      PROVE  req'[r].part[j] = alloc[req[r].k][j] - undone[req[r].k][j]
  <2>1. CASE j = i
    BY <1>3, <1>5, <1>7, <1>9, <2>1
  <2>2. CASE j # i
    <3>1. req[r].left > 0 /\ j \notin req[r].todo
      BY <1>3, <1>5, <1>7, <1>9, <2>2
    <3>2. req[r].part[j] = alloc[req[r].k][j] - undone[req[r].k][j]
      BY <1>2, <3>1 DEF MoneySound, MoneyInHand
    <3> QED BY <1>3, <1>7, <2>2, <3>2
  <2> QED BY <2>1, <2>2
<1>10. MoneyInHand(r)'
  BY <1>2, <1>7, <1>8, <1>9 DEF MoneyInHand
<1> QED BY <1>2, <1>7, <1>10, MoneyUntouched

\* A payment that commits has put on invoices what is not its credit.
LEMMA MoneyPaid ==
    ASSUME IndInv, MoneySound, NEW r \in Requests, CommitPayment(r)
    PROVE  MoneySound'
<1> DEFINE k == req[r].k
<1>1. /\ k \in Payments /\ ~Recorded(k)
      /\ \A i \in Invoices : invoice'[i].paid = invoice[i].paid + req[r].part[i]
      /\ payment' = [payment EXCEPT ![k] =
           [amount |-> req[r].amount, credit |-> req[r].left, reversed |-> 0,
            receipt |-> sequence]]
      /\ alloc' = [alloc EXCEPT ![k] = req[r].part]
      /\ undone' = undone /\ Finish(r)
  BY PaymentTables
<1>2. /\ req \in [Requests -> RequestRecords] /\ req[r].left \in Nat
      /\ req[r].part \in [Invoices -> Nat]
      /\ payment \in [Payments -> PaymentRecords] /\ alloc \in [Payments -> [Invoices -> Nat]]
      /\ undone \in [Payments -> [Invoices -> Nat]]
  BY DEF IndInv, TypeOK, RequestRecords
<1>3. alloc[k] = Nothing /\ undone[k] = Nothing
  BY <1>1 DEF IndInv, PaymentsSound
<1>4. req[r].amount = req[r].left + SumFunctionOnSet(req[r].part, Invoices)
  BY DEF MoneySound, MoneyInHand
<1>5. ASSUME NEW j \in Payments
      PROVE  /\ payment'[j].amount = payment'[j].credit + Allocated(j)'
             /\ payment'[j].reversed - Returned(j)' \in 0 .. payment'[j].credit
  <2>1. CASE j = k
    <3>1. Allocated(j)' = SumFunctionOnSet(req[r].part, Invoices) /\ Returned(j)' = 0
      BY <1>1, <1>2, <1>3, <2>1, PortionFacts DEF Allocated, Returned
    <3>2. /\ payment'[j].amount = req[r].amount /\ payment'[j].credit = req[r].left
          /\ payment'[j].reversed = 0
      BY <1>1, <1>2, <2>1
    <3> QED BY <1>2, <1>4, <3>1, <3>2
  <2>2. CASE j # k
    <3>1. payment'[j] = payment[j] /\ alloc'[j] = alloc[j] /\ undone'[j] = undone[j]
      BY <1>1, <1>2, <2>2
    <3> QED BY <3>1 DEF MoneySound, MoneyConserved, Allocated, Returned
  <2> QED BY <2>1, <2>2
<1>6. ASSUME NEW i \in Invoices PROVE invoice'[i].paid = PaidAmount(i)'
  <2> DEFINE paid == [j \in Payments |-> alloc[j][i] - undone[j][i]]
  <2> DEFINE more == [j \in Payments |-> alloc'[j][i] - undone'[j][i]]
  <2>1. \A j \in Payments : paid[j] \in Int /\ more[j] \in Int
    BY <1>1, <1>2
  <2>2. \A j \in Payments : j # k => more[j] = paid[j]
    BY <1>1, <1>2
  <2>3. paid[k] = 0 /\ more[k] = req[r].part[i]
    BY <1>1, <1>2, <1>3 DEF Nothing
  <2>4. invoice[i].paid = SumFunctionOnSet(paid, Payments)
    BY DEF MoneySound, MoneyConserved, PaidAmount
  <2> HIDE DEF paid, more
  <2>5. SumFunctionOnSet(more, Payments) = SumFunctionOnSet(paid, Payments) + more[k] - paid[k]
    BY <1>1, <2>1, <2>2, ConstantsAssumption, SumChange
  <2>6. SumFunctionOnSet(paid, Payments) \in Int
    BY <2>1, ConstantsAssumption, SumInt
  <2>7. invoice'[i].paid = SumFunctionOnSet(more, Payments)
    BY <1>1, <1>2, <2>3, <2>4, <2>5, <2>6
  <2> QED BY <2>7 DEF PaidAmount, more
<1>7. ASSUME NEW q \in Requests PROVE MoneyInHand(q)'
  <2>1. CASE q = r
    <3>1. req'[q] = Idle(SomePayment)
      BY <1>1, <1>2, <2>1 DEF Finish
    <3> QED BY <3>1, PortionFacts DEF MoneyInHand, Idle
  <2>2. CASE q # r
    <3>1. req'[q] = req[q] /\ MoneyInHand(q) /\ req[q].k \in Payments
      BY <1>1, <1>2, <2>2 DEF Finish, MoneySound, RequestRecords
    <3>2. req[q].pc \in {"portion", "status"} => req[q].k # k
      BY <1>1 DEF IndInv, RequestSound, ReversalSound
    <3>3. req[q].pc \in {"portion", "status"} => alloc'[req[q].k] = alloc[req[q].k]
      BY <1>1, <1>2, <3>1, <3>2
    <3> QED BY <1>1, <3>1, <3>3 DEF MoneyInHand
  <2> QED BY <2>1, <2>2
<1> QED BY <1>5, <1>6, <1>7 DEF MoneySound, MoneyConserved

\* A reversal that commits takes from the credit what the allocations no longer had.
LEMMA MoneyGivenBack ==
    ASSUME IndInv, MoneySound, NEW r \in Requests, CommitReversal(r)
    PROVE  MoneySound'
<1> DEFINE k == req[r].k
<1> DEFINE part == req[r].part
<1>1. /\ k \in Payments /\ req[r].amount \in Nat
      /\ ReversalSound(r)
      /\ \A i \in Invoices : invoice'[i].paid = invoice[i].paid - part[i]
      /\ payment' = [payment EXCEPT ![k].reversed = @ + req[r].amount]
      /\ undone' = [undone EXCEPT ![k] = [i \in Invoices |-> @[i] + part[i]]]
      /\ alloc' = alloc /\ Finish(r)
  BY ReversalTables
<1>2. /\ req \in [Requests -> RequestRecords] /\ req[r].left \in Nat /\ part \in [Invoices -> Nat]
      /\ payment \in [Payments -> PaymentRecords] /\ alloc \in [Payments -> [Invoices -> Nat]]
      /\ undone \in [Payments -> [Invoices -> Nat]]
      /\ \A i \in Invoices : invoice[i].paid \in Int
  BY DEF IndInv, TypeOK, RequestRecords, InvoiceRecords
<1>3. undone'[k] = [i \in Invoices |-> undone[k][i] + part[i]]
  BY <1>1, <1>2
<1>4. /\ payment'[k].amount = payment[k].amount /\ payment'[k].credit = payment[k].credit
      /\ payment'[k].reversed = payment[k].reversed + req[r].amount
  BY <1>1, <1>2 DEF PaymentRecords
<1>5. payment'[k].reversed - SumFunctionOnSet(undone'[k], Invoices) \in 0 .. payment'[k].credit
  <2> DEFINE sum == SumFunctionOnSet(part, Invoices)
  <2> DEFINE old == SumFunctionOnSet(undone[k], Invoices)
  <2> DEFINE all == SumFunctionOnSet(alloc[k], Invoices)
  <2>1. sum \in Nat /\ old \in Nat /\ all \in Nat
    BY <1>1, <1>2, PortionFacts
  <2>2. SumFunctionOnSet(undone'[k], Invoices) = old + sum
    <3>1. \A i \in Invoices : /\ undone[k][i] \in Int /\ part[i] \in Int
                              /\ undone'[k][i] = undone[k][i] + part[i]
      BY <1>1, <1>2, <1>3
    <3> QED BY <3>1, PortionFacts, SumPlus
  <2>3. req[r].amount = req[r].left + sum
    BY DEF MoneySound, MoneyInHand
  <2>4. /\ payment[k].amount = payment[k].credit + all
        /\ payment[k].reversed - old \in 0 .. payment[k].credit
    BY <1>1 DEF MoneySound, MoneyConserved, Allocated, Returned
  <2>5. payment[k].amount \in Nat /\ payment[k].credit \in Nat /\ payment[k].reversed \in Nat
    BY <1>1, <1>2 DEF PaymentRecords
  <2>6. req[r].amount <= payment[k].amount - payment[k].reversed
    BY <1>1 DEF ReversalSound, Reversible
  <2>7. ASSUME req[r].left # 0 PROVE all = old + sum
    <3>1. req[r].todo = {} /\ req[r].pc = "portion" /\ req[r].left > 0
      BY <2>7, <1>2 DEF CommitReversal, At
    <3>2. ASSUME NEW i \in Invoices PROVE undone'[k][i] = alloc[k][i]
      <4>1. part[i] = alloc[k][i] - undone[k][i]
        BY <3>1 DEF MoneySound, MoneyInHand
      <4> QED BY <1>1, <1>2, <1>3, <4>1
    <3>3. undone'[k] = alloc[k]
      <4>1. undone'[k] = [i \in Invoices |-> undone'[k][i]]
        BY <1>3
      <4>2. alloc[k] = [i \in Invoices |-> alloc[k][i]]
        BY <1>1, <1>2
      <4> QED BY <3>2, <4>1, <4>2, Zenon
    <3> QED BY <2>2, <3>3
  <2> HIDE DEF sum, old, all
  <2>8. (payment[k].reversed + req[r].amount) - (old + sum) \in 0 .. payment[k].credit
    BY <1>1, <1>2, <2>1, <2>3, <2>4, <2>5, <2>6, <2>7
  <2> QED BY <1>4, <2>2, <2>8 DEF sum, old
<1>6. ASSUME NEW j \in Payments
      PROVE  /\ payment'[j].amount = payment'[j].credit + Allocated(j)'
             /\ payment'[j].reversed - Returned(j)' \in 0 .. payment'[j].credit
  <2>1. Allocated(j)' = Allocated(j)
    BY <1>1 DEF Allocated
  <2>2. CASE j = k
    <3>1. payment[j].amount = payment[j].credit + Allocated(j)
      BY DEF MoneySound, MoneyConserved
    <3> QED BY <1>4, <1>5, <2>1, <2>2, <3>1 DEF Returned
  <2>3. CASE j # k
    <3>1. payment'[j] = payment[j] /\ undone'[j] = undone[j]
      BY <1>1, <1>2, <2>3
    <3> QED BY <2>1, <3>1 DEF MoneySound, MoneyConserved, Returned
  <2> QED BY <2>2, <2>3
<1>7. ASSUME NEW i \in Invoices PROVE invoice'[i].paid = PaidAmount(i)'
  <2> DEFINE paid == [j \in Payments |-> alloc[j][i] - undone[j][i]]
  <2> DEFINE less == [j \in Payments |-> alloc'[j][i] - undone'[j][i]]
  <2>1. \A j \in Payments : j # k => less[j] = paid[j]
    BY <1>1, <1>2
  <2>2. /\ paid[k] = alloc[k][i] - undone[k][i]
        /\ less[k] = alloc[k][i] - (undone[k][i] + part[i])
    BY <1>1, <1>2, <1>3
  <2>3. alloc[k][i] \in Nat /\ undone[k][i] \in Nat /\ part[i] \in Nat
    BY <1>1, <1>2
  <2>4. \A j \in Payments : paid[j] \in Int /\ less[j] \in Int
    <3>1. \A j \in Payments : paid[j] \in Int
      BY <1>2
    <3>2. less[k] \in Int
      <4> HIDE DEF less, k, part
      <4> QED BY <2>2, <2>3
    <3> QED BY <2>1, <3>1, <3>2
  <2>5. invoice[i].paid = SumFunctionOnSet(paid, Payments)
    BY DEF MoneySound, MoneyConserved, PaidAmount
  <2> HIDE DEF paid, less
  <2>6. SumFunctionOnSet(less, Payments) = SumFunctionOnSet(paid, Payments) + less[k] - paid[k]
    <3>1. k \in Payments
      BY <1>1
    <3> HIDE DEF k
    <3> QED BY <2>1, <2>4, <3>1, ConstantsAssumption, SumChange
  <2>7. SumFunctionOnSet(paid, Payments) \in Int
    BY <2>4, ConstantsAssumption, SumInt
  <2>8. invoice'[i].paid = SumFunctionOnSet(less, Payments)
    BY <1>1, <2>2, <2>3, <2>5, <2>6, <2>7
  <2> QED BY <2>8 DEF PaidAmount, less
<1>8. ASSUME NEW q \in Requests PROVE MoneyInHand(q)'
  <2>1. CASE q = r
    <3>1. req'[q] = Idle(SomePayment)
      BY <1>1, <1>2, <2>1 DEF Finish
    <3> QED BY <3>1, PortionFacts DEF MoneyInHand, Idle
  <2>2. CASE q # r
    <3>1. req'[q] = req[q] /\ MoneyInHand(q) /\ req[q].k \in Payments
      BY <1>1, <1>2, <2>2 DEF Finish, MoneySound, RequestRecords
    <3>2. req[q].pc \in {"portion", "status"} => req[q].k # k
      BY <1>1, <2>2 DEF IndInv, Apart, Reversing, CommitReversal, At
    <3>3. req[q].pc \in {"portion", "status"} => undone'[req[q].k] = undone[req[q].k]
      BY <1>1, <1>2, <3>1, <3>2
    <3> QED BY <1>1, <3>1, <3>3 DEF MoneyInHand
  <2> QED BY <2>1, <2>2
<1> QED BY <1>6, <1>7, <1>8 DEF MoneySound, MoneyConserved

\* Invoices that are issued or become late have nothing more paid on them.
LEMMA MoneyOnInvoices ==
    ASSUME IndInv, MoneySound, NEW i \in Invoices, Issue(i) \/ PassDueDate(i)
    PROVE  MoneySound'
<1>1. UNCHANGED <<payment, alloc, undone, req>>
  BY DEF Issue, PassDueDate
<1>2. ASSUME NEW j \in Invoices PROVE invoice'[j].paid = invoice[j].paid
  <2>1. invoice \in [Invoices -> InvoiceRecords]
    BY DEF IndInv, TypeOK
  <2>2. CASE PassDueDate(i)
    BY <2>1, <2>2 DEF PassDueDate, InvoiceRecords
  <2>3. CASE Issue(i)
    <3>1. PICK t \in Amounts :
            invoice' = [invoice EXCEPT ![i] =
                          [NoInvoice EXCEPT !.status = "ISSUED", !.total = t]]
      BY <2>3 DEF Issue
    <3>2. invoice[i] = NoInvoice
      BY <2>3 DEF Issue, IndInv, InvoicesSound
    <3> QED BY <2>1, <3>1, <3>2 DEF NoInvoice
  <2> QED BY <2>2, <2>3
<1>3. MoneyConserved'
  BY <1>1, <1>2 DEF MoneySound, MoneyConserved, Allocated, Returned, PaidAmount
<1> QED BY <1>1, <1>3 DEF MoneySound, MoneyInHand

\* Before anything is paid all sums are zero.
LEMMA MoneyAtFirst == Init => MoneySound
<1> SUFFICES ASSUME Init PROVE MoneySound
  OBVIOUS
<1>1. ASSUME NEW k \in Payments
      PROVE  /\ payment[k].amount = payment[k].credit + Allocated(k)
             /\ payment[k].reversed - Returned(k) \in 0 .. payment[k].credit
  BY PortionFacts DEF Init, NoPayment, Allocated, Returned
<1>2. ASSUME NEW i \in Invoices PROVE invoice[i].paid = PaidAmount(i)
  <2> DEFINE paid == [k \in Payments |-> alloc[k][i] - undone[k][i]]
  <2>1. \A k \in Payments : paid[k] = 0
    BY DEF Init, Nothing
  <2> HIDE DEF paid
  <2>2. SumFunctionOnSet(paid, Payments) = 0
    BY <2>1, ConstantsAssumption, SumZeros
  <2> QED BY <2>2 DEF Init, NoInvoice, PaidAmount, paid
<1>3. ASSUME NEW r \in Requests PROVE MoneyInHand(r)
  BY PortionFacts DEF Init, Idle, MoneyInHand
<1> QED BY <1>1, <1>2, <1>3 DEF MoneySound, MoneyConserved

\* No money appears or is lost, however payments and reversals overlap and fail.
THEOREM MoneyConservedThm == Spec => []MoneyConserved
<1>1. IndInv /\ MoneySound /\ [Next]_vars => MoneySound'
  <2> SUFFICES ASSUME IndInv, MoneySound, [Next]_vars PROVE MoneySound'
    OBVIOUS
  <2>1. CASE UNCHANGED vars
    BY <2>1 DEF vars, MoneySound, MoneyConserved, MoneyInHand, Allocated, Returned, PaidAmount
  <2>2. ASSUME NEW r \in Requests, PaymentStep(r) PROVE MoneySound'
    BY <2>2, MoneyBegins, MoneyWaits, MoneyAllocated, MoneyPaid DEF PaymentStep
  <2>3. ASSUME NEW r \in Requests, ReversalStep(r) PROVE MoneySound'
    BY <2>3, MoneyBegins, MoneySkips, MoneyReversed, MoneyWaits, MoneyGivenBack
       DEF ReversalStep
  <2>4. ASSUME NEW r \in Requests, Abort(r) PROVE MoneySound'
    BY <2>4, MoneyBegins
  <2>5. ASSUME NEW i \in Invoices, Issue(i) \/ PassDueDate(i) PROVE MoneySound'
    BY <2>5, MoneyOnInvoices
  <2> QED BY <2>1, <2>2, <2>3, <2>4, <2>5 DEF Next
<1>2. MoneySound => MoneyConserved
  BY DEF MoneySound
<1> QED BY Inductive, MoneyAtFirst, <1>1, <1>2, PTL DEF Spec

-----------------------------------------------------------------------------
(* The requests implement the ledger *)

\* Issuing an invoice charges its total.
LEMMA IssueRefines ==
    ASSUME IndInv, NEW i \in Invoices, Issue(i)
    PROVE  Ledger!Charge(i)
<1>1. PICK t \in Amounts :
        invoice' = [invoice EXCEPT ![i] = [NoInvoice EXCEPT !.status = "ISSUED", !.total = t]]
  BY DEF Issue
<1>2. t > 0
  BY ConstantsAssumption DEF Amounts
<1>3. invoice \in [Invoices -> InvoiceRecords] /\ invoice[i] = NoInvoice
  BY DEF IndInv, TypeOK, InvoicesSound, Issue
<1>4. /\ invoice'[i].total = t /\ invoice'[i].paid = 0
      /\ \A j \in Invoices : j # i => invoice'[j] = invoice[j]
  BY <1>1, <1>3 DEF NoInvoice
<1>5. invoice[i].total = 0 /\ invoice[i].paid = 0
  BY <1>3 DEF NoInvoice
<1>6. [j \in Invoices |-> invoice'[j].paid] = [j \in Invoices |-> invoice[j].paid]
  BY <1>4, <1>5
<1>7. [j \in Invoices |-> invoice'[j].total]
        = [[j \in Invoices |-> invoice[j].total] EXCEPT ![i] = t]
  BY <1>4
<1> QED BY <1>2, <1>4, <1>5, <1>6, <1>7 DEF Ledger!Charge, Issue, Recorded

\* The commit of a confirmation receives the payment and splits it.
LEMMA PaymentRefines ==
    ASSUME IndInv, NEW r \in Requests, CommitPayment(r), NEW k \in Payments, k = req[r].k
    PROVE  Ledger!Receive(k)
<1> DEFINE part == req[r].part
<1>1. /\ k \in Payments /\ ~Recorded(k) /\ ConfirmationSound(r)
      /\ \A i \in Invoices : /\ invoice'[i].total = invoice[i].total
                              /\ invoice'[i].paid = invoice[i].paid + part[i]
      /\ payment' = [payment EXCEPT ![k] =
           [amount |-> req[r].amount, credit |-> req[r].left, reversed |-> 0,
            receipt |-> sequence]]
      /\ alloc' = [alloc EXCEPT ![k] = part] /\ undone' = undone
  BY PaymentTables
<1>2. part \in [Invoices -> Nat] /\ sequence # 0
  BY DEF IndInv, TypeOK, RequestRecords
<1>3. payment \in [Payments -> PaymentRecords] /\ alloc \in [Payments -> [Invoices -> Nat]]
      /\ invoice \in [Invoices -> InvoiceRecords]
  BY DEF IndInv, TypeOK
<1>4. undone[k] = Nothing
  BY <1>1 DEF IndInv, PaymentsSound
<1>5. payment'[k].receipt # 0 /\ \A j \in Payments : j # k => payment'[j] = payment[j]
  BY <1>1, <1>2, <1>3
<1>6. alloc'[k] = part /\ \A j \in Payments : j # k => alloc'[j] = alloc[j]
  BY <1>1, <1>3
<1>7. \A i \in Invoices : alloc'[k][i] - undone'[k][i] = part[i]
  BY <1>1, <1>2, <1>4, <1>6 DEF Nothing
<1>8. \A i \in Invoices : invoice[i].paid + part[i] <= invoice[i].total
  <2> SUFFICES ASSUME NEW i \in Invoices PROVE invoice[i].paid + part[i] <= invoice[i].total
    OBVIOUS
  <2>1. CASE i \in req[r].locks
    BY <1>1, <2>1 DEF ConfirmationSound
  <2>2. CASE i \notin req[r].locks
    <3>1. part[i] = 0
      BY <1>1, <2>2 DEF ConfirmationSound
    <3>2. invoice[i].paid <= invoice[i].total /\ invoice[i].paid \in Int
      BY <1>3 DEF IndInv, NeverOverpaid, InvoiceRecords
    <3> QED BY <3>1, <3>2
  <2> QED BY <2>1, <2>2
<1> HIDE DEF part
<1>9. {j \in Payments : payment'[j].receipt # 0}
        = {j \in Payments : payment[j].receipt # 0} \cup {k}
  BY <1>1, <1>5
<1>10. [j \in Payments |-> [i \in Invoices |-> alloc'[j][i] - undone'[j][i]]]
         = [[j \in Payments |-> [i \in Invoices |-> alloc[j][i] - undone[j][i]]]
              EXCEPT ![k] = [i \in Invoices |-> alloc'[k][i] - undone'[k][i]]]
  <2>1. ASSUME NEW j \in Payments, j # k
        PROVE  [i \in Invoices |-> alloc'[j][i] - undone'[j][i]]
                 = [i \in Invoices |-> alloc[j][i] - undone[j][i]]
    BY <1>1, <1>6, <2>1
  <2> QED BY <2>1
<1>11. \A i \in Invoices :
         /\ alloc'[k][i] - undone'[k][i] >= 0
         /\ invoice'[i].paid = invoice[i].paid + (alloc'[k][i] - undone'[k][i])
         /\ invoice'[i].paid <= invoice[i].total
  BY <1>1, <1>2, <1>7, <1>8
<1>12. [i \in Invoices |-> invoice'[i].total] = [i \in Invoices |-> invoice[i].total]
  BY <1>1
<1>13. payment[k].receipt = 0
  BY <1>1 DEF Recorded
<1> QED BY <1>9, <1>10, <1>11, <1>12, <1>13 DEF Ledger!Receive, Recorded

\* The commit of a reversal gives back a part of what the payment contributes.
LEMMA ReversalRefines ==
    ASSUME IndInv, NEW r \in Requests, CommitReversal(r), NEW k \in Payments, k = req[r].k
    PROVE  Ledger!GiveBack(k)
<1> DEFINE part == req[r].part
<1>1. /\ k \in Payments /\ ReversalSound(r)
      /\ \A i \in Invoices : /\ invoice'[i].total = invoice[i].total
                              /\ invoice'[i].paid = invoice[i].paid - part[i]
      /\ payment' = [payment EXCEPT ![k].reversed = @ + req[r].amount]
      /\ undone' = [undone EXCEPT ![k] = [i \in Invoices |-> @[i] + part[i]]]
      /\ alloc' = alloc
  BY ReversalTables
<1>2. part \in [Invoices -> Nat]
  BY DEF IndInv, TypeOK, RequestRecords
<1>3. /\ payment \in [Payments -> PaymentRecords]
      /\ alloc \in [Payments -> [Invoices -> Nat]]
      /\ undone \in [Payments -> [Invoices -> Nat]]
      /\ invoice \in [Invoices -> InvoiceRecords]
  BY DEF IndInv, TypeOK
<1>4. Recorded(k) /\ \A i \in Invoices : part[i] <= alloc[k][i] - undone[k][i]
  BY <1>1 DEF ReversalSound
<1>5. \A j \in Payments : payment'[j].receipt = payment[j].receipt
  <2> SUFFICES ASSUME NEW j \in Payments PROVE payment'[j].receipt = payment[j].receipt
    OBVIOUS
  <2>1. CASE j = k
    <3>1. payment'[k] = [payment[k] EXCEPT !.reversed = @ + req[r].amount]
      BY <1>1, <1>3
    <3> QED BY <2>1, <3>1, <1>1, <1>3 DEF PaymentRecords
  <2>2. CASE j # k
    BY <1>1, <1>3, <2>2
  <2> QED BY <2>1, <2>2
<1>6. /\ \A i \in Invoices : undone'[k][i] = undone[k][i] + part[i]
      /\ \A j \in Payments : j # k => undone'[j] = undone[j]
  BY <1>1, <1>3
<1> HIDE DEF part
<1>7. {j \in Payments : payment'[j].receipt # 0} = {j \in Payments : payment[j].receipt # 0}
  BY <1>5
<1>8. [j \in Payments |-> [i \in Invoices |-> alloc'[j][i] - undone'[j][i]]]
        = [[j \in Payments |-> [i \in Invoices |-> alloc[j][i] - undone[j][i]]]
             EXCEPT ![k] = [i \in Invoices |-> alloc'[k][i] - undone'[k][i]]]
  <2>1. ASSUME NEW j \in Payments, j # k
        PROVE  [i \in Invoices |-> alloc'[j][i] - undone'[j][i]]
                 = [i \in Invoices |-> alloc[j][i] - undone[j][i]]
    BY <1>1, <1>6, <2>1
  <2> QED BY <2>1
<1>9. \A i \in Invoices :
        /\ alloc'[k][i] - undone'[k][i] = (alloc[k][i] - undone[k][i]) - part[i]
        /\ alloc[k][i] \in Nat /\ undone[k][i] \in Nat /\ part[i] \in Nat
  BY <1>1, <1>2, <1>3, <1>6
<1>10. \A i \in Invoices :
         /\ 0 <= alloc'[k][i] - undone'[k][i]
         /\ alloc'[k][i] - undone'[k][i] <= alloc[k][i] - undone[k][i]
         /\ invoice'[i].paid = invoice[i].paid
              - ((alloc[k][i] - undone[k][i]) - (alloc'[k][i] - undone'[k][i]))
  <2> SUFFICES ASSUME NEW i \in Invoices
               PROVE  /\ 0 <= alloc'[k][i] - undone'[k][i]
                      /\ alloc'[k][i] - undone'[k][i] <= alloc[k][i] - undone[k][i]
                      /\ invoice'[i].paid = invoice[i].paid
                           - ((alloc[k][i] - undone[k][i]) - (alloc'[k][i] - undone'[k][i]))
    OBVIOUS
  <2>1. invoice[i].paid \in Int
    BY <1>3 DEF InvoiceRecords
  <2> QED BY <1>1, <1>4, <1>9, <2>1
<1>11. [i \in Invoices |-> invoice'[i].total] = [i \in Invoices |-> invoice[i].total]
  BY <1>1
<1>12. payment[k].receipt # 0
  BY <1>4 DEF Recorded
<1> QED BY <1>7, <1>8, <1>10, <1>11, <1>12 DEF Ledger!GiveBack, Recorded

\* The other steps change nothing that the ledger holds.
LEMMA Stutters ==
    ASSUME IndInv, UNCHANGED <<invoice, payment, alloc, undone>>
    PROVE  UNCHANGED Ledger!vars
BY DEF Ledger!vars, Recorded

\* Neither does the passing of a due date.
LEMMA LateStutters ==
    ASSUME IndInv, NEW i \in Invoices, PassDueDate(i)
    PROVE  UNCHANGED Ledger!vars
<1>1. \A j \in Invoices : invoice'[j].total = invoice[j].total
                           /\ invoice'[j].paid = invoice[j].paid
  <2> SUFFICES ASSUME NEW j \in Invoices
               PROVE  invoice'[j].total = invoice[j].total /\ invoice'[j].paid = invoice[j].paid
    OBVIOUS
  <2>1. invoice[j] \in InvoiceRecords /\ invoice \in [Invoices -> InvoiceRecords]
    BY DEF IndInv, TypeOK
  <2>2. invoice'[j] = invoice[j] \/ invoice'[j] = [invoice[j] EXCEPT !.late = TRUE]
    BY <2>1 DEF PassDueDate
  <2> QED BY <2>1, <2>2 DEF InvoiceRecords
<1>2. payment' = payment /\ alloc' = alloc /\ undone' = undone
  BY DEF PassDueDate
<1> QED BY <1>1, <1>2 DEF Ledger!vars, Recorded

\* What concurrent requests commit is what a ledger would hold that handled the
\* payments and the reversals one after the other.
THEOREM Refinement == Spec => ImplementsLedger
<1>1. Init => Ledger!Init
  <2> SUFFICES ASSUME Init PROVE Ledger!Init
    OBVIOUS
  <2>1. \A i \in Invoices : invoice[i].total = 0 /\ invoice[i].paid = 0
    BY DEF Init, NoInvoice
  <2>2. \A k \in Payments, i \in Invoices : alloc[k][i] - undone[k][i] = 0
    BY DEF Init, Nothing
  <2>3. \A k \in Payments : payment[k].receipt = 0
    BY DEF Init, NoPayment
  <2> QED BY <2>1, <2>2, <2>3 DEF Ledger!Init, Recorded
<1>2. IndInv /\ [Next]_vars => [Ledger!Next]_(Ledger!vars)
  <2> SUFFICES ASSUME IndInv, [Next]_vars PROVE [Ledger!Next]_(Ledger!vars)
    OBVIOUS
  <2>1. CASE UNCHANGED vars
    BY <2>1, Stutters DEF vars
  <2>2. ASSUME NEW r \in Requests, PaymentStep(r) PROVE [Ledger!Next]_(Ledger!vars)
    <3>1. CASE CommitPayment(r)
      <4>1. PICK k \in Payments : k = req[r].k
        BY <3>1, PaymentTables
      <4>2. Ledger!Receive(k)
        BY <3>1, <4>1, PaymentRefines
      <4> QED BY <4>2 DEF Ledger!Next
    <3>2. CASE ~CommitPayment(r)
      BY <2>2, <3>2, Stutters
         DEF PaymentStep, Begin, Insert, InsertCollides, LockInvoices, Allocate, NumberReceipt
    <3> QED BY <3>1, <3>2
  <2>3. ASSUME NEW r \in Requests, ReversalStep(r) PROVE [Ledger!Next]_(Ledger!vars)
    <3>1. CASE CommitReversal(r)
      <4>1. PICK k \in Payments : k = req[r].k
        BY <3>1, ReversalTables
      <4>2. Ledger!GiveBack(k)
        BY <3>1, <4>1, ReversalRefines
      <4> QED BY <4>2 DEF Ledger!Next
    <3>2. CASE ~CommitReversal(r)
      BY <2>3, <3>2, Stutters
         DEF ReversalStep, BeginReversal, SkipPortion, ReversePortion, WriteStatus
    <3> QED BY <3>1, <3>2
  <2>4. ASSUME NEW r \in Requests, Abort(r) PROVE [Ledger!Next]_(Ledger!vars)
    BY <2>4, Stutters DEF Abort
  <2>5. ASSUME NEW i \in Invoices, Issue(i) PROVE [Ledger!Next]_(Ledger!vars)
    BY <2>5, IssueRefines DEF Ledger!Next
  <2>6. ASSUME NEW i \in Invoices, PassDueDate(i) PROVE [Ledger!Next]_(Ledger!vars)
    BY <2>6, LateStutters
  <2> QED BY <2>1, <2>2, <2>3, <2>4, <2>5, <2>6 DEF Next
<1> QED BY Inductive, <1>1, <1>2, PTL DEF Spec, ImplementsLedger, Ledger!Spec
=============================================================================
