SPECIFICATION Spec
CONSTANTS
    Requests = {c1, d1}
    Directors = {d1}
    Payments = {p1, p2}
    NInvoices = 2
    MaxAmount = 2
CHECK_DEADLOCK FALSE
INVARIANTS
    NeverOverpaid
    PaidIffSettled
    ReceiptsGapless
    ReversalsBounded
    StatusFollowsPayments
    MoneyConserved
PROPERTIES
    ImplementsLedger
