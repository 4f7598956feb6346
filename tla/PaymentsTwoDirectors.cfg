SPECIFICATION Spec
CONSTANTS
    Requests = {d1, d2}
    Directors = {d1, d2}
    Payments = {p1, p2}
    NInvoices = 1
    MaxAmount = 2
CHECK_DEADLOCK FALSE
INVARIANTS
    StatusFollowsPayments
