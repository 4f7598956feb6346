SPECIFICATION Spec
CONSTANTS
    Accountants = {a1}
    Directors = {d1}
    Expenses = {e1, e2}
    Threshold = 1
    MaxAmount = 2
    MaxReceipts = 1
    Opening = 1
INVARIANT
    CarriedOver
