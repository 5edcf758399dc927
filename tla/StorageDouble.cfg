\* The mark against what was stored: a pass that started in the past.
CONSTANTS
    Account = {a1, a2}
    Sizes = {1, 2}
    FreeBytes = 1
    Den = 2
    BillEvery = 1
    PassLag = 1
    Enforce = TRUE
    MaxBytes = 3
    MaxTime = 4
    MaxGrant = 1
SPECIFICATION Spec
INVARIANT
    PaidUpToMark
