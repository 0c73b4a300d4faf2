SPECIFICATION Spec
CONSTANTS
    Conds = {"c1"}
    Payer <- PayerC
    Forwarded = {}
    Tasks <- CrossTasks
    Fees = {1}
    CrossingLate = FALSE
    MaxSeqno = 3
    MaxCrash = 0
    Free = Free
INVARIANTS RolledBack IInv
CHECK_DEADLOCK FALSE
