SPECIFICATION Spec
CONSTANTS
    Conds = {"c1"}
    Payer <- PayerC
    Forwarded = {}
    Tasks <- SettleTasks
    Fees = {1}
    CrossingLate = FALSE
    MaxSeqno = 4
    MaxCrash = 1
    Free = Free
INVARIANTS TypeOK Agreement Recoverable SettledOnce
PROPERTIES Atomicity
CHECK_DEADLOCK FALSE
