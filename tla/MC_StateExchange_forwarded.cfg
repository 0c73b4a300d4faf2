SPECIFICATION Spec
CONSTANTS
    Conds = {"c1"}
    Payer <- PayerC
    Forwarded = {"c1"}
    Tasks <- ForwardTasks
    Fees = {1}
    CrossingLate = FALSE
    MaxSeqno = 4
    MaxCrash = 0
    Free = Free
INVARIANTS Agreement
CHECK_DEADLOCK FALSE
