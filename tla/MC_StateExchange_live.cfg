SPECIFICATION LiveSpec
CONSTANTS
    Conds = {"c1"}
    Payer <- PayerC
    Forwarded = {}
    Tasks <- IncTasks
    Fees = {1}
    CrossingLate = FALSE
    MaxSeqno = 3
    MaxCrash = 1
    Free = Free
PROPERTIES Resync Served
CHECK_DEADLOCK FALSE
