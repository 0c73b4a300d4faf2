SPECIFICATION LiveSpec
CONSTANTS
    N = 2
    Deadline <- TwoHops
    SafePeriod = 1
    MinSafe = 1
    Transfers = {TRUE, FALSE}
    Closing = {2}
    Reliable = TRUE
    MaxTime = 8
INVARIANTS CanClaim
PROPERTIES LockedForwardPaidBackward Released
CHECK_DEADLOCK FALSE
