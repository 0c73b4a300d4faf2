SPECIFICATION LiveSpec
CONSTANTS
    Modes = {"blocks", "accounts"}
    MaxBlocks = 2
    MaxPerBlock = 2
    MaxCrash = 1
    MaxLosses = 1
INVARIANTS TypeOK NoGap
PROPERTIES  CaughtUp
CHECK_DEADLOCK FALSE
