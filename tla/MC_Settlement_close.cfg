SPECIFICATION LiveSpec
CONSTANTS
    Conditionals = 4
    Known = {1, 2, 4, 5}
    Derivatives = {}
    PerMessage = 2
    Actions = 2
    Newest = 2
    Pending = TRUE
    Quarantine = 2
    CondTime = 2
    ActTime = 2
    MaxSettles = 1
    MaxTime = 7
INVARIANTS NewestCounts 
PROPERTY Closes
CHECK_DEADLOCK FALSE
