SPECIFICATION FairSpec
CONSTANTS
    MaxQuery = 2
    QueueSize = 1
    MaxPeer = 3
    MaxStream = 3
    MaxCalls = 2
    MaxFaults = 1
INVARIANTS Registered Forgotten Agree
PROPERTY StayLinked
CHECK_DEADLOCK FALSE
