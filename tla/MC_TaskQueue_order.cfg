SPECIFICATION LiveSpec
CONSTANTS
    Tasks <- TasksC
    Queue <- QueueC
    After <- AfterC
    Till <- TillC
    Unset = Unset
    LockTime = 3
    Delays = {1, 2}
    MaxTime = 7
    MaxRestart = 1
INVARIANTS QueueExclusive 
PROPERTIES InOrder Served
CHECK_DEADLOCK FALSE
