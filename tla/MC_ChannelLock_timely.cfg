SPECIFICATION LockLiveSpec
CONSTANTS
    Channels <- TwoChannels
    None = None
    Timely = TRUE
    MaxAttempts = 2
INVARIANTS Exclusion UnlockedOnce
PROPERTY GivenBack
CHECK_DEADLOCK FALSE
