CONSTANTS
    Start <- MCStart
    Owed <- MCOwed
    May <- MCMay
    Payments = {1}
    Withdrawals = {2}
    Fee = 1
    LessThan = 1
    UpTo = 2
    MaxSeq = 4
    MaxWithdrawals = 1
    MaxDeposits = 1
SPECIFICATION FairSpec
INVARIANTS Solvent Known 
 
CHECK_DEADLOCK FALSE
