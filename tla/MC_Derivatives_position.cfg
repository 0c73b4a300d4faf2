SPECIFICATION FairSpec
CONSTANTS
    Long = TRUE
    Entry = 4
    Amount = 3
    Leverage = 2
    Fee = 1
    Prices = {3, 7}
    Since = {"A"}
    Keep = 2
    Window = 1
    May <- MCMay
    Hedging = TRUE
    MaxTime = 3
    MaxLost = 1
INVARIANTS PairWhole PaidAsPriced Tracked HedgeFollows
PROPERTIES CancelledUnopened Settles
CHECK_DEADLOCK FALSE
