CONSTANTS
    b = b
    Orders = {b}
    Ordered <- TwoShares
    Buys = {b}
    EndStatuses = {"cancelled"}
    StreamOn = TRUE
    MaxCrashes = 2
    MaxErrors = 2
SPECIFICATION FairSpec
INVARIANTS SettledAtMostOnce PositionCacheRepaired
PROPERTIES ImplementsLedger OpenFillsRecorded EventsPublished
