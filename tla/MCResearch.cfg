\* Three days, the second blocked, two of them to be collected by one backfill; a command,
\* and one fault of any kind.  The backtest runs symbol a; b has an earlier bar.
SPECIFICATION Spec
CONSTANTS
    Items <- MCItems
    Parts = {"p1", "p2", "f"}
    PartOf <- MCPartOf
    PartNo <- MCPartNo
    ZeroParts = {"p1"}
    Writers = {"sched", "cli"}
    MaxFaults = 1
    MaxRetries = 3
    MaxPages = 2
    Days = {1, 2, 3}
    Quarters = {1, 2}
    FirstPub = 2
    BlockedDays = {2}
    QuarterEnd <- MCQuarterEnd
    PriceRow <- MCPriceRow
    FundRow <- MCFundRow
    QuarterRow <- MCQuarterRow
    MaxRuns = 1
    Symbols = {"a", "b"}
    Bars <- MCBars
    Price <- MCPrice
    Universe = {"a"}
    InitialCash = 4
    Slip = 1
    Fee = 0
    MaxFollowUps = 2
    MaxSignals = 1
INVARIANTS BacktestSeesAll NoLookAhead
PROPERTIES StoredRowsSurvive FeedCatchesUp
CHECK_DEADLOCK FALSE
