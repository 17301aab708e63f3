SPECIFICATION FairSpec
CONSTANTS
    Tasks = {"t1", "t2"}
    MaxOps = 3
    MaxFaults = 1
    RuleTypes = {"trading_hours", "position_size"}
    Limits = {1, 2}
    AccountSeq <- MCAccounts
    Mixes <- MCMixes
    Seed <- MCSeed
    Defaults <- MCDefaults
INVARIANTS HaltHolds RevokedStaysOut ApprovedIsExecuted LimitsBind
PROPERTY ExpiryHappens
CHECK_DEADLOCK FALSE
