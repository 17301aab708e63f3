CONSTANTS
    NBots = 1
    s1 = s1
    s2 = s2
    Strategies = {s1, s2}
    First = s1
    MaxObjs = 2
    MaxOps = 3
    MaxFails = 2
    MaxRestart = 1
    Funds = 1
SPECIFICATION BotFairSpec
INVARIANTS SavedConfig BudgetConserved
PROPERTY StoppedGoesQuiet
CHECK_DEADLOCK FALSE
