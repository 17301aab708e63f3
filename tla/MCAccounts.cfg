CONSTANTS
    a1 = a1
    a2 = a2
    v1 = v1
    AccountIds = {a1, a2, v1}
    Virtual = {v1}
    MaxRetries = 1
    MaxBurst = 2
    MaxCalls = 3
    MaxFaults = 3
SPECIFICATION FairSpec
INVARIANTS OneTokenAtATime NoSessionPastDb
PROPERTY EventuallyReady
CHECK_DEADLOCK FALSE
