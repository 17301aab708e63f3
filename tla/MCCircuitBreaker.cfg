CONSTANTS
    order = order
    balance = balance
    ccld = ccld
    Calls = {order, balance, ccld}
    ExemptCalls = {ccld}
    Threshold = 2
    RecoveryTimeout = 2
    MaxRetries = 1
SPECIFICATION BreakerFairSpec
INVARIANTS CascadeBounded
PROPERTY OpenIsTemporary
