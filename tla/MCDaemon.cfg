CONSTANTS
    c1 = c1
    c2 = c2
    f1 = f1
    Conns = {c1, c2}
    Fills = {f1}
    QueueMax = 1
    MaxKey = 2
    MaxStarts = 2
    MaxEvents = 3
SPECIFICATION DaemonFairSpec
INVARIANTS GuardSeesRuntime SessionsContained MarkedFillsAreSent
PROPERTY ShutdownEnds
CHECK_DEADLOCK FALSE
