CONSTANTS
    b1 = b1
    s1 = s1
    Orders = {b1, s1}
    Side <- MCSide
    Qty <- MCQty
    External = {2}
    Base = {1}
    CatchUpMax = 2
    MaxDay = 2
    MaxTroubles = 1
SPECIFICATION FairSpec
INVARIANTS OwnFillsLeftAlone OverAttributionSurfaces
PROPERTY Converges
CHECK_DEADLOCK FALSE
