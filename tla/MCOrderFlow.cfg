SPECIFICATION FairSpec
CONSTANTS
    x = x
    y = y
    b = b
    Orders = {x, y}
    Bots = {b}
    BotOf <- OneBot
    Kinds <- SomeKinds
    MaxRetries = 1
INVARIANTS OneOutcome NoStrandedReservation
PROPERTIES KillSwitch EveryRequestAnswered
CHECK_DEADLOCK FALSE
