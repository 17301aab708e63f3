SPECIFICATION Spec
CONSTANTS
    x = x
    y = y
    b = b
    Orders = {x, y}
    Bots = {b}
    BotOf <- OneBot
    Kinds <- SomeKinds
    MaxRetries = 1
INVARIANT AcceptedIsTracked
CHECK_DEADLOCK FALSE
