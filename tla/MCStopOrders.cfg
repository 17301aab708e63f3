CONSTANTS
    x = x
    y = y
    acc = acc
    p = p
    q = q
    Stops = {x, y}
    Accounts = {acc}
    Symbols = {p, q}
    Prices = {0, 1, 3}
    AccountOf <- Account
    SymbolOf <- OneSymbol
    SideOf <- Sides
    StopPrice <- StopAt
    NoStop = NoStop
    MaxDay = 2
SPECIFICATION StopsFairSpec
INVARIANTS NeverTwice ShutdownLeavesNone
PROPERTY EndsWithItsSession
CHECK_DEADLOCK FALSE
