SPECIFICATION Spec
CONSTANTS
    bot = bot
    rival = rival
    x = x
    u = u
    y = y
    v = v
    Bots = {bot, rival}
    Orders = {x, u, y, v}
    BotOf <- Owner
    Sells = {y}
    Virtual = {v}
    Mixes = {{x}, {u, y}, {u}, {v}}
    Crew <- Crews
    Qty <- Qtys
    ReserveOf <- Reserves
    Price <- Limits
    Changes <- SomeChanges
    Costs = {1, 3}
    Amounts = {5}
    Balances <- Cash
    Opening = {6}
    MaxQueue = 2
    MaxFaults = 1
    MaxIncidents = 2
INVARIANTS BooksBalance EndedOrdersHoldNothing SpentMatchesSettlements ReservedCoversOrders
