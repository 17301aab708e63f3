-------------------------------- MODULE Amend --------------------------------
(***************************************************************************)
(* What a strategy may do to its orders once they are at the market:       *)
(* OrderCancelEvent and OrderModifyEvent (Bot._publish_actions), their     *)
(* handlers in RuleEngine and APIGateway and cancel_order, modify_order of *)
(* the KIS adapter, on top of the books of Treasury.  A modification       *)
(* changes the price only; nobody changes the reservation for it, so the   *)
(* gateway must refuse what the reservation would not cover.               *)
(*                                                                         *)
(* The loop of a bot awaits one action before it publishes the next, and   *)
(* Bot.stop cancels it wherever it waits.  The record of OrderTracker is   *)
(* read before the rate limiter, the connection and the POST are awaited.  *)
(***************************************************************************)
EXTENDS Treasury

CONSTANTS
    Price,      \* OrderTrackerRecord.order_price of an order when it is a limit order
    Changes     \* [price, qty] a modification may ask for: price 0 is one that is not
                \* a positive number; qty is "same", "other" or "invalid"

ASSUME AmendAssumption ==
    /\ Price \in [Orders -> Nat \ {0}]
    /\ \A o \in Orders \ Sells : Qty[o] * Price[o] <= ReserveOf[o]  \* estimated_cost and commission
    /\ Changes \subseteq [price : Nat, qty : {"same", "other", "invalid"}]

VARIABLES
    limit,      \* the price the broker has for an order; 0 for a market order
    asked       \* the action the loop of a bot is waiting for

desk == <<limit, asked>>
allvars == <<vars, desk>>

Nothing == [pc |-> "none"]

Init ==
    /\ InitBooks
    /\ limit \in [Orders -> {0} \cup Range(Price)]
    /\ \A o \in Orders : limit[o] = 0 \/ (limit[o] = Price[o] /\ o \in mix \ (Virtual \cup Sells))
    /\ asked = [b \in Bots |-> Nothing]

\* The action of b is answered, or goes on.
Asked(b, r) == asked' = [asked EXCEPT ![b] = r]
Goes(b, where) == Asked(b, [asked[b] EXCEPT !.pc = where])
Answered(b) == Asked(b, [pc |-> "done"])

\* The records of OrderTracker: open, partially_filled or terminal.
Tracked(o) == o \notin Virtual /\ ord[o] = "approved"
Open(o) == Tracked(o) /\ Fills(o) = {}

-----------------------------------------------------------------------------
(* Cancellation: no rule is asked, and nobody asks whose order it is. *)

Publish(b, o, r) ==
    /\ up /\ b \in running
    /\ asked[b] = Nothing
    /\ ord[o] = "approved"
    /\ Incident /\ others' = others + 1
    /\ Asked(b, r)
    /\ UNCHANGED <<mix, crossed, memory, fill, up, database, writes, world, crashes, errors, limit>>

AskCancel(b, o) == Publish(b, o, [pc |-> "cancel", order |-> o])

\* cancel_order finds no record, the broker refuses or cannot be reached:
\* OrderCancelFailedEvent.  The broker may have taken a POST that timed out; the
\* poll of the order history will report it then.
CancelFails(b) ==
    /\ asked[b].pc = "cancel"
    /\ Answered(b)
    /\ UNCHANGED <<vars, limit>>

\* The broker cancels what is left of the order, whoever placed it: OrderCancelledEvent
\* of the bot that asked, on which Treasury releases the reservation to that bot and
\* OrderTracker ends the record.
Cancelled(b) ==
    /\ asked[b].pc = "cancel"
    /\ Tracked(asked[b].order)
    /\ OrderEnds(asked[b].order, b)
    /\ Answered(b)
    /\ UNCHANGED limit

-----------------------------------------------------------------------------
(* Modification. *)

AskModify(b, o, c) ==
    Publish(b, o, [pc |-> "rules", order |-> o, to |-> c, consumed |-> FALSE])

\* RuleEngine._on_order_modify, the first handler of the event: an invalid price, a
\* rule or an exception of one refuses it, and _consumed tells the gateway so.
RuleRefuses(b) ==
    /\ asked[b].pc = "rules"
    /\ Asked(b, [asked[b] EXCEPT !.pc = "gateway", !.consumed = TRUE])
    /\ UNCHANGED <<vars, limit>>

RulePasses(b) ==
    /\ asked[b].pc = "rules"
    /\ asked[b].to.price > 0
    /\ Goes(b, "gateway")
    /\ UNCHANGED <<vars, limit>>

\* Mutant: the new price is compared with nothing.
ModifiableAnyPrice(b, o, c) ==
    /\ c.price > 0 /\ c.qty = "same"
    /\ Open(o) /\ BotOf[o] = b /\ limit[o] # 0

\* The conditions of APIGateway._on_order_modify: arguments, the record, its owner,
\* its quantity, its status and type, and the budget of a buy.
Modifiable(b, o, c) ==
    /\ c.price > 0 /\ c.qty = "same"
    /\ Open(o) /\ BotOf[o] = b /\ limit[o] # 0
    /\ o \notin Sells => c.price <= Price[o]

\* The gateway has nothing to add, refuses, or goes on to the broker.
GatewayModify(b) ==
    /\ asked[b].pc = "gateway"
    /\ \/ /\ asked[b].consumed \/ ~Modifiable(b, asked[b].order, asked[b].to)
          /\ Answered(b)
       \/ /\ ~asked[b].consumed /\ Modifiable(b, asked[b].order, asked[b].to)
          /\ Goes(b, "modify")
    /\ UNCHANGED <<vars, limit>>

\* OrderModifyRejectedEvent: no connection, no orgno of the day for the order, an
\* error or False.  A POST that timed out may have been taken.
ModifyFails(b) ==
    /\ asked[b].pc = "modify"
    /\ Answered(b)
    /\ limit' \in {limit, [limit EXCEPT ![asked[b].order] = asked[b].to.price]}
    /\ UNCHANGED vars

\* OrderModifyExecutedEvent: the broker has the new price.  The record keeps its
\* order_price and the reservation its amount.
Modified(b) ==
    /\ asked[b].pc = "modify"
    /\ Answered(b)
    /\ limit' = [limit EXCEPT ![asked[b].order] = asked[b].to.price]
    /\ UNCHANGED vars

\* publish returns to the loop.
GoOn(b) ==
    /\ asked[b].pc = "done"
    /\ Asked(b, Nothing)
    /\ UNCHANGED <<vars, limit>>

-----------------------------------------------------------------------------

\* A fill is not dearer than the price the order was placed at.
MarketFill(o, c) ==
    /\ limit[o] # 0 => c <= Price[o]
    /\ TrackerFill(o, c)
    /\ UNCHANGED desk

\* Bot.stop cancels the task; with the process all of them are gone.
Stop(b) == BotStopped(b) /\ Asked(b, Nothing) /\ UNCHANGED limit
Die == Crash /\ asked' = [b \in Bots |-> Nothing] /\ UNCHANGED limit

Next ==
    \/ Books /\ UNCHANGED desk
    \/ \E o \in Orders, c \in Costs : MarketFill(o, c)
    \/ \E b \in Bots :
          \/ \E o \in Orders : AskCancel(b, o) \/ \E c \in Changes : AskModify(b, o, c)
          \/ CancelFails(b) \/ Cancelled(b)
          \/ RuleRefuses(b) \/ RulePasses(b) \/ GatewayModify(b)
          \/ ModifyFails(b) \/ Modified(b) \/ GoOn(b)
          \/ Stop(b)
    \/ Die

Spec == Init /\ [][Next]_allvars

-----------------------------------------------------------------------------

\* The fills of an order that are not settled yet, or still to come.
Outstanding(o) == Qty[o] - Cardinality(Fills(o) \cap SettledFills)

\* The money set aside is enough for what the market may still take, whatever
\* modifications, partial fills and cancellations overlap: the reservation of a
\* limit order covers the rest of the order at the broker's price, and what the bot
\* has reserved covers its reservations.  (gateway.py:842 compares with order_price,
\* read before the wait for the broker; a failed settlement is the exception, and
\* for the second part a bot that cancelled an order of another one, from whose own
\* reserved amount treasury.py:718 took what that order had left.)
ReservedCoversOrders ==
    up /\ errors = 0 =>
        /\ \A o \in DOMAIN resv : limit[o] # 0 => Outstanding(o) * limit[o] <= resv[o]
        /\ \A b \in DOMAIN budget \ gained : Held(resv, b) <= budget[b].reserved
=============================================================================
