------------------------------ MODULE OrderFlow ------------------------------
(***************************************************************************)
(* The path of an order from OrderRequestEvent to the broker: RuleEngine   *)
(* (rule/engine.py), Treasury._on_order_validated (treasury/treasury.py),  *)
(* VirtualExecutor (bot/providers/virtual.py) and APIGateway.submit_order  *)
(* (gateway/gateway.py), with the kill switch (account/service.py), the    *)
(* readiness registry (account/gate.py, account/readiness.py) and the bot  *)
(* whose task carries the order (bot/bot.py, bot/manager.py).              *)
(*                                                                         *)
(* EventBus.publish runs the handlers in the task of the publisher, so one *)
(* task carries an order all the way; a step below is what it does between *)
(* two awaits.  Orders a bot publishes from its own loop ("loop") die with *)
(* that task when the bot is stopped; converted stops, external signals    *)
(* and liquidations ("other") run in tasks of others.                      *)
(*                                                                         *)
(* One account is modelled; each handler drops the events of the others.   *)
(* AccountService.get answers from memory for an account of a running      *)
(* server, so the branches for a failed fetch are not taken.  Amounts and  *)
(* database errors are Treasury's matter, the fate of an order after       *)
(* OrderSubmittedEvent is FillPipeline's, that of a stop StopOrders'.      *)
(***************************************************************************)
EXTENDS Naturals

CONSTANTS
    Orders, Bots,
    BotOf,        \* the bot of an order
    Kinds,        \* [side, type, origin] an order may have
    MaxRetries    \* retry.max_retries_order

ASSUME FlowAssumption ==
    /\ BotOf \in [Orders -> Bots]
    /\ Kinds \subseteq [side : {"buy", "sell"}, type : {"market", "limit", "stop"},
                        origin : {"loop", "other"}]
    /\ MaxRetries \in Nat

VARIABLES
    mode,       \* Account.trading_mode, fixed while the server runs
    status,     \* Account.status
    ready,      \* RuntimeReadinessRegistry: the flags that are ready
    bot,        \* Bot.status, and how far delete_bot is
    kind,       \* of a requested order
    pc,         \* where the task of an order is
    held,       \* Treasury._reservations
    tries,      \* POSTs sent for an order
    placed,     \* orders the broker has accepted for it
    terminals,  \* OrderRejected, OrderFailed and OrderFilled events published for it
    filled      \* orders VirtualExecutor has filled

account == <<mode, status, ready>>
vars == <<account, bot, kind, pc, held, tries, placed, terminals, filled>>

-----------------------------------------------------------------------------

\* The flags of the registry; "broker" stands for the three that need one.
Flags == {"treasury_sync", "broker"}

AnyKind == [side : {"buy", "sell"}, type : {"market", "limit", "stop"},
            origin : {"loop", "other"}]

Init ==
    /\ mode \in {"live", "virtual"}
    /\ status = "active"
    /\ ready = Flags
    /\ bot = [b \in Bots |-> "running"]
    /\ kind \in [Orders -> Kinds]
    /\ pc = [o \in Orders |-> "new"]
    /\ held = {} /\ filled = {}
    /\ tries = [o \in Orders |-> 0]
    /\ placed = [o \in Orders |-> 0]
    /\ terminals = [o \in Orders |-> 0]

\* is_flag_exempt: a virtual account needs no broker.
Exempt(f) == f = "broker" /\ mode = "virtual"

\* active_trading_blocked, over active_trading_ready.
NotReady == \E f \in Flags : ~Exempt(f) /\ f \notin ready

\* The task of the order is under way.
Carried == {"requested", "screened", "validated", "quoting", "reserving", "approved", "pricing",
            "routing", "queueing", "placing", "sent", "taken"}

\* The task goes on to q.
Goto(o, q) == pc' = [pc EXCEPT ![o] = q]

\* A terminal event has been published and nothing is left to do.
Ended(o) == Goto(o, "ended") /\ terminals' = [terminals EXCEPT ![o] = @ + 1]

-----------------------------------------------------------------------------
(* Bot and RuleEngine. *)

\* OrderRequestEvent.  The loop waits for publish before it publishes again.
Request(o) ==
    /\ pc[o] = "new"
    /\ kind[o].origin = "loop" =>
          /\ bot[BotOf[o]] = "running"
          /\ \A n \in Orders :
                BotOf[n] = BotOf[o] /\ kind[n].origin = "loop" => pc[n] \notin Carried
    /\ Goto(o, "requested")
    /\ UNCHANGED <<account, bot, kind, held, tries, placed, terminals, filled>>

\* Layer 1: kill switch and readiness, before anything is awaited.
Screen(o) ==
    /\ pc[o] = "requested"
    /\ IF status = "suspended" \/ NotReady
       THEN Ended(o)
       ELSE Goto(o, "screened") /\ UNCHANGED terminals
    /\ UNCHANGED <<account, bot, kind, held, tries, placed, filled>>

\* A side, type, symbol, price, stop price or quantity outside the contract of the
\* event.
Malformed(o) == Ended(o)

\* _check_unrecovered_buy_guard: an earlier buy of the bot is at the market and old
\* enough that a poll should have found its fills, and the bot holds nothing.
BuyGuard(o) ==
    /\ kind[o].side = "buy"
    /\ \E n \in Orders : BotOf[n] = BotOf[o] /\ kind[n].side = "buy" /\ pc[n] = "submitted"
    /\ Ended(o)

\* A rule blocks or rejects; _execute_actions notifies and may ask for the bot to be
\* stopped.
RulesRefuse(o) == Ended(o)

\* The contract, the guard and the rules; an exception rejects the order too.
Evaluate(o) ==
    /\ pc[o] = "screened"
    /\ \/ Malformed(o) \/ BuyGuard(o) \/ RulesRefuse(o)
       \/ Goto(o, "validated") /\ UNCHANGED terminals
    /\ UNCHANGED <<account, bot, kind, held, tries, placed, filled>>

-----------------------------------------------------------------------------
(* Treasury._on_order_validated. *)

\* reserve_for_order: memory changes, then the save is awaited.
Reserve(o) ==
    \/ Ended(o) /\ UNCHANGED held
    \/ /\ bot[BotOf[o]] # "deleted"
       /\ held' = held \cup {o}
       /\ Goto(o, "reserving")
       /\ UNCHANGED terminals

\* Layer 2, then what the kind of the order needs.
Fund(o) ==
    /\ pc[o] = "validated"
    /\ \/ NotReady /\ Ended(o) /\ UNCHANGED held
       \/ /\ ~NotReady
          /\ kind[o].side = "sell" \/ kind[o].type = "stop"
          /\ Goto(o, "approved") /\ UNCHANGED <<held, terminals>>
       \/ /\ ~NotReady
          /\ kind[o].side = "buy" /\ kind[o].type = "market"
          /\ Goto(o, "quoting") /\ UNCHANGED <<held, terminals>>
       \/ /\ ~NotReady
          /\ kind[o].side = "buy" /\ kind[o].type = "limit"
          /\ Reserve(o)
    /\ UNCHANGED <<account, bot, kind, tries, placed, filled>>

\* The quote a market buy is reserved by; without one the order is rejected.
Quote(o) ==
    /\ pc[o] = "quoting"
    /\ Reserve(o)
    /\ UNCHANGED <<account, bot, kind, tries, placed, filled>>

\* The reservation is saved: OrderApprovedEvent.
Saved(o) ==
    /\ pc[o] = "reserving"
    /\ Goto(o, "approved")
    /\ UNCHANGED <<account, bot, kind, held, tries, placed, terminals, filled>>

-----------------------------------------------------------------------------
(* VirtualExecutor._on_order_approved, the first handler of OrderApprovedEvent. *)

\* _portfolios: registered with the bot's context, until delete_bot.
Portfolio(o) == mode = "virtual" /\ bot[BotOf[o]] \notin {"unregistered", "deleted"}

\* OrderFilledEvent or OrderFailedEvent; Treasury settles or releases, and the
\* gateway's handler is next.
VirtualEnd(o) ==
    /\ Goto(o, "routing")
    /\ terminals' = [terminals EXCEPT ![o] = @ + 1]
    /\ held' = held \ {o}

Execute(o) ==
    /\ pc[o] = "approved"
    /\ \/ /\ kind[o].type = "stop" \/ ~Portfolio(o)
          /\ Goto(o, "routing")
          /\ UNCHANGED <<held, terminals, filled>>
       \/ /\ kind[o].type # "stop" /\ Portfolio(o)
          /\ status = "suspended" \/ NotReady
          /\ VirtualEnd(o)
          /\ UNCHANGED filled
       \/ /\ kind[o].type = "limit" /\ Portfolio(o)
          /\ status # "suspended" /\ ~NotReady
          /\ VirtualEnd(o)
          /\ filled' = filled \cup {o}
       \/ /\ kind[o].type = "market" /\ Portfolio(o)
          /\ status # "suspended" /\ ~NotReady
          /\ Goto(o, "pricing")
          /\ UNCHANGED <<held, terminals, filled>>
    /\ UNCHANGED <<account, bot, kind, tries, placed>>

\* The price of a market order; without one it fails.
Price(o) ==
    /\ pc[o] = "pricing"
    /\ VirtualEnd(o)
    /\ filled' \in {filled, filled \cup {o}}
    /\ UNCHANGED <<account, bot, kind, tries, placed>>

-----------------------------------------------------------------------------
(* APIGateway._on_order_approved and submit_order. *)

\* OrderFailedEvent; Treasury releases the reservation.
Failed(o) == Ended(o) /\ held' = held \ {o}

\* Mutant: a virtual order is sent on to the broker path.
RouteToBroker(o) ==
    /\ pc[o] = "routing"
    /\ Goto(o, "queueing")
    /\ UNCHANGED <<account, bot, kind, held, tries, placed, terminals, filled>>

\* Stops go to StopOrderManager, which may refuse; a virtual order is left to
\* VirtualExecutor; the rest queues for the rate limiter.
Route(o) ==
    /\ pc[o] = "routing"
    /\ \/ kind[o].type = "stop" /\ Goto(o, "registered") /\ UNCHANGED <<held, terminals>>
       \/ kind[o].type = "stop" /\ Failed(o)
       \/ /\ kind[o].type # "stop" /\ mode = "virtual"
          /\ Goto(o, IF terminals[o] = 0 THEN "dropped" ELSE "ended")
          /\ UNCHANGED <<held, terminals>>
       \/ /\ kind[o].type # "stop" /\ mode = "live"
          /\ Goto(o, "queueing") /\ UNCHANGED <<held, terminals>>
    /\ UNCHANGED <<account, bot, kind, tries, placed, filled>>

\* Mutant: the gate raises where nobody turns the error into OrderFailedEvent.
GateSwallowed(o) ==
    /\ pc[o] = "queueing"
    /\ IF status = "suspended" \/ NotReady \/ mode # "live"
       THEN Goto(o, "ended") /\ UNCHANGED <<held, terminals>>
       ELSE Goto(o, "placing") /\ UNCHANGED <<held, terminals>>
    /\ UNCHANGED <<account, bot, kind, tries, placed, filled>>

\* Mutant: what the gate saw before it queued is good enough.
GateBeforeQueue(o) ==
    /\ pc[o] = "queueing"
    /\ Goto(o, "placing")
    /\ UNCHANGED <<account, bot, kind, held, tries, placed, terminals, filled>>

\* Layer 3, when rate limiter and broker were awaited; get_broker may raise.
Gate(o) ==
    /\ pc[o] = "queueing"
    /\ \/ Failed(o)
       \/ /\ status # "suspended" /\ ~NotReady /\ mode = "live"
          /\ Goto(o, "placing") /\ UNCHANGED <<held, terminals>>
    /\ UNCHANGED <<account, bot, kind, tries, placed, filled>>

\* place_order: breaker, token and the adapter's own rate limit, or an error of
\* theirs; then the POST, which the broker takes or not.
Send(o) ==
    /\ pc[o] = "placing"
    /\ \/ tries[o] = 0 /\ Failed(o) /\ UNCHANGED <<tries, placed>>
       \/ /\ Goto(o, "sent")
          /\ tries' = [tries EXCEPT ![o] = @ + 1]
          /\ UNCHANGED <<placed, held, terminals>>
       \/ /\ Goto(o, "taken")
          /\ tries' = [tries EXCEPT ![o] = @ + 1]
          /\ placed' = [placed EXCEPT ![o] = @ + 1]
          /\ UNCHANGED <<held, terminals>>
    /\ UNCHANGED <<account, bot, kind, filled>>

\* The broker's answer: an order number and OrderSubmittedEvent, or a refusal.
Answer(o) ==
    /\ \/ pc[o] = "taken" /\ Goto(o, "submitted") /\ UNCHANGED <<held, terminals>>
       \/ pc[o] = "sent" /\ Failed(o)
    /\ UNCHANGED <<account, bot, kind, tries, placed, filled>>

\* Mutant: the attempts are counted from zero again.
TimesOutForever(o) ==
    /\ pc[o] \in {"sent", "taken"}
    /\ Goto(o, "placing")
    /\ tries' = [tries EXCEPT ![o] = 0]
    /\ UNCHANGED <<account, bot, kind, held, placed, terminals, filled>>

\* No answer in time, or an error that is worth a retry.
TimesOut(o) ==
    /\ pc[o] \in {"sent", "taken"}
    /\ \/ tries[o] <= MaxRetries /\ Goto(o, "placing") /\ UNCHANGED <<held, terminals>>
       \/ tries[o] > MaxRetries /\ Failed(o)
    /\ UNCHANGED <<account, bot, kind, tries, placed, filled>>

-----------------------------------------------------------------------------
(* Bot.stop, BotManager.delete_bot. *)

\* The task of the loop is cancelled wherever it waits: no handler on the path
\* catches CancelledError.
StopBot(b) ==
    /\ bot[b] = "running"
    /\ bot' = [bot EXCEPT ![b] = "stopping"]
    /\ pc' = [o \in Orders |-> IF BotOf[o] = b /\ kind[o].origin = "loop" /\ pc[o] \in Carried
                               THEN "cut" ELSE pc[o]]
    /\ UNCHANGED <<account, kind, held, tries, placed, terminals, filled>>

\* BotStoppedEvent: Treasury releases every reservation of the bot.
BotStopped(b) ==
    /\ bot[b] = "stopping"
    /\ bot' = [bot EXCEPT ![b] = "stopped"]
    /\ held' = {o \in held : BotOf[o] # b}
    /\ UNCHANGED <<account, kind, pc, tries, placed, terminals, filled>>

StartBot(b) ==
    /\ bot[b] = "stopped"
    /\ bot' = [bot EXCEPT ![b] = "running"]
    /\ UNCHANGED <<account, kind, pc, held, tries, placed, terminals, filled>>

\* delete_bot takes the portfolio away,
DeleteBot(b) ==
    /\ bot[b] = "stopped"
    /\ bot' = [bot EXCEPT ![b] = "unregistered"]
    /\ UNCHANGED <<account, kind, pc, held, tries, placed, terminals, filled>>

\* and then the budget with its reservations (release_budget).
ReleaseBudget(b) ==
    /\ bot[b] = "unregistered"
    /\ bot' = [bot EXCEPT ![b] = "deleted"]
    /\ held' = {o \in held : BotOf[o] # b}
    /\ UNCHANGED <<account, kind, pc, tries, placed, terminals, filled>>

-----------------------------------------------------------------------------
(* AccountService and the readiness registry. *)

\* The status changes in memory first; the bots of the account are stopped next.
Suspend ==
    /\ status = "active"
    /\ status' = "suspended"
    /\ UNCHANGED <<mode, ready, bot, kind, pc, held, tries, placed, terminals, filled>>

Activate ==
    /\ status = "suspended"
    /\ status' = "active"
    /\ UNCHANGED <<mode, ready, bot, kind, pc, held, tries, placed, terminals, filled>>

MarkNotReady(f) ==
    /\ f \in ready
    /\ ready' = ready \ {f}
    /\ UNCHANGED <<mode, status, bot, kind, pc, held, tries, placed, terminals, filled>>

MarkReady(f) ==
    /\ f \notin ready
    /\ ready' = ready \cup {f}
    /\ UNCHANGED <<mode, status, bot, kind, pc, held, tries, placed, terminals, filled>>

-----------------------------------------------------------------------------

\* The task of an order takes its next step.
Step(o) ==
    \/ Screen(o) \/ Evaluate(o)
    \/ Fund(o) \/ Quote(o) \/ Saved(o)
    \/ Execute(o) \/ Price(o)
    \/ Route(o) \/ Gate(o) \/ Send(o) \/ Answer(o) \/ TimesOut(o)

Next ==
    \/ \E o \in Orders : Request(o) \/ Step(o)
    \/ \E b \in Bots :
          \/ StopBot(b) \/ BotStopped(b) \/ StartBot(b)
          \/ DeleteBot(b) \/ ReleaseBudget(b)
    \/ Suspend \/ Activate
    \/ \E f \in Flags : MarkNotReady(f) \/ MarkReady(f)

Spec == Init /\ [][Next]_vars

\* Every await of a task ends: with an answer, an error or a timeout.
Fairness == \A o \in Orders : WF_vars(Step(o))

FairSpec == Spec /\ Fairness

-----------------------------------------------------------------------------

Places == Carried \cup {"new", "ended", "submitted", "registered", "cut", "dropped"}

TypeOK ==
    /\ mode \in {"live", "virtual"} /\ status \in {"active", "suspended"} /\ ready \subseteq Flags
    /\ bot \in [Bots -> {"running", "stopping", "stopped", "unregistered", "deleted"}]
    /\ kind \in [Orders -> AnyKind]
    /\ pc \in [Orders -> Places]
    /\ held \subseteq Orders /\ filled \subseteq Orders
    /\ tries \in [Orders -> 0..(MaxRetries + 1)]
    /\ placed \in [Orders -> 0..(MaxRetries + 1)]
    /\ terminals \in [Orders -> Nat]

\* An order ends once: VirtualExecutor and APIGateway receive the same
\* OrderApprovedEvent, and only one of them publishes its outcome (gateway.py:508);
\* nor is an order that was submitted or registered also reported as over.
OneOutcome ==
    \A o \in Orders : /\ terminals[o] <= 1
                      /\ pc[o] \in {"submitted", "registered", "dropped"} => terminals[o] = 0

\* No reservation outlives its order, whichever gate, error or stop ends it: it
\* is released unless the order is under way, was submitted, or its bot is being
\* stopped or deleted (11-order-flow.md:76, _on_order_failed, _on_bot_stopped).
NoStrandedReservation ==
    \A o \in held : \/ pc[o] \in Carried \cup {"submitted"}
                    \/ bot[BotOf[o]] \in {"stopping", "unregistered"}

\* The orders the market has or may still get: past the last look at the account.  A virtual
\* market order that waits for its price is (virtual.py:427, no second look after it).
Reaching ==
    {o \in Orders : pc[o] \in {"pricing", "placing", "sent", "taken", "submitted"}} \cup filled

\* While the account is suspended or not ready, whatever it does in between,
\* no order joins those that reach the market: the layers check again after
\* every wait but place_order's own and, of a virtual market order, the one for
\* the price (gateway.py:91, virtual.py:217).
KillSwitch ==
    [][/\ status = "suspended" \/ NotReady
       /\ (status = "suspended" \/ NotReady)'
       => Reaching' \subseteq Reaching]_vars

\* Every request is answered unless its bot is stopped or deleted: the path has
\* no wait without an end, retries included.
EveryRequestAnswered ==
    \A o \in Orders :
        pc[o] = "requested" ~> pc[o] \in {"ended", "submitted", "registered", "cut", "dropped"}

-----------------------------------------------------------------------------
(* What the repository says and the code does not do. *)

\* 11-order-flow.md:14: what the broker accepts comes back as OrderSubmittedEvent
\* and is tracked, so that its fills are found.
AcceptedIsTracked ==
    \A o \in Orders : placed[o] > 0 => pc[o] \in {"placing", "sent", "taken", "submitted"}
=============================================================================
