----------------------------- MODULE StopOrders -----------------------------
(***************************************************************************)
(* StopOrderManager (gateway/stop_order.py) with the tasks that call it:   *)
(* the price stream of each account and the REST poll that stands in for   *)
(* it (broker/kis_stream.py, gateway/stream_integration.py), the sweep     *)
(* that expires stops when their session is over, and the shutdown         *)
(* (main.py).                                                              *)
(*                                                                         *)
(* A stop ends by triggering (StopOrderTriggeredEvent, then the converted  *)
(* OrderRequestEvent, whose publication returns only when the whole order  *)
(* path has run) or by expiring (StopOrderExpiredEvent, published by a     *)
(* task of its own behind asyncio.shield).  on_price_update, the sweep and *)
(* stop() each walk over a list they took before their first await; the    *)
(* order of the walk is left open here.                                    *)
(*                                                                         *)
(* The clock knows the day and whether the regular session is on, the only *)
(* session APIGateway registers for.  On a day without trading the stream  *)
(* is silent, but the REST quote still answers.                            *)
(*                                                                         *)
(* Left out: cancel, which nothing calls, and the shutdown's time limit.   *)
(***************************************************************************)
EXTENDS Naturals

CONSTANTS
    Stops, Accounts, Symbols, Prices,
    AccountOf, SymbolOf,   \* of a stop
    SideOf,                \* "buy" or "sell"
    StopPrice,             \* stop_price
    NoStop,                \* no stop
    MaxDay                 \* bound: days in a behaviour

ASSUME StopsAssumption ==
    /\ AccountOf \in [Stops -> Accounts]
    /\ SymbolOf \in [Stops -> Symbols]
    /\ SideOf \in [Stops -> {"buy", "sell"}]
    /\ Prices \subseteq Nat
    /\ StopPrice \in [Stops -> Nat]
    /\ NoStop \notin Stops
    /\ MaxDay \in Nat

VARIABLES
    (* StopOrderManager *)
    book,        \* _orders
    triggered,   \* StopOrder.triggered
    expired,     \* StopOrder.expired
    entered,     \* StopOrder.entered_session
    marked,      \* _session_tick_marked: the days of its keys
    inner,       \* _inflight_expires: the _do_expire_order tasks
    (* the tasks that call it *)
    tick,        \* by account: the on_price_update of its stream or of its poll
    loop,        \* check_session_expiry, later stop()
    link,        \* by account: "up" (stream) or "down" (REST poll)
    life,        \* how far _shutdown is
    (* the events *)
    refused,     \* registrations that ended in OrderFailedEvent
    requests,    \* OrderRequestEvents published for a stop
    done,        \* stops whose OrderRequestEvent ran through the order path
    notices,     \* StopOrderExpiredEvents delivered for a stop
    reason,      \* their reason
    (* the clock *)
    day, session, trading,
    exposed      \* history: stops that were registered while the exchange traded

manager == <<book, triggered, expired, entered, marked, inner>>
events == <<refused, requests, done, notices, reason>>
clock == <<day, session, trading, exposed>>
stopsVars == <<manager, tick, loop, link, life, events, clock>>

-----------------------------------------------------------------------------

NoTick == [pc |-> "idle", stop |-> NoStop, todo |-> {}]
NoLoop == [stop |-> NoStop, todo |-> {}]

StopsInit ==
    /\ book = {} /\ triggered = {} /\ expired = {} /\ entered = {}
    /\ marked = {}
    /\ inner = [s \in Stops |-> "none"]
    /\ tick = [a \in Accounts |-> NoTick]
    /\ loop = NoLoop
    /\ link = [a \in Accounts |-> "up"]
    /\ life = "run"
    /\ refused = {} /\ done = {}
    /\ requests = [s \in Stops |-> 0]
    /\ notices = [s \in Stops |-> 0]
    /\ reason = [s \in Stops |-> "none"]
    /\ day = 1
    /\ session = "before"
    /\ trading \in BOOLEAN
    /\ exposed = {}

\* _running: set by start, cleared by stop.
Running == life \in {"run", "closing"}

InSession == session = "open"

\* Mutant: a stop that triggered stays in the list.
ActiveUnlessExpired == book \ expired

\* active_orders.
Active == book \ (triggered \cup expired)

\* _should_trigger.
ShouldTrigger(s, price) ==
    IF SideOf[s] = "buy" THEN price >= StopPrice[s] ELSE price <= StopPrice[s]

-----------------------------------------------------------------------------
(* register, called by APIGateway._on_order_approved. *)

\* Mutant: a stop registered late in the session waits for the next tick.
MarkOnRegisterNever(s) == entered

\* A stop registered in a session that has seen a tick belongs to it.
MarkOnRegister(s) == IF InSession /\ day \in marked THEN entered \cup {s} ELSE entered

\* register; a manager that has stopped raises, and the gateway fails the order.
Register(s) ==
    /\ life # "down"
    /\ s \notin book \cup refused
    /\ IF Running
       THEN /\ book' = book \cup {s}
            /\ entered' = MarkOnRegister(s)
            /\ exposed' = IF InSession /\ trading THEN exposed \cup {s} ELSE exposed
            /\ UNCHANGED refused
       ELSE /\ refused' = refused \cup {s}
            /\ UNCHANGED <<book, entered, exposed>>
    /\ UNCHANGED <<triggered, expired, marked, inner, tick, loop, link, life, requests, done,
                   notices, reason, day, session, trading>>

-----------------------------------------------------------------------------
(* on_price_update. *)

\* The stops of the account that the price triggers; the list is taken once.
Hit(a, sym, price) ==
    {s \in Active : /\ AccountOf[s] = a /\ SymbolOf[s] = sym
                    /\ InSession /\ ShouldTrigger(s, price)}

\* _trigger_order up to its first await, for one of the stops on the list.
BeginTrigger(a, todo) ==
    \/ /\ todo = {}
       /\ tick' = [tick EXCEPT ![a] = NoTick]
       /\ UNCHANGED triggered
    \/ \E s \in todo :
          /\ triggered' = triggered \cup {s}
          /\ tick' = [tick EXCEPT ![a] = [pc |-> "notifying", stop |-> s, todo |-> todo \ {s}]]

\* Every active stop joins the session the exchange ticks in, whatever the symbol
\* and the account of the tick; so does the day.
MarkSession ==
    IF InSession
    THEN entered' = entered \cup Active /\ marked' = marked \cup {day}
    ELSE UNCHANGED <<entered, marked>>

\* A tick of the stream: StreamIntegration._on_price.
StreamTick(a, sym, price) ==
    /\ Running
    /\ link[a] = "up" /\ trading
    /\ tick[a] = NoTick
    /\ MarkSession
    /\ BeginTrigger(a, Hit(a, sym, price))
    /\ UNCHANGED <<book, expired, inner, loop, link, life, events, clock>>

\* A quote of _fallback_poll_loop: it triggers, but it does not mark the session.
PollTick(a, sym, price) ==
    /\ Running
    /\ link[a] = "down"
    /\ tick[a] = NoTick
    /\ BeginTrigger(a, Hit(a, sym, price))
    /\ UNCHANGED <<book, expired, entered, marked, inner, loop, link, life, events, clock>>

\* StopOrderTriggeredEvent has been delivered: the converted order is requested.
Notified(a) ==
    /\ tick[a].pc = "notifying"
    /\ tick' = [tick EXCEPT ![a].pc = "ordering"]
    /\ requests' = [requests EXCEPT ![tick[a].stop] = @ + 1]
    /\ UNCHANGED <<manager, loop, link, life, refused, done, notices, reason, clock>>

\* The order path has returned; on to the next stop of the list.
Ordered(a) ==
    /\ tick[a].pc = "ordering"
    /\ done' = done \cup {tick[a].stop}
    /\ BeginTrigger(a, tick[a].todo)
    /\ UNCHANGED <<book, expired, entered, marked, inner, loop, link, life, refused, requests,
                   notices, reason, clock>>

\* The receive loop of the stream raises: StreamDisconnectedEvent, _start_fallback.
LinkLost(a) ==
    /\ life # "down"
    /\ link[a] = "up"
    /\ tick[a] = NoTick
    /\ link' = [link EXCEPT ![a] = "down"]
    /\ UNCHANGED <<manager, tick, loop, life, events, clock>>

\* StreamConnectedEvent: _stop_fallback cancels the poll wherever it is.
Reconnect(a) ==
    /\ life # "down"
    /\ link[a] = "down"
    /\ link' = [link EXCEPT ![a] = "up"]
    /\ tick' = [tick EXCEPT ![a] = NoTick]
    /\ UNCHANGED <<manager, loop, life, events, clock>>

-----------------------------------------------------------------------------
(* check_session_expiry, _expire_order. *)

\* _expire_order of one stop: its task exists, but has not run yet.
Spawn(s, todo, why) ==
    /\ inner' = [inner EXCEPT ![s] = "created"]
    /\ reason' = [reason EXCEPT ![s] = why]
    /\ loop' = [stop |-> s, todo |-> todo \ {s}]

\* The stops of the list that are in a session that is over, asked one by one.
SweepNext(todo) ==
    LET over == {s \in todo : s \in entered /\ ~InSession}
    IN  \/ /\ over = {}
           /\ loop' = NoLoop
           /\ UNCHANGED <<inner, reason>>
        \/ \E s \in over : Spawn(s, todo, "session_ended")

\* A round of _stop_session_expiry_loop; the marks of earlier days go.
SweepStart ==
    /\ life = "run"
    /\ loop = NoLoop
    /\ marked' = marked \cap {day}
    /\ SweepNext(Active)
    /\ UNCHANGED <<book, triggered, expired, entered, tick, link, life, refused, requests, done,
                   notices, clock>>

\* The shielded task has ended: the sweep goes on.
SweepContinues ==
    /\ life = "run"
    /\ loop.stop # NoStop /\ inner[loop.stop] = "none"
    /\ SweepNext(loop.todo)
    /\ UNCHANGED <<book, triggered, expired, entered, marked, tick, link, life, refused, requests,
                   done, notices, clock>>

\* _do_expire_order up to its await.
ExpireStarts(s) ==
    /\ inner[s] = "created"
    /\ inner' = [inner EXCEPT ![s] = "publishing"]
    /\ expired' = expired \cup {s}
    /\ UNCHANGED <<book, triggered, entered, marked, tick, loop, link, life, events, clock>>

\* StopOrderExpiredEvent has been delivered.
ExpireEnds(s) ==
    /\ inner[s] = "publishing"
    /\ inner' = [inner EXCEPT ![s] = "none"]
    /\ notices' = [notices EXCEPT ![s] = @ + 1]
    /\ UNCHANGED <<book, triggered, expired, entered, marked, tick, loop, link, life, refused,
                   requests, done, reason, clock>>

-----------------------------------------------------------------------------
(* _shutdown. *)

\* Mutant: without asyncio.shield the task dies with the sweep.
CancelSweepUnshielded ==
    /\ life = "run"
    /\ life' = "closing"
    /\ inner' = [s \in Stops |-> "none"]
    /\ loop' = NoLoop
    /\ UNCHANGED <<book, triggered, expired, entered, marked, tick, link, events, clock>>

\* The sweep is cancelled; a shielded task lives on.
CancelSweep ==
    /\ life = "run"
    /\ life' = "closing"
    /\ loop' = NoLoop
    /\ UNCHANGED <<manager, tick, link, events, clock>>

\* stop(): no more registrations and ticks.  Tasks run in the order in which they
\* were made ready, so an expiry created before the cancellation has begun.
StopManager ==
    /\ life = "closing"
    /\ \A s \in Stops : inner[s] # "created"
    /\ life' = "stopping"
    /\ loop' = [stop |-> NoStop, todo |-> Active]
    /\ UNCHANGED <<manager, tick, link, events, clock>>

\* Every active stop expires, one after the other.
StopNext ==
    /\ life = "stopping"
    /\ \A s \in Stops : loop.stop = s => inner[s] = "none"
    /\ \E s \in loop.todo : Spawn(s, loop.todo, "manager_stopped")
    /\ UNCHANGED <<book, triggered, expired, entered, marked, tick, link, life, refused, requests,
                   done, notices, clock>>

\* asyncio.gather: the tasks a cancelled sweep has left are awaited too.
ManagerStopped ==
    /\ life = "stopping"
    /\ loop.todo = {}
    /\ \A s \in Stops : inner[s] = "none"
    /\ life' = "stopped"
    /\ loop' = NoLoop
    /\ marked' = {}
    /\ UNCHANGED <<book, triggered, expired, entered, inner, tick, link, events, clock>>

\* StreamIntegration.stop cancels poll and stream; the process ends.
StopStreams ==
    /\ life = "stopped"
    /\ life' = "down"
    /\ tick' = [a \in Accounts |-> NoTick]
    /\ UNCHANGED <<manager, loop, link, events, clock>>

-----------------------------------------------------------------------------
(* The clock. *)

SessionOpens ==
    /\ session = "before"
    /\ session' = "open"
    /\ exposed' = IF trading THEN exposed \cup book ELSE exposed
    /\ UNCHANGED <<manager, tick, loop, link, life, events, day, trading>>

SessionCloses ==
    /\ session = "open"
    /\ session' = "after"
    /\ UNCHANGED <<manager, tick, loop, link, life, events, day, trading, exposed>>

NextDay ==
    /\ session = "after"
    /\ day < MaxDay
    /\ day' = day + 1
    /\ session' = "before"
    /\ trading' \in BOOLEAN
    /\ UNCHANGED <<manager, tick, loop, link, life, events, exposed>>

-----------------------------------------------------------------------------

Expiry == SweepStart \/ SweepContinues \/ \E s \in Stops : ExpireStarts(s) \/ ExpireEnds(s)
Shutdown == StopManager \/ StopNext \/ ManagerStopped \/ StopStreams

StopsNext ==
    \/ \E s \in Stops : Register(s)
    \/ \E a \in Accounts :
          \/ \E sym \in Symbols, p \in Prices : StreamTick(a, sym, p) \/ PollTick(a, sym, p)
          \/ Notified(a) \/ Ordered(a)
          \/ LinkLost(a) \/ Reconnect(a)
    \/ Expiry
    \/ CancelSweep \/ Shutdown
    \/ SessionOpens \/ SessionCloses \/ NextDay

StopsSpec == StopsInit /\ [][StopsNext]_stopsVars

\* The sweep runs every minute and a published event is delivered; a shutdown that
\* has begun goes on; a session ends.
StopsFairness ==
    /\ WF_stopsVars(SweepStart) /\ WF_stopsVars(SweepContinues)
    /\ \A s \in Stops : WF_stopsVars(ExpireStarts(s)) /\ WF_stopsVars(ExpireEnds(s))
    /\ WF_stopsVars(Shutdown)
    /\ WF_stopsVars(SessionCloses)

StopsFairSpec == StopsSpec /\ StopsFairness

-----------------------------------------------------------------------------

StopsTypeOK ==
    /\ book \subseteq Stops /\ refused \subseteq Stops /\ exposed \subseteq Stops
    /\ triggered \subseteq book /\ expired \subseteq book /\ entered \subseteq book
    /\ done \subseteq book /\ book \cap refused = {}
    /\ marked \subseteq Nat
    /\ inner \in [Stops -> {"none", "created", "publishing"}]
    /\ tick \in [Accounts -> [pc : {"idle", "notifying", "ordering"},
                              stop : Stops \cup {NoStop}, todo : SUBSET Stops]]
    /\ loop \in [stop : Stops \cup {NoStop}, todo : SUBSET Stops]
    /\ link \in [Accounts -> {"up", "down"}]
    /\ life \in {"run", "closing", "stopping", "stopped", "down"}
    /\ requests \in [Stops -> Nat] /\ notices \in [Stops -> Nat]
    /\ reason \in [Stops -> {"none", "session_ended", "manager_stopped"}]
    /\ day \in Nat /\ session \in {"before", "open", "after"} /\ trading \in BOOLEAN

\* A stop never becomes two orders and is never announced as expired twice,
\* although ticks, sweep and shutdown work from lists they took before they
\* waited (on_price_update, check_session_expiry, stop).
NeverTwice == \A s \in Stops : requests[s] <= 1 /\ notices[s] <= 1

\* A stop expires with its session only if it was registered while the exchange
\* traded: not one registered on a holiday or after the close, whatever the REST
\* quote answered meanwhile (check_session_expiry, stop_order.py:376).
ExpiresOnlyAfterTrading ==
    \A s \in Stops : reason[s] = "session_ended" => s \in exposed

\* When the manager has stopped, every stop it took has triggered or was announced
\* as expired; none is left behind by a sweep that was cancelled halfway (stop,
\* _expire_order).
ShutdownLeavesNone ==
    life \in {"stopped", "down"} => \A s \in book : s \in triggered \/ notices[s] = 1

\* A stop that is registered in a session that has seen a tick does not survive
\* it, however late it came and however quiet its own symbol is
\* (_session_tick_marked, stop_order.py:108).
EndsWithItsSession ==
    \A s \in Stops :
        (s \in book /\ InSession /\ day \in marked) ~> (s \in triggered \cup expired)

=============================================================================
