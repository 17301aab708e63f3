# ante: a TLA+ verification project

`ante` is an automated trading system: bots run strategies, their orders pass a
rule engine and a treasury, a gateway sends them to a broker (Korea Investment &
Securities, "KIS"), and what the broker executes comes back as fills, positions
and settled budgets. One asyncio process, one SQLite database, one event bus.

This directory holds TLA+ models of the parts in which an interleaving, a crash or a
late answer can do harm: to money, to the control over the system, to its data; TLC configurations that check them on
small instances; and TLAPS proofs of their most important properties for every
value of the constants. `PROJECT.json` lists the components, the runs, the
hazards, the theorems, and for each definition the source lines it stands for.

    tlc -workers 2 -config MCOrderFlow.cfg MCOrderFlow     # a run
    tlapm OrderProofs.tla                                  # a proof

Paths below are relative to `src/src/ante/` unless they begin with `docs/`
(`src/docs/`).

## 1. The system

The trading components share one event loop. Two facts shape every model:

* **A task loses control only at an await.** One TLA+ action is what a task does
  between two awaits, so state that is read before an await and used after it may
  be stale, and nothing else may.
* **`EventBus.publish` runs the handlers in the publisher's task** and hides their
  exceptions (`eventbus/bus.py:65`). The task of a bot's loop therefore carries its
  order through rule engine, treasury and gateway up to the broker; when that task
  is cancelled the order stops there. `CancelledError` is no `Exception` and passes
  every handler.

The database has one writer connection behind `Database._write_lock`; whoever waits
for the lock has its values bound already. Reads see committed rows.
The command line talks to the process over a socket (IPC); some commands may work on
the database themselves while no process runs (the *cold path*). The data feed and
the backtests are processes of their own and share a directory of Parquet files.

### Inventory

| Component | State | Operations | Hard behaviour | What makes it correct |
|---|---|---|---|---|
| Circuit breaker, KIS request wrapper (`broker/circuit_breaker.py`, `broker/kis.py`) | state, failure count, time of the last failure | check, record_success, record_failure; retries | answers that arrive after the state changed; several calls in flight | an OPEN breaker bounds what is still sent; OPEN ends |
| Order tracker, fill applier, positions, outbox (`trade/`) | tracked orders and their cache, trades, positions, outbox rows | open, record_fill, mark_terminal, expire_stale, apply_cumulative, apply_stream_increment, drain | poll and stream observe the same fill; crash between commit, publish and mark; rollback | every share is recorded, traded and announced once; settled at most once; fills are found and published |
| Treasury (`treasury/treasury.py`) | budgets, reservations, balance; rows; settled keys | allocate, deallocate, update_budget, reserve, release, settle, sync, restart | saves with old values, snapshot across an await, partial fills dearer than reserved | the books balance everywhere; a fill is charged once; no reservation outlives its order |
| Cancel and modify (`gateway/gateway.py`, `rule/engine.py`, `broker/kis.py`) | the action a bot's loop waits for | the handlers of OrderCancel and OrderModify, cancel_order, modify_order | record read before the limiter and the POST, fills meanwhile, unknown outcome of a POST | the reservation covers what the market may still take |
| Stop orders, price stream, REST fallback (`gateway/stop_order.py`, `gateway/stream_integration.py`, `broker/kis_stream.py`) | registered stops, session marks, in-flight expiries | register, price update, session sweep, stop | lists taken before an await, cancellation of sweep and poll, holidays | a stop ends once, in its own session, and never silently |
| Order path (`rule/engine.py`, `treasury/treasury.py`, `bot/providers/virtual.py`, `gateway/gateway.py`) | where the task of an order is; its reservation | the handlers of OrderRequest, OrderValidated, OrderApproved; place_order | kill switch or readiness lost during a wait, bot stopped or deleted meanwhile, retry after a timeout | one outcome, no stranded reservation, kill switch, an answer for every request |
| Bots and bot manager (`bot/bot.py`, `bot/manager.py`) | Bot objects, tasks, restart counters, rows, budgets of deleted bots | create, update, assign, change, resume, start, stop, delete, stop_all; the loop | commands that overlap at every await, restart after a cool-down, a task nobody holds any more | the row is the bot's configuration; money is conserved; a stopped bot goes quiet |
| Fill polling, reconciler (`broker/fill_scheduler.py`, `broker/scheduler.py`, `trade/reconciler.py`) | windows, verify set, capacity, pass in progress | poll, fallback, verify, reconcile, correct_position, catch-up | a snapshot of the broker compared with a later state; history that hides a fill | own fills are not "corrected"; invented fills surface; positions converge |
| Accounts, tokens, readiness (`account/`, `broker/kis.py`, `main.py`) | adapters, token cache, cool-down, flags | get_broker, connect, authenticate, mark_ready, self-healing, disconnect | two askers of one broker, two accounts of one app key, shutdown beside a connection | one token request at a time; no session past the database; accounts come to trade |
| Process, IPC server, signal sessions (`main.py`, `ipc/`, `bot/signal_channel*.py`, `cli/cold_path.py`) | marker, PID file, socket, database; connections, channels, keys, queues | start, shutdown, dispatch, handshake, register, deliver, rotate, close | crash between two files; close during registration; a full queue; a shutdown that waits | the cold path never takes a living process for dead; sessions end; marked fills arrive |
| Kill switch (`account/service.py`) | status of accounts, in memory and rows | suspend, activate, suspend_all, activate_all; Telegram | crash between memory and row, two commands at once | a halt holds through a restart |
| Members (`member/`, `cli/middleware.py`) | rows, tokens, scopes, recovery key | bootstrap, register, suspend, reactivate, revoke, rotate, reset; authorisation | read, decide, write later | a revoked member stays out |
| Approvals (`approval/`, `main.py`) | request rows, executors | create, approve, reject, cancel, reopen, expire | crash or error between decision and execution | no approval fails silently; requests expire |
| Rules and configuration (`rule/`, `config/dynamic.py`) | stored rules, rules in the engine, seed | set, update, reload, evaluate | stored and loaded rules part | stored limits bind every order |
| Data store, feed (`data/store.py`, `feed/`) | partitions, temporary files, lock, checkpoints | write, quarantine, sweep, backfill, daily run, inject | processes without a common lock, crash between write and checkpoint | rows survive; published days are collected |
| Backtest (`backtest/`) | loaded bars, clock, orders, cash | load, step, fill, follow up | reads a store that is being written; a clock that must not run ahead | every row listed is read; no look-ahead |
| Event bus, database (`eventbus/`, `core/database.py`) | handlers; lock and connection | publish; execute, transaction | hidden exceptions; lock waits | modelled inside the modules that use them |
| Rate limiter, contracts, static configuration, notification, reports, audit, instruments, updates, migrations | rows and files of their own | | | not modelled (section 8) |

### How they interact

    bot loop --OrderRequest--> RuleEngine --OrderValidated--> Treasury --OrderApproved--+
       ^                       (layer 1)                     (layer 2, reserves)        |
       |                                                                                v
       |   kill switch, readiness                    VirtualExecutor, then APIGateway (layer 3)
       |                                                   |              |
    StopOrderManager <--- stop, stop_limit ----------------|--------------+--> broker
       ^  (triggered: OrderRequest)                        |                     |
    stream / REST quotes                                   v                     | fills
                                                    OrderFilled                  v
    Treasury (settles) <--OrderFilled-- outbox publisher <-- FillApplier <-- poll, stream
                                                                  ^
    Reconciler (broker holdings against positions) ---------------+ position rows

    command line --socket--> IPC server --> accounts, bots, members, approvals, rules
         |                       |                      ^
         +-- cold path --> database                Telegram receiver

    feed start / feed run / feed inject --> Parquet store --> backtest

`OrderFlow` models the upper line, `StopOrders` the lower left, `FillPipeline` the
lower right up to the settlement key, `Treasury` with `Amend` the money, `Reconcile`
what happens when the two views of a position part, and `CircuitBreaker` and
`Accounts` the adapter under "broker". The modules meet in events: `OrderFlow` ends an
order with *submitted*, which is `Accept` of `FillPipeline`; a converted stop of
`StopOrders` is an order of origin "other" in `OrderFlow`; `FillPipeline` treats a
settlement as one step, whose inside is `Treasury`; `Reconcile` treats
`apply_cumulative` as one step, whose inside is `FillPipeline`. `Daemon` is the life of
the process in which all of this runs, `Control` the commands that change what it may
do, `Research` the offline half.

## 2. Modules

| Module | Models | Code |
|---|---|---|
| `CircuitBreaker` | breaker and request wrapper of one adapter | `circuit_breaker.py`, `kis.py` `_request_with_cont` |
| `FillLedger` | what fill recovery promises (abstract) | `docs/specs/broker-adapter/18-fill-recovery.md` §4.4 |
| `FillPipeline` | from a fill at the broker to the settled event | `order_tracker.py`, `fill_applier.py`, `position.py`, `fill_outbox.py` |
| `Treasury` | budgets, reservations, settlement, rows | `treasury.py` |
| `Amend` | cancel and modify, on top of `Treasury` | `gateway.py`, `engine.py`, `kis.py` |
| `StopOrders` | stop orders, stream and poll, sweep, shutdown | `stop_order.py`, `stream_integration.py`, `kis_stream.py`, `main.py` |
| `OrderFlow` | the path of an order to the broker | `engine.py`, `treasury.py`, `virtual.py`, `gateway.py`, `kis.py`, `bot.py`, `manager.py`, `account/` |
| `Bots` | the life of a bot | `bot/manager.py`, `bot/bot.py`, `treasury.py`, `main.py` |
| `Reconcile` | polls and reconciliation of one symbol | `fill_scheduler.py`, `scheduler.py`, `reconciler.py`, `trade/service.py` |
| `Accounts` | adapters, tokens, readiness, self-healing | `account/service.py`, `readiness.py`, `kis.py`, `main.py` |
| `Daemon` | process, IPC server, signal sessions | `main.py`, `ipc/server.py`, `ipc/registry.py`, `signal_channel*.py`, `cold_path.py` |
| `Queues` | the queue of an `asyncio.Lock` | `core/database.py`, `kis.py`, `account/service.py` |
| `Commands` | what all commands share: write lock, task, cold path | `cli/`, `ipc/server.py`, `core/database.py` |
| `KillSwitch`, `Members`, `Approvals`, `RuleConfig` | one part of the control plane each | `account/service.py`; `member/`; `approval/`; `rule/`, `config/dynamic.py` |
| `Control` | their composition, with Telegram | `telegram_receiver.py`, `cli/commands/`, `ipc/registry.py` |
| `DataStore`, `Sources`, `Feed` | Parquet store; what a fetch can come to; collection | `data/store.py`; `feed/` |
| `Backtest` | loading and simulation | `backtest/`, `strategy/` |
| `Research` | the composition of store, feed and backtest | |
| `Sums` | lemmas on sums over finite sets, for the proofs about money and shares | |
| `BrokerProofs` | theorems about `CircuitBreaker` and `Reconcile` | |
| `OrderProofs` | theorems about `OrderFlow` and `StopOrders` | |
| `RuntimeProofs` | theorems about `Accounts`, `Daemon` and `Bots` | |
| `FillPipelineProofs`, `TreasuryProofs`, `ControlProofs`, `ResearchProofs` | theorems about the module they are named after (`TreasuryProofs`: `Amend`) | |
| `MC*` | instances for TLC | |

Modules that are proved about together are extended by one module, so the names they would
share carry a prefix in all but one of them: `StopsInit`, `BreakerNext`, `DaemonSpec`,
`BotSpec` are the Init, Next and Spec of `StopOrders`, `CircuitBreaker`, `Daemon`, `Bots`.

### CircuitBreaker

Each member of `Calls` is a user of the adapter: idle, admitted (past `check()`,
waiting for token or limiter), sending, or in back-off. The breaker's variables are
those of the class; `elapsed` stands for `monotonic() - _last_failure_time`
and saturates at the time-out, `failures` saturates at the threshold, because the
code only compares them with it. `ExemptCalls` are the queries whose time-outs
the breaker is not told about.

### FillPipeline and FillLedger

Broker: `bstate`, `bfilled`, `notices`. Database: `status`, `recorded`, `traded`,
`position`, `outbox`, `dedup`. Process: the caches, the one task inside
`FillApplier._lock` (`apply`) and the publisher (`batch`, `handed`). A database
transaction is `Stage` (inside, nothing committed, but the position cache already
written), `Commit`, `Resume` (the task runs again, mirrors the cache, frees the
lock) or `Rollback`. `PublishHandlerFails` is a settlement that fails and that
`EventBus.publish` hides. `Crash` loses the memory, everything on its way and an
open transaction.

`FillLedger` is the promise: the recorded quantity only grows, and each growth is
a trade and an announcement of the same shares. `ImplementsLedger` maps
`announced` to the shares of the outbox rows and `finished` to the filled orders.

### Treasury and Amend

An operation changes the memory and appends its save, with the values of that
moment, to `writes`, the queue of the write lock. `Write` lets the first of the
queue write. `_on_order_filled` is `FillStart` (snapshot), `FillBegin` (lock),
`FillSettle`, `FillCommit` or `FillRollback`. Money is an integer number of
won; a reservation is what the order's price and commission amount to, a fill costs
one of `Costs`, so that it can be cheaper and dearer than reserved. A virtual
order is filled in one piece and without a key.

`Treasury` has the books and their operations; `Amend` adds what a strategy asks for
its orders and is the specification that is checked. `asked` is the one action the loop
of a bot waits for; `limit` is the price the broker has. The tracker's record is read
before the limiter, the connection and the POST are awaited, and a POST may time out
after the broker took it. A modification changes the price and never the reservation.
Nobody asks whose order a cancellation is for, and its event carries the bot that asked:
`OrderEnds` takes the entry of the order and gives the money to that bot. `gained` and
`lost` are histories of the budgets such a cancellation changed: that of the bot that
asked, which may then have reserved less than its own entries, and that of the owner, which keeps
the amount without an entry. `Crew` says which bots are given money and run in a mix.

### StopOrders

`book`, `triggered`, `expired`, `entered`, `marked`, `inner` are the fields of
`StopOrderManager`; `tick` is the `on_price_update` under way for an account, `loop`
the sweep and later `stop()`. Each takes its list first and then awaits once per
stop. An expiry is a task of its own (`inner`), which survives the
cancellation of the sweep because it is shielded. `trading` is a fact about the
day the code cannot ask for (it has no calendar): on a day without trading no tick
comes from the stream, but the REST quote answers.

### OrderFlow

`pc` is where the task of an order waits. The verdict of the rules is open here
(`RulesRefuse`); what the rules compute is `RuleConfig`. `Screen`, `Fund`, `Execute` and `Gate`
are the places where the kill switch and the readiness of the account are asked;
between them lie the waits for rules, quote, save, price, rate limiter and
broker. `Send` is the POST, taken by the broker or not; `TimesOut` repeats it
up to `MaxRetries` times whether it was taken or not. `StopBot` cuts the tasks of
the bot's own loop at whatever point they are; `BotStopped` is the release of the
bot's reservations; `DeleteBot` and `ReleaseBudget` are the two halves of
`delete_bot`. An order nobody answers ends in *dropped*.

### Bots

Commands come from the IPC server, from approvals and from events; `ops[k]` holds what
command k has in its local variables, and every await between two of its statements is
a step of the others. A command keeps the Bot object it fetched first, so an object has
an identity apart from its bot_id: deleting and creating again gives a second one. The
loop, `on_step` and the restart after the cool-down are tasks. `Bot.stop` cancels
the task in `Bot._task` only; a task superseded meanwhile is an *orphan*. The budget
follows `release_budget` and `update_budget`. The memory changes at once; the statements
on `bot_budgets` wait in `line` for the write lock. `release_budget` pops the budget
(`DeleteRelease`) and, when memory has none, awaits the row (`DeleteRead`) before it gives
it back (`DeleteCredit`). `twice` and `added` are histories: two deletions of one bot at a
time, and money given to a bot between pop and read.

### Reconcile

One symbol of one account. The broker executes at once in its holdings and reports in
its history when it likes, at the latest on the next day. `Poll` is a poll of the fill
scheduler with its window, its fallback (a full fill inferred from holdings that exceed
the position by exactly the order) and the later verification; `StartPass`, `Read`, `Classify` and `Correct` are a pass of
the reconciler, interleaved with polls and executions. `External` and `Base` are
somebody else's trades and shares held before; `CatchUpMax` is the bound of the
catch-up at start-up. The fallback reads its candidates before it awaits the holdings
(`poll.cand`). `overlap` and `clipped` are histories: that a fill was recorded between the
reads of a pass, and that a sell was recorded for more than the position, which
`on_trade` clamps at zero. `ClassifyBlind` is a query of the open orders that fails: the
difference then counts as somebody else's (`blind`).

### Accounts

Two tasks ask for brokers: `main`, which starts up, heals and shuts down one after the
other, and a client of the IPC server. A lock is the queue of its waiters. The accounts
of one app key share token cache, cool-down and lock, as in `kis.py`. `mark_ready` and
`mark_not_ready` are where the code calls them; the self-healing loop makes bursts of
`MaxBurst` attempts, and a sleep may take any time.

### Daemon

The files of the process (marker, PID file, socket, database) in the order in which
`main.py` makes and removes them, each step able to fail, the process able to die at
any point and to be started again. A connection is a task from dispatch over the
gates of the handshake, audit record, registration and acknowledgement to the stream
and its end. A key is its generation number. The queue of a channel is bounded;
a fill is *marked* when the channel took it.

### Commands, KillSwitch, Members, Approvals, RuleConfig, Control

A command is a task in the process, or, on the cold path, a process of its own on the
same database. Each reads, decides, and writes later; `Commands` has the write lock and
the two paths, the four parts say what is read, decided and written, and `Control`
composes them with authorisation (a member's row read by the command line), with the
Telegram poll loop and with crashes. Rules give a limit, are Off or are Absent, in the
store, in the static seed and in the engine. `config set` writes the same key as
`rule update`, under a category the engine passes over; a start that cannot read the store
takes the seed. `missed` says why the engine may lack what the store has: an event that was
not sent, a store that was written past it, a store that was not read. `Rejects` is what each rule of
`global_rules.py` and `strategy_rules.py` refuses. The four parts hardly touch each
other's state, so a behaviour draws its commands from one of `Mixes`, the sets of
commands that meet.

### DataStore, Sources, Feed, Backtest, Research

A data set is a set of partitions; a write reads the file, merges, writes a temporary
file and renames it. No lock is held between processes but the feed's own lock file.
A file is absent, empty (an interrupted write of an older release), readable or
damaged. `Sources` says what an answer of data.go.kr or DART comes to: rows, empty,
raise, stop. A day is two rows in two partitions, a quarter is one. A run saves its
checkpoint after the rows. `Backtest` reads the partitions it has listed one by one; its
second half follows a strategy, which may do anything its interface allows, bar by
bar. `Research` has two modes: in "store" the store is written and read at the same
time, in "run" the simulation goes on; the simulation touches the store no more, so
their interleavings need not be mixed.

## 3. Runs

| Run | Instance | Checks | Shows |
|---|---|---|---|
| `breaker` | 3 callers, one exempt; threshold 2, time-out 2 ticks, 1 retry | `CascadeBounded` `OpenIsTemporary` | calls admitted before the breaker opened send at most what their own retries allow; OPEN ends |
| `fills` | 1 order of 2 shares, stream on, 2 crashes, 2 errors | `SettledAtMostOnce` `PositionCacheRepaired` `ImplementsLedger` `OpenFillsRecorded` `EventsPublished` | nothing is recorded or announced twice, nothing of a tracked order is lost, rollbacks leave no trace |
| `treasury` | a buy of 2, a buy and a sell of 1, a virtual buy, or a buy that a second bot may cancel too; cancel and modify; 1 crash or error | `BooksBalance` `EndedOrdersHoldNothing` `SpentMatchesSettlements` `ReservedCoversOrders` | the money is accounted for in memory, rows and queued saves, and covers what is at the market |
| `stops` | a buy and a sell stop, 2 symbols, 2 days | `NeverTwice` `ShutdownLeavesNone` `EndsWithItsSession` | a stop ends once, in its own session, and is announced, wherever a shutdown meets it |
| `flow` | 2 orders of one bot, 3 kinds, 1 retry | `OneOutcome` `NoStrandedReservation` `KillSwitch` `EveryRequestAnswered` | the order path under suspension, lost readiness, stop, restart and deletion of the bot |
| `bots` | 1 bot_id, 2 objects, 2 strategies, 3 commands, 2 failures, 1 restart | `SavedConfig` `BudgetConserved` `StoppedGoesQuiet` | overlapping commands leave row and bot in agreement, conserve money, and leave no loop behind that does not end |
| `daemon` | 2 connections, 1 fill, queue of 1, 2 keys, 2 starts, 3 events | `GuardSeesRuntime` `SessionsContained` `MarkedFillsAreSent` `ShutdownEnds` | the guard of the cold path is right in every phase; sessions are single, lose no fill they took, and end |
| `reconcile` | a buy of 2, a sell of 1, one external trade, 2 days, 1 restart or failed query | `OwnFillsLeftAlone` `OverAttributionSurfaces` `Converges` | what the reconciler corrects is not the bot's own; positions converge |
| `accounts` | 2 live accounts of one app key, 1 virtual; bursts of 2, 3 calls, 3 faults | `OneTokenAtATime` `NoSessionPastDb` `EventuallyReady` | connections, token requests and shutdown in every order |
| `control` | 2 tasks, 3 commands, 1 fault, 2 accounts | `HaltHolds` `RevokedStaysOut` `ApprovedIsExecuted` `LimitsBind` `ExpiryHappens` | what commands decided holds, whatever overlapped or failed |
| `feed` | 3 days, 2 quarters, 3 partitions, 1 fault; a backtest of 1 symbol beside a second | `StoredRowsSurvive` `BacktestSeesAll` `NoLookAhead` `FeedCatchesUp` | rows survive faults, reads are complete, the simulation does not look ahead, collection catches up |
| `flow_lost` | as `flow` | `AcceptedIsTracked` (violated) | see below |

`flow_lost` is expected to be violated. `docs/specs/broker-adapter/11-order-flow.md:14`
says that the gateway publishes OrderSubmittedEvent for an order it placed, and the
tracker starts from that event. The counterexample: the bot is stopped between the POST
and its answer, the task is cancelled, and nobody tracks an order the broker holds. The
kill switch stops bots, too.

**Exceptions in the properties.** Several properties except a case by name (`errors = 0`,
`~cut`, `twice`, `added`, `overlap`, `clipped`, `blind`, `missed`, `unsaved`, `raced`, `gained`,
`lost`). Each is a case the model
reaches and in which the code does not keep the property; each is an observation of
section 6. The comment on the property says which.

### Why the bounds are enough

* Two orders (or stops, or connections, or commands at a time) suffice where the hazard
  is that one task works on what another has changed; the third caller of `breaker` is
  the late one, the third command of `bots` and `control` meets what two others left.
  Two shares per order give a partial and a completing fill, and two unequal
  observations.
* Threshold 2 lets one failure be recorded without opening; one retry gives a
  call that sends before and after the breaker opened. With one retry an order can
  be taken twice.
* Prices 0, 1, 3 around the stop prices 1 and 2 trigger one stop, the other, both.
  Two days give a trading day before and after a holiday. Symbol `q` has no stop:
  its ticks mark the session for others.
* Two crashes (`fills`) allow a crash during the recovery from the first; an error
  count of 1 or 2 places failures anywhere. `MaxQueue` = 2 is a task that holds the lock
  and one that waits with old values. In `treasury` the four mixes keep apart what
  shares no order: partial fills, a buy against a sell, the virtual account, and a second
  bot, which has a budget of its own and may cancel the first one's order. With an order of
  each bot in one mix the instance is too large for TLC: that the asker's own reservations
  then exceed what it has reserved is an exception only the theorem quantifies over. Costs 1
  and 3 lie below and above the reserved 2; the changes are cheaper, too dear, invalid.
  The balance begins at 6 and, where fills are partial, may fall to 5, all of which an
  allocation takes; the second bot has its budget from an allocation taken back before.
* The kinds of `flow` (market buy from the loop, limit buy and stop) take
  every branch of the path: with and without quote, with and without reservation,
  dying and not dying with the bot. A market sell takes the branches of a stop up to
  the gateway and those of a buy after it.
* `daemon`: a queue of 1 is full after one frame; two keys are one rotation; two
  starts are one restart over what a dead process left behind.
* `reconcile`: a sell smaller than the buy leaves a position to be wrong about; an
  external trade of 2 exceeds the capacity of what is open or does not, according to what
  was executed before; two days let the history hide a fill and show it.
* `accounts`: two accounts of one key are what shares a token; three faults outlast the
  retries of the start-up and reach into the self-healing loop.
* `control`: `Mixes` holds the sets of commands that read or write a common row; `rule
  update` and `config set` of its key are one.
* `feed`: the second day is blocked, so that a run passes over a day inside its window;
  two partitions of one data set let a write and a read overlap in different files.

Deadlock is checked in `breaker`, `fills` and `treasury`. The other systems really stop:
the process has ended, all orders are over, all commands the bound allows were given,
the last day was collected.

### Fairness

* `breaker`: the clock goes on, and a call that can take a step takes one (its
  awaits have time-outs). Without new admissions nothing happens in an OPEN breaker,
  so `CheckPasses` is weakly fair as well: callers come back (`OpenIsTemporary` is
  about a breaker that is used).
* `fills`: the applier's and the publisher's tasks run on; the process is
  restarted; the poll applies what the broker reports now infinitely often if it
  can (strong fairness, because another observation may hold the applier each time;
  `FillReconcileScheduler` repeats the poll for ever). The errors are bounded.
* `stops`: the sweep runs every minute, events are delivered, sessions end, a
  shutdown that has begun goes on. Ticks and registrations are not fair.
* `flow`: each await of a task ends with an answer, an error or a time-out. The
  account, the flags and the bots owe nothing.
* `bots`: a loop that is due runs, `asyncio.Lock` serves its waiters in turn (strong
  fairness of `StepStarts`: two loops of one object alternate on the lock), and
  `step_timeout_seconds` ends every `on_step`. Commands owe nothing.
* `daemon`: the tasks of a connection go on, a close that was asked for happens, every
  grace period of the shutdown ends. Clients and signals owe nothing.
* `reconcile`: polls and days go on, a pass that has begun goes on, and a pass starts
  again and again (strong fairness, because a command may be in its place each time).
* `accounts`: the two tasks go on, the cool-down ends, faults are bounded.
* `control`: a command goes on; the expiry loop comes round.
* `feed`: processes go on, the scheduler is started again and runs its jobs, days pass;
  faults are bounded.

`treasury` states safety only, no fairness.

## 4. Mutants

Each property of each passing run names a mutant of a mapped definition, a plausible
bug, under which TLC finds the property violated: a dropped dedup check, a status
filter that forgets partially filled orders, a shield left out, a gate asked
before the wait instead of after it, a token lock taken without a second look at the
cache, a checkpoint that advances past a failed day. They are the operators commented
"Mutant:" in the modules and are not used by any specification.

## 5. Theorems

| Module | Theorem | For every |
|---|---|---|
| `BrokerProofs` | `BreakerConsistent`, `BreakerCascadeBounded` | number of callers, threshold, retries |
| | `OwnFillsHold`, `OverAttributionHolds` | finite set of orders, quantities, external trades, days, restarts |
| `FillPipelineProofs` | `PipelineInvariant`; from it types, books, announcements, settlement at most once, marking after delivery, the two caches; `PipelineNeverUnfills`; `PipelineImplementsLedger` | set of orders and quantities, number of crashes and errors, with or without stream |
| `OrderProofs` | `FlowInvariant`, `FlowOneOutcome`, `FlowNoStrandedReservation`, `FlowKillSwitch` | number of orders, bots, retries |
| | `StopInvariant`, `StopNeverTwice`, `StopExpiresOnlyAfterTrading`, `StopShutdownLeavesNone` | number of stops, accounts, symbols, prices, days |
| `ControlProofs` | `ControlInvariant`, `HaltHoldsAlways`, `RevokedNeverActs`, `NoSilentSuccess`, `LimitsBindAlways` | number of commands at once, accounts, rules, limits, faults, and any mix of commands |
| `RuntimeProofs` | `AccountsInvariant`, `TokenOnceAtATime`, `SessionsClosedFirst` | number of accounts, retries, calls, faults |
| | `DaemonInvariant`, `DaemonTypes`, `GuardNeverBlind`, `SessionsStayContained`, `MarkedFillsReachTheClient` | number of connections, fills, keys, starts and events, length of the queue |
| | `SavedConfigHolds`, `BudgetConservedHolds` | number of bots, objects, strategies, commands, failures, amount of money |
| `TreasuryProofs` | `TreasuryInvariant`, `BooksAlwaysBalance`, `FillsChargedOnce`, `NoReservationLeft`, `OrdersAlwaysCovered` | number of bots, orders, shares, amounts, balances, tasks at the write lock, faults |
| `ResearchProofs` | `StoredRowsSurviveHolds`, `BacktestSeesAllHolds`, `NoLookAheadHolds` | partitions, rows, processes, days, faults; symbols and their bars |

The assumptions are those of the constants (`ASSUME` in each module), which TLC
evaluates in the runs. Beyond ranges they say that names do not collide (an account is not
called "-", an order not "none", a fill is not a frame of another kind, the expiry loop is
not a command), that the accounts are listed in `AccountSeq`, that there is a rule on the
size of a position, and that the reservation of a buy is at least its quantity times its
limit price (`estimated_cost` and commission, `treasury.py:1048`); that the orders of
`Reconcile` and the symbols and bars of a backtest are finitely many and bars have positive
dates; that every row belongs to a partition. Some of the theorems (that state and count of the breaker agree,
that books and caches agree, that a filled order stays filled, that a stop expires only
after a session in which it could trade, that a queue keeps its bound) are parts of an inductive invariant and have
no run of their own.

**The inductive invariants.** No property is inductive alone; what is missing is
always what a task knows across an await.

* *Breaker.* `CascadeBounded` counts requests already sent. It needs
  `CascadeBudget`, sent plus what the retry loop may still send, and that a call in
  back-off has a retry left.
* *Fills.* `ApplierKnows`: the task in the applier has an order that is not
  filled, its transaction is an advance, and after COMMIT the row is what it wrote,
  because it holds the write lock. `StatusKnows` ties status to quantity. The
  announcement property follows from rows whose shares lie above what was recorded.
  `SettledKnows` and `PublisherKnows`: what is settled has its key, and the row in
  hand was delivered. `PositionCacheKnows`: inside the transaction the cache holds
  what will be committed. The refinement takes a lemma that `Commit` is one
  `Advance` and that every other step leaves the mapped state alone.
* *Stops.* `Ticks`: a stop on the list of a tick has not triggered, and lists of
  different accounts are disjoint, so stale lists do no harm. `Expiries`: a stop on
  the list of the sweep or of `stop()` has not begun to expire; who has begun is
  announced once. `Sessions`: a marked day is a trading day, and who is in the
  session was registered while the exchange traded. `StopManager` relies on the
  order in which asyncio runs ready tasks (an expiry created before the cancellation
  has begun); the assumption is a guard of the action.
* *Order path.* `Outcomes`: only VirtualExecutor answers before the end, and a
  virtual order it leaves alone belongs to a bot being deleted. `Reservations`: the
  points at which an order may hold money; one that is cut or dropped belongs to a
  bot that will release it. `Attempts`: an attempt is counted when it is made.
* *Control plane.* Rows are written after the memory has changed, so nothing about a row
  follows from the memory alone. `QueueOK`: who is to write is in the queue of the write
  lock, once. `LastWins`, `RowsFollow`: the last who waits to write the row of an account
  writes what the memory says, and if nobody waits the row says it already. `NoClear`,
  `CalmDone`: no activation overlaps a halt that counts, and such a halt has suspended
  what it need not look at any more. `RevokedFirst`: after a revocation no suspension or
  reactivation has passed its check. `ApprovedOrCut`: what is approved was executed, is
  being executed, or was cut by a crash. `EngineFollows`: while `missed` is empty and nobody
  is to publish a change, the engine has what the store holds; and the last who is to
  publish one wrote what the store holds, unless `config set` has written since. All the proof needs of a queue is that leaving it
  keeps the order of the others (`WithoutQueue`).
* *Accounts.* `TokenOK`: who awaits or requests a token is in the queue of the app key,
  and who requests is its head and has looked at cache and cool-down since it became so.
  `LocksOK`: who connects an account is in its queue. `ShutdownOK`: the shutdown is
  behind the client in the queue of the account it disconnects, so the accounts it is
  done with have neither a session nor a client that connects them. Two tasks make five
  queues (`Lines`), which the proof enumerates.
* *Process.* `StageOK`: what is on disk and open in each stage of `main()`, beside what a
  process that died left there. `SessionOK`: a connection is registered from
  acknowledgement to end, and what it marked is queued or sent, once. `OneSession`.
  `SweptOK`: from the sweep of the shutdown on nobody registers, what is registered is
  told to close, and the streams left are those the shutdown waits for. `KeyOK`: a
  rotation has its key before its generation. Steps are described by `Follows`, what a
  step that registers nobody makes of a session, so that each action is looked at once.
* *Treasury.* The four properties compare sums: of allocations, of reservations, of the
  costs of fills (module `Sums`). The provers cannot instantiate the library's induction theorems, but
  `WFMin` has none of their parameters: a set of subsets without a minimal member is empty
  (`FiniteInduction`). From it come that a sum over a finite set exists, is one number, and
  changes by what one member changes (`SumMoves`), and from that what each operation does
  to `Held`, `Charged`, `Direct` and `TotalAllocated`. The invariant: `HeldOK`, what is
  reserved is what the reservations add up to, so that no `max(0, ..)` clips, at least as
  much for a bot that lost an entry (`astray`), and nothing is claimed of one that asked
  for another's cancellation (`blame`); `LineOK`,
  one save waits for an order being reserved and one settlement for the lock; `FillOK`,
  the task in `_on_order_filled` has an event whose key is not there; `SettledOK`, its
  snapshot is what the committed keys cost, so that a roll-back is right; `CoverOK`, at the
  order's price, which no modification exceeds; `EndedOK`, a reservation that
  outlives its order waits for a fill of it, which releases it; `AskedOK`, a modification
  past the gateway's check is of a limit order and not dearer.
* *Bots.* `Registry`: the object registered for a bot_id is that bot's; an object made
  later than the first takes its place for good. `OpsOK`: a command at an await is at one
  its kind has, and holds an object of its bot. With these the row and the first object of
  a bot agree (`RowsKept`), in every state and not only between commands.
  For the money, as long as no two deletions of one bot were under way (`twice`) and no bot
  was given money while a deletion awaited its row (`added`): `OneDelete`; `RowsLead` and
  `SavesLead`, a row or a statement in line that exceeds the budget in memory has a DELETE
  behind it in line (`Cleared`), whose deletion is past its read. So a deletion that reads the row finds
  none (`ReadsEmpty`), and what it gives back is what the sum loses.
* *Reconcile.* For `OverAttributionSurfaces`: what is recorded beyond the executions is in
  the set to verify, was alerted about, was forgotten by a restart, or never executed
  (`Surfaces`), and a line of the history that a poll holds of an earlier day is the whole of the order, or
  has been recorded (`ToldAll`). For `OwnFillsLeftAlone`, as long as none of its exceptions
  has happened (`Clean`): nothing is recorded beyond the executions, and the position is
  what was recorded (`Sound`); a holding that a pass or a fallback has read and not used yet
  is what the broker had executed at some moment since the last record (`BrokerRead`,
  `Asked`); so the difference is a sum of what open orders still lack (`DifferenceFits`),
  which is the capacity the self-check compares with. The steps of others between the two
  reads are why a moment is claimed and not the present.
* *Store and backtest.* Unless two jobs overlapped (`raced`): one process at most is past the
  lock (`OneRuns`), and a write under way contains the rows its partition holds
  (`FlightOK`), so that the rename takes none away. `ReadInv`: a row a backtest has listed
  was read, or is to be read and still there, or left with its partition. For the
  simulation (`SimInv`): at a bar of the timeline the strategy has been shown nothing after
  it, until a symbol loaded on demand moves the index to an earlier bar; it rests on the
  lemma that the date at an index is the one bar of that rank (`DateAtSpec`).

**Only model-checked.** Liveness (`OpenIsTemporary`, `OpenFillsRecorded`,
`EventsPublished`, `EndsWithItsSession`, `EveryRequestAnswered`, `StoppedGoesQuiet`,
`ShutdownEnds`, `Converges`, `EventuallyReady`, `ExpiryHappens`, `FeedCatchesUp`): fairness is
out of the prover's reach. Every invariant and every action property of the runs is a theorem.
The `Spec` of `feed` has its fairness inside.

## 6. Observations

Met while modelling; not runs of their own. The first of each list are reached by the
models, and properties that would otherwise fail except them.

Fills and tracker

* `trade/fill_applier.py:4` says that a fill is reflected exactly once however often it
  is observed. The poll records a fill; its stream notification, still on its way, is
  *added* to the recorded quantity (`fill_applier.py:153`).
* `18-fill-recovery.md:213` says that settlement has an exactly-once effect. The
  settlement fails once, `publish` hides it, the outbox row is marked
  (`fill_outbox.py:251`): never settled.
* `order_tracker.py:406`: a fill looked up before a cancellation commits after
  it; the row is open again and the cache, which evicted the order, ignores it.
* `order_tracker.py:535`: a fill observed after `mark_terminal` is not recorded,
  although `record_fill` is prepared for it.

Treasury, cancel and modify

* `18-fill-recovery.md:217` says that memory and rows do not part. A save whose values
  were bound before a settlement is written after it: the row forgets the fill, its key
  is stored, and a restart loads that row.
* `treasury.py:1230`: the snapshot of a settlement is taken before the lock is
  awaited; when the settlement fails, it undoes reservations and allocations made
  meanwhile.
* `treasury.py:1124`: when the save of a reservation fails, the order is rejected and
  the reservation stays in memory.
* `treasury.py:712`: a cancellation releases the whole remaining entry, including
  fills that are recorded and not yet settled; spent elsewhere meanwhile, the money
  is missing when they are.
* `gateway.py:393` and `gateway.py:654`: a cancellation is not asked whose order it is for. `treasury.py:1404`
  passes the bot that asked to `release_reservation`, which pops the entry of the order
  (`treasury.py:711`) and moves the amount in the budget of that bot (`treasury.py:718`): its own
  reservations are no longer covered or its `available` grows by money it never reserved
  (`gained`), and the owner's amount stays reserved for an order that ended (`lost`).
* `treasury.py:1752`: a restart loads what is reserved and not for which order; it
  stays reserved.
* A modification answered as rejected after its POST timed out may have been taken; an
  order partially filled while the modification waits is modified although
  modifying a partially filled order is "unsupported".

Stops and order path

* `gateway/stop_order.py:3` says that a stop that triggers becomes an order. The stream
  reconnects while the poll is in `_trigger_order`; the poll is cancelled, the stop is
  triggered and never ordered (`stream_integration.py:305`).
* A stop may trigger after it was announced as expired: the tick works from its list.
* `StopOrderManager.cancel` has no caller, while `api-gateway.md:282` says stops can
  be cancelled.
* `gateway.py:91` and `11-order-flow.md:67` argue that `place_order` starts
  synchronously after the gate. It then awaits token, rate limit and retries, so a
  POST may leave after the suspension. `KillSwitch` is therefore stated for the
  start of the last leg. The wait of a virtual market order for its price
  (`virtual.py:427`) is not followed by a second look either.
* `kis.py:941`: the POST of an order is retried after a time-out; what the broker
  took the first time it may take again (`placed` > 1).
* A virtual order of a deleted bot is answered by nobody (*dropped*). A bot stop
  releases the reservations of its live orders, too.
* `circuit_breaker.py:82`: `record_success` closes the breaker from any state, so
  the late answer of an earlier call ends OPEN without the HALF_OPEN trial that the
  module comment describes.

Bots

* `treasury.py:560`: two deletions of one bot that overlap release its budget twice
  (`twice`).
* `treasury.py:560-582`: an update or an allocation that is saved while a deletion awaits the row gives the
  deletion a row whose money stays in memory as well: the sum grows by it (`added`), with
  one deletion.
* A start during STOPPING, and `assign_strategy` racing a start, leave two loops of one
  object; `stop` cancels one of them. The other ends at its next look at the status.
* `assign_strategy` can start and save a bot deleted meanwhile; `del self._bots[bot_id]`
  removes an instance created meanwhile; the commit of an `update_bot` after deletion and
  new creation overwrites the new row; a soft-deleted row keeps the status "deleted" when
  the bot is created again.
* A restart task superseded by a later one survives `stop_all`, although
  `docs/specs/bot/03-design-decisions.md:103` says pending restarts are cancelled; a pending restart
  starts the bot of an account suspended meanwhile.
* `on_external_signal` looks at the status before it awaits the lock.
  `BotManager.load_from_db` is not called by `main.py`.

Reconciliation

* A pass reads the broker's holdings, an own fill is recorded, the pass reads the
  position: the own fill is "corrected" away (`overlap`); a later pass repairs it.
* `trade/position.py:147-180`: a sell is recorded before the buy it sells from; the position
  is clamped at zero with a warning that reconciliation is needed, the buy is added in full
  later, and the excess is of the bot's own fills: the reconciler does correct it
  (`clipped`). The attempt to prove `OwnFillsLeftAlone` for any number of orders found it, and TLC showed
  it with a buy of two and two sells of one; with the one sell of `reconcile` a clamp comes to a
  correction only together with another exception.
* `reconciler.py:588-599`: when the query of the open orders fails, an own fill counts as
  external and is "corrected" (`blind`).
* `correct_position` logs an old quantity read before the others changed it.
* Orders that stay partially filled never expire, so their capacity masks external
  trades of that size; shares held before together with an executing buy exceed the capacity.
* Registering an account again loses the set of fallback fills to verify; a fill inferred
  for an order that never executed leaves that set without an alert.

Process and sessions

* A shutdown that exceeds its 30 seconds, and an initialisation that fails, remove the PID
  file while the database is still open (`cut`): the cold path may then write beside it.
  Its guard is a check before the act in any case.
* Queries in flight are not awaited before `db.close`; one signal already in flight reaches the strategy
  after its session was closed.
* `ipc/registry.py:757`: a session whose key is rotated between its check and its
  registration stays open with the old key.
* A handler past dispatch may connect a broker after the loop that disconnects them.

Control plane

* `suspend` changes the memory before the row; a failing row leaves the account suspended
  in memory only (`unsaved`), a repeated halt finds it suspended and writes nothing, and
  `suspend_all` stops at the first failure. A halt that overlaps an activation of all
  leaves a mixture.
* `suspend` and `reactivate` of a member that read the row before a revocation overwrite it.
* After `member reset-password` the master has no token, and a token needs one
  (`recovery_key_manager.py:83`, against `guide/modules.md:46` and
  `docs/specs/member/01-overview.md:21`); an expired token of the master cannot be rotated
  (`auth_service.py:86`). A crash between the new password and the
  invalidation of tokens leaves the old ones valid. The process trusts the actor's name
  the command line authenticated.
* Two approvals of one request that overlap execute it twice
  (`docs/specs/approval/06-status-flow.md` has one execution); a success whose history cannot be written is marked
  execution_failed and may be executed again; a crash between the approved row and the
  executor leaves it approved and not executed. The validator of `bot_assign_strategy`
  always passes (`docs/specs/approval/08-approval-service.md` lists its checks).
* An approved rule_change is only in the memory of the engine
  (`docs/specs/rule-engine/09-rule-management.md:84`); `rule.update` without a stored configuration
  drops the seed rules; `config set` of a rules key stores it under the category "user"
  (`ipc/registry.py:1293`, `rule/engine.py:1645`) and the engine is not
  reloaded (`missed`, "bypassed"); an update whose history fails is stored and not announced
  ("unsent"); a start that cannot read the store takes the seed (`rule/manager.py:157-160`,
  "unread"); two updates at once lose one; the documents say `max_daily_loss_rate`, the code
  `..._percent`; a position limit of 0 is no limit.
* A Telegram update delivered twice is handled twice.

Store, feed, backtest

* `orchestrator.py:241` says the race for the lock is removed. The file is created
  exclusively and its PID written later: a second starter that reads the empty file
  unlinks it and both run (`raced`). Two that read a stale lock do the same, and a
  release unlinks whoever's lock it finds. `feed inject` and `DataCollector` take no lock.
* A merge the store refuses withholds the checkpoint of that date only; the next date
  moves it past (`backfill_runner.py:488`, `dart_collector.py:292`).
* The daily DART run saves its quarter to the checkpoint the backfill uses; earlier quarters
  are skipped (`dart_collector.py:124`). A backfill with no dates left for data.go.kr
  returns before DART. Empty answers are passed over by design.
* `data validate --fix` sweeps temporary files of writers that live and may quarantine a
  partition repaired meanwhile.
* A symbol loaded on demand that has earlier bars moves the clock of a backtest
  back (`data_provider.py`).

## 7. Plan

1. The rate limiter's window and the gateway's request queue; the event bus's priorities
   and `FillDedupGuard`; the outbox publisher's back-off and escalation.
2. Creation, change and deletion of accounts beside commands; liquidation of a bot's positions on deletion.

## 8. Not modelled

* Amounts beyond integers of won, average prices, profit: numeric, no control.
* Formats of KIS messages, pagination, SQL schemas, logs, the texts of notifications.
* Several accounts in one model (except in `StopOrders`, `Accounts` and `KillSwitch`):
  handlers drop the events of other accounts first (`_is_my_event`).
* The rate limiter's window is a real-time quantity; the models have the wait for it.
* Creation, change and deletion of accounts: refused while the process trades.
* The queries of the gateway, of the command line and of signal sessions: they change
  nothing.
* Daily snapshots and the transaction log of the treasury, performance, reports, audit,
  instruments, updates, migrations, contracts, static configuration: inserts, tables and
  files no other task interferes with.
* `ante data delete` (`cli/commands/data.py:186`, `data/datasets.py:159`) and `delete_file` of the store: rows that
  somebody removes on purpose.
* `config set` with a category in its arguments: the one caller, the command line, sends none.
* What an already authenticated command of a member does after the revocation: it finishes
  (`RevokedStaysOut` is about authentication).
* What two runs of the feed do to the store after both took the lock, and
  overlapping passes of the reconciler.
