------------------------------ MODULE Treasury ------------------------------
(***************************************************************************)
(* The budget of the bots of one account (treasury/treasury.py): how money *)
(* is allocated to a bot, reserved for a buy order, settled fill by fill   *)
(* and given back.  The budgets and the per-order reservations live in     *)
(* memory; the budgets, the account balance and the keys of the settled    *)
(* fills are also rows of the database.                                    *)
(*                                                                         *)
(* An operation changes the memory at once and then awaits                 *)
(* Database._write_lock with the values it wants to write already bound,   *)
(* so what reaches the database is what memory held when the operation     *)
(* queued (writes, first come first served).  The settlement of a fill is  *)
(* a transaction: it takes a snapshot, queues for the lock, and changes    *)
(* the memory only when it holds it.                                       *)
(*                                                                         *)
(* This module has the books and their operations; Amend adds what a       *)
(* strategy asks for its orders and is the specification.  release_budget  *)
(* is in Bots.  Left out: the audit rows of _log_transaction and the       *)
(* fields of treasury_state but the balance.                               *)
(***************************************************************************)
EXTENDS Integers, Sequences, FiniteSets, FiniteSetsExt, Functions

CONSTANTS
    Bots, Orders,
    BotOf,        \* the bot of an order
    Sells,        \* the sell orders; the others buy
    Virtual,      \* the orders of a virtual account, which VirtualProvider fills: no
                  \* tracker record, no key
    Mixes,        \* the orders a behaviour may have, of a live or of a virtual account
    Crew,         \* the bots that are given money and started in a behaviour with a mix
    Qty,          \* ordered_qty
    ReserveOf,    \* total_reserve: quantity * price and commission
    Costs,        \* what one share may cost or return, commission included
    Amounts,      \* what allocate, deallocate may be asked for
    Balances,     \* what the broker may report as cash in a behaviour with a mix
    Opening,      \* what it may have reported last when a behaviour begins
    MaxQueue,     \* bound: tasks waiting for the write lock at a time
    MaxFaults,    \* bound: process crashes and database errors in a behaviour
    MaxIncidents  \* bound: faults, changes of the balance and actions of strategies
                  \* on their orders in a behaviour

ASSUME OrdersAssumption ==
    /\ "none" \notin Orders
    /\ BotOf \in [Orders -> Bots]
    /\ Qty \in [Orders -> Nat \ {0}]
    /\ ReserveOf \in [Orders -> Nat \ {0}]
    /\ Sells \subseteq Orders /\ Virtual \subseteq Orders
    /\ \A m \in Mixes : m \subseteq Virtual \/ m \subseteq Orders \ Virtual
    /\ Crew \in [Mixes -> SUBSET Bots]
ASSUME MoneyAssumption ==
    /\ Costs \subseteq Nat \ {0} /\ Amounts \subseteq Nat \ {0}
    /\ Balances \in [Mixes -> SUBSET Nat] /\ Opening \subseteq Nat
ASSUME BoundsAssumption == {MaxQueue, MaxFaults, MaxIncidents} \subseteq Nat

VARIABLES
    (* memory *)
    balance,      \* _account_balance
    unallocated,  \* _unallocated
    budget,       \* _budgets: bot -> BotBudget, only for the bots that have one
    resv,         \* _reservations: order -> remaining_reserved
    fill,         \* the task inside _on_order_filled
    up,
    (* database *)
    row,          \* bot_budgets
    stored,       \* treasury_state.account_balance
    keys,         \* treasury_fill_dedup
    writes,       \* who waits for the write lock, with the values to write
    (* the rest of the system *)
    mix,          \* the orders of this behaviour
    running,      \* the bots in operation
    ord,          \* "new", "reserving", "approved", "ended"
    events,       \* OrderFilledEvents FillApplier committed to the outbox
    next,         \* the first of them the publisher has not marked
    direct,       \* what an order VirtualProvider filled has cost or returned
    crashes, errors,
    others,       \* incidents that are not faults
    (* history: what a cancellation that another bot asked for has done *)
    gained,       \* the bots whose budget got what was reserved for another's order
    lost          \* the bots whose budget did not get it back

memory == <<balance, unallocated, budget, resv>>
database == <<row, stored, keys>>
outbox == <<events, next, direct>>
world == <<running, ord, outbox>>
crossed == <<gained, lost>>
vars == <<mix, crossed, memory, fill, up, database, writes, world, crashes, errors, others>>

-----------------------------------------------------------------------------
(* BotBudget and its arithmetic. *)

NewBudget == [allocated |-> 0, available |-> 0, reserved |-> 0, spent |-> 0, returned |-> 0]

\* max(0.0, a - b)
Minus(a, b) == Max({0, a - b})

\* Values of a budget an operation leaves behind.
Allocated(bg, a) == [bg EXCEPT !.allocated = @ + a, !.available = @ + a]
Reserved(bg, a) == [bg EXCEPT !.available = @ - a, !.reserved = @ + a]
Released(bg, a) == [bg EXCEPT !.reserved = Minus(@, a), !.available = @ + a]
Returned(bg, a) == [bg EXCEPT !.returned = @ + a, !.available = @ + a]

\* Mutant: what the reservation does not cover is not charged to available.
SpentNoShortfall(bg, cost, covered) ==
    [bg EXCEPT !.reserved = Minus(@, covered), !.spent = @ + cost]

\* _settle_buy_fill: the reservation pays what it covers, available the rest.
Spent(bg, cost, covered) ==
    [bg EXCEPT !.reserved = Minus(@, covered), !.spent = @ + cost,
               !.available = @ - (cost - covered)]

\* _settle_buy_full_fill: the whole reservation goes, surplus or shortfall moves
\* available.
SpentOnce(bg, cost, reserved) ==
    [bg EXCEPT !.reserved = Minus(@, reserved), !.spent = @ + cost,
               !.available = @ + (reserved - cost)]

Remaining(o) == IF o \in DOMAIN resv THEN resv[o] ELSE 0
Without(f, x) == Restrict(f, DOMAIN f \ {x})
With(f, x, v) == [y \in DOMAIN f \cup {x} |-> IF y = x THEN v ELSE f[y]]

TotalAllocated(bs) == SumFunction([b \in DOMAIN bs |-> bs[b].allocated])

\* What the reservations r of the orders of b add up to.
Held(r, b) == SumFunctionOnSet(r, {o \in DOMAIN r : BotOf[o] = b})

Fills(o) == {i \in 1..Len(events) : events[i].order = o}

\* min(remaining, actual_cost)
Covered(o, cost) == Min({Remaining(o), cost})

\* Mutant: > instead of >=.
TerminalTooLate(o) == Cardinality(Fills(o)) > Qty[o]

\* recorded_filled_qty >= ordered_qty, as the tracker has it now.
Terminal(o) == Cardinality(Fills(o)) >= Qty[o]

-----------------------------------------------------------------------------
(* The write lock. *)

\* _save_budget: the tuple of values is built before the lock is awaited.  order
\* is the one reserve_for_order saves for, if any; more says that _save_state
\* follows.
Save(b, bg, o, more) == [kind |-> "budget", bot |-> b, val |-> bg, order |-> o, more |-> more]
SaveState(c, more) == [kind |-> "state", val |-> c, more |-> more]
Settlement == [kind |-> "fill"]
NoOrder == "none"

\* The locals of _on_order_filled: the snapshot, and the budget it has written.
Idle == [pc |-> "idle", budget |-> NewBudget, resv |-> 0, present |-> FALSE, staged |-> NewBudget]
Finished == [Idle EXCEPT !.pc = "done"]

\* One more incident, or fault, is followed.
Incident == crashes + errors + others < MaxIncidents
Faulty == Incident /\ crashes + errors < MaxFaults

\* A running process, and room for one more to wait.
Ready == up /\ Len(writes) < MaxQueue

\* Account.trading_mode.
Live == mix \cap Virtual = {}

\* An order that has not been requested yet.
Unrequested(o) == o \in mix /\ ord[o] = "new"

\* The lock is free for the head of the queue.
LockFree == up /\ writes # <<>> /\ fill.pc \notin {"begun", "settled"}

InitBooks ==
    /\ mix \in Mixes
    /\ balance \in Opening
    /\ unallocated = balance
    /\ budget = <<>>
    /\ resv = <<>>
    /\ fill = Idle
    /\ up = TRUE
    /\ row = <<>>
    /\ stored = balance
    /\ keys = {}
    /\ writes = <<>>
    /\ running = {}
    /\ ord = [o \in Orders |-> "new"]
    /\ events = <<>>
    /\ next = 1
    /\ direct = <<>>
    /\ crashes = 0
    /\ errors = 0
    /\ others = 0
    /\ gained = {}
    /\ lost = {}

\* _do_sync after sync_balance: the rest of the report is saved, unless the broker
\* does not give the purchasable amount or the positions.
SyncRest(w) == IF w.more THEN {Append(Tail(writes), SaveState(balance, FALSE))} ELSE {}

\* The head of the queue is written; its task goes on.
Write ==
    /\ LockFree
    /\ LET w == Head(writes)
       IN  \/ /\ w.kind = "budget"
              /\ row' = With(row, w.bot, w.val)
              /\ ord' = IF w.order = NoOrder THEN ord ELSE [ord EXCEPT ![w.order] = "approved"]
              /\ writes' = Tail(writes) \o (IF w.more THEN <<SaveState(balance, FALSE)>> ELSE <<>>)
              /\ UNCHANGED stored
           \/ /\ w.kind = "state"
              /\ stored' = w.val
              /\ writes' \in {Tail(writes)} \cup SyncRest(w)
              /\ UNCHANGED <<row, ord>>
    /\ UNCHANGED <<mix, crossed, memory, fill, up, keys, running, outbox, crashes, errors, others>>

\* The write raises: _on_order_validated turns it into a rejection; the memory
\* keeps what the operation did.
WriteFails ==
    /\ LockFree
    /\ Faulty
    /\ errors' = errors + 1
    /\ LET w == Head(writes)
       IN  /\ w.kind # "fill"
           /\ ord' = IF w.kind = "budget" /\ w.order # NoOrder
                     THEN [ord EXCEPT ![w.order] = "ended"] ELSE ord
           /\ writes' = Tail(writes)
    /\ UNCHANGED <<mix, crossed, memory, fill, up, database, running, outbox, crashes, others>>

-----------------------------------------------------------------------------
(* Allocation. *)

\* set_account_balance, or sync_balance in a cycle of the loop: unallocated is
\* recomputed.
SyncBalance(c) ==
    /\ Ready
    /\ c # balance
    /\ Incident /\ others' = others + 1
    /\ balance' = c
    /\ unallocated' = c - TotalAllocated(budget)
    /\ \E cycle \in {FALSE, Live} : writes' = Append(writes, SaveState(c, cycle))
    /\ UNCHANGED <<mix, crossed, budget, resv, fill, up, database, world, crashes, errors>>

\* _do_sync_virtual: a virtual account values its positions and saves; its balance
\* stays.
SyncVirtual ==
    /\ Ready
    /\ ~Live
    /\ writes' = Append(writes, SaveState(balance, FALSE))
    /\ UNCHANGED <<mix, crossed, memory, fill, up, database, world, crashes, errors, others>>

\* allocate: only for a bot that is not in operation, only what is unallocated.
Allocate(b, a) ==
    /\ Ready
    /\ b \in Crew[mix]
    /\ b \notin running
    /\ a <= unallocated
    /\ LET bg == Allocated(IF b \in DOMAIN budget THEN budget[b] ELSE NewBudget, a)
       IN  /\ budget' = With(budget, b, bg)
           /\ writes' = Append(writes, Save(b, bg, NoOrder, TRUE))
    /\ unallocated' = unallocated - a
    /\ UNCHANGED <<mix, crossed, balance, resv, fill, up, database, world, crashes, errors, others>>

\* deallocate: only what is available.
Deallocate(b, a) ==
    /\ Ready
    /\ b \notin running
    /\ b \in DOMAIN budget
    /\ a <= budget[b].available
    /\ LET bg == Allocated(budget[b], -a)
       IN  /\ budget' = With(budget, b, bg)
           /\ writes' = Append(writes, Save(b, bg, NoOrder, TRUE))
    /\ unallocated' = unallocated + a
    /\ UNCHANGED <<mix, crossed, balance, resv, fill, up, database, world, crashes, errors, others>>

\* update_budget: the difference to the target is allocated or taken back.
UpdateBudget(b, target) ==
    LET diff == target - (IF b \in DOMAIN budget THEN budget[b].allocated ELSE 0)
    IN  \/ diff > 0 /\ Allocate(b, diff)
        \/ diff < 0 /\ Deallocate(b, -diff)

-----------------------------------------------------------------------------
(* Orders. *)

\* _on_order_validated for a buy that reserve_for_order accepts: the order is
\* approved once its save returns.
Reserve(o) ==
    /\ Ready
    /\ Unrequested(o)
    /\ o \notin Sells
    /\ BotOf[o] \in DOMAIN budget
    /\ ReserveOf[o] <= budget[BotOf[o]].available
    /\ LET bg == Reserved(budget[BotOf[o]], ReserveOf[o])
       IN  /\ budget' = With(budget, BotOf[o], bg)
           /\ writes' = Append(writes, Save(BotOf[o], bg, o, FALSE))
    /\ resv' = With(resv, o, ReserveOf[o])
    /\ ord' = [ord EXCEPT ![o] = "reserving"]
    /\ UNCHANGED <<mix, crossed, balance, unallocated, fill, up, database, running, outbox, crashes, errors, others>>

\* _on_order_validated for a sell: approved at once.
ApproveSell(o) ==
    /\ up
    /\ Unrequested(o)
    /\ o \in Sells
    /\ ord' = [ord EXCEPT ![o] = "approved"]
    /\ UNCHANGED <<mix, crossed, memory, fill, up, database, writes, running, outbox, crashes, errors, others>>

\* _on_order_validated rejects: the account is not ready, no quote, the amount is
\* not positive, or the budget is insufficient.
RejectOrder(o) ==
    /\ up
    /\ Unrequested(o)
    /\ ord' = [ord EXCEPT ![o] = "ended"]
    /\ UNCHANGED <<mix, crossed, memory, fill, up, database, writes, running, outbox, crashes, errors, others>>

\* OrderCancelledEvent, OrderFailedEvent: release_reservation takes the entry of the
\* order and gives what it has left to the bot b of the event, which is the bot that
\* asked for a cancellation and need not be the one that reserved.
OrderEnds(o, b) ==
    /\ Ready
    /\ ord[o] = "approved"
    /\ ord' = [ord EXCEPT ![o] = "ended"]
    /\ resv' = Without(resv, o)
    /\ IF b \in DOMAIN budget /\ Remaining(o) > 0
       THEN /\ budget' = With(budget, b, Released(budget[b], Remaining(o)))
            /\ writes' = Append(writes, Save(b, budget'[b], NoOrder, FALSE))
       ELSE UNCHANGED <<budget, writes>>
    /\ LET foreign == b # BotOf[o] /\ Remaining(o) > 0
       IN  /\ gained' = gained \cup (IF foreign THEN {b} \cap DOMAIN budget ELSE {})
           /\ lost' = lost \cup (IF foreign THEN {BotOf[o]} ELSE {})
    /\ UNCHANGED <<mix, balance, unallocated, fill, up, database, running, outbox, crashes, errors, others>>

\* The manager starts a bot.
StartBot(b) ==
    /\ up
    /\ b \in Crew[mix]
    /\ b \notin running
    /\ running' = running \cup {b}
    /\ UNCHANGED <<mix, crossed, memory, fill, up, database, writes, ord, outbox, crashes, errors, others>>

\* BotStoppedEvent: every reservation of the bot is given back.
BotStopped(b) ==
    /\ Ready
    /\ b \in running
    /\ running' = running \ {b}
    /\ LET pending == {o \in DOMAIN resv : BotOf[o] = b}
       IN  /\ resv' = Restrict(resv, DOMAIN resv \ pending)
           /\ IF pending # {} /\ b \in DOMAIN budget
              THEN /\ budget' = With(budget, b, Released(budget[b], Held(resv, b)))
                   /\ writes' = Append(writes, Save(b, budget'[b], NoOrder, FALSE))
              ELSE UNCHANGED <<budget, writes>>
    /\ UNCHANGED <<mix, crossed, balance, unallocated, fill, up, database, ord, outbox, crashes, errors, others>>

-----------------------------------------------------------------------------
(* Fills. *)

\* FillApplier records a share and queues its event; the last one completes the
\* order.
TrackerFill(o, cost) ==
    /\ up
    /\ ord[o] = "approved"
    /\ o \notin Virtual
    /\ Cardinality(Fills(o)) < Qty[o]
    /\ events' = Append(events, [order |-> o, cost |-> cost])
    /\ ord' = IF Cardinality(Fills(o)) + 1 = Qty[o] THEN [ord EXCEPT ![o] = "ended"] ELSE ord
    /\ UNCHANGED <<mix, crossed, memory, fill, up, database, writes, running, next, direct, crashes, errors, others>>

\* An event without a key (VirtualProvider): settled at once, no transaction.
VirtualFill(o, cost) ==
    /\ Ready
    /\ ord[o] = "approved"
    /\ o \in Virtual
    /\ ord' = [ord EXCEPT ![o] = "ended"]
    /\ LET b == BotOf[o]
       IN  IF b \in DOMAIN budget
           THEN /\ budget' = With(budget, b, IF o \in Sells THEN Returned(budget[b], cost)
                                             ELSE SpentOnce(budget[b], cost, Remaining(o)))
                /\ resv' = Without(resv, o)
                /\ writes' = Append(writes, Save(b, budget'[b], NoOrder, FALSE))
                /\ direct' = With(direct, o, cost)
           ELSE UNCHANGED <<budget, resv, writes, direct>>
    /\ UNCHANGED <<mix, crossed, balance, unallocated, fill, up, database, running, events, next, crashes, errors, others>>

Event == events[next]
Bot == BotOf[Event.order]

\* _on_order_filled up to the lock: snapshot of the budget and of the reservation.
FillStart ==
    /\ Ready
    /\ next <= Len(events)
    /\ fill.pc = "idle"
    /\ IF Bot \in DOMAIN budget
       THEN /\ fill' = [Idle EXCEPT !.pc = "waiting", !.budget = budget[Bot],
                                    !.resv = Remaining(Event.order),
                                    !.present = Event.order \in DOMAIN resv]
            /\ writes' = Append(writes, Settlement)
       ELSE /\ fill' = Finished
            /\ UNCHANGED writes
    /\ UNCHANGED <<mix, crossed, memory, up, database, world, crashes, errors, others>>

\* BEGIN and INSERT OR IGNORE of the key: a key that is there ends the handler.
FillBegin ==
    /\ LockFree
    /\ Head(writes) = Settlement
    /\ writes' = Tail(writes)
    /\ fill' = IF next \in keys THEN Finished ELSE [fill EXCEPT !.pc = "begun"]
    /\ UNCHANGED <<mix, crossed, memory, up, database, world, crashes, errors, others>>

\* _apply_fill_settlement: the tracker is asked whether the order is complete, the
\* memory changes, _save_budget joins the transaction.
FillSettle ==
    /\ fill.pc = "begun"
    /\ LET o == Event.order
           covered == Covered(o, Event.cost)
           left == Remaining(o) - covered
           paid == Spent(budget[Bot], Event.cost, covered)
       IN  \/ /\ o \in Sells
              /\ budget' = With(budget, Bot, Returned(budget[Bot], Event.cost))
              /\ UNCHANGED resv
           \/ /\ o \notin Sells /\ Terminal(o)
              /\ budget' = With(budget, Bot, Released(paid, left))
              /\ resv' = Without(resv, o)
           \/ /\ o \notin Sells /\ ~Terminal(o)
              /\ budget' = With(budget, Bot, paid)
              /\ resv' = IF o \in DOMAIN resv THEN With(resv, o, left) ELSE resv
    /\ fill' = [fill EXCEPT !.pc = "settled", !.staged = budget'[Bot]]
    /\ UNCHANGED <<mix, crossed, balance, unallocated, up, database, writes, world, crashes, errors, others>>

\* COMMIT: the key and the row.
FillCommit ==
    /\ fill.pc = "settled"
    /\ row' = With(row, Bot, fill.staged)
    /\ keys' = keys \cup {next}
    /\ fill' = Finished
    /\ UNCHANGED <<mix, crossed, memory, up, stored, writes, world, crashes, errors, others>>

\* Mutant: the handler forgets to restore the memory.
FillRollbackKeepsMemory ==
    /\ fill.pc \in {"begun", "settled"}
    /\ Faulty
    /\ errors' = errors + 1
    /\ fill' = Finished
    /\ UNCHANGED <<mix, crossed, memory, up, database, writes, world, crashes, others>>

\* A statement or the COMMIT fails: ROLLBACK, the snapshot is put back and the
\* exception is swallowed by EventBus.publish.
FillRollback ==
    /\ fill.pc \in {"begun", "settled"}
    /\ Faulty
    /\ errors' = errors + 1
    /\ budget' = With(budget, Bot, fill.budget)
    /\ resv' = IF fill.present THEN With(resv, Event.order, fill.resv)
                               ELSE Without(resv, Event.order)
    /\ fill' = Finished
    /\ UNCHANGED <<mix, crossed, balance, unallocated, up, database, writes, world, crashes, others>>

\* The publisher marks the event and goes on to the next one.
MarkPublished ==
    /\ up
    /\ fill.pc = "done"
    /\ fill' = Idle
    /\ next' = next + 1
    /\ UNCHANGED <<mix, crossed, memory, up, database, writes, running, ord, events, direct, crashes, errors, others>>

\* mark_published raises: the event will be delivered again.
MarkFails ==
    /\ up
    /\ fill.pc = "done"
    /\ Faulty
    /\ errors' = errors + 1
    /\ fill' = Idle
    /\ UNCHANGED <<mix, crossed, memory, up, database, writes, world, crashes, others>>

-----------------------------------------------------------------------------
(* The process. *)

\* Memory, queued writes and an open transaction are lost; an order whose approval
\* was still to be published never reaches the broker.
Crash ==
    /\ up
    /\ Faulty
    /\ crashes' = crashes + 1
    /\ up' = FALSE
    /\ fill' = Idle
    /\ writes' = <<>>
    /\ running' = {}
    /\ ord' = [o \in Orders |-> IF ord[o] = "reserving" THEN "ended" ELSE ord[o]]
    /\ UNCHANGED <<mix, crossed, memory, database, outbox, errors, others>>

\* _load_from_db: the budgets come back, the reservations do not.
Restart ==
    /\ ~up
    /\ up' = TRUE
    /\ balance' = stored
    /\ budget' = row
    /\ unallocated' = stored - TotalAllocated(row)
    /\ resv' = <<>>
    /\ UNCHANGED <<mix, crossed, fill, database, writes, world, crashes, errors, others>>

\* What leaves the strategy's requests and the broker's side of the orders alone.
Books ==
    \/ SyncVirtual \/ \E c \in Balances[mix] : SyncBalance(c)
    \/ \E b \in Bots, a \in Amounts : Allocate(b, a) \/ Deallocate(b, a) \/ UpdateBudget(b, a)
    \/ \E b \in Bots : StartBot(b)
    \/ \E o \in Orders :
          \/ Reserve(o) \/ ApproveSell(o) \/ RejectOrder(o) \/ OrderEnds(o, BotOf[o])
          \/ \E c \in Costs : VirtualFill(o, c)
    \/ FillStart \/ FillBegin \/ FillSettle \/ FillCommit \/ FillRollback
    \/ MarkPublished \/ MarkFails
    \/ Write \/ WriteFails
    \/ Restart

-----------------------------------------------------------------------------
(* What keeps the books right. *)

Balanced(bg) == bg.available = bg.allocated - bg.reserved - bg.spent + bg.returned

\* Money is always accounted for, in memory, in the database and in every save on
\* its way, whatever order reservations, partial fills, cancellations, bot stops,
\* synchronisations and a restart come in: what a bot has available is allocated -
\* reserved - spent + returned (03-treasury-model.md:72; the max(0, ..) of
\* treasury.py would hide a reservation released twice), and what is unallocated is
\* the balance without the allocations, so that no won is in two places.  A
\* settlement that fails is an exception: its snapshot (treasury.py:1230) undoes
\* what others did to the budget while it waited.  A bot that cancelled the order of
\* another one is one too: it was given money it had not reserved (treasury.py:1404).
BooksBalance ==
    errors = 0 =>
        /\ \A b \in DOMAIN budget \ gained : Balanced(budget[b])
        /\ \A b \in DOMAIN row \ gained : Balanced(row[b])
        /\ \A i \in DOMAIN writes :
              writes[i].kind = "budget" /\ writes[i].bot \notin gained => Balanced(writes[i].val)
        /\ up => unallocated = balance - TotalAllocated(budget)

\* The fills memory has settled: the committed ones and the one being committed.
SettledFills == keys \cup (IF fill.pc = "settled" THEN {next} ELSE {})

\* What the fills K among the events ev of the orders S of b, or the direct fills d of them, have cost or returned.
Charged(ev, K, b, S) ==
    SumFunctionOnSet([i \in K |-> ev[i].cost],
                     {i \in K : BotOf[ev[i].order] = b /\ ev[i].order \in S})
Direct(d, b, S) == SumFunctionOnSet(d, {o \in DOMAIN d \cap S : BotOf[o] = b})

\* A fill changes the budget exactly once, however its transaction ends and
\* whatever runs while it waits: spent and returned are the settled fills, those of
\* VirtualProvider included.  (The dedup key and the snapshot of _on_order_filled.)
\* A restart is the exception: the row it loads may be older than the key.
SpentMatchesSettlements ==
    crashes = 0 => \A b \in DOMAIN budget :
        LET settled(S) == Charged(events, SettledFills, b, S) + Direct(direct, b, S)
        IN  /\ budget[b].spent = settled(Orders \ Sells)
            /\ budget[b].returned = settled(Sells)

\* Nothing is under way.
Quiet == up /\ writes = <<>> /\ fill = Idle /\ next > Len(events)

\* Once every order has ended and every fill is settled, nothing is reserved: no
\* reservation survives its order (03-treasury-model.md:44).  A restart is an
\* exception, as _load_from_db brings back what is reserved and not for which order,
\* and so is a failed write (treasury.py:1124).  After a cancellation by another bot
\* no entry is left either, but the budget of the owner keeps the amount and that of
\* the other one has lost as much (treasury.py:711-718).
EndedOrdersHoldNothing ==
    Quiet /\ crashes + errors = 0 /\ (\A o \in Orders : ord[o] \in {"new", "ended"})
        => /\ resv = <<>>
           /\ \A b \in DOMAIN budget \ (gained \cup lost) : budget[b].reserved = 0
=============================================================================
