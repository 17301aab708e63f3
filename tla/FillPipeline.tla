---------------------------- MODULE FillPipeline ----------------------------
(***************************************************************************)
(* How a fill at the broker becomes an entry of ante's books: the tracked  *)
(* orders and their open cache (trade/order_tracker.py), the single choke  *)
(* point FillApplier (trade/fill_applier.py), the position history         *)
(* (trade/position.py), the transactional outbox and its publisher         *)
(* (trade/fill_outbox.py) and the idempotent settlement of Treasury        *)
(* (treasury.py, _on_order_filled), for one account, one bot and one       *)
(* symbol.                                                                 *)
(*                                                                         *)
(* One action is the code between two awaits.  A database transaction, and *)
(* every single write, holds Database._write_lock until the task that      *)
(* issued it resumes; reads go through the reader connection and see       *)
(* committed rows only, at any time.                                       *)
(***************************************************************************)
EXTENDS Integers, Sequences, FiniteSets

CONSTANTS
    Orders,      \* the orders ante submits
    Ordered,     \* ordered_qty of each order
    Buys,        \* the orders with side = "buy"; the others sell
    EndStatuses, \* the terminal statuses lifecycle events bring
    StreamOn,    \* is the real-time notification stream subscribed?
    MaxCrashes,  \* bound: process crashes in a behaviour
    MaxErrors    \* bound: database errors in a behaviour

ASSUME OrderedAssumption == Ordered \in [Orders -> Nat \ {0}]
ASSUME BuysAssumption == Buys \subseteq Orders
ASSUME EndStatusesAssumption == EndStatuses \subseteq {"cancelled", "rejected", "failed"}
ASSUME BoundsAssumption == StreamOn \in BOOLEAN /\ MaxCrashes \in Nat /\ MaxErrors \in Nat

VARIABLES
    (* the broker *)
    bstate,     \* "new", "live", "closed": cancelled there or past its day
    bfilled,    \* cumulative filled quantity the broker reports
    notices,    \* per-execution stream notifications not yet handled
    (* the database, committed *)
    status,     \* order_tracker.status, "none" without a row
    recorded,   \* order_tracker.recorded_filled_qty
    traded,     \* sum of trades.quantity
    position,   \* positions.quantity
    outbox,     \* fill_outbox, by id
    dedup,      \* treasury_fill_dedup, the keys settled
    (* the process *)
    up,         \* is the process running?
    seed,       \* OrderSubmittedEvent: "none", "pending", "handled", "lost"
    cache,      \* OrderTracker._open_cache
    posCache,   \* PositionHistory._position_cache
    apply,      \* the task inside FillApplier._lock
    batch,      \* outbox ids the publisher fetched and has not marked
    handed,     \* the id of batch that was published and is not yet marked, or 0
    (* history and bounds *)
    delivered,  \* how often each outbox row reached the consumers
    settled,    \* how often each outbox row was settled by Treasury
    crashes, errors

brokerVars == <<bstate, bfilled, notices>>
ledgerVars == <<status, recorded, traded, position, outbox>>
pubVars == <<batch, handed, delivered, settled, dedup>>
boundVars == <<crashes, errors>>
vars == <<brokerVars, ledgerVars, dedup, up, seed, cache, posCache, apply, batch, handed,
          delivered, settled, boundVars>>

-----------------------------------------------------------------------------
(* order_tracker.status *)

OpenStatuses == {"open", "partially_filled"}
Statuses == {"none", "expired", "filled", "cancelled", "rejected", "failed"} \cup OpenStatuses

\* A cache entry mirrors status and recorded_filled_qty of an open order.
NotCached == [status |-> "none", recorded |-> 0]

Entry(o) == [status |-> status[o], recorded |-> recorded[o]]

\* FillApplier between its awaits: "looked" has the tracked order, "staged" is
\* inside the transaction, "committed" has committed and not yet resumed.
Idle == [pc |-> "idle"]
Applying(pc, o, cum) == [pc |-> pc, order |-> o, cum |-> cum]

\* Database._write_lock is free: nobody is between BEGIN and its resumption.
WriterFree == apply.pc \notin {"staged", "committed"}

\* fill_dedup_key = order_id:confirmed_cumulative.
Key(row) == <<row.order, row.cum>>

BrokerTypes ==
    /\ bstate \in [Orders -> {"new", "live", "closed"}]
    /\ bfilled \in [Orders -> Nat]
    /\ notices \in [Orders -> Nat]

LedgerTypes ==
    /\ status \in [Orders -> Statuses]
    /\ recorded \in [Orders -> Nat]
    /\ traded \in [Orders -> Nat]
    /\ position \in Nat
    /\ outbox \in Seq([order : Orders, cum : Nat, qty : Nat, published : BOOLEAN])

ProcessTypes ==
    /\ up \in BOOLEAN
    /\ seed \in [Orders -> {"none", "pending", "handled", "lost"}]
    /\ cache \in [Orders -> [status : OpenStatuses \cup {"none"}, recorded : Nat]]
    /\ posCache \in Nat
    /\ \/ apply = Idle
       \/ apply \in [pc : {"looked", "staged", "committed"}, order : Orders, cum : Nat]

PublisherTypes ==
    /\ batch \subseteq 1..Len(outbox)
    /\ handed \in batch \cup {0}
    /\ delivered \in Seq(Nat) /\ Len(delivered) = Len(outbox)
    /\ settled \in Seq(Nat) /\ Len(settled) = Len(outbox)
    /\ dedup \subseteq Orders \X Nat

BoundTypes ==
    /\ crashes \in 0..MaxCrashes
    /\ errors \in 0..MaxErrors

TypeOK == BrokerTypes /\ LedgerTypes /\ ProcessTypes /\ PublisherTypes /\ BoundTypes

Init ==
    /\ bstate = [o \in Orders |-> "new"]
    /\ bfilled = [o \in Orders |-> 0]
    /\ notices = [o \in Orders |-> 0]
    /\ status = [o \in Orders |-> "none"]
    /\ recorded = [o \in Orders |-> 0]
    /\ traded = [o \in Orders |-> 0]
    /\ position = 0
    /\ outbox = <<>>
    /\ dedup = {}
    /\ up = TRUE
    /\ seed = [o \in Orders |-> "none"]
    /\ cache = [o \in Orders |-> NotCached]
    /\ posCache = 0
    /\ apply = Idle
    /\ batch = {}
    /\ handed = 0
    /\ delivered = <<>>
    /\ settled = <<>>
    /\ crashes = 0
    /\ errors = 0

-----------------------------------------------------------------------------
(* The broker (external). *)

Held == LET sum[S \in SUBSET Orders] ==
              IF S = {} THEN 0
              ELSE LET o == CHOOSE o \in S : TRUE
                   IN  sum[S \ {o}] + (IF o \in Buys THEN bfilled[o] ELSE -bfilled[o])
        IN  sum[Orders]

\* The gateway places the order; the OrderSubmittedEvent is then on its way.
Accept(o) ==
    /\ up
    /\ bstate[o] = "new"
    /\ bstate' = [bstate EXCEPT ![o] = "live"]
    /\ seed' = [seed EXCEPT ![o] = "pending"]
    /\ UNCHANGED <<bfilled, notices, ledgerVars, up, cache, posCache, apply, pubVars, boundVars>>

\* One share is executed; the stream may or may not deliver its notification.
Execute(o) ==
    /\ bstate[o] = "live"
    /\ bfilled[o] < Ordered[o]
    /\ o \in Buys \/ Held > 0
    /\ bfilled' = [bfilled EXCEPT ![o] = @ + 1]
    /\ notices' \in {notices} \cup
          (IF StreamOn /\ up THEN {[notices EXCEPT ![o] = @ + 1]} ELSE {})
    /\ UNCHANGED <<bstate, ledgerVars, up, seed, cache, posCache, apply, pubVars, boundVars>>

\* The order is cancelled at the broker or its trading day ends.
Close(o) ==
    /\ bstate[o] = "live"
    /\ bstate' = [bstate EXCEPT ![o] = "closed"]
    /\ UNCHANGED <<bfilled, notices, ledgerVars, up, seed, cache, posCache, apply, pubVars,
                   boundVars>>

-----------------------------------------------------------------------------
(* OrderTracker: each of these is one write of its own followed, in the same *)
(* resumption that frees the write lock, by the cache update.                *)

\* open() for OrderSubmittedEvent, which may arrive again: the INSERT does
\* nothing on a conflict, and then the cache is left alone.
Open(o) ==
    /\ up /\ WriterFree
    /\ seed[o] \in {"pending", "handled"}
    /\ seed' = [seed EXCEPT ![o] = "handled"]
    /\ IF status[o] = "none"
       THEN /\ status' = [status EXCEPT ![o] = "open"]
            /\ cache' = [cache EXCEPT ![o] = [status |-> "open", recorded |-> 0]]
       ELSE UNCHANGED <<status, cache>>
    /\ UNCHANGED <<brokerVars, recorded, traded, position, outbox, up, posCache, apply, pubVars,
                   boundVars>>

\* mark_terminal() for OrderCancelled/Rejected/FailedEvent.
MarkTerminal(o, st) ==
    /\ up /\ WriterFree
    /\ bstate[o] = "closed"
    /\ status' = IF status[o] \in {"none", "filled"} THEN status
                                                     ELSE [status EXCEPT ![o] = st]
    /\ cache' = [cache EXCEPT ![o] = NotCached]
    /\ UNCHANGED <<brokerVars, recorded, traded, position, outbox, up, seed, posCache, apply,
                   pubVars, boundVars>>

\* expire_stale(): one UPDATE ... WHERE status = 'open' RETURNING; only the rows
\* it returns are evicted.
ExpireStale(o) ==
    /\ up /\ WriterFree
    /\ bstate[o] = "closed"
    /\ status[o] = "open"
    /\ status' = [status EXCEPT ![o] = "expired"]
    /\ cache' = [cache EXCEPT ![o] = NotCached]
    /\ UNCHANGED <<brokerVars, recorded, traded, position, outbox, up, seed, posCache, apply,
                   pubVars, boundVars>>

-----------------------------------------------------------------------------
(* FillApplier: apply_cumulative, apply_stream_increment, _apply_locked. *)

\* Mutant: the status filter forgets partially_filled.
LookupOpenOnly(o) == status[o] = "open"

\* lookup_order_id: only open orders are mapped.
Lookup(o) == status[o] \in OpenStatuses

\* apply_cumulative with what a history poll observed, now or some time ago.
ApplyCumulative(o, cum) ==
    /\ up
    /\ apply = Idle
    /\ Lookup(o)
    /\ cum \in 1..bfilled[o]
    /\ apply' = Applying("looked", o, cum)
    /\ UNCHANGED <<brokerVars, ledgerVars, up, seed, cache, posCache, pubVars, boundVars>>

\* apply_stream_increment: the increment is added to what is recorded now.
ApplyStreamIncrement(o) ==
    /\ up
    /\ apply = Idle
    /\ notices[o] > 0
    /\ notices' = [notices EXCEPT ![o] = @ - 1]
    /\ apply' = IF Lookup(o) THEN Applying("looked", o, recorded[o] + 1) ELSE Idle
    /\ UNCHANGED <<bstate, bfilled, ledgerVars, up, seed, cache, posCache, pubVars, boundVars>>

\* Mutants: the running position is taken from the cache; the sell is not clamped.
OnTradeFromCache(o, qty) ==
    IF o \in Buys THEN posCache + qty
    ELSE IF qty <= posCache THEN posCache - qty ELSE 0

\* PositionHistory.on_trade: buys add, sells are clamped at what is held.
OnTrade(o, qty) ==
    IF o \in Buys THEN position + qty
    ELSE IF qty <= position THEN position - qty ELSE 0

\* BEGIN, record_fill, _save_trade, on_trade, enqueue: nothing is committed, but
\* _update_position already writes the position cache.  An observation that does
\* not advance the order leaves the transaction at once.
Stage ==
    /\ apply.pc = "looked"
    /\ IF apply.cum > recorded[apply.order]
       THEN /\ apply' = [apply EXCEPT !.pc = "staged"]
            /\ posCache' = OnTrade(apply.order, apply.cum - recorded[apply.order])
       ELSE /\ apply' = Idle
            /\ UNCHANGED posCache
    /\ UNCHANGED <<brokerVars, ledgerVars, up, seed, cache, pubVars, boundVars>>

\* record_fill's new status.
FillStatus(o, cum) == IF cum >= Ordered[o] THEN "filled" ELSE "partially_filled"

\* COMMIT: the advance, the trade, the position and the event, all at once.
Commit ==
    /\ apply.pc = "staged"
    /\ LET o == apply.order
           qty == apply.cum - recorded[o]
       IN  /\ recorded' = [recorded EXCEPT ![o] = apply.cum]
           /\ status' = [status EXCEPT ![o] = FillStatus(o, apply.cum)]
           /\ traded' = [traded EXCEPT ![o] = @ + qty]
           /\ position' = OnTrade(o, qty)
           /\ outbox' = Append(outbox, [order |-> o, cum |-> apply.cum, qty |-> qty,
                                        published |-> FALSE])
    /\ delivered' = Append(delivered, 0)
    /\ settled' = Append(settled, 0)
    /\ apply' = [apply EXCEPT !.pc = "committed"]
    /\ UNCHANGED <<brokerVars, up, seed, cache, posCache, batch, handed, dedup, boundVars>>

\* Mutant: record_fill commits on its own, outside the transaction.
RollbackKeepsAdvance ==
    /\ apply.pc \in {"looked", "staged"}
    /\ errors < MaxErrors
    /\ errors' = errors + 1
    /\ recorded' = IF apply.pc = "staged" THEN [recorded EXCEPT ![apply.order] = apply.cum]
                                          ELSE recorded
    /\ apply' = Idle
    /\ UNCHANGED <<brokerVars, status, traded, position, outbox, up, seed, cache, posCache,
                   pubVars, crashes>>

\* A statement or the COMMIT fails: ROLLBACK, and the exception leaves the lock.
Rollback ==
    /\ apply.pc \in {"looked", "staged"}
    /\ errors < MaxErrors
    /\ errors' = errors + 1
    /\ apply' = Idle
    /\ UNCHANGED <<brokerVars, ledgerVars, up, seed, cache, posCache, pubVars, crashes>>

\* mirror_fill_to_cache: a miss is ignored, a completed order is evicted.
Mirror(o, st, cum) ==
    IF cache[o] = NotCached THEN cache
    ELSE [cache EXCEPT ![o] = IF st = "filled" THEN NotCached
                              ELSE [status |-> st, recorded |-> cum]]

\* The task resumes after COMMIT: the write lock is freed, the cache mirrored, the
\* publisher notified.
Resume ==
    /\ apply.pc = "committed"
    /\ cache' = Mirror(apply.order, FillStatus(apply.order, apply.cum), apply.cum)
    /\ apply' = Idle
    /\ UNCHANGED <<brokerVars, ledgerVars, up, seed, posCache, pubVars, boundVars>>

-----------------------------------------------------------------------------
(* FillOutboxPublisher._drain and the consumer Treasury._on_order_filled. *)

\* Mutant: the query skips the oldest row.
UnpublishedOffByOne == {i \in 2..Len(outbox) : ~outbox[i].published}

\* The ids of SELECT ... WHERE published = 0.
Unpublished == {i \in 1..Len(outbox) : ~outbox[i].published}

\* ORDER BY id: the drain goes through its batch from the oldest row.
Oldest(i) == i \in batch /\ \A j \in batch : i <= j

\* fetch_unpublished, through the reader connection.
Fetch ==
    /\ up
    /\ batch = {}
    /\ Unpublished # {}
    /\ batch' = Unpublished
    /\ UNCHANGED <<brokerVars, ledgerVars, up, seed, cache, posCache, apply, handed, delivered,
                   settled, dedup, boundVars>>

\* Mutant: the settlement does not look at the key.
PublishNoDedup(i) ==
    /\ up /\ WriterFree
    /\ Oldest(i) /\ handed = 0
    /\ handed' = i
    /\ delivered' = [delivered EXCEPT ![i] = @ + 1]
    /\ dedup' = dedup \cup {Key(outbox[i])}
    /\ settled' = [settled EXCEPT ![i] = @ + 1]
    /\ UNCHANGED <<brokerVars, ledgerVars, up, seed, cache, posCache, apply, batch, boundVars>>

\* publish(): Treasury inserts the key and settles in one transaction, and does
\* nothing for a key it has.
Publish(i) ==
    /\ up /\ WriterFree
    /\ Oldest(i) /\ handed = 0
    /\ handed' = i
    /\ delivered' = [delivered EXCEPT ![i] = @ + 1]
    /\ dedup' = dedup \cup {Key(outbox[i])}
    /\ settled' = IF Key(outbox[i]) \in dedup THEN settled
                                              ELSE [settled EXCEPT ![i] = @ + 1]
    /\ UNCHANGED <<brokerVars, ledgerVars, up, seed, cache, posCache, apply, batch, boundVars>>

\* The settlement transaction fails: rolled back, and the exception is swallowed
\* by EventBus.publish, so the publisher goes on to mark the row.
PublishHandlerFails(i) ==
    /\ up /\ WriterFree
    /\ Oldest(i) /\ handed = 0
    /\ errors < MaxErrors
    /\ errors' = errors + 1
    /\ handed' = i
    /\ delivered' = [delivered EXCEPT ![i] = @ + 1]
    /\ UNCHANGED <<brokerVars, ledgerVars, up, seed, cache, posCache, apply, batch, settled, dedup,
                   crashes>>

\* mark_published, after the publish.
MarkPublished(i) ==
    /\ up /\ WriterFree
    /\ i \in batch /\ handed = i
    /\ outbox' = [outbox EXCEPT ![i].published = TRUE]
    /\ batch' = batch \ {i}
    /\ handed' = 0
    /\ UNCHANGED <<brokerVars, status, recorded, traded, position, up, seed, cache, posCache, apply,
                   delivered, settled, dedup, boundVars>>

\* mark_published raises: the drain ends, the row is fetched again later.
MarkFails ==
    /\ up
    /\ handed # 0
    /\ errors < MaxErrors
    /\ errors' = errors + 1
    /\ batch' = {}
    /\ handed' = 0
    /\ UNCHANGED <<brokerVars, ledgerVars, up, seed, cache, posCache, apply, delivered, settled,
                   dedup, crashes>>

-----------------------------------------------------------------------------
(* The process. *)

\* Memory is lost, an uncommitted transaction is undone, events and
\* notifications on their way to a handler are gone.
Crash ==
    /\ up
    /\ crashes < MaxCrashes
    /\ crashes' = crashes + 1
    /\ up' = FALSE
    /\ seed' = [o \in Orders |-> IF seed[o] = "pending" THEN "lost" ELSE seed[o]]
    /\ notices' = [o \in Orders |-> 0]
    /\ cache' = [o \in Orders |-> NotCached]
    /\ posCache' = 0
    /\ apply' = Idle
    /\ batch' = {}
    /\ handed' = 0
    /\ UNCHANGED <<bstate, bfilled, ledgerVars, delivered, settled, dedup, errors>>

\* initialize(): the caches are warmed from the committed rows.
Restart ==
    /\ ~up
    /\ up' = TRUE
    /\ cache' = [o \in Orders |-> IF Lookup(o) THEN Entry(o) ELSE NotCached]
    /\ posCache' = position
    /\ UNCHANGED <<brokerVars, ledgerVars, seed, apply, pubVars, boundVars>>

ApplierStep == Stage \/ Commit \/ Resume
PublisherStep == Fetch \/ \E i \in batch : Publish(i) \/ MarkPublished(i)

Next ==
    \/ \E o \in Orders :
          \/ Accept(o) \/ Execute(o) \/ Close(o)
          \/ Open(o) \/ ExpireStale(o)
          \/ \E st \in EndStatuses : MarkTerminal(o, st)
          \/ \E cum \in 1..Ordered[o] : ApplyCumulative(o, cum)
          \/ ApplyStreamIncrement(o)
    \/ ApplierStep \/ Rollback
    \/ PublisherStep \/ MarkFails
    \/ \E i \in batch : PublishHandlerFails(i)
    \/ Crash \/ Restart

Spec == Init /\ [][Next]_vars

\* The poll loop asks the broker again and again and applies what it reports now;
\* a task whose await has completed is resumed; the publisher's loop drains on
\* every interval; whoever runs the service restarts it.
Fairness ==
    /\ WF_vars(ApplierStep)
    /\ WF_vars(PublisherStep)
    /\ WF_vars(Restart)
    /\ \A o \in Orders : WF_vars(Open(o)) /\ SF_vars(ApplyCumulative(o, bfilled[o]))

FairSpec == Spec /\ Fairness

-----------------------------------------------------------------------------
(* Safety. *)

Rows == 1..Len(outbox)

\* The shares an outbox row announces.
RowShares(i) == (outbox[i].cum - outbox[i].qty + 1)..outbox[i].cum

\* The books agree across crashes, rollbacks and concurrent observations: the
\* trades of an order add up to recorded_filled_qty.  (record_fill and
\* _save_trade in one Database.transaction, fill_applier.py.)
TradesMatchRecorded == traded = recorded

\* Every recorded share is announced by exactly one OrderFilledEvent, and nothing
\* else is announced: no fill is lost between COMMIT and publish, none has two
\* dedup keys.  (enqueue in the same transaction, key from the confirmed value.)
EachShareAnnouncedOnce ==
    \A o \in Orders :
        /\ \A n \in 1..recorded[o] :
              \E i \in Rows :
                 /\ outbox[i].order = o /\ n \in RowShares(i)
                 /\ \A j \in Rows : outbox[j].order = o /\ n \in RowShares(j) => j = i
        /\ \A i \in Rows : outbox[i].order = o => RowShares(i) \subseteq 1..recorded[o]

\* Treasury settles an event at most once, however often a crash or a failed
\* mark_published makes the publisher deliver it.  (treasury_fill_dedup.)
SettledAtMostOnce == \A i \in Rows : settled[i] <= 1

\* A row is only marked once its event went out: mark_published never overtakes
\* publish, so a crash between them repeats the event and never drops it.
MarkedAfterDelivery == \A i \in Rows : outbox[i].published => delivered[i] >= 1

\* Every order in the open cache is open in the database with the same status and
\* quantity, except for the fill whose task has not resumed after its COMMIT.
\* (post-commit mirror, eviction by mark_terminal and expire_stale.)
CacheSound ==
    \A o \in Orders :
        cache[o] # NotCached /\ ~(apply.pc = "committed" /\ apply.order = o)
            => cache[o] = Entry(o) /\ Lookup(o)

\* What one step may do to an order: its fills stay, and so does completion.
KeepsFills ==
    \A o \in Orders :
        recorded'[o] >= recorded[o] /\ (status[o] = "filled" => status'[o] = "filled")

\* A fill never leaves its order less filled, and a completely filled order stays
\* filled whatever lifecycle event arrives afterwards.  (CAS in record_fill,
\* status != 'filled' in mark_terminal.)
NeverUnfilled == [][KeepsFills]_vars

\* A rolled-back fill leaves its mark on the position cache, but on_trade starts
\* from the stored position: once a fill commits, the cache is right again.
PositionCacheRepaired == apply.pc = "committed" => posCache = position

-----------------------------------------------------------------------------
(* The abstract ledger. *)

Announced == [o \in Orders |-> UNION {RowShares(i) : i \in {j \in Rows : outbox[j].order = o}}]
Finished == {o \in Orders : status[o] = "filled"}

Ledger == INSTANCE FillLedger WITH announced <- Announced, finished <- Finished

\* FillPipeline implements FillLedger.
ImplementsLedger == Ledger!LedgerSpec

-----------------------------------------------------------------------------
(* Liveness. *)

\* A fill of an order that stays tracked is recorded: polling makes up for lost
\* notifications, rolled-back transactions and crashes.
OpenFillsRecorded ==
    \A o \in Orders : \A n \in 1..Ordered[o] :
        (status[o] \in OpenStatuses /\ bfilled[o] >= n)
            ~> (recorded[o] >= n \/ status[o] \notin OpenStatuses)

\* Every recorded share reaches the consumers: the event that announces it is
\* published and marked, whatever crashed or failed in between.
EventsPublished ==
    \A o \in Orders : \A n \in 1..Ordered[o] :
        (recorded[o] >= n) ~>
            (\E i \in Rows : outbox[i].order = o /\ n \in RowShares(i) /\ outbox[i].published)

=============================================================================
