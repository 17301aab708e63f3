------------------------------ MODULE Backtest ------------------------------
(***************************************************************************)
(* A backtest (backtest/service.py, data_provider.py, executor.py).        *)
(*                                                                         *)
(* The first half reads the partitions of a data set from a store that     *)
(* other processes write meanwhile; `bt` is that read.  The second half    *)
(* runs a strategy over what was loaded; `sim` is that run.  The strategy  *)
(* is the environment: it may ask for the bars of any symbol, answer a bar *)
(* with signals and a fill with a follow-up.                               *)
(*                                                                         *)
(* A price is a number of ticks; Slip and Fee are ticks per share.         *)
(***************************************************************************)
EXTENDS DataStore, Integers

CONSTANTS
    Symbols,       \* symbols with data in the store
    Bars,          \* symbol -> the dates of its bars
    Price,         \* date -> the close of its bar
    Universe,      \* config.symbols; empty: not limited
    InitialCash, Slip, Fee,
    MaxFollowUps,  \* _MAX_FOLLOW_UP_FILLS_PER_STEP
    MaxSignals     \* bound: signals of one on_step, follow-ups of one fill at most one

ASSUME SymbolsAssumption == IsFiniteSet(Symbols) /\ Universe \subseteq Symbols
ASSUME BarsAssumption == \A s \in Symbols : IsFiniteSet(Bars[s]) /\ Bars[s] \subseteq Nat \ {0}

VARIABLES
    bt,            \* [pc, left, due, got]
    sim            \* the simulation

btVars == <<bt, sim>>

NoPrice == 0
NoBt == [pc |-> "idle", left |-> {}, due |-> {}, got |-> {}]

InitBt == bt = NoBt

-----------------------------------------------------------------------------
(* Reading the store *)

\* ParquetStore.read: the files there are now, whatever their state.
ReadOpen(parts) ==
    /\ bt.pc = "idle"
    /\ LET files == {p \in parts : file[p].st # "absent"} IN
       bt' = [pc |-> "read", left |-> files, due |-> UNION {file[p].rows : p \in files},
              got |-> {}]
    /\ UNCHANGED sim

\* Mutant: a tolerant read skips it.
ReadPartTolerant(p) ==
    IF Readable(p) THEN [bt EXCEPT !.left = @ \ {p}, !.got = @ \cup file[p].rows]
    ELSE [bt EXCEPT !.left = @ \ {p}]

\* strict=True: a partition that is damaged, empty or gone by now fails the backtest.
ReadPart(p) ==
    IF Readable(p) THEN [bt EXCEPT !.left = @ \ {p}, !.got = @ \cup file[p].rows]
    ELSE [bt EXCEPT !.pc = "failed"]

\* One file after the other, in the order of their names.
ReadNext ==
    /\ bt.pc = "read"
    /\ IF bt.left = {} THEN bt' = [bt EXCEPT !.pc = "loaded"]
       ELSE \E p \in bt.left :
              /\ \A q \in bt.left : PartNo[p] <= PartNo[q]
              /\ bt' = ReadPart(p)
    /\ UNCHANGED sim

-----------------------------------------------------------------------------
(* The simulation *)

\* What can be wrong with a configuration and with a strategy file.
ConfigFlaws == {"missing", "dates", "timeframe", "symbols", "exchange", "number"}
StrategyFlaws == {"unparsable", "no_class", "two_classes", "no_meta", "no_on_step", "sync_hook",
                  "bad_exchange", "import", "builtin", "toplevel", "raises", "pattern"}

\* _validate_config
ConfigValid(flaws) == flaws \cap ConfigFlaws = {}

\* StrategyValidator.validate: without a parse tree nothing else is looked at; what the
\* class must have is looked at when there is exactly one.  A dangerous pattern only warns.
ClassErrors(flaws) == flaws \cap {"no_class", "two_classes"}
MetaErrors(flaws) == IF ClassErrors(flaws) = {} THEN flaws \cap {"no_meta"} ELSE {}
HookErrors(flaws) == IF ClassErrors(flaws) = {} THEN flaws \cap {"no_on_step", "sync_hook"} ELSE {}
ExchangeErrors(flaws) == IF ClassErrors(flaws) = {} THEN flaws \cap {"bad_exchange"} ELSE {}
ForbiddenCalls(flaws) == flaws \cap {"import", "builtin"}
ForbiddenToplevel(flaws) == flaws \cap {"toplevel"}

StrategyValid(flaws) ==
    /\ "unparsable" \notin flaws
    /\ \A errors \in {ClassErrors(flaws), MetaErrors(flaws), HookErrors(flaws),
                       ExchangeErrors(flaws), ForbiddenCalls(flaws), ForbiddenToplevel(flaws)} :
         errors = {}

InitSim ==
    sim = [pc |-> "config", idx |-> -1, cache |-> {}, cash |-> InitialCash,
           hold |-> [s \in Symbols |-> 0], signals |-> 0, queue |-> 0, fills |-> 0,
           equity |-> InitialCash, seen |-> 0, moved |-> FALSE, ahead |-> FALSE]

\* BacktestService.run: the configuration, the file before it is imported, the import; then
\* the symbols of the universe are loaded.
CheckConfig ==
    /\ sim.pc = "config"
    /\ \E flaws \in {{}} \cup {{x} : x \in ConfigFlaws} :
         sim' = [sim EXCEPT !.pc = IF ConfigValid(flaws) THEN "strategy" ELSE "failed"]
    /\ UNCHANGED bt

LoadStrategy ==
    /\ sim.pc = "strategy"
    /\ \E flaws \in {f \in SUBSET StrategyFlaws : Cardinality(f) <= 2} :
         sim' = IF StrategyValid(flaws) /\ "raises" \notin flaws
                THEN [sim EXCEPT !.pc = "advance", !.cache = Universe]
                ELSE [sim EXCEPT !.pc = "failed"]
    /\ UNCHANGED bt

\* _build_timeline: the dates of everything in the cache, in order.
Timeline(cache) == UNION {Bars[s] : s \in cache}
DateAt(cache, idx) ==
    CHOOSE d \in Timeline(cache) : Cardinality({e \in Timeline(cache) : e < d}) = idx
Ended(cache, idx) == idx >= Cardinality(Timeline(cache))
\* get_current_timestamp; 0 is None.
Clock(s) == IF s.idx < 0 \/ Ended(s.cache, s.idx) THEN 0 ELSE DateAt(s.cache, s.idx)

\* Mutant: the slice ends one bar too late.
VisibleLate(s, sym) == {d \in Bars[sym] : d <= Clock(s) + 1}

\* get_ohlcv: the bars up to the clock.
Visible(s, sym) == {d \in Bars[sym] : d <= Clock(s)}

\* load on demand: the timeline is built anew, the index stays.
Loaded(s, sym) ==
    LET t == [s EXCEPT !.cache = @ \cup {sym}]
    IN [t EXCEPT !.moved = @ \/ Clock(t) # Clock(s)]

LatestOf(dates, old) == CHOOSE d \in dates \cup {old} : \A e \in dates \cup {old} : e <= d

\* The strategy calls get_ohlcv, get_current_price or get_indicator.
Look ==
    /\ sim.pc \in {"step", "signals", "follow"}
    /\ \E sym \in Symbols :
         LET t == Loaded(sim, sym)
         IN sim' = [t EXCEPT !.seen = LatestOf(Visible(t, sym), @)]
    /\ UNCHANGED bt

\* get_current_price of a held symbol: its latest bar, else the price it was bought at.
Mark(s, sym) == IF Visible(s, sym) = {} THEN 0 ELSE Price[LatestOf(Visible(s, sym), 0)]
\* _calculate_equity; the model's symbols are few, and at most one is held with a bar.
Equity(s) ==
    s.cash + LET sum[S \in SUBSET Symbols] ==
                   IF S = {} THEN 0
                   ELSE LET x == CHOOSE x \in S : TRUE IN s.hold[x] * Mark(s, x) + sum[S \ {x}]
             IN sum[Symbols]

\* advance; the first bar is index 0.  At the end final_equity is the last point.
Advance1 ==
    /\ sim.pc = "advance"
    /\ LET t == [sim EXCEPT !.idx = @ + 1]
       IN sim' = [t EXCEPT !.pc = IF Ended(t.cache, t.idx) THEN "save" ELSE "step"]
    /\ UNCHANGED bt

\* on_step returns.
OnStep ==
    /\ sim.pc = "step"
    /\ \E n \in 0..MaxSignals :
         sim' = [sim EXCEPT !.pc = "signals", !.signals = n, !.queue = 0, !.fills = 0]
    /\ UNCHANGED bt

Signals == [side : {"buy", "sell", "hold"}, sym : Symbols, qty : 0..2,
            type : {"market", "limit", "stop", "stop_limit", "other"},
            limit : {NoPrice, 2}, stop : {NoPrice, 2}]

\* _order_triggered
OrderTriggered(g, price) ==
    LET in == IF g.side = "buy" THEN price <= g.limit ELSE price >= g.limit
        out == IF g.side = "buy" THEN price >= g.stop ELSE price <= g.stop
    IN CASE g.type = "market" -> TRUE
         [] g.type = "limit" -> g.limit # NoPrice /\ in
         [] g.type = "stop" -> g.stop # NoPrice /\ out
         [] g.type = "stop_limit" -> g.limit # NoPrice /\ g.stop # NoPrice /\ in /\ out
         [] OTHER -> FALSE

\* _apply_slippage_cap
ExecPrice(g, price) ==
    LET slipped == IF g.side = "buy" THEN price + Slip ELSE price - Slip
    IN CASE g.type \notin {"limit", "stop_limit"} -> slipped
         [] g.side = "buy" /\ g.limit < slipped -> g.limit
         [] g.side = "sell" /\ g.limit > slipped -> g.limit
         [] OTHER -> slipped

\* get_current_bar_price loads the symbol; without a bar at this very time nothing trades.
BarNow(s, sym) == Clock(s) # 0 /\ Clock(s) \in Bars[sym]

\* _execute_signal up to the price: side, quantity, universe.
Acceptable(g) ==
    g.side \in {"buy", "sell"} /\ g.qty > 0 /\ (Universe = {} \/ g.sym \in Universe)

Quantity(s, g) == IF g.side = "buy" \/ g.qty < s.hold[g.sym] THEN g.qty ELSE s.hold[g.sym]

\* _execute_signal and _update_position: the state after the signal, and whether it filled.
Fills(s, g) ==
    /\ BarNow(s, g.sym)
    /\ LET price == Price[Clock(s)] IN
       /\ OrderTriggered(g, price)
       /\ IF g.side = "buy" THEN s.cash >= (ExecPrice(g, price) + Fee) * g.qty
          ELSE Quantity(s, g) > 0

Filled(s, g) ==
    LET at == ExecPrice(g, Price[Clock(s)])
        n == Quantity(s, g)
    IN [s EXCEPT !.cash = IF g.side = "buy" THEN @ - (at + Fee) * n ELSE @ + (at - Fee) * n,
                 !.hold[g.sym] = IF g.side = "buy" THEN @ + n ELSE @ - n,
                 !.ahead = @ \/ Clock(s) < s.seen]

Executed(s, g) ==
    IF ~Acceptable(g) THEN [to |-> s, filled |-> FALSE]
    ELSE LET t == Loaded(s, g.sym)
         IN IF Fills(t, g) THEN [to |-> Filled(t, g), filled |-> TRUE]
            ELSE [to |-> t, filled |-> FALSE]

\* on_fill answers with a follow-up, or not.
FollowUps(x) == IF x.filled THEN {x.to.queue, x.to.queue + 1} ELSE {x.to.queue}

\* Phase 1: the signals of on_step, without a limit.
ExecuteSignal ==
    /\ sim.pc = "signals" /\ sim.signals > 0
    /\ \E g \in Signals : LET x == Executed(sim, g) IN
         \E q \in FollowUps(x) : sim' = [x.to EXCEPT !.signals = @ - 1, !.queue = q]
    /\ UNCHANGED bt

\* The limit is looked at before the next follow-up.
CapReached == sim.fills >= MaxFollowUps

\* Phase 2: follow-ups of follow-ups; one that does not fill is not counted.
ExecuteFollowUp ==
    /\ sim.pc = "follow" /\ sim.queue > 0 /\ ~CapReached
    /\ \E g \in Signals : LET x == Executed([sim EXCEPT !.queue = @ - 1], g) IN
         \E q \in FollowUps(x) :
            sim' = [x.to EXCEPT !.queue = q,
                                !.fills = IF x.filled /\ @ < MaxFollowUps THEN @ + 1 ELSE @]
    /\ UNCHANGED bt

ToFollowUps ==
    /\ sim.pc = "signals" /\ sim.signals = 0
    /\ sim' = [sim EXCEPT !.pc = "follow"]
    /\ UNCHANGED bt

\* _calculate_equity and the next bar.
StepDone ==
    /\ sim.pc = "follow" /\ (sim.queue = 0 \/ CapReached)
    /\ sim' = [sim EXCEPT !.pc = "advance", !.equity = Equity(sim), !.queue = 0]
    /\ UNCHANGED bt

\* A result file that cannot be written is left out; the row of the run must be.
SaveResult ==
    /\ sim.pc = "save"
    /\ \E pc \in {"end", "failed"} : sim' = [sim EXCEPT !.pc = pc]
    /\ UNCHANGED bt

SimRun ==
    \/ CheckConfig \/ LoadStrategy
    \/ Advance1 \/ OnStep \/ ExecuteSignal \/ ToFollowUps \/ ExecuteFollowUp \/ StepDone
    \/ SaveResult
SimNext == SimRun \/ Look

-----------------------------------------------------------------------------
\* No trade is made at a date before one whose bar the strategy has been shown, as long
\* as no symbol loaded during the run has moved the clock back (data_provider.py).
NoLookAhead == sim.ahead => sim.moved

=============================================================================
