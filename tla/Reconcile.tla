----------------------------- MODULE Reconcile -----------------------------
(***************************************************************************)
(* The recovery of fills and the reconciliation of one symbol of one       *)
(* account: FillReconcileScheduler (broker/fill_scheduler.py), Reconcile-  *)
(* Scheduler (broker/scheduler.py), PositionReconciler                     *)
(* (trade/reconciler.py), the correction of a position (trade/service.py,  *)
(* trade/position.py) and the barrier between them at start-up (main.py).  *)
(*                                                                         *)
(* The broker executes orders at once in its holdings and reports them in  *)
(* its order history when it likes, at the latest on the next day.  Polls  *)
(* and passes run in tasks of their own; every step below ends at an await *)
(* that lets the others run.  apply_cumulative is one step: its inside is  *)
(* FillPipeline.  One pass is under way at a time, the account keeps its   *)
(* bots, and a pass that only detects, which changes nothing, is no step.  *)
(***************************************************************************)
EXTENDS Integers, FiniteSets, FiniteSetsExt

CONSTANTS
    Orders,        \* orders the bot may submit
    Side,          \* "buy" or "sell" of an order
    Qty,           \* ordered_qty
    External,      \* quantities somebody else may trade on the account
    Base,          \* holdings the account may start with
    CatchUpMax,    \* CATCH_UP_MAX_ATTEMPTS
    MaxDay,        \* bound: the last business day
    MaxTroubles    \* bound: restarts, registrations anew and failed queries

ASSUME ReconcileAssumption ==
    /\ Side \in [Orders -> {"buy", "sell"}] /\ Qty \in [Orders -> Nat \ {0}]
    /\ IsFiniteSet(Orders) /\ External \subseteq Int /\ Base \subseteq Nat
    /\ CatchUpMax \in Nat \ {0} /\ MaxDay \in Nat /\ MaxTroubles \in Nat

VARIABLES
    other,     \* holdings that are not of the orders below, and whether they are of somebody else
    exec,      \* shares the broker has executed
    ccld,      \* shares its order history reports
    today,
    status, day, rec,   \* the rows of order_tracker
    pos,       \* the quantity of the positions row
    bots,      \* what list_bots tells of the account
    phase,     \* of the registration of the schedulers
    tries,     \* attempts of catch_up_once
    poll,      \* the poll under way
    verify,    \* _fallback_verify
    alerted,   \* orders the late-ccld alert was raised for
    pass,      \* the reconciliation under way, scheduled or by command
    overlap,   \* history: a fill was recorded between the reads of a pass
    clipped,   \* history: a sell was recorded for more than the position
    blind,     \* history: a difference was classified without the open orders
    restarts

broker == <<other, exec, ccld, today>>
tracker == <<status, day, rec, pos>>
sched == <<phase, tries, poll, verify, alerted>>
past == <<overlap, clipped, blind>>
vars == <<broker, tracker, bots, sched, pass, past, restarts>>

-----------------------------------------------------------------------------

OpenStatuses == {"open", "partially_filled"}
NoPoll == [pc |-> "idle", day |-> 0, items |-> [o \in Orders |-> 0], cand |-> {}, held |-> 0]
NoPass == [pc |-> "idle", skip |-> FALSE, b |-> 0, i |-> 0]

\* get_open_orders, get_open_orders_for
Open == {o \in Orders : status[o] \in OpenStatuses}
OpenOf(side) == {o \in Open : Side[o] = side}

\* What the open orders of _is_self_submitted_fill can still explain.
Capacity(side) == SumFunctionOnSet([o \in Orders |-> Qty[o] - rec[o]], OpenOf(side))

\* Shares bought less shares sold; what get_positions answers.
Signed(f) == [o \in Orders |-> IF Side[o] = "buy" THEN f[o] ELSE -f[o]]
Net(f) == SumFunctionOnSet(Signed(f), Orders)
Held == other.qty + Net(exec)

Init ==
    /\ other \in [qty : Base, traded : BOOLEAN]
    /\ exec = [o \in Orders |-> 0] /\ ccld = exec
    /\ today = 1
    /\ status = [o \in Orders |-> "none"] /\ day = exec /\ rec = exec
    /\ pos = IF other.traded THEN 0 ELSE other.qty
    /\ bots \in {"running", "stopped", "several"}
    /\ phase = "catchup" /\ tries = 0
    /\ poll = NoPoll /\ verify = {} /\ alerted = {}
    /\ pass = NoPass /\ overlap = FALSE /\ clipped = FALSE /\ blind = FALSE
    /\ restarts = 0

-----------------------------------------------------------------------------
(* The market, the operator and the bot *)

Submit(o) ==
    /\ phase = "up" /\ bots = "running" /\ status[o] = "none"
    /\ Side[o] = "sell" => pos >= Qty[o]
    /\ status' = [status EXCEPT ![o] = "open"] /\ day' = [day EXCEPT ![o] = today]
    /\ UNCHANGED <<broker, rec, pos, bots, sched, pass, past, restarts>>

Execute(o) ==
    /\ status[o] \notin {"none", "cancelled"} /\ day[o] = today /\ exec[o] < Qty[o]
    /\ Side[o] = "sell" => Held > 0
    /\ exec' = [exec EXCEPT ![o] = @ + 1]
    /\ UNCHANGED <<other, ccld, today, tracker, bots, sched, pass, past, restarts>>

HistoryShows(o) ==
    /\ ccld[o] < exec[o]
    /\ ccld' = [ccld EXCEPT ![o] = exec[o]]
    /\ UNCHANGED <<other, exec, today, tracker, bots, sched, pass, past, restarts>>

ExternalTrade ==
    /\ ~other.traded
    /\ \E q \in External :
        /\ Held + q >= 0
        /\ other' = [qty |-> other.qty + q, traded |-> TRUE]
    /\ UNCHANGED <<exec, ccld, today, tracker, bots, sched, pass, past, restarts>>

\* The settlement ledger of the day before is complete.
NewDay ==
    /\ today < MaxDay
    /\ today' = today + 1 /\ ccld' = exec
    /\ UNCHANGED <<other, exec, tracker, bots, sched, pass, past, restarts>>

\* A cancellation the broker has confirmed ends the row, whatever the history still hides.
Cancel(o) ==
    /\ phase = "up" /\ o \in Open /\ day[o] = today /\ exec[o] < Qty[o]
    /\ status' = [status EXCEPT ![o] = "cancelled"]
    /\ UNCHANGED <<broker, day, rec, pos, bots, sched, pass, past, restarts>>

-----------------------------------------------------------------------------
(* FillReconcileScheduler *)

\* apply_cumulative: a non-terminal row takes what exceeds its record, and the position with it.
Applies(o, qty) == o \in Open /\ qty > rec[o]
Advanced(o, qty) == IF Applies(o, qty) THEN [status EXCEPT ![o] = IF qty >= Qty[o] THEN "filled" ELSE "partially_filled"]
                    ELSE status
Apply(o, qty) ==
    IF Applies(o, qty)
    THEN /\ rec' = [rec EXCEPT ![o] = qty]
         /\ pos' = IF Side[o] = "buy" THEN pos + qty - rec[o]
                   ELSE IF pos > qty - rec[o] THEN pos - (qty - rec[o]) ELSE 0
         /\ overlap' = (overlap \/ pass.pc \in {"read", "classify"})
         /\ clipped' = (clipped \/ (Side[o] = "sell" /\ pos < qty - rec[o]))
         /\ UNCHANGED blind
    ELSE UNCHANGED <<rec, pos, past>>

\* The first day of the window: of open orders and of those to verify.
FromDate(orders) == Min({day[o] : o \in orders})

\* catch_up_once: its result tells the first reconciliation whether to hold external buys back.
CatchUpEnds(ok) ==
    IF phase = "catchup" /\ (ok \/ tries + 1 = CatchUpMax)
    THEN phase' = (IF ok THEN "caught" ELSE "failed") /\ tries' = 0
    ELSE phase' = phase /\ tries' = IF phase = "catchup" THEN tries + 1 ELSE tries

\* With nothing open and nothing to verify, no call is made.
PollNothing ==
    /\ poll.pc = "idle" /\ Open = {} /\ verify = {} /\ phase = "catchup"
    /\ CatchUpEnds(TRUE)
    /\ UNCHANGED <<broker, tracker, bots, poll, verify, alerted, pass, past, restarts>>

\* One call for the history, from before anything expires.
PollHistory ==
    /\ poll.pc = "idle" /\ Open \cup verify # {}
    /\ poll' = [NoPoll EXCEPT
         !.pc = "items", !.day = today,
         !.items = [o \in Orders |-> IF day[o] >= FromDate(Open \cup verify) THEN ccld[o] ELSE 0]]
    /\ UNCHANGED <<broker, tracker, bots, phase, tries, verify, alerted, pass, past, restarts>>

\* The call fails and nothing else of the poll is done.
PollFails ==
    /\ poll.pc = "idle" /\ Open \cup verify # {} /\ phase = "catchup"
    /\ CatchUpEnds(FALSE)
    /\ UNCHANGED <<broker, tracker, bots, poll, verify, alerted, pass, past, restarts>>

\* Mutant: an order is verified whenever the history lists it, without the alert.
PollItemSilent(o) ==
    /\ poll.pc = "items" /\ poll.items[o] > 0
    /\ verify' = verify \ {o} /\ UNCHANGED alerted
    /\ Apply(o, poll.items[o]) /\ status' = Advanced(o, poll.items[o])
    /\ poll' = [poll EXCEPT !.items[o] = 0]
    /\ UNCHANGED <<broker, day, bots, phase, tries, pass, restarts>>

\* _verify_fallback_against_ccld: a full fill the history does not confirm is alerted about, once.
Alerts(o) == {v \in verify : v = o /\ poll.items[o] < Qty[o]}
Verify(o) == verify' = verify \ {o} /\ alerted' = alerted \cup Alerts(o)

\* A line of the history: the order it verifies, then its shares.
PollItem(o) ==
    /\ poll.pc = "items" /\ poll.items[o] > 0
    /\ Verify(o)
    /\ Apply(o, poll.items[o]) /\ status' = Advanced(o, poll.items[o])
    /\ poll' = [poll EXCEPT !.items[o] = 0]
    /\ UNCHANGED <<broker, day, bots, phase, tries, pass, restarts>>

\* The end of a poll: orders of earlier days that never traded expire, and what was to be verified of them.
Expired(rows) == [o \in Orders |-> IF rows[o] = "open" /\ day[o] < poll.day THEN "expired" ELSE rows[o]]
PollEnds(rows, checks) ==
    /\ status' = Expired(rows) /\ verify' = {o \in checks : day[o] >= poll.day}
    /\ poll' = NoPoll /\ CatchUpEnds(TRUE)
    /\ UNCHANGED <<broker, day, bots, alerted, pass, restarts>>

\* The fallback of a paper account: holdings are asked for when the only open buy is without a fill.
Unrecovered == {o \in OpenOf("buy") : rec[o] = 0}
ItemsDone == poll.pc = "items" /\ \A o \in Orders : poll.items[o] = 0
NoFallback ==
    /\ ItemsDone /\ (Cardinality(OpenOf("buy")) # 1 \/ Unrecovered = {})
    /\ PollEnds(status, verify) /\ UNCHANGED <<rec, pos, past>>
FallbackPositions ==
    /\ ItemsDone /\ Cardinality(OpenOf("buy")) = 1 /\ Unrecovered # {}
    /\ poll' = [poll EXCEPT !.pc = "fallback", !.cand = Unrecovered, !.held = Held]
    /\ UNCHANGED <<broker, tracker, bots, phase, tries, verify, alerted, pass, past, restarts>>

\* An excess that is exactly the order read before the holdings is its full fill, to be verified later.
FallbackApply ==
    /\ poll.pc = "fallback"
    /\ LET match == {o \in poll.cand : Applies(o, Qty[o]) /\ poll.held - pos = Qty[o]} IN
       \/ match = {} /\ PollEnds(status, verify) /\ UNCHANGED <<rec, pos, past>>
       \/ \E o \in match : Apply(o, Qty[o]) /\ PollEnds(Advanced(o, Qty[o]), verify \cup {o})

-----------------------------------------------------------------------------
(* ReconcileScheduler, broker.reconcile and PositionReconciler *)

To(pc) == pass' = IF pc = "idle" THEN NoPass ELSE [pass EXCEPT !.pc = pc]
PassFrame == UNCHANGED <<broker, day, status, rec, bots, tries, poll, verify, alerted, restarts>>

\* The schedulers are registered; the first pass holds external buys back after a failed catch-up.
Registered == phase \in {"caught", "failed", "up"}
HoldsBack == phase = "failed"

\* Mutant: the flag of the start-up stays with the scheduler.
StartPassHoldsBack ==
    /\ Registered /\ pass.pc = "idle" /\ bots = "running"
    /\ pass' = [NoPass EXCEPT !.pc = "read", !.b = Held, !.skip = TRUE]
    /\ phase' = "up" /\ UNCHANGED <<pos, past>> /\ PassFrame

\* run_once, first by start() and then by the loop: one bot is corrected when it runs.
StartPass ==
    /\ Registered /\ pass.pc = "idle" /\ bots = "running"
    /\ pass' = [NoPass EXCEPT !.pc = "read", !.b = Held, !.skip = HoldsBack]
    /\ phase' = "up" /\ UNCHANGED <<pos, past>> /\ PassFrame

\* The holdings cannot be fetched, the bot is stopped or several share them: nothing is written.
PassDetects ==
    /\ phase \in {"caught", "failed"}
    /\ phase' = "up" /\ UNCHANGED <<pos, pass, past>> /\ PassFrame

\* broker.reconcile --fix corrects the only bot, running or not.
StartCommand ==
    /\ phase = "up" /\ pass.pc = "idle" /\ bots # "several"
    /\ pass' = [NoPass EXCEPT !.pc = "read", !.b = Held]
    /\ UNCHANGED <<pos, phase, past>> /\ PassFrame

\* The bot's position is read after the holdings.
Read ==
    /\ pass.pc = "read"
    /\ pass' = IF pos = pass.b THEN NoPass ELSE [pass EXCEPT !.pc = "classify", !.i = pos]
    /\ UNCHANGED <<pos, phase, past>> /\ PassFrame

\* Mutant: a difference that uses the whole capacity is taken for somebody else's.
SelfSubmittedStrict(excess, side) == OpenOf(side) # {} /\ excess < Capacity(side)

\* _is_self_submitted_fill
SelfSubmitted(excess, side) == OpenOf(side) # {} /\ excess <= Capacity(side)

\* _is_unattributed_holding: shares no order of the bot can explain.
Unattributed(h) == h.i = 0 /\ OpenOf("buy") = {}

\* What the difference is; only an external trade is written, and a buy not while it is held back.
Corrects(h) ==
    IF h.b < h.i THEN ~SelfSubmitted(h.i - h.b, "sell")
    ELSE ~SelfSubmitted(h.b - h.i, "buy") /\ ~Unattributed(h) /\ ~h.skip

Classify ==
    /\ pass.pc = "classify"
    /\ To(IF Corrects(pass) THEN "correct" ELSE "idle")
    /\ UNCHANGED <<pos, phase, past>> /\ PassFrame

\* Restarts and failed queries so far.
Troubles == restarts + (IF blind THEN 1 ELSE 0)

\* The query of the open orders raises: the difference counts as an external trade.
ClassifyBlind ==
    /\ Troubles < MaxTroubles
    /\ pass.pc = "classify"
    /\ To(IF pass.b > pass.i /\ pass.skip THEN "idle" ELSE "correct")
    /\ blind' = TRUE
    /\ UNCHANGED <<pos, phase, overlap, clipped>> /\ PassFrame

\* correct_position, after the alerts are out
Correct ==
    /\ pass.pc = "correct"
    /\ pos' = pass.b
    /\ To("idle")
    /\ UNCHANGED <<phase, past>> /\ PassFrame

-----------------------------------------------------------------------------
(* Restarts and the registration anew of the schedulers *)

\* The process dies, or a lost readiness flag has both schedulers replaced: what they remember is gone.
Restart ==
    /\ Troubles < MaxTroubles
    /\ phase' = "catchup" /\ tries' = 0 /\ poll' = NoPoll /\ verify' = {}
    /\ pass' = NoPass
    /\ restarts' = restarts + 1
    /\ UNCHANGED <<broker, tracker, bots, alerted, past>>

Poll == PollNothing \/ PollHistory \/ (\E o \in Orders : PollItem(o)) \/ NoFallback \/ FallbackPositions \/ FallbackApply
Pass == StartPass \/ PassDetects \/ Read \/ Classify \/ ClassifyBlind \/ Correct

Next ==
    \/ Poll \/ PollFails \/ Pass \/ StartCommand
    \/ \E o \in Orders : Submit(o) \/ Execute(o) \/ HistoryShows(o) \/ Cancel(o)
    \/ ExternalTrade \/ NewDay \/ Restart

Spec == Init /\ [][Next]_vars

\* Both loops run again and again, the scheduled pass whatever commands come between, and days pass.
FairSpec ==
    /\ Spec /\ WF_vars(Poll) /\ WF_vars(NewDay)
    /\ SF_vars(StartPass)
    /\ WF_vars(Read \/ Classify \/ Correct)

-----------------------------------------------------------------------------

\* Shares of the bot's own orders that no poll will record: their row was ended first.
Hidden == \E o \in Orders : status[o] \in {"cancelled", "expired"} /\ rec[o] < exec[o]

\* The reconciler leaves the bot's own fills to the recovery: it is about to overwrite a position only
\* when somebody else has traded, a cancellation hid shares, a fill was recorded between the reads of a
\* pass, a sell was recorded before the buy it sold from and the position clamped at zero, or the open
\* orders could not be read (reconciler.py: the self-check in both directions and its fallback;
\* position.py: the warning on an excess sell).
OwnFillsLeftAlone == pass.pc = "correct" => other.traded \/ Hidden \/ overlap \/ clipped \/ blind

\* A buy the fallback has filled beyond what the broker executed is verified or alerted about, as long
\* as the scheduler that remembers it lives (fill_scheduler.py: _verify_fallback_against_ccld).
OverAttributionSurfaces ==
    \A o \in Orders : rec[o] > exec[o] /\ exec[o] > 0 => o \in verify \cup alerted \/ restarts > 0

\* The position is the broker's, or the difference is one the reconciler leaves alone by design.
Settled ==
    \/ pos = Held
    \/ pos = 0 /\ OpenOf("buy") = {}
    \/ pos < Held /\ Held - pos <= Capacity("buy")
    \/ pos > Held /\ pos - Held <= Capacity("sell")

\* Whatever happened, an account whose only bot keeps running ends with the broker's holdings or such a
\* difference (scheduler.py: run_once; fill_scheduler.py: _loop).
Converges == bots = "running" => <>[]Settled
=============================================================================
