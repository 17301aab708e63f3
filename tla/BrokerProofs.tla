---------------------------- MODULE BrokerProofs ----------------------------
(***************************************************************************)
(* CircuitBreaker: the breaker's safety invariants for every number of     *)
(* callers, threshold, recovery time-out and retry budget.                 *)
(*                                                                         *)
(* Reconcile: for every set of orders, quantities and poll batch, a        *)
(* correction is never made of shares the bot's own fills explain, and     *)
(* shares attributed beyond what was executed are reported.  The second    *)
(* follows from what a poll holds of the history (Surfaces, ToldAll).  For *)
(* the first, as long as none of its exceptions has happened (Clean), the  *)
(* position is what was recorded, and a holding that a pass or a fallback  *)
(* has read is what the broker had executed at some moment since (Own).    *)
(***************************************************************************)
EXTENDS CircuitBreaker, Reconcile, Sums

-----------------------------------------------------------------------------
(* The circuit breaker *)

\* A call only sleeps before a retry it is entitled to.
RetryPending == \A c \in Calls : pc[c] = "backoff" => attempt[c] < MaxRetries

\* The inductive invariant.  CascadeBounded alone is not inductive: it needs the
\* retry budget a call still has while the breaker is OPEN.
IInv ==
    /\ TypeOK
    /\ ClosedIffBelowThreshold
    /\ CascadeBounded
    /\ CascadeBudget
    /\ RetryPending

\* The inductive invariant holds initially.
LEMMA InitIInv == BreakerInit => IInv
  BY ThresholdAssumption, TimeoutAssumption, RetriesAssumption
     DEF BreakerInit, IInv, TypeOK, ClosedIffBelowThreshold, CascadeBounded, CascadeBudget,
         RetryPending, PCs

\* Every step keeps the inductive invariant.
LEMMA NextIInv == IInv /\ [BreakerNext]_breakerVars => IInv'
  <1> SUFFICES ASSUME IInv, [BreakerNext]_breakerVars PROVE IInv'
    OBVIOUS
  <1> USE ThresholdAssumption, TimeoutAssumption, RetriesAssumption
  <1>1. ASSUME NEW c \in Calls, CheckPasses(c) PROVE IInv'
    BY <1>1 DEF IInv, TypeOK, PCs, ClosedIffBelowThreshold, CascadeBounded, CascadeBudget,
       RetryPending, SendsLeft, CheckPasses, StateRead
  <1>2. ASSUME NEW c \in Calls, CheckRaises(c) PROVE IInv'
    BY <1>2 DEF IInv, TypeOK, PCs, ClosedIffBelowThreshold, CascadeBounded, CascadeBudget,
       RetryPending, SendsLeft, CheckRaises, breakerVars
  <1>3. ASSUME NEW c \in Calls, AuthFails(c) PROVE IInv'
    BY <1>3 DEF IInv, TypeOK, PCs, ClosedIffBelowThreshold, CascadeBounded, CascadeBudget,
       RetryPending, SendsLeft, AuthFails, breaker
  <1>4. ASSUME NEW c \in Calls, Send(c) PROVE IInv'
    BY <1>4 DEF IInv, TypeOK, PCs, ClosedIffBelowThreshold, CascadeBounded, CascadeBudget,
       RetryPending, SendsLeft, Send, CountSends, breaker
  <1>5. ASSUME NEW c \in Calls, Succeeds(c) PROVE IInv'
    BY <1>5 DEF IInv, TypeOK, PCs, ClosedIffBelowThreshold, CascadeBounded, CascadeBudget,
       RetryPending, SendsLeft, Succeeds, RecordSuccess, CountSends
  <1>6. ASSUME NEW c \in Calls, FailsFatally(c) PROVE IInv'
    BY <1>6 DEF IInv, TypeOK, PCs, ClosedIffBelowThreshold, CascadeBounded, CascadeBudget,
       RetryPending, SendsLeft, FailsFatally, breaker
  <1>7. ASSUME NEW c \in Calls, FailsRecorded(c) PROVE IInv'
    BY <1>7 DEF IInv, TypeOK, PCs, ClosedIffBelowThreshold, CascadeBounded, CascadeBudget,
       RetryPending, SendsLeft, FailsRecorded, RecordFailure, AfterRetryable, CountSends
  <1>8. ASSUME NEW c \in Calls, TimesOutExempt(c) PROVE IInv'
    BY <1>8 DEF IInv, TypeOK, PCs, ClosedIffBelowThreshold, CascadeBounded, CascadeBudget,
       RetryPending, SendsLeft, TimesOutExempt, AfterRetryable, breaker
  <1>9. CASE Tick
    BY <1>9 DEF IInv, TypeOK, PCs, ClosedIffBelowThreshold, CascadeBounded, CascadeBudget,
       RetryPending, SendsLeft, Tick
  <1>10. CASE UNCHANGED breakerVars
    BY <1>10 DEF IInv, TypeOK, PCs, ClosedIffBelowThreshold, CascadeBounded, CascadeBudget,
       RetryPending, SendsLeft, breakerVars
  <1> QED
    BY <1>1, <1>2, <1>3, <1>4, <1>5, <1>6, <1>7, <1>8, <1>9, <1>10 DEF BreakerNext, CallStep

\* The state and the failure count of CircuitBreaker agree in every reachable state.
THEOREM BreakerConsistent == BreakerSpec => []ClosedIffBelowThreshold
  <1>1. IInv => ClosedIffBelowThreshold
    BY DEF IInv
  <1> QED
    BY InitIInv, NextIInv, <1>1, PTL DEF BreakerSpec

\* A call in flight of _request_with_cont sends at most its own retry budget into
\* an OPEN period, however many callers there are.
THEOREM BreakerCascadeBounded == BreakerSpec => []CascadeBounded
  <1>1. IInv => CascadeBounded
    BY DEF IInv
  <1> QED
    BY InitIInv, NextIInv, <1>1, PTL DEF BreakerSpec

-----------------------------------------------------------------------------
(* The polls and the reconciler *)

Statuses == {"none", "cancelled", "expired", "filled", "open", "partially_filled"}

RowsOK ==
    /\ exec \in [Orders -> Nat] /\ ccld \in [Orders -> Nat] /\ rec \in [Orders -> Nat]
    /\ day \in [Orders -> Nat] /\ status \in [Orders -> Statuses] /\ today \in Nat
    /\ \A o \in Orders : /\ ccld[o] <= exec[o] /\ exec[o] <= Qty[o] /\ rec[o] <= Qty[o]
                         /\ status[o] = "none" => exec[o] = 0 /\ rec[o] = 0
                         /\ status[o] = "filled" => rec[o] = Qty[o]
                         /\ day[o] < today => ccld[o] = exec[o]

PollOK ==
    /\ poll \in [pc : {"idle", "items", "fallback"}, day : Nat, items : [Orders -> Nat],
                 cand : SUBSET Orders, held : Int]
    /\ poll.day <= today
    /\ \A o \in Orders : poll.items[o] <= ccld[o]
    /\ poll.pc = "fallback" => \A o \in Orders : poll.items[o] = 0
    /\ poll.pc = "fallback" => \A o \in poll.cand : rec[o] = 0
    /\ verify \subseteq Orders

BooksOK ==
    /\ other \in [qty : Int, traded : BOOLEAN] /\ pos \in Int
    /\ pass \in [pc : {"idle", "read", "classify", "correct"}, skip : BOOLEAN, b : Int, i : Int]
    /\ overlap \in BOOLEAN /\ clipped \in BOOLEAN /\ blind \in BOOLEAN

TypeInv == RowsOK /\ PollOK /\ BooksOK

\* The orders are finitely many, each a buy or a sell of at least one share.
LEMMA OrdersFacts ==
    /\ IsFiniteSet(Orders)
    /\ \A o \in Orders : Side[o] \in {"buy", "sell"} /\ Qty[o] \in Nat /\ Qty[o] > 0
    BY ReconcileAssumption

\* The net of numbers of shares by order is a whole number.
LEMMA NetInt ==
    ASSUME NEW f \in [Orders -> Nat]
    PROVE  Numbers(Signed(f), Orders) /\ Net(f) \in Int
<1>1. Numbers(Signed(f), Orders)
    BY DEF Numbers, Signed
<1> QED
    BY <1>1, OrdersFacts, SumRemove DEF Net

\* So is the holding get_positions reads.
LEMMA HeldInt ==
    ASSUME RowsOK, BooksOK
    PROVE  Held \in Int
<1>1. Net(exec) \in Int
    BY NetInt DEF RowsOK
<1>2. other.qty \in Int
    BY DEF BooksOK
<1> QED
    BY <1>1, <1>2 DEF Held

\* The state between two polls.
LEMMA NoPollOK ==
    /\ NoPoll \in [pc : {"idle", "items", "fallback"}, day : Nat, items : [Orders -> Nat],
                   cand : SUBSET Orders, held : Int]
    /\ NoPoll.pc = "idle" /\ NoPoll.day = 0 /\ NoPoll.items = [o \in Orders |-> 0]
    BY DEF NoPoll

\* The state between two passes of the reconciler.
LEMMA NoPassOK ==
    /\ NoPass \in [pc : {"idle", "read", "classify", "correct"}, skip : BOOLEAN, b : Int, i : Int]
    /\ NoPass.pc = "idle"
    BY DEF NoPass

\* The initial state has the types.
LEMMA TypeInit ==
    ASSUME Init
    PROVE  TypeInv
<1>1. RowsOK
    BY OrdersFacts DEF Init, RowsOK, Statuses
<1>2. poll = NoPoll /\ verify = {} /\ today = 1
    BY DEF Init
<1>3. PollOK
    BY <1>1, <1>2, NoPollOK DEF PollOK, RowsOK
<1>4. other \in [qty : Int, traded : BOOLEAN]
  <2>1. other \in [qty : Base, traded : BOOLEAN]
    BY DEF Init
  <2>2. other.qty \in Base /\ other.traded \in BOOLEAN /\ other = [qty |-> other.qty, traded |-> other.traded]
    BY <2>1
  <2>3. other.qty \in Int
    BY <2>2, ReconcileAssumption
  <2> QED
    BY <2>2, <2>3
<1>5. pos \in Int
    BY <1>4 DEF Init
<1>6. BooksOK
  <2>1. pass = NoPass /\ overlap \in BOOLEAN /\ clipped \in BOOLEAN /\ blind \in BOOLEAN
    BY DEF Init
  <2> QED
    BY <1>4, <1>5, <2>1, NoPassOK DEF BooksOK
<1> QED
    BY <1>1, <1>3, <1>6 DEF TypeInv

\* apply_cumulative.
LEMMA ApplyIs ==
    ASSUME RowsOK, BooksOK, NEW o \in Orders, NEW q \in Nat, q <= Qty[o], Apply(o, q)
    PROVE  /\ rec' \in [Orders -> Nat] /\ pos' \in Int
           /\ overlap' \in BOOLEAN /\ clipped' \in BOOLEAN /\ blind' \in BOOLEAN
           /\ \A p \in Orders : p # o => rec'[p] = rec[p]
           /\ rec'[o] = (IF Applies(o, q) THEN q ELSE rec[o])
           /\ rec[o] <= rec'[o] /\ rec'[o] <= Qty[o]
           /\ Advanced(o, q) \in [Orders -> Statuses]
           /\ \A p \in Orders : p # o => Advanced(o, q)[p] = status[p]
           /\ ~Applies(o, q) => Advanced(o, q)[o] = status[o] /\ UNCHANGED <<rec, pos, past>>
           /\ Applies(o, q) => Advanced(o, q)[o] = IF q >= Qty[o] THEN "filled" ELSE "partially_filled"
<1>1. CASE Applies(o, q)
  <2>1. /\ rec' = [rec EXCEPT ![o] = q]
        /\ pos' = IF Side[o] = "buy" THEN pos + q - rec[o]
                  ELSE IF pos > q - rec[o] THEN pos - (q - rec[o]) ELSE 0
        /\ overlap' = (overlap \/ pass.pc \in {"read", "classify"})
        /\ clipped' = (clipped \/ (Side[o] = "sell" /\ pos < q - rec[o])) /\ blind' = blind
    BY <1>1 DEF Apply
  <2>2. pos' \in Int /\ overlap' \in BOOLEAN /\ clipped' \in BOOLEAN /\ blind' \in BOOLEAN
    BY <2>1 DEF RowsOK, BooksOK
  <2>3. rec' \in [Orders -> Nat] /\ rec'[o] = q /\ rec[o] <= q /\ \A p \in Orders : p # o => rec'[p] = rec[p]
    BY <1>1, <2>1 DEF RowsOK, Applies
  <2>4. Advanced(o, q) = [status EXCEPT ![o] = IF q >= Qty[o] THEN "filled" ELSE "partially_filled"]
    BY <1>1 DEF Advanced
  <2>5. /\ Advanced(o, q) \in [Orders -> Statuses]
        /\ \A p \in Orders : p # o => Advanced(o, q)[p] = status[p]
        /\ Advanced(o, q)[o] = IF q >= Qty[o] THEN "filled" ELSE "partially_filled"
    BY <2>4 DEF RowsOK, Statuses
  <2> QED
    BY <1>1, <2>2, <2>3, <2>5
<1>2. CASE ~Applies(o, q)
    BY <1>2 DEF Apply, Advanced, RowsOK, BooksOK, past
<1> QED
    BY <1>1, <1>2

\* The rows after apply_cumulative.
LEMMA ApplyRows ==
    ASSUME RowsOK, BooksOK, NEW o \in Orders, NEW q \in Nat, q <= Qty[o], Apply(o, q),
           status' = Advanced(o, q), UNCHANGED <<exec, ccld, day, today>>
    PROVE  RowsOK'
<1>1. \A p \in Orders : p # o => rec'[p] = rec[p] /\ status'[p] = status[p]
    BY ApplyIs
<1>2. rec' \in [Orders -> Nat] /\ status' \in [Orders -> Statuses] /\ rec'[o] <= Qty[o]
    BY ApplyIs
<1>3. CASE Applies(o, q)
  <2>1. status'[o] \in {"filled", "partially_filled"} /\ (status'[o] = "filled" => q >= Qty[o]) /\ rec'[o] = q
    BY <1>3, ApplyIs
  <2>2. status'[o] = "filled" => rec'[o] = Qty[o]
    BY <1>2, <2>1, OrdersFacts DEF RowsOK
  <2>3. status'[o] # "none"
    BY <2>1
  <2> QED
    BY <1>1, <1>2, <2>2, <2>3 DEF RowsOK
<1>4. CASE ~Applies(o, q)
  <2>1. status'[o] = status[o] /\ rec'[o] = rec[o]
    BY <1>4, ApplyIs
  <2> QED
    BY <1>1, <1>2, <2>1 DEF RowsOK
<1> QED
    BY <1>3, <1>4

\* The end of a poll expires rows of earlier days.
LEMMA ExpiredIs ==
    ASSUME NEW rows \in [Orders -> Statuses]
    PROVE  /\ Expired(rows) \in [Orders -> Statuses]
           /\ \A o \in Orders : \/ Expired(rows)[o] = rows[o]
                                \/ rows[o] = "open" /\ Expired(rows)[o] = "expired"
    BY DEF Expired, Statuses

\* Nothing about the orders and their rows changes.
LEMMA RowsSame ==
    ASSUME RowsOK, UNCHANGED <<exec, ccld, rec, day, status, today>>
    PROVE  RowsOK'
    BY DEF RowsOK

\* Nothing the poll relies on changes.
LEMMA PollSame ==
    ASSUME PollOK, UNCHANGED <<ccld, rec, today, poll, verify>>
    PROVE  PollOK'
    BY DEF PollOK

\* Neither the position nor the pass of the reconciler changes.
LEMMA BooksSame ==
    ASSUME BooksOK, UNCHANGED <<other, pos, pass, overlap, clipped, blind>>
    PROVE  BooksOK'
    BY DEF BooksOK

\* A pass writes nothing but the position.
LEMMA PassType ==
    ASSUME TypeInv, Pass \/ StartCommand
    PROVE  TypeInv'
<1>1. UNCHANGED <<broker, day, status, rec, bots, tries, poll, verify, alerted, restarts>>
    BY DEF Pass, StartPass, PassDetects, Read, Classify, ClassifyBlind, Correct, StartCommand, PassFrame
<1>2. RowsOK' /\ PollOK'
    BY <1>1, RowsSame, PollSame DEF TypeInv, broker
<1>3. Held \in Int /\ pos \in Int /\ other \in [qty : Int, traded : BOOLEAN]
    BY HeldInt DEF TypeInv, BooksOK
<1> DEFINE Passes == [pc : {"idle", "read", "classify", "correct"}, skip : BOOLEAN, b : Int, i : Int]
<1>4. pass \in Passes /\ pass.b \in Int /\ overlap \in BOOLEAN /\ clipped \in BOOLEAN /\ blind \in BOOLEAN
    BY DEF TypeInv, BooksOK
<1>5. UNCHANGED <<other, overlap, clipped>> /\ blind' \in BOOLEAN
    BY <1>1, <1>4 DEF Pass, StartPass, PassDetects, Read, Classify, ClassifyBlind, Correct, StartCommand, broker, past
<1>6. pos' \in Int
  <2>1. pos' = pos \/ pos' = pass.b
    BY DEF Pass, StartPass, PassDetects, Read, Classify, ClassifyBlind, Correct, StartCommand
  <2> QED
    BY <1>3, <1>4, <2>1
<1>7. pass' \in Passes
  <2>1. CASE StartPass
    <3>1. pass' = [NoPass EXCEPT !.pc = "read", !.b = Held, !.skip = HoldsBack]
      BY <2>1 DEF StartPass
    <3>2. HoldsBack \in BOOLEAN
      BY DEF HoldsBack
    <3> HIDE DEF Passes
    <3>3. pass' = [pc |-> "read", skip |-> HoldsBack, b |-> Held, i |-> 0]
      BY <3>1 DEF NoPass
    <3> QED
      BY <1>3, <3>2, <3>3 DEF Passes
  <2>2. CASE StartCommand
    <3>1. pass' = [NoPass EXCEPT !.pc = "read", !.b = Held]
      BY <2>2 DEF StartCommand
    <3>2. pass' = [pc |-> "read", skip |-> FALSE, b |-> Held, i |-> 0]
      BY <3>1 DEF NoPass
    <3> QED
      BY <1>3, <3>2
  <2>3. CASE PassDetects
    BY <1>4, <2>3 DEF PassDetects
  <2>4. CASE Read
    <3>1. pass' = NoPass \/ pass' = [pass EXCEPT !.pc = "classify", !.i = pos]
      BY <2>4 DEF Read
    <3> QED
      BY <1>3, <1>4, <3>1, NoPassOK
  <2>5. CASE Classify
    <3>1. pass' = NoPass \/ pass' = [pass EXCEPT !.pc = "correct"]
      BY <2>5 DEF Classify, To
    <3> QED
      BY <1>4, <3>1, NoPassOK
  <2>6. CASE ClassifyBlind
    <3>1. pass' = NoPass \/ pass' = [pass EXCEPT !.pc = "correct"]
      BY <2>6 DEF ClassifyBlind, To
    <3> QED
      BY <1>4, <3>1, NoPassOK
  <2>7. CASE Correct
    <3>1. pass' = NoPass
      BY <2>7 DEF Correct, To
    <3> QED
      BY <3>1, NoPassOK
  <2> QED
    BY <2>1, <2>2, <2>3, <2>4, <2>5, <2>6, <2>7 DEF Pass
<1> HIDE DEF Passes
<1>8. BooksOK'
    BY <1>3, <1>4, <1>5, <1>6, <1>7 DEF BooksOK, Passes
<1> QED
    BY <1>2, <1>8 DEF TypeInv

\* Submission, execution, its appearance in the daily inquiry and cancellation keep the types.
LEMMA MarketType ==
    ASSUME TypeInv, NEW o \in Orders, Submit(o) \/ Execute(o) \/ HistoryShows(o) \/ Cancel(o)
    PROVE  TypeInv'
<1>1. UNCHANGED <<other, today, rec, pos, sched, pass, past>>
    BY DEF Submit, Execute, HistoryShows, Cancel, broker, tracker
<1>2. BooksOK'
    BY <1>1, BooksSame DEF TypeInv, past
<1>3. RowsOK'
  <2>1. CASE Submit(o)
    BY <2>1, <1>1 DEF Submit, TypeInv, RowsOK, Statuses, broker
  <2>2. CASE Execute(o)
    BY <2>2, <1>1, OrdersFacts DEF Execute, TypeInv, RowsOK, Statuses, tracker
  <2>3. CASE HistoryShows(o)
    BY <2>3, <1>1 DEF HistoryShows, TypeInv, RowsOK, Statuses, tracker
  <2>4. CASE Cancel(o)
    BY <2>4, <1>1 DEF Cancel, TypeInv, RowsOK, Statuses, broker, Open, OpenStatuses
  <2> QED
    BY <2>1, <2>2, <2>3, <2>4
<1>4. PollOK'
  <2>1. \A p \in Orders : ccld[p] <= ccld'[p] /\ ccld[p] \in Nat /\ ccld'[p] \in Nat
    BY <1>3 DEF Submit, Execute, HistoryShows, Cancel, TypeInv, RowsOK, broker
  <2>2. UNCHANGED <<poll, verify, today, rec>>
    BY <1>1 DEF sched
  <2>3. \A p \in Orders : poll.items[p] \in Nat
    BY DEF TypeInv, PollOK
  <2> QED
    BY <2>1, <2>2, <2>3 DEF TypeInv, PollOK
<1> QED
    BY <1>2, <1>3, <1>4 DEF TypeInv

\* Trades outside the program, midnight and a restart keep them.
LEMMA DayType ==
    ASSUME TypeInv, ExternalTrade \/ NewDay \/ Restart
    PROVE  TypeInv'
<1>1. CASE ExternalTrade
  <2>1. PICK q \in External : other' = [qty |-> other.qty + q, traded |-> TRUE]
    BY <1>1 DEF ExternalTrade
  <2>2. other' \in [qty : Int, traded : BOOLEAN]
    BY <2>1, ReconcileAssumption DEF TypeInv, BooksOK
  <2>3. UNCHANGED <<exec, ccld, rec, day, status, today, poll, verify, pos, pass, overlap, clipped, blind>>
    BY <1>1 DEF ExternalTrade, tracker, sched, past
  <2>4. BooksOK'
    BY <2>2, <2>3 DEF TypeInv, BooksOK
  <2> QED
    BY <2>3, <2>4, RowsSame, PollSame DEF TypeInv
<1>2. CASE NewDay
  <2>1. /\ UNCHANGED <<other, exec, rec, day, status, poll, verify, pos, pass, overlap, clipped, blind>>
        /\ today' = today + 1 /\ ccld' = exec
    BY <1>2 DEF NewDay, tracker, sched, past
  <2>2. RowsOK' /\ BooksOK'
    BY <2>1, BooksSame DEF TypeInv, RowsOK
  <2>3. \A o \in Orders : poll.items[o] \in Nat /\ poll.items[o] <= ccld[o] /\ ccld[o] <= exec[o]
                          /\ ccld[o] \in Nat /\ exec[o] \in Nat
    BY DEF TypeInv, PollOK, RowsOK
  <2>4. \A o \in Orders : poll.items[o] <= exec[o]
    BY <2>3
  <2>5. PollOK'
    BY <2>1, <2>4 DEF TypeInv, PollOK, RowsOK
  <2> QED
    BY <2>2, <2>5 DEF TypeInv
<1>3. CASE Restart
  <2>1. /\ UNCHANGED <<exec, ccld, rec, day, status, today, other, pos, overlap, clipped, blind>>
        /\ poll' = NoPoll /\ verify' = {} /\ pass' = NoPass
    BY <1>3 DEF Restart, broker, tracker, past
  <2>2. RowsOK'
    BY <2>1, RowsSame DEF TypeInv
  <2>3. BooksOK'
    BY <2>1, NoPassOK DEF TypeInv, BooksOK
  <2>4. PollOK'
    BY <2>1, <2>2, NoPollOK DEF PollOK, RowsOK
  <2> QED
    BY <2>2, <2>3, <2>4 DEF TypeInv
<1> QED
    BY <1>1, <1>2, <1>3

\* A poll that has nothing to do, or fails, keeps them.
LEMMA PollIdleType ==
    ASSUME TypeInv, PollNothing \/ PollFails
    PROVE  TypeInv'
<1>1. UNCHANGED <<exec, ccld, rec, day, status, today, poll, verify, other, pos, pass, overlap, clipped, blind>>
    BY DEF PollNothing, PollFails, broker, tracker, past
<1> QED
    BY <1>1, RowsSame, PollSame, BooksSame DEF TypeInv

\* The answer of the daily inquiry keeps them.
LEMMA PollHistoryType ==
    ASSUME TypeInv, PollHistory
    PROVE  TypeInv'
<1> DEFINE items == [o \in Orders |-> IF day[o] >= FromDate(Open \cup verify) THEN ccld[o] ELSE 0]
<1>1. /\ UNCHANGED <<exec, ccld, rec, day, status, today, verify, other, pos, pass, overlap, clipped, blind>>
      /\ poll' = [NoPoll EXCEPT !.pc = "items", !.day = today, !.items = items]
    BY DEF PollHistory, broker, tracker, past
<1>2. items \in [Orders -> Nat] /\ \A o \in Orders : items[o] <= ccld[o]
    BY DEF TypeInv, RowsOK
<1> HIDE DEF items
<1>3. poll' = [pc |-> "items", day |-> today, items |-> items, cand |-> {}, held |-> 0]
    BY <1>1 DEF NoPoll
<1>4. PollOK'
    BY <1>1, <1>2, <1>3 DEF TypeInv, PollOK, RowsOK
<1> QED
    BY <1>1, <1>4, RowsSame, BooksSame DEF TypeInv

\* Applying one of its items keeps them.
LEMMA PollItemType ==
    ASSUME TypeInv, NEW o \in Orders, PollItem(o)
    PROVE  TypeInv'
<1> DEFINE q == poll.items[o]
<1>1. /\ poll.pc = "items" /\ Apply(o, q) /\ status' = Advanced(o, q)
      /\ UNCHANGED <<exec, ccld, day, today, other, pass>>
      /\ poll' = [poll EXCEPT !.items[o] = 0]
      /\ verify' = verify \ {o}
    BY DEF PollItem, broker, Verify
<1>2. q \in Nat /\ q <= ccld[o] /\ ccld[o] <= exec[o] /\ exec[o] <= Qty[o]
    BY DEF TypeInv, PollOK, RowsOK
<1>3. q <= Qty[o]
    BY <1>2, OrdersFacts DEF TypeInv, RowsOK
<1> HIDE DEF q
<1>4. RowsOK'
    BY <1>1, <1>2, <1>3, ApplyRows DEF TypeInv
<1>5. BooksOK'
    BY <1>1, <1>2, <1>3, ApplyIs DEF TypeInv, BooksOK
<1>6. /\ poll' \in [pc : {"idle", "items", "fallback"}, day : Nat, items : [Orders -> Nat],
                    cand : SUBSET Orders, held : Int]
      /\ poll'.pc = "items" /\ poll'.day = poll.day
      /\ \A p \in Orders : poll'.items[p] = IF p = o THEN 0 ELSE poll.items[p]
    BY <1>1 DEF TypeInv, PollOK
<1>7. PollOK'
    BY <1>1, <1>4, <1>6 DEF TypeInv, PollOK, RowsOK
<1> QED
    BY <1>4, <1>5, <1>7 DEF TypeInv

\* A poll ends with these rows.
LEMMA PollEndsType ==
    ASSUME TypeInv, NEW rows, NEW checks, checks \subseteq Orders, PollEnds(rows, checks),
           rows \in [Orders -> Statuses], rec' \in [Orders -> Nat],
           \A o \in Orders : /\ rec'[o] <= Qty[o]
                             /\ rows[o] = "none" => rec'[o] = 0 /\ exec[o] = 0
                             /\ rows[o] = "filled" => rec'[o] = Qty[o],
           pos' \in Int, overlap' \in BOOLEAN, clipped' \in BOOLEAN, blind' \in BOOLEAN
    PROVE  TypeInv'
<1>1. /\ UNCHANGED <<exec, ccld, day, today, other, pass>>
      /\ poll' = NoPoll /\ status' = Expired(rows)
      /\ verify' = {o \in checks : day[o] >= poll.day}
    BY DEF PollEnds, broker
<1>2. /\ status' \in [Orders -> Statuses]
      /\ \A o \in Orders : status'[o] = rows[o] \/ status'[o] = "expired"
    BY <1>1, ExpiredIs
<1>3. RowsOK'
    BY <1>1, <1>2 DEF TypeInv, RowsOK
<1>4. BooksOK'
    BY <1>1 DEF TypeInv, BooksOK
<1>5. PollOK'
    BY <1>1, <1>3, NoPollOK DEF PollOK, RowsOK
<1> QED
    BY <1>3, <1>4, <1>5 DEF TypeInv

\* A poll that ends without the fallback keeps them.
LEMMA NoFallbackType ==
    ASSUME TypeInv, NoFallback
    PROVE  TypeInv'
<1>1. PollEnds(status, verify) /\ UNCHANGED <<rec, pos, overlap, clipped, blind>>
    BY DEF NoFallback, past
<1>2. /\ status \in [Orders -> Statuses] /\ rec' \in [Orders -> Nat] /\ verify \subseteq Orders
      /\ \A o \in Orders : /\ rec'[o] <= Qty[o]
                           /\ status[o] = "none" => rec'[o] = 0 /\ exec[o] = 0
                           /\ status[o] = "filled" => rec'[o] = Qty[o]
    BY <1>1 DEF TypeInv, RowsOK, PollOK
<1>3. pos' \in Int /\ overlap' \in BOOLEAN /\ clipped' \in BOOLEAN /\ blind' \in BOOLEAN
    BY <1>1 DEF TypeInv, BooksOK
<1>4. PICK rows, checks : rows = status /\ checks = verify
    OBVIOUS
<1> QED
    BY <1>1, <1>2, <1>3, <1>4, PollEndsType

\* The fallback's reading of the positions keeps them.
LEMMA FallbackPositionsType ==
    ASSUME TypeInv, FallbackPositions
    PROVE  TypeInv'
<1>1. /\ UNCHANGED <<exec, ccld, rec, day, status, today, verify, other, pos, pass, overlap, clipped, blind>>
      /\ poll' = [poll EXCEPT !.pc = "fallback", !.cand = Unrecovered, !.held = Held]
      /\ \A o \in Orders : poll.items[o] = 0
    BY DEF FallbackPositions, broker, tracker, past, ItemsDone
<1>2. Unrecovered \in SUBSET Orders /\ \A o \in Unrecovered : rec[o] = 0
    BY DEF Unrecovered, OpenOf, Open
<1>3. Held \in Int
    BY HeldInt DEF TypeInv
<1>4. PICK c, h : c = Unrecovered /\ h = Held
    OBVIOUS
<1>5. /\ poll' \in [pc : {"idle", "items", "fallback"}, day : Nat, items : [Orders -> Nat],
                    cand : SUBSET Orders, held : Int]
      /\ poll'.day = poll.day /\ poll'.items = poll.items /\ poll'.cand = Unrecovered
    BY <1>1, <1>2, <1>3, <1>4 DEF TypeInv, PollOK
<1>6. PollOK'
    BY <1>1, <1>2, <1>5 DEF TypeInv, PollOK
<1> QED
    BY <1>1, <1>6, RowsSame, BooksSame DEF TypeInv

\* The order the fallback takes for filled.
Match == {o \in poll.cand : Applies(o, Qty[o]) /\ poll.held - pos = Qty[o]}

\* The fallback applies the whole quantity of one candidate whose fill explains the holding, or nothing.
LEMMA FallbackCases ==
    ASSUME TypeInv, FallbackApply
    PROVE  /\ poll.pc = "fallback"
           /\ \/ PollEnds(status, verify) /\ UNCHANGED <<rec, pos, overlap, clipped, blind>>
              \/ \E o \in Orders : /\ o \in Match /\ Apply(o, Qty[o])
                                   /\ PollEnds(Advanced(o, Qty[o]), verify \cup {o})
<1>1. poll.cand \subseteq Orders
    BY DEF TypeInv, PollOK
<1> QED
    BY <1>1 DEF FallbackApply, Match, past

\* The end of the fallback keeps the types.
LEMMA FallbackApplyType ==
    ASSUME TypeInv, FallbackApply
    PROVE  TypeInv'
<1>1. CASE PollEnds(status, verify) /\ UNCHANGED <<rec, pos, overlap, clipped, blind>>
  <2>1. /\ status \in [Orders -> Statuses] /\ rec' \in [Orders -> Nat] /\ verify \subseteq Orders
        /\ \A o \in Orders : /\ rec'[o] <= Qty[o]
                             /\ status[o] = "none" => rec'[o] = 0 /\ exec[o] = 0
                             /\ status[o] = "filled" => rec'[o] = Qty[o]
    BY <1>1 DEF TypeInv, RowsOK, PollOK
  <2>2. pos' \in Int /\ overlap' \in BOOLEAN /\ clipped' \in BOOLEAN /\ blind' \in BOOLEAN
    BY <1>1 DEF TypeInv, BooksOK
  <2>3. PICK rows, checks : rows = status /\ checks = verify
    OBVIOUS
  <2> QED
    BY <1>1, <2>1, <2>2, <2>3, PollEndsType
<1>2. ASSUME NEW o \in Orders, o \in Match, Apply(o, Qty[o]),
             PollEnds(Advanced(o, Qty[o]), verify \cup {o})
      PROVE  TypeInv'
  <2>1. Qty[o] \in Nat /\ Qty[o] <= Qty[o] /\ Applies(o, Qty[o]) /\ status[o] # "none"
    BY <1>2, OrdersFacts DEF Match, Applies, Open, OpenStatuses
  <2>2. PICK rows, checks : rows = Advanced(o, Qty[o]) /\ checks = verify \cup {o}
    OBVIOUS
  <2>3. /\ rows \in [Orders -> Statuses] /\ rec' \in [Orders -> Nat]
        /\ pos' \in Int /\ overlap' \in BOOLEAN /\ clipped' \in BOOLEAN /\ blind' \in BOOLEAN
        /\ rec'[o] = Qty[o] /\ rows[o] = "filled"
        /\ \A p \in Orders : p # o => rec'[p] = rec[p] /\ rows[p] = status[p]
    BY <1>2, <2>1, <2>2, ApplyIs DEF TypeInv
  <2>4. \A p \in Orders : /\ rec'[p] <= Qty[p]
                          /\ rows[p] = "none" => rec'[p] = 0 /\ exec[p] = 0
                          /\ rows[p] = "filled" => rec'[p] = Qty[p]
    BY <2>1, <2>3 DEF TypeInv, RowsOK
  <2>5. checks \subseteq Orders /\ PollEnds(rows, checks)
    BY <1>2, <2>2 DEF TypeInv, PollOK
  <2> QED
    BY <2>3, <2>4, <2>5, PollEndsType
<1> QED
    BY <1>1, <1>2, FallbackCases

\* The types hold in every state.
LEMMA TypeNext ==
    ASSUME TypeInv, [Next]_vars
    PROVE  TypeInv'
<1>1. CASE UNCHANGED vars
  <2>1. UNCHANGED <<exec, ccld, rec, day, status, today, poll, verify, other, pos, pass, overlap, clipped, blind>>
    BY <1>1 DEF vars, broker, tracker, sched, past
  <2> QED
    BY <2>1, RowsSame, PollSame, BooksSame DEF TypeInv
<1>2. CASE Pass \/ StartCommand
    BY <1>2, PassType
<1>3. CASE \E o \in Orders : Submit(o) \/ Execute(o) \/ HistoryShows(o) \/ Cancel(o)
    BY <1>3, MarketType
<1>4. CASE ExternalTrade \/ NewDay \/ Restart
    BY <1>4, DayType
<1>5. CASE PollFails \/ Poll
    BY <1>5, PollIdleType, PollHistoryType, PollItemType, NoFallbackType, FallbackPositionsType,
       FallbackApplyType DEF Poll
<1> QED
    BY <1>1, <1>2, <1>3, <1>4, <1>5 DEF Next

-----------------------------------------------------------------------------
(* What the fallback attributes too much *)

\* A record beyond the executions is watched, or of an order that never traded on its day.
Watched(o) == o \in verify \cup alerted \/ restarts > 0 \/ (exec[o] = 0 /\ day[o] < today)
Surfaces == \A o \in Orders : rec[o] > exec[o] => Watched(o)

\* A line of the history not yet taken is the whole of the order, and one that is gone has been recorded.
Told(o) ==
    \/ poll.items[o] = exec[o]
    \/ poll.items[o] = 0 /\ (exec[o] = 0 \/ (o \notin verify /\ rec[o] >= exec[o]))
Ripe(o) == o \in Open \cup verify /\ day[o] < poll.day
ToldAll == poll.pc \in {"items", "fallback"} => \A o \in Orders : Ripe(o) => Told(o)

SurfaceInv == TypeInv /\ Surfaces /\ ToldAll /\ restarts \in Nat

\* Initially nothing is attributed.
LEMMA SurfaceInit ==
    ASSUME Init
    PROVE  SurfaceInv
<1>1. TypeInv
    BY TypeInit
<1>2. Surfaces
    BY DEF Init, Surfaces
<1>3. ToldAll
    BY NoPollOK DEF Init, ToldAll
<1> QED
    BY <1>1, <1>2, <1>3 DEF Init, SurfaceInv

\* What the market and the bot do to it.
LEMMA MarketSurfaces ==
    ASSUME SurfaceInv, NEW o \in Orders, Submit(o) \/ Execute(o) \/ HistoryShows(o) \/ Cancel(o)
    PROVE  Surfaces' /\ ToldAll'
<1>1. /\ UNCHANGED <<rec, poll, verify, alerted, restarts, today>>
      /\ \A p \in Orders : p # o => UNCHANGED <<exec[p], day[p], status[p]>>
  <2>1. UNCHANGED <<rec, poll, verify, alerted, restarts, today>>
    BY DEF Submit, Execute, HistoryShows, Cancel, broker, tracker, sched
  <2>2. UNCHANGED exec \/ exec' = [exec EXCEPT ![o] = @ + 1]
    BY DEF Submit, Execute, HistoryShows, Cancel, broker, tracker, sched
  <2>3. UNCHANGED day \/ day' = [day EXCEPT ![o] = today]
    BY DEF Submit, Execute, HistoryShows, Cancel, broker, tracker, sched
  <2>4. \/ UNCHANGED status \/ status' = [status EXCEPT ![o] = "open"]
        \/ status' = [status EXCEPT ![o] = "cancelled"]
    BY DEF Submit, Execute, HistoryShows, Cancel, broker, tracker, sched
  <2> QED
    BY <2>1, <2>2, <2>3, <2>4 DEF SurfaceInv, TypeInv, RowsOK
<1>2. /\ rec[o] \in Nat /\ exec[o] \in Nat /\ exec'[o] \in Nat /\ day[o] \in Nat
      /\ poll.day \in Nat /\ today \in Nat /\ poll.day <= today
    BY MarketType DEF SurfaceInv, TypeInv, RowsOK, PollOK
<1>3. \/ UNCHANGED <<exec, day>> /\ (o \in Open' => o \in Open)
      \/ UNCHANGED exec /\ rec[o] = 0 /\ exec[o] = 0 /\ day'[o] = today
      \/ exec'[o] = exec[o] + 1 /\ day[o] = today /\ day' = day
  <2>1. CASE Submit(o)
    BY <2>1 DEF Submit, broker, SurfaceInv, TypeInv, RowsOK
  <2>2. CASE Execute(o)
    BY <2>2 DEF Execute, tracker, SurfaceInv, TypeInv, RowsOK
  <2>3. CASE HistoryShows(o)
    BY <2>3 DEF HistoryShows, tracker, Open
  <2>4. CASE Cancel(o)
    BY <2>4 DEF Cancel, broker, Open
  <2> QED
    BY <2>1, <2>2, <2>3, <2>4
<1>4. ASSUME NEW p \in Orders, rec'[p] > exec'[p] PROVE Watched(p)'
  <2>1. CASE p # o
    BY <1>1, <1>4, <2>1 DEF SurfaceInv, Surfaces, Watched
  <2>2. CASE p = o
    BY <1>1, <1>2, <1>3, <1>4, <2>2 DEF SurfaceInv, Surfaces, Watched
  <2> QED
    BY <2>1, <2>2
<1>5. ASSUME poll'.pc \in {"items", "fallback"}, NEW p \in Orders, Ripe(p)' PROVE Told(p)'
  <2>1. CASE p # o
    <3>1. Ripe(p)
      BY <1>1, <1>5, <2>1 DEF Ripe, Open
    <3>2. Told(p)
      BY <1>1, <1>5, <3>1 DEF SurfaceInv, ToldAll
    <3> QED
      BY <1>1, <2>1, <3>2 DEF Told
  <2>2. CASE p = o
    <3>1. day'[o] < poll.day /\ UNCHANGED <<exec, day>> /\ (o \in Open' => o \in Open)
      BY <1>1, <1>2, <1>3, <1>5, <2>2 DEF Ripe
    <3>2. Ripe(o)
      BY <1>1, <1>5, <2>2, <3>1 DEF Ripe
    <3>3. Told(o)
      BY <1>1, <1>5, <3>2 DEF SurfaceInv, ToldAll
    <3> QED
      BY <1>1, <2>2, <3>1, <3>3 DEF Told
  <2> QED
    BY <2>1, <2>2
<1>6. Surfaces'
    BY <1>4 DEF Surfaces
<1>7. ToldAll'
    BY <1>5 DEF ToldAll
<1> QED
    BY <1>6, <1>7

\* Nothing but the position, or the end of a poll, a restart or another day.
LEMMA QuietSurfaces ==
    ASSUME SurfaceInv, UNCHANGED <<exec, rec, day, status, today, poll, verify, alerted, restarts>>
    PROVE  Surfaces' /\ ToldAll'
<1>1. Surfaces'
    BY DEF SurfaceInv, Surfaces, Watched
<1>2. ToldAll'
    BY DEF SurfaceInv, ToldAll, Ripe, Told, Open
<1> QED
    BY <1>1, <1>2

\* Midnight: the fills of the day before have all been shown.
LEMMA NewDaySurfaces ==
    ASSUME SurfaceInv, NewDay
    PROVE  Surfaces' /\ ToldAll'
<1>1. /\ UNCHANGED <<exec, rec, day, status, poll, verify, alerted, restarts>> /\ today' = today + 1
      /\ today \in Nat /\ \A o \in Orders : day[o] \in Nat
    BY DEF NewDay, tracker, sched, SurfaceInv, TypeInv, RowsOK
<1>2. Surfaces'
    BY <1>1 DEF SurfaceInv, Surfaces, Watched
<1>3. ToldAll'
    BY <1>1 DEF SurfaceInv, ToldAll, Ripe, Told, Open
<1> QED
    BY <1>2, <1>3

\* A restart forgets what was to be verified.
LEMMA RestartSurfaces ==
    ASSUME SurfaceInv, Restart
    PROVE  Surfaces' /\ ToldAll' /\ restarts' \in Nat
<1>1. restarts' > 0 /\ restarts' \in Nat /\ poll' = NoPoll
    BY DEF Restart, SurfaceInv
<1>2. Surfaces'
    BY <1>1 DEF Surfaces, Watched
<1>3. ToldAll'
    BY <1>1, NoPollOK DEF ToldAll
<1> QED
    BY <1>1, <1>2, <1>3

\* The window starts early enough for every order that is open or to be verified.
LEMMA WindowCovers ==
    ASSUME TypeInv, NEW o \in Open \cup verify
    PROVE  day[o] >= FromDate(Open \cup verify)
<1> DEFINE S == Open \cup verify
           D == {day[p] : p \in S}
<1>1. S \subseteq Orders
    BY DEF TypeInv, PollOK, Open
<1>2. D \subseteq Nat /\ day[o] \in D /\ D # {}
    BY <1>1 DEF TypeInv, RowsOK
<1> HIDE DEF D
<1>3. PICK d, m : d = D /\ m = Min(D)
    OBVIOUS
<1>4. m \in d /\ \A y \in d : m <= y
    BY <1>2, <1>3, MinLeast
<1>5. m \in Nat /\ m <= day[o] /\ day[o] \in Nat
    BY <1>2, <1>3, <1>4
<1>6. m = FromDate(Open \cup verify)
    BY <1>3 DEF D, FromDate
<1> QED
    BY <1>5, <1>6

\* The answer of the inquiry is read in one step.
LEMMA HistorySurfaces ==
    ASSUME SurfaceInv, PollHistory
    PROVE  Surfaces' /\ ToldAll'
<1> DEFINE items == [o \in Orders |-> IF day[o] >= FromDate(Open \cup verify) THEN ccld[o] ELSE 0]
<1>1. /\ UNCHANGED <<exec, ccld, rec, day, status, today, verify, alerted, restarts>>
      /\ poll' = [NoPoll EXCEPT !.pc = "items", !.day = today, !.items = items]
    BY DEF PollHistory, broker, tracker
<1>2. \A o \in Open \cup verify : o \in Orders => items[o] = ccld[o]
    BY WindowCovers DEF SurfaceInv
<1> HIDE DEF items
<1>3. poll'.day = today /\ poll'.items = items
    BY <1>1 DEF NoPoll
<1>4. ASSUME NEW o \in Orders, Ripe(o)' PROVE Told(o)'
  <2>1. o \in Open \cup verify /\ day[o] < today
    BY <1>1, <1>3, <1>4 DEF Ripe, Open
  <2>2. items[o] = ccld[o] /\ ccld[o] = exec[o]
    BY <1>2, <2>1 DEF SurfaceInv, TypeInv, RowsOK
  <2> QED
    BY <1>1, <1>3, <2>2 DEF Told
<1>5. Surfaces'
    BY <1>1 DEF SurfaceInv, Surfaces, Watched
<1> QED
    BY <1>4, <1>5 DEF ToldAll

\* An item of an order to be verified is compared with the row.
LEMMA ItemSurfaces ==
    ASSUME SurfaceInv, NEW o \in Orders, PollItem(o)
    PROVE  Surfaces' /\ ToldAll'
<1> DEFINE q == poll.items[o]
<1>1. /\ poll.pc = "items" /\ q > 0 /\ Apply(o, q) /\ status' = Advanced(o, q)
      /\ UNCHANGED <<exec, day, today, restarts>>
      /\ poll' = [poll EXCEPT !.items[o] = 0]
      /\ verify' = verify \ {o} /\ alerted' = alerted \cup Alerts(o)
    BY DEF PollItem, broker, Verify
<1>2. q \in Nat /\ q <= ccld[o] /\ ccld[o] <= exec[o] /\ exec[o] <= Qty[o] /\ rec[o] <= Qty[o]
    BY DEF SurfaceInv, TypeInv, PollOK, RowsOK
<1>3. q <= exec[o] /\ q <= Qty[o] /\ exec[o] \in Nat /\ rec[o] \in Nat /\ Qty[o] \in Nat
    BY <1>2, OrdersFacts DEF SurfaceInv, TypeInv, RowsOK
<1>4. /\ poll'.pc = "items" /\ poll'.day = poll.day
      /\ \A p \in Orders : poll'.items[p] = IF p = o THEN 0 ELSE poll.items[p]
    BY <1>1 DEF SurfaceInv, TypeInv, PollOK
<1>5. Alerts(o) = {v \in verify : v = o /\ q < Qty[o]}
    BY DEF Alerts
<1> HIDE DEF q
<1>6. /\ \A p \in Orders : p # o => rec'[p] = rec[p] /\ status'[p] = status[p]
      /\ rec'[o] = (IF Applies(o, q) THEN q ELSE rec[o])
      /\ rec[o] <= rec'[o]
      /\ ~Applies(o, q) => status'[o] = status[o]
    BY <1>1, <1>2, <1>3, ApplyIs DEF SurfaceInv, TypeInv
<1>7. ASSUME NEW p \in Orders, rec'[p] > exec'[p] PROVE Watched(p)'
  <2>1. CASE p # o
    BY <1>1, <1>6, <1>7, <2>1 DEF SurfaceInv, Surfaces, Watched
  <2>2. CASE p = o
    <3>1. rec'[o] > exec[o]
      BY <1>1, <1>7, <2>2
    <3>5. rec'[o] = rec[o] /\ rec[o] > exec[o]
      BY <1>2, <1>3, <1>6, <3>1
    <3>2. Watched(o)
      BY <3>5 DEF SurfaceInv, Surfaces
    <3>3. q < Qty[o]
      BY <1>2, <1>3, <3>5
    <3>4. o \in verify => o \in alerted'
      BY <1>1, <1>5, <3>3
    <3> QED
      BY <1>1, <2>2, <3>2, <3>4 DEF Watched
  <2> QED
    BY <2>1, <2>2
<1>8. ASSUME NEW p \in Orders, Ripe(p)' PROVE Told(p)'
  <2>1. CASE p # o
    <3>1. Ripe(p)
      BY <1>1, <1>4, <1>6, <1>8, <2>1 DEF Ripe, Open
    <3>2. Told(p)
      BY <1>1, <3>1 DEF SurfaceInv, ToldAll
    <3> QED
      BY <1>1, <1>4, <1>6, <2>1, <3>2 DEF Told
  <2>2. CASE p = o
    <3>1. o \in Open
      BY <1>1, <1>6, <1>8, <2>2 DEF Ripe, Open, Applies
    <3>2. Ripe(o)
      BY <1>1, <1>4, <1>8, <2>2, <3>1 DEF Ripe
    <3>3. q = exec[o]
      BY <1>1, <1>2, <3>2 DEF SurfaceInv, ToldAll, Told, q
    <3>4. rec'[o] >= exec[o]
      BY <1>3, <1>6, <3>1, <3>3 DEF Applies
    <3> QED
      BY <1>1, <1>4, <2>2, <3>4 DEF Told
  <2> QED
    BY <2>1, <2>2
<1> QED
    BY <1>7, <1>8 DEF Surfaces, ToldAll

\* A poll that ends forgets only what never traded.
LEMMA EndsSurface ==
    ASSUME SurfaceInv, NEW rows, NEW checks, checks \subseteq Orders, PollEnds(rows, checks),
           \A o \in Orders : rec'[o] > exec[o] =>
               (o \in checks /\ (day[o] < poll.day => exec[o] = 0)) \/ o \in alerted \/ restarts > 0
               \/ (exec[o] = 0 /\ day[o] < today)
    PROVE  Surfaces' /\ ToldAll'
<1>1. /\ UNCHANGED <<exec, day, today, alerted, restarts>>
      /\ poll' = NoPoll
      /\ verify' = {o \in checks : day[o] >= poll.day}
    BY DEF PollEnds, broker
<1>2. poll.day \in Nat /\ poll.day <= today /\ today \in Nat /\ \A o \in Orders : day[o] \in Nat
    BY DEF SurfaceInv, TypeInv, PollOK, RowsOK
<1>3. ASSUME NEW o \in Orders, rec'[o] > exec'[o] PROVE Watched(o)'
  <2>1. CASE o \in checks /\ day[o] < poll.day /\ exec[o] = 0
    BY <1>1, <1>2, <2>1 DEF Watched
  <2>2. CASE o \in checks /\ ~(day[o] < poll.day)
    BY <1>1, <1>2, <2>2 DEF Watched
  <2>3. CASE o \in alerted \/ restarts > 0 \/ (exec[o] = 0 /\ day[o] < today)
    BY <1>1, <2>3 DEF Watched
  <2> QED
    BY <1>1, <1>3, <2>1, <2>2, <2>3
<1>4. ToldAll'
    BY <1>1, NoPollOK DEF ToldAll
<1> QED
    BY <1>3, <1>4 DEF Surfaces

\* When the lines are done, what is to be verified of an earlier day never traded.
LEMMA RipeNeverTraded ==
    ASSUME SurfaceInv, poll.pc \in {"items", "fallback"}, \A o \in Orders : poll.items[o] = 0,
           NEW o \in Orders, day[o] < poll.day, o \in verify \/ (o \in Open /\ rec[o] = 0)
    PROVE  exec[o] = 0
<1>1. Ripe(o)
    BY DEF Ripe
<1>2. Told(o)
    BY <1>1 DEF SurfaceInv, ToldAll
<1>3. exec[o] \in Nat /\ rec[o] \in Nat
    BY DEF SurfaceInv, TypeInv, RowsOK
<1> QED
    BY <1>2, <1>3 DEF Told

\* The end of a poll, with the fallback or without.
LEMMA EndSurfaces ==
    ASSUME SurfaceInv, NoFallback \/ FallbackApply
    PROVE  Surfaces' /\ ToldAll'
<1>1. poll.pc \in {"items", "fallback"} /\ \A o \in Orders : poll.items[o] = 0
    BY DEF NoFallback, ItemsDone, FallbackApply, SurfaceInv, TypeInv, PollOK
<1>2. CASE PollEnds(status, verify) /\ UNCHANGED <<rec, pos, overlap, clipped, blind>>
  <2>1. PICK rows, checks : rows = status /\ checks = verify
    OBVIOUS
  <2>2. verify \subseteq Orders
    BY DEF SurfaceInv, TypeInv, PollOK
  <2>3. ASSUME NEW o \in Orders, rec'[o] > exec[o]
        PROVE  (o \in verify /\ (day[o] < poll.day => exec[o] = 0)) \/ o \in alerted \/ restarts > 0
               \/ (exec[o] = 0 /\ day[o] < today)
    <3>1. Watched(o)
      BY <1>2, <2>3 DEF SurfaceInv, Surfaces
    <3>2. o \in verify /\ day[o] < poll.day => exec[o] = 0
      BY <1>1, RipeNeverTraded
    <3> QED
      BY <3>1, <3>2 DEF Watched
  <2> QED
    BY <1>2, <2>1, <2>2, <2>3, EndsSurface
<1>3. ASSUME NEW o \in Orders, o \in Match, Apply(o, Qty[o]),
             PollEnds(Advanced(o, Qty[o]), verify \cup {o}), poll.pc = "fallback"
      PROVE  Surfaces' /\ ToldAll'
  <2>1. PICK rows, checks : rows = Advanced(o, Qty[o]) /\ checks = verify \cup {o}
    OBVIOUS
  <2>2. checks \subseteq Orders
    BY <2>1 DEF SurfaceInv, TypeInv, PollOK
  <2>3. o \in Open /\ rec[o] = 0
    BY <1>3 DEF Match, Applies, SurfaceInv, TypeInv, PollOK
  <2>4. Qty[o] \in Nat /\ Qty[o] <= Qty[o]
    BY OrdersFacts
  <2>5. \A p \in Orders : p # o => rec'[p] = rec[p]
    BY <1>3, <2>4, ApplyIs DEF SurfaceInv, TypeInv
  <2>6. ASSUME NEW p \in Orders, rec'[p] > exec[p]
        PROVE  (p \in checks /\ (day[p] < poll.day => exec[p] = 0)) \/ p \in alerted \/ restarts > 0
               \/ (exec[p] = 0 /\ day[p] < today)
    <3>1. CASE p = o
      <4>1. day[o] < poll.day => exec[o] = 0
        BY <1>1, <2>3, RipeNeverTraded
      <4> QED
        BY <2>1, <3>1, <4>1
    <3>2. CASE p # o
      <4>1. Watched(p)
        BY <2>5, <2>6, <3>2 DEF SurfaceInv, Surfaces
      <4>2. p \in verify /\ day[p] < poll.day => exec[p] = 0
        BY <1>1, RipeNeverTraded
      <4> QED
        BY <2>1, <4>1, <4>2 DEF Watched
    <3> QED
      BY <3>1, <3>2
  <2> QED
    BY <1>3, <2>1, <2>2, <2>6, EndsSurface
<1> QED
    BY <1>2, <1>3, FallbackCases DEF NoFallback, past, SurfaceInv

\* The fallback reads the positions: nothing is attributed yet.
LEMMA FallbackReadSurfaces ==
    ASSUME SurfaceInv, FallbackPositions
    PROVE  Surfaces' /\ ToldAll'
<1>1. /\ UNCHANGED <<exec, rec, day, status, today, verify, alerted, restarts>>
      /\ poll' = [poll EXCEPT !.pc = "fallback", !.cand = Unrecovered, !.held = Held]
      /\ poll.pc = "items"
    BY DEF FallbackPositions, broker, tracker, ItemsDone
<1>2. PICK c, h : c = Unrecovered /\ h = Held
    OBVIOUS
<1>3. poll'.day = poll.day /\ poll'.items = poll.items
    BY <1>1, <1>2 DEF SurfaceInv, TypeInv, PollOK
<1>4. Surfaces'
    BY <1>1 DEF SurfaceInv, Surfaces, Watched
<1>5. ToldAll'
    BY <1>1, <1>3 DEF SurfaceInv, ToldAll, Ripe, Told, Open
<1> QED
    BY <1>4, <1>5

\* Every step preserves the first invariant.
LEMMA SurfaceNext ==
    ASSUME SurfaceInv, [Next]_vars
    PROVE  SurfaceInv'
<1>1. TypeInv'
    BY TypeNext DEF SurfaceInv
<1>2. CASE Restart
    BY <1>1, <1>2, RestartSurfaces DEF SurfaceInv
<1>3. ASSUME Surfaces' /\ ToldAll', UNCHANGED restarts PROVE SurfaceInv'
    BY <1>1, <1>3 DEF SurfaceInv
<1>4. CASE UNCHANGED vars \/ Pass \/ StartCommand \/ PollNothing \/ PollFails \/ ExternalTrade
  <2>1. UNCHANGED <<exec, rec, day, status, today, poll, verify, alerted, restarts>>
    BY <1>4 DEF vars, broker, tracker, sched, Pass, StartPass, PassDetects, Read, Classify, ClassifyBlind, Correct,
       StartCommand, PassFrame, PollNothing, PollFails, ExternalTrade
  <2> QED
    BY <1>3, <2>1, QuietSurfaces
<1>5. CASE \E o \in Orders : Submit(o) \/ Execute(o) \/ HistoryShows(o) \/ Cancel(o)
  <2>1. UNCHANGED restarts
    BY <1>5 DEF Submit, Execute, HistoryShows, Cancel
  <2> QED
    BY <1>3, <1>5, <2>1, MarketSurfaces
<1>6. CASE NewDay
    BY <1>3, <1>6, NewDaySurfaces DEF NewDay
<1>7. CASE PollHistory
    BY <1>3, <1>7, HistorySurfaces DEF PollHistory
<1>8. CASE \E o \in Orders : PollItem(o)
    BY <1>3, <1>8, ItemSurfaces DEF PollItem
<1>9. CASE NoFallback \/ FallbackApply
  <2>1. UNCHANGED restarts
    BY <1>9 DEF NoFallback, FallbackApply, PollEnds
  <2> QED
    BY <1>3, <1>9, <2>1, EndSurfaces
<1>10. CASE FallbackPositions
    BY <1>3, <1>10, FallbackReadSurfaces DEF FallbackPositions
<1> QED
    BY <1>2, <1>4, <1>5, <1>6, <1>7, <1>8, <1>9, <1>10 DEF Next, Poll

\* A partly executed order recorded beyond what the broker executed is still to be verified or was alerted about,
\* unless a restart forgot it (fill_scheduler.py, _apply_position_fallback and the verification
\* of its attributions).
THEOREM OverAttributionHolds == Spec => []OverAttributionSurfaces
<1>1. Init => SurfaceInv
    BY SurfaceInit
<1>2. SurfaceInv /\ [Next]_vars => SurfaceInv'
    BY SurfaceNext
<1>3. SurfaceInv => OverAttributionSurfaces
    BY DEF SurfaceInv, TypeInv, RowsOK, Surfaces, Watched, OverAttributionSurfaces
<1> QED
    BY <1>1, <1>2, <1>3, PTL DEF Spec

-----------------------------------------------------------------------------
(* The bot's own fills *)

\* Nothing has happened that the reconciler cannot know of.
Clean == ~other.traded /\ ~Hidden /\ ~overlap /\ ~clipped /\ ~blind

\* What the broker had executed at some moment since the last record.
Mid(e) == e \in [Orders -> Nat] /\ \A o \in Orders : rec[o] <= e[o] /\ e[o] <= exec[o]

Sound == (\A o \in Orders : rec[o] <= exec[o]) /\ pos = other.qty + Net(rec)
BrokerRead == pass.pc \in {"read", "classify"} => \E e : Mid(e) /\ pass.b = other.qty + Net(e)
BotRead == pass.pc = "classify" => pass.i = pos /\ pass.b # pos
Harmless == pass.pc # "correct"
OneBuy(e) == \E u \in Orders : poll.cand = {u} /\ \A o \in Orders : o # u /\ Side[o] = "buy" => e[o] = rec[o]
Asked == poll.pc = "fallback" => \E e : Mid(e) /\ poll.held = other.qty + Net(e) /\ OneBuy(e)
Own == Sound /\ BrokerRead /\ BotRead /\ Harmless /\ Asked

OwnInv == TypeInv /\ (Clean => Own)

\* Initially there are no fills.
LEMMA OwnInit ==
    ASSUME Init
    PROVE  OwnInv
<1>1. TypeInv
    BY TypeInit
<1>2. ASSUME Clean PROVE Own
  <2>6. ~other.traded
    BY <1>2 DEF Clean
  <2>7. rec = [o \in Orders |-> 0] /\ exec = rec /\ pass = NoPass /\ poll = NoPoll
    BY DEF Init
  <2>8. pos = IF other.traded THEN 0 ELSE other.qty
    BY DEF Init
  <2>1. rec = [o \in Orders |-> 0] /\ exec = rec /\ pos = other.qty /\ pass = NoPass /\ poll = NoPoll
    BY <2>6, <2>7, <2>8
  <2>2. \A o \in Orders : Signed(rec)[o] = 0
    <3>1. SUFFICES ASSUME NEW o \in Orders PROVE Signed(rec)[o] = 0
      OBVIOUS
    <3>2. Signed(rec)[o] = IF Side[o] = "buy" THEN rec[o] ELSE -rec[o]
      BY DEF Signed
    <3>3. rec[o] = 0
      BY <2>1
    <3>4. \A n \in Int : n <= 0 /\ n >= 0 => -n <= 0 /\ -n >= 0 /\ -n \in Int
      OBVIOUS
    <3>5. -rec[o] <= 0 /\ -rec[o] >= 0 /\ -rec[o] \in Int
      <4>1. rec[o] \in Int /\ rec[o] <= 0 /\ rec[o] >= 0
        BY <3>3
      <4> QED
        BY <3>4, <4>1, Zenon
    <3>6. CASE Side[o] = "buy"
      BY <3>2, <3>3, <3>6
    <3>7. CASE Side[o] # "buy"
      <4>1. \A n \in Int : n <= 0 /\ n >= 0 => n = 0
        OBVIOUS
      <4>2. Signed(rec)[o] = -rec[o]
        BY <3>2, <3>7, Zenon
      <4> QED
        BY <3>5, <4>1, <4>2, Zenon
    <3> QED
      BY <3>6, <3>7
  <2>3. Net(rec) = 0
    BY <2>2, OrdersFacts, SumZero DEF Net
  <2>4. Sound
    BY <1>1, <2>1, <2>3 DEF Sound, TypeInv, RowsOK, BooksOK
  <2>5. pass.pc = "idle" /\ poll.pc = "idle"
    BY <2>1, NoPassOK, NoPollOK
  <2> QED
    BY <2>4, <2>5 DEF Own, BrokerRead, BotRead, Harmless, Asked
<1> QED
    BY <1>1, <1>2 DEF OwnInv

\* A row that ended with shares hidden stays so.
LEMMA HiddenStays ==
    ASSUME TypeInv, [Next]_vars, Hidden
    PROVE  Hidden'
<1>1. PICK h \in Orders : status[h] \in {"cancelled", "expired"} /\ rec[h] < exec[h]
    BY DEF Hidden
<1>2. h \notin Open
    BY <1>1 DEF Open, OpenStatuses
<1>3. rec[h] \in Nat /\ exec[h] \in Nat
    BY DEF TypeInv, RowsOK
<1>4. ASSUME NEW o \in Orders, NEW q \in Nat, q <= Qty[o], Apply(o, q)
      PROVE  rec'[h] = rec[h] /\ Advanced(o, q)[h] = status[h]
  <2>1. CASE h = o
    BY <1>2, <1>4, <2>1, ApplyIs DEF TypeInv, Applies, past
  <2>2. CASE h # o
    BY <1>4, <2>2, ApplyIs DEF TypeInv
  <2> QED
    BY <2>1, <2>2
<1>5. ASSUME NEW rows, rows[h] = status[h], status' = Expired(rows)
      PROVE  status'[h] = status[h]
    BY <1>1, <1>5 DEF Expired
<1>6. rec'[h] = rec[h] /\ status'[h] = status[h] /\ exec'[h] \in Nat /\ exec[h] <= exec'[h]
  <2>1. CASE UNCHANGED vars \/ Pass \/ StartCommand \/ PollNothing \/ PollFails \/ ExternalTrade
             \/ NewDay \/ Restart \/ PollHistory \/ FallbackPositions
    <3>1. UNCHANGED <<exec, rec, status>>
      BY <2>1 DEF vars, broker, tracker, sched, Pass, StartPass, PassDetects, Read, Classify, ClassifyBlind, Correct,
         StartCommand, PassFrame, PollNothing, PollFails, ExternalTrade, NewDay, Restart, PollHistory,
         FallbackPositions
    <3> QED
      BY <1>3, <3>1
  <2>2. ASSUME NEW o \in Orders, Submit(o) \/ Execute(o) \/ HistoryShows(o) \/ Cancel(o)
        PROVE  rec'[h] = rec[h] /\ status'[h] = status[h] /\ exec'[h] \in Nat /\ exec[h] <= exec'[h]
    <3>1. CASE Submit(o)
      BY <1>1, <1>3, <3>1 DEF Submit, broker
    <3>2. CASE Execute(o)
      BY <1>1, <1>3, <3>2 DEF Execute, tracker, TypeInv, RowsOK
    <3>3. CASE HistoryShows(o)
      BY <1>3, <3>3 DEF HistoryShows, tracker
    <3>4. CASE Cancel(o)
      BY <1>2, <1>3, <3>4 DEF Cancel, broker
    <3> QED
      BY <2>2, <3>1, <3>2, <3>3, <3>4
  <2>3. ASSUME NEW o \in Orders, PollItem(o)
        PROVE  rec'[h] = rec[h] /\ status'[h] = status[h] /\ UNCHANGED exec
    <3> DEFINE q == poll.items[o]
    <3>1. Apply(o, q) /\ status' = Advanced(o, q) /\ UNCHANGED exec
      BY <2>3 DEF PollItem, broker
    <3>2. q \in Nat /\ q <= ccld[o] /\ ccld[o] <= exec[o] /\ exec[o] <= Qty[o]
      BY DEF TypeInv, PollOK, RowsOK
    <3>3. q <= Qty[o]
      BY <3>2, OrdersFacts DEF TypeInv, RowsOK
    <3> HIDE DEF q
    <3> QED
      BY <1>4, <3>1, <3>2, <3>3
  <2>4. CASE PollEnds(status, verify) /\ UNCHANGED rec
    <3>1. status' = Expired(status) /\ UNCHANGED exec
      BY <2>4 DEF PollEnds, broker
    <3>2. PICK rows : rows = status
      OBVIOUS
    <3> QED
      BY <1>3, <1>5, <2>4, <3>1, <3>2
  <2>5. ASSUME NEW o \in Orders, Apply(o, Qty[o]), PollEnds(Advanced(o, Qty[o]), verify \cup {o})
        PROVE  rec'[h] = rec[h] /\ status'[h] = status[h] /\ UNCHANGED exec
    <3>1. status' = Expired(Advanced(o, Qty[o])) /\ UNCHANGED exec
      BY <2>5 DEF PollEnds, broker
    <3>2. Qty[o] \in Nat /\ Qty[o] <= Qty[o]
      BY OrdersFacts
    <3>3. PICK rows : rows = Advanced(o, Qty[o])
      OBVIOUS
    <3>4. rec'[h] = rec[h] /\ rows[h] = status[h]
      BY <1>4, <2>5, <3>2, <3>3
    <3> QED
      BY <1>5, <3>1, <3>3, <3>4
  <2>6. CASE NoFallback
    BY <2>4, <2>6 DEF NoFallback
  <2>7. CASE FallbackApply
    <3>1. \/ PollEnds(status, verify) /\ UNCHANGED rec
          \/ \E o \in Orders : Apply(o, Qty[o]) /\ PollEnds(Advanced(o, Qty[o]), verify \cup {o})
      BY <2>7, FallbackCases
    <3>2. CASE \E o \in Orders : Apply(o, Qty[o]) /\ PollEnds(Advanced(o, Qty[o]), verify \cup {o})
      <4>1. rec'[h] = rec[h] /\ status'[h] = status[h] /\ UNCHANGED exec
        BY <2>5, <3>2
      <4> QED
        BY <1>3, <4>1
    <3> QED
      BY <2>4, <3>1, <3>2
  <2> QED
    BY <1>3, <2>1, <2>2, <2>3, <2>6, <2>7 DEF Next, Poll
<1> QED
    BY <1>1, <1>3, <1>6 DEF Hidden

\* What has happened does not go away.
LEMMA CleanBefore ==
    ASSUME TypeInv, [Next]_vars, Clean'
    PROVE  Clean /\ other' = other
<1>1. ~Hidden
    BY HiddenStays DEF Clean
<1>2. other' = other \/ other'.traded = TRUE
  <2>1. CASE ExternalTrade
    BY <2>1 DEF ExternalTrade
  <2>2. CASE ~ExternalTrade
    BY <2>2 DEF Next, Poll, Pass, vars, broker, tracker, StartPass, PassDetects, Read, Classify, ClassifyBlind, Correct,
       StartCommand, PassFrame, PollNothing, PollFails, NewDay, Restart, PollHistory, FallbackPositions,
       Submit, Execute, HistoryShows, Cancel, PollItem, NoFallback, FallbackApply, PollEnds
  <2> QED
    BY <2>1, <2>2
<1>3. other' = other
    BY <1>2 DEF Clean
<1>4. ASSUME NEW o, NEW q, Apply(o, q)
      PROVE  (overlap => overlap') /\ (clipped => clipped') /\ (blind => blind')
  <2>1. CASE Applies(o, q)
    BY <1>4, <2>1 DEF Apply
  <2>2. CASE ~Applies(o, q)
    BY <1>4, <2>2 DEF Apply, past
  <2> QED
    BY <2>1, <2>2
<1>5. (overlap => overlap') /\ (clipped => clipped') /\ (blind => blind')
  <2>1. UNCHANGED past \/ (UNCHANGED <<overlap, clipped>> /\ blind') \/ \E o, q : Apply(o, q)
    <3>1. CASE NoFallback \/ FallbackApply
      BY <3>1, FallbackCases DEF NoFallback, past
    <3>2. CASE \E o \in Orders : PollItem(o)
      BY <3>2 DEF PollItem
    <3>3. CASE ~(NoFallback \/ FallbackApply) /\ ~(\E o \in Orders : PollItem(o))
      BY <3>3 DEF Next, Poll, Pass, vars, StartPass, PassDetects, Read, Classify, ClassifyBlind, Correct,
       StartCommand, PollNothing, PollFails, NewDay, Restart, PollHistory, FallbackPositions,
       Submit, Execute, HistoryShows, Cancel, ExternalTrade
    <3> QED
      BY <3>1, <3>2, <3>3
  <2> QED
    BY <1>4, <2>1 DEF past
<1> QED
    BY <1>1, <1>3, <1>5 DEF Clean

\* Records and position stay, the broker may execute more, a pass or a poll may end.
LEMMA OwnStays ==
    ASSUME TypeInv, TypeInv', Own, UNCHANGED <<rec, pos, other>>,
           \A o \in Orders : exec[o] <= exec'[o],
           UNCHANGED pass \/ pass'.pc = "idle",
           UNCHANGED poll \/ poll'.pc # "fallback"
    PROVE  Own'
<1>1. \A o \in Orders : rec[o] \in Nat /\ exec[o] \in Nat /\ exec'[o] \in Nat
    BY DEF TypeInv, RowsOK
<1>2. ASSUME NEW e, Mid(e) PROVE Mid(e)'
  <2>1. e \in [Orders -> Nat] /\ \A o \in Orders : rec[o] <= e[o] /\ e[o] <= exec[o] /\ e[o] \in Nat
    BY <1>2 DEF Mid
  <2> QED
    BY <1>1, <2>1 DEF Mid
<1>3. Sound'
    BY <1>1 DEF Own, Sound
<1>4. BrokerRead'
  <2>1. ASSUME pass'.pc \in {"read", "classify"}
        PROVE  \E e : Mid(e)' /\ pass'.b = other'.qty + Net(e)
    <3>1. UNCHANGED pass
      BY <2>1
    <3>2. PICK e : Mid(e) /\ pass.b = other.qty + Net(e)
      BY <2>1, <3>1 DEF Own, BrokerRead
    <3> QED
      BY <1>2, <3>1, <3>2
  <2> QED
    BY <2>1 DEF BrokerRead
<1>5. BotRead' /\ Harmless'
    BY DEF Own, BotRead, Harmless
<1>6. Asked'
  <2>1. ASSUME poll'.pc = "fallback"
        PROVE  \E e : Mid(e)' /\ poll'.held = other'.qty + Net(e) /\ OneBuy(e)'
    <3>1. UNCHANGED poll
      BY <2>1
    <3>2. PICK e : Mid(e) /\ poll.held = other.qty + Net(e) /\ OneBuy(e)
      BY <2>1, <3>1 DEF Own, Asked
    <3>3. OneBuy(e)'
      BY <3>1, <3>2 DEF OneBuy
    <3> QED
      BY <1>2, <3>1, <3>2, <3>3
  <2> QED
    BY <2>1 DEF Asked
<1> QED
    BY <1>3, <1>4, <1>5, <1>6 DEF Own

\* A record the broker has executed moves the position by as much.
LEMMA OwnApply ==
    ASSUME TypeInv, Own, Clean', NEW o \in Orders, NEW q \in Nat, q <= exec[o], Apply(o, q),
           UNCHANGED <<exec, other, pass>>, poll'.pc # "fallback"
    PROVE  Own'
<1>1. q <= Qty[o] /\ exec \in [Orders -> Nat] /\ rec \in [Orders -> Nat]
  <2>1. exec[o] <= Qty[o] /\ exec[o] \in Nat /\ exec \in [Orders -> Nat] /\ rec \in [Orders -> Nat]
    BY DEF TypeInv, RowsOK
  <2> QED
    BY <2>1, OrdersFacts
<1>2. CASE ~Applies(o, q)
  <2>1. UNCHANGED <<rec, pos>>
    BY <1>2 DEF Apply
  <2>2. Sound'
    BY <2>1 DEF Own, Sound
  <2>3. BrokerRead'
    BY <2>1 DEF Own, BrokerRead, Mid
  <2>4. BotRead' /\ Harmless'
    BY <2>1 DEF Own, BotRead, Harmless
  <2> QED
    BY <2>2, <2>3, <2>4 DEF Own, Asked
<1>3. CASE Applies(o, q)
  <2>1. /\ rec' = [rec EXCEPT ![o] = q] /\ q > rec[o]
        /\ pos' = IF Side[o] = "buy" THEN pos + q - rec[o]
                  ELSE IF pos > q - rec[o] THEN pos - (q - rec[o]) ELSE 0
        /\ overlap' = (overlap \/ pass.pc \in {"read", "classify"})
        /\ clipped' = (clipped \/ (Side[o] = "sell" /\ pos < q - rec[o]))
    BY <1>3 DEF Apply, Applies
  <2>2. pass.pc \notin {"read", "classify"} /\ (Side[o] = "sell" => ~(pos < q - rec[o]))
    BY <2>1 DEF Clean
  <2>3. rec' \in [Orders -> Nat] /\ rec'[o] = q /\ \A p \in Orders : p # o => rec'[p] = rec[p]
    BY <1>1, <2>1
  <2>4. pos \in Int /\ rec[o] \in Nat /\ other.qty \in Int /\ Net(rec) \in Int /\ Net(rec') \in Int
    <3>1. pos \in Int /\ other.qty \in Int
      BY DEF TypeInv, BooksOK
    <3>2. PICK r, s : r = rec /\ s = rec'
      OBVIOUS
    <3>3. Net(r) \in Int /\ Net(s) \in Int
      BY <1>1, <2>3, <3>2, NetInt
    <3> QED
      BY <1>1, <3>1, <3>2, <3>3
  <2>5. Net(rec') = Net(rec) + (IF Side[o] = "buy" THEN q - rec[o] ELSE rec[o] - q)
    <3>1. PICK f, h : f = Signed(rec) /\ h = Signed(rec')
      OBVIOUS
    <3>2. Numbers(f, Orders) /\ Numbers(h, Orders)
      <4>1. PICK r, s : r = rec /\ s = rec'
        OBVIOUS
      <4> QED
        BY <1>1, <2>3, <3>1, <4>1, NetInt
    <3>3. \A p \in Orders : /\ f[p] = IF Side[p] = "buy" THEN rec[p] ELSE -rec[p]
                            /\ h[p] = IF Side[p] = "buy" THEN rec'[p] ELSE -rec'[p]
      BY <3>1 DEF Signed
    <3>4. \A p \in Orders \ {o} : h[p] = f[p]
      BY <2>3, <3>3
    <3>5. Moves(f, Orders, h, Orders, o)
      BY <3>2, <3>4, OrdersFacts DEF Moves
    <3>6. /\ SumFunctionOnSet(f, Orders) \in Int
          /\ SumFunctionOnSet(h, Orders) = SumFunctionOnSet(f, Orders) - f[o] + h[o]
      BY <3>5, SumMoves
    <3>7. h[o] - f[o] = (IF Side[o] = "buy" THEN q - rec[o] ELSE rec[o] - q) /\ h[o] \in Int /\ f[o] \in Int
      BY <2>3, <2>4, <3>3
    <3>8. Net(rec) = SumFunctionOnSet(f, Orders) /\ Net(rec') = SumFunctionOnSet(h, Orders)
      BY <3>1 DEF Net
    <3> QED
      BY <2>4, <3>6, <3>7, <3>8
  <2>6. pos' = pos + (IF Side[o] = "buy" THEN q - rec[o] ELSE rec[o] - q)
    BY <2>1, <2>2, <2>4, OrdersFacts
  <2>7. Sound'
    <3>1. pos' = other'.qty + Net(rec')
      BY <2>4, <2>5, <2>6 DEF Own, Sound
    <3>2. \A p \in Orders : rec'[p] <= exec'[p]
      BY <2>3 DEF Own, Sound
    <3> QED
      BY <3>1, <3>2 DEF Sound
  <2>8. BrokerRead' /\ BotRead' /\ Harmless' /\ Asked'
    BY <2>2 DEF Own, BrokerRead, BotRead, Harmless, Asked
  <2> QED
    BY <2>7, <2>8 DEF Own
<1> QED
    BY <1>2, <1>3

\* Rows that ended hide nothing: their record is complete.
LEMMA ClosedComplete ==
    ASSUME TypeInv, Own, Clean, NEW o \in Orders, o \notin Open
    PROVE  rec[o] = exec[o]
<1>1. /\ status[o] \in Statuses /\ rec[o] \in Nat /\ exec[o] \in Nat /\ exec[o] <= Qty[o]
      /\ (status[o] = "none" => exec[o] = 0 /\ rec[o] = 0) /\ (status[o] = "filled" => rec[o] = Qty[o])
    BY DEF TypeInv, RowsOK
<1>2. rec[o] <= exec[o]
    BY DEF Own, Sound
<1>3. status[o] \in {"none", "cancelled", "expired", "filled"}
    BY <1>1 DEF Open, OpenStatuses, Statuses
<1>4. status[o] \in {"cancelled", "expired"} => ~(rec[o] < exec[o])
    BY DEF Clean, Hidden
<1>5. CASE status[o] \in {"cancelled", "expired"}
    BY <1>1, <1>2, <1>4, <1>5
<1>6. CASE status[o] = "none"
    BY <1>1, <1>6
<1>7. CASE status[o] = "filled"
    BY <1>1, <1>2, <1>7, OrdersFacts
<1> QED
    BY <1>3, <1>5, <1>6, <1>7

\* A difference between the records and the broker fits the open orders of its side.
LEMMA DifferenceFits ==
    ASSUME TypeInv, Own, Clean, NEW e, Mid(e)
    PROVE  /\ Net(e) - Net(rec) <= Capacity("buy") /\ Net(rec) - Net(e) <= Capacity("sell")
           /\ Capacity("buy") \in Int /\ Capacity("sell") \in Int
           /\ OpenOf("buy") = {} => Capacity("buy") = 0
           /\ OpenOf("sell") = {} => Capacity("sell") = 0
<1> DEFINE left == [o \in Orders |-> Qty[o] - rec[o]]
<1>1. PICK r, c, B, S : r = rec /\ c = left /\ B = OpenOf("buy") /\ S = OpenOf("sell")
    OBVIOUS
<1> HIDE DEF left
<1>2. e \in [Orders -> Nat] /\ r \in [Orders -> Nat]
    BY <1>1 DEF Mid, TypeInv, RowsOK
<1>3. PICK f, g : f = Signed(e) /\ g = Signed(r)
    OBVIOUS
<1>4. Numbers(f, Orders) /\ Numbers(g, Orders) /\ Net(e) \in Int /\ Net(r) \in Int
    BY <1>2, <1>3, NetInt
<1>5. \A o \in Orders : /\ f[o] = IF Side[o] = "buy" THEN e[o] ELSE -e[o]
                        /\ g[o] = IF Side[o] = "buy" THEN r[o] ELSE -r[o]
    BY <1>3 DEF Signed
<1>6. B \subseteq Orders /\ S \subseteq Orders /\ IsFiniteSet(B) /\ IsFiniteSet(S)
  <2>1. B \subseteq Orders /\ S \subseteq Orders
    BY <1>1 DEF OpenOf, Open
  <2> QED
    BY <2>1, OrdersFacts, FS_Subset
<1>7. \A o \in Orders : /\ c[o] = Qty[o] - r[o] /\ Qty[o] \in Nat /\ r[o] \in Nat /\ e[o] \in Nat
                        /\ r[o] <= e[o] /\ e[o] <= Qty[o]
  <2>1. SUFFICES ASSUME NEW o \in Orders
                 PROVE  /\ c[o] = Qty[o] - r[o] /\ Qty[o] \in Nat /\ r[o] \in Nat /\ e[o] \in Nat
                        /\ r[o] <= e[o] /\ e[o] <= Qty[o]
    OBVIOUS
  <2>2. r[o] <= e[o] /\ e[o] <= exec[o] /\ e[o] \in Nat /\ r[o] \in Nat
    BY <1>1, <1>2 DEF Mid
  <2>3. exec[o] \in Nat /\ exec[o] <= Qty[o]
    BY DEF TypeInv, RowsOK
  <2>4. c[o] = Qty[o] - r[o]
    BY <1>1 DEF left
  <2> QED
    BY <2>2, <2>3, <2>4, OrdersFacts
<1>8. Numbers(c, B) /\ Numbers(c, S)
    BY <1>6, <1>7 DEF Numbers
<1>9. ASSUME NEW o \in Orders, o \notin Open PROVE e[o] = r[o]
  <2>1. rec[o] = exec[o]
    BY <1>9, ClosedComplete
  <2>2. e[o] <= exec[o] /\ exec[o] \in Nat
    BY DEF Mid, TypeInv, RowsOK
  <2> QED
    BY <1>1, <1>7, <2>1, <2>2
<1>10. \A o \in Orders : /\ o \notin B => f[o] <= g[o]
                         /\ o \notin S => g[o] <= f[o]
                         /\ o \in B => f[o] <= g[o] + c[o]
                         /\ o \in S => g[o] <= f[o] + c[o]
  <2>1. SUFFICES ASSUME NEW o \in Orders
                 PROVE  /\ o \notin B => f[o] <= g[o]
                        /\ o \notin S => g[o] <= f[o]
                        /\ o \in B => f[o] <= g[o] + c[o]
                        /\ o \in S => g[o] <= f[o] + c[o]
    OBVIOUS
  <2>2. CASE Side[o] = "buy"
    <3>1. f[o] = e[o] /\ g[o] = r[o] /\ o \notin S /\ (o \in B <=> o \in Open)
      BY <1>1, <1>5, <2>2 DEF OpenOf
    <3> QED
      BY <1>7, <1>9, <3>1
  <2>3. CASE Side[o] # "buy"
    <3>1. f[o] = -e[o] /\ g[o] = -r[o] /\ o \notin B
      BY <1>1, <1>5, <2>3 DEF OpenOf
    <3>2. o \in S <=> o \in Open
      BY <1>1, <2>3, OrdersFacts DEF OpenOf
    <3> QED
      BY <1>7, <1>9, <3>1, <3>2
  <2> QED
    BY <2>2, <2>3
<1>11. Below(f, g, c, B, Orders) /\ Below(g, f, c, S, Orders)
    BY <1>4, <1>6, <1>8, <1>10 DEF Below
<1>12. /\ SumFunctionOnSet(f, Orders) <= SumFunctionOnSet(g, Orders) + SumFunctionOnSet(c, B)
       /\ SumFunctionOnSet(g, Orders) <= SumFunctionOnSet(f, Orders) + SumFunctionOnSet(c, S)
    BY <1>11, OrdersFacts, SumBelow
<1>13. /\ SumFunctionOnSet(c, B) \in Int /\ SumFunctionOnSet(c, S) \in Int
       /\ (B = {} => SumFunctionOnSet(c, B) = 0) /\ (S = {} => SumFunctionOnSet(c, S) = 0)
    BY <1>6, <1>8, SumRemove
<1>14. /\ Net(e) = SumFunctionOnSet(f, Orders) /\ Net(r) = SumFunctionOnSet(g, Orders)
       /\ Capacity("buy") = SumFunctionOnSet(c, B) /\ Capacity("sell") = SumFunctionOnSet(c, S)
    BY <1>1, <1>3 DEF Net, Capacity, left
<1>15. /\ Net(e) <= Net(r) + Capacity("buy") /\ Net(r) <= Net(e) + Capacity("sell")
       /\ Capacity("buy") \in Int /\ Capacity("sell") \in Int
       /\ B = {} => Capacity("buy") = 0
       /\ S = {} => Capacity("sell") = 0
    BY <1>12, <1>13, <1>14
<1>16. Net(e) - Net(r) <= Capacity("buy") /\ Net(r) - Net(e) <= Capacity("sell")
    BY <1>4, <1>15
<1> QED
    BY <1>1, <1>15, <1>16

\* The classification recognises it.
LEMMA NothingToCorrect ==
    ASSUME TypeInv, Own, Clean, pass.pc = "classify"
    PROVE  ~Corrects(pass)
<1>1. PICK e : Mid(e) /\ pass.b = other.qty + Net(e)
    BY DEF Own, BrokerRead
<1>2. pass.i = pos /\ pass.b # pos /\ pos = other.qty + Net(rec)
    BY DEF Own, BotRead, Sound
<1>3. other.qty \in Int /\ pass.b \in Int /\ pass.i \in Int
    BY DEF TypeInv, BooksOK
<1>4. Net(e) \in Int /\ Net(rec) \in Int
  <2>1. PICK r : r = rec
    OBVIOUS
  <2>2. e \in [Orders -> Nat] /\ r \in [Orders -> Nat]
    BY <1>1, <2>1 DEF Mid, TypeInv, RowsOK
  <2> QED
    BY <2>1, <2>2, NetInt
<1>5. pass.b - pass.i = Net(e) - Net(rec) /\ pass.i - pass.b = Net(rec) - Net(e)
    BY <1>1, <1>2, <1>3, <1>4
<1>6. /\ pass.b - pass.i <= Capacity("buy") /\ pass.i - pass.b <= Capacity("sell")
      /\ OpenOf("buy") = {} => Capacity("buy") = 0
      /\ OpenOf("sell") = {} => Capacity("sell") = 0
    BY <1>1, <1>5, DifferenceFits
<1>7. CASE pass.b < pass.i
  <2>1. OpenOf("sell") # {}
    BY <1>3, <1>6, <1>7
  <2> QED
    BY <1>6, <1>7, <2>1 DEF Corrects, SelfSubmitted
<1>8. CASE ~(pass.b < pass.i)
  <2>1. pass.b > pass.i
    BY <1>2, <1>3, <1>8
  <2>2. OpenOf("buy") # {}
    BY <1>3, <1>6, <2>1
  <2> QED
    BY <1>6, <1>8, <2>2 DEF Corrects, SelfSubmitted
<1> QED
    BY <1>7, <1>8

\* A holding the fallback matches is the order's full fill.
LEMMA MatchExecuted ==
    ASSUME TypeInv, Own, Clean, poll.pc = "fallback", NEW o \in Match
    PROVE  o \in Orders /\ Qty[o] <= exec[o]
<1>1. PICK e : Mid(e) /\ poll.held = other.qty + Net(e) /\ OneBuy(e)
    BY DEF Own, Asked
<1>2. PICK u \in Orders : poll.cand = {u} /\ \A p \in Orders : p # u /\ Side[p] = "buy" => e[p] = rec[p]
    BY <1>1 DEF OneBuy
<1>3. o = u /\ poll.held - pos = Qty[o] /\ rec[o] = 0
    BY <1>2 DEF Match, TypeInv, PollOK
<1>4. PICK r : r = rec
    OBVIOUS
<1>5. e \in [Orders -> Nat] /\ r \in [Orders -> Nat] /\ \A p \in Orders : r[p] <= e[p] /\ e[p] \in Nat /\ r[p] \in Nat
    BY <1>1, <1>4 DEF Mid, TypeInv, RowsOK
<1> DEFINE c == [p \in {o} |-> e[p] - r[p]]
<1>6. PICK f, g, d, B : f = Signed(e) /\ g = Signed(r) /\ d = c /\ B = {o}
    OBVIOUS
<1>7. Numbers(f, Orders) /\ Numbers(g, Orders) /\ Net(e) \in Int /\ Net(r) \in Int
    BY <1>5, <1>6, NetInt
<1>8. \A p \in Orders : /\ f[p] = IF Side[p] = "buy" THEN e[p] ELSE -e[p]
                        /\ g[p] = IF Side[p] = "buy" THEN r[p] ELSE -r[p]
    BY <1>6 DEF Signed
<1>9. d[o] = e[o] - r[o] /\ d[o] \in Int /\ B \subseteq Orders /\ Numbers(d, B)
    BY <1>3, <1>5, <1>6 DEF Numbers
<1> HIDE DEF c
<1>10. \A p \in Orders \ B : f[p] <= g[p]
  <2>1. SUFFICES ASSUME NEW p \in Orders, p # o PROVE f[p] <= g[p]
    BY <1>6
  <2>2. CASE Side[p] = "buy"
    BY <1>2, <1>3, <1>4, <1>5, <1>8, <2>1, <2>2
  <2>3. CASE Side[p] # "buy"
    <3>1. f[p] = -e[p] /\ g[p] = -r[p] /\ r[p] <= e[p] /\ e[p] \in Nat /\ r[p] \in Nat
      BY <1>5, <1>8, <2>3
    <3> QED
      BY <3>1
  <2> QED
    BY <2>2, <2>3
<1>11. f[o] <= g[o] + d[o]
  <2>1. r[o] <= e[o] /\ e[o] \in Nat /\ r[o] \in Nat
    BY <1>3, <1>5
  <2>2. CASE Side[o] = "buy"
    <3>1. f[o] = e[o] /\ g[o] = r[o]
      BY <1>3, <1>8, <2>2
    <3> QED
      BY <1>9, <2>1, <3>1
  <2>3. CASE Side[o] # "buy"
    <3>1. f[o] = -e[o] /\ g[o] = -r[o]
      BY <1>3, <1>8, <2>3
    <3> QED
      BY <1>9, <2>1, <3>1
  <2> QED
    BY <2>2, <2>3
<1>12. Below(f, g, d, B, Orders)
    BY <1>6, <1>7, <1>9, <1>10, <1>11 DEF Below
<1>13. SumFunctionOnSet(f, Orders) <= SumFunctionOnSet(g, Orders) + SumFunctionOnSet(d, B)
    BY <1>12, OrdersFacts, SumBelow
<1>14. SumFunctionOnSet(d, B) = d[o]
    BY <1>6, <1>9, SumOne
<1>15. Net(e) <= Net(r) + (e[o] - r[o])
    BY <1>6, <1>9, <1>13, <1>14 DEF Net
<1>16. pos = other.qty + Net(r) /\ other.qty \in Int /\ exec[o] \in Nat /\ e[o] <= exec[o]
    BY <1>1, <1>3, <1>4 DEF Own, Sound, TypeInv, BooksOK, RowsOK, Mid
<1>17. poll.held - pos = Net(e) - Net(r)
    BY <1>1, <1>7, <1>16
<1>18. Qty[o] <= e[o]
  <2>1. e[o] \in Nat /\ r[o] = 0
    BY <1>3, <1>4, <1>5
  <2> QED
    BY <1>3, <1>7, <1>15, <1>17, <2>1
<1> QED
    BY <1>3, <1>5, <1>16, <1>18, OrdersFacts

\* The executions are among what the broker may have answered.
LEMMA MidExec ==
    ASSUME TypeInv, Own
    PROVE  \E e : Mid(e) /\ e = exec
<1>1. exec \in [Orders -> Nat] /\ \A o \in Orders : rec[o] <= exec[o] /\ exec[o] <= exec[o]
    BY DEF TypeInv, RowsOK, Own, Sound
<1>2. PICK e : e = exec
    OBVIOUS
<1>3. Mid(e)
    BY <1>1, <1>2 DEF Mid
<1> QED
    BY <1>2, <1>3

\* The steps of a pass.
LEMMA OwnPass ==
    ASSUME TypeInv, TypeInv', Own, Clean, ~blind', UNCHANGED other, Pass \/ StartCommand
    PROVE  Own'
<1>1. UNCHANGED <<exec, rec, poll>>
    BY DEF Pass, StartPass, PassDetects, Read, Classify, ClassifyBlind, Correct, StartCommand, PassFrame, broker
<1>2. \A o \in Orders : exec[o] <= exec'[o]
    BY <1>1 DEF TypeInv, RowsOK
<1>3. CASE PassDetects
    BY <1>1, <1>2, <1>3, OwnStays DEF PassDetects
<1>4. CASE StartPass \/ StartCommand
  <2>1. UNCHANGED pos /\ pass'.pc = "read" /\ pass'.b = Held
    <3>1. CASE StartPass
      <4>1. UNCHANGED pos /\ pass' = [NoPass EXCEPT !.pc = "read", !.b = Held, !.skip = HoldsBack]
        BY <3>1 DEF StartPass
      <4>2. PICK n, h, s : n = NoPass /\ h = Held /\ s = HoldsBack
        OBVIOUS
      <4>3. n = [pc |-> "idle", skip |-> FALSE, b |-> 0, i |-> 0]
        BY <4>2 DEF NoPass
      <4> QED
        BY <4>1, <4>2, <4>3
    <3>2. CASE StartCommand
      <4>1. UNCHANGED pos /\ pass' = [NoPass EXCEPT !.pc = "read", !.b = Held]
        BY <3>2 DEF StartCommand
      <4>2. PICK n, h : n = NoPass /\ h = Held
        OBVIOUS
      <4>3. n = [pc |-> "idle", skip |-> FALSE, b |-> 0, i |-> 0]
        BY <4>2 DEF NoPass
      <4> QED
        BY <4>1, <4>2, <4>3
    <3> QED
      BY <1>4, <3>1, <3>2
  <2>2. PICK e : Mid(e) /\ e = exec
    BY MidExec
  <2>3. Mid(e)' /\ pass'.b = other'.qty + Net(e)
    BY <1>1, <2>1, <2>2 DEF Held, Mid
  <2>4. BrokerRead'
    BY <2>3 DEF BrokerRead
  <2>5. Sound' /\ BotRead' /\ Harmless'
    BY <1>1, <2>1 DEF Own, Sound, BotRead, Harmless
  <2>6. Asked'
    BY <1>1 DEF Own, Asked, Mid, OneBuy
  <2> QED
    BY <2>4, <2>5, <2>6 DEF Own
<1>5. CASE Read
  <2>1. /\ UNCHANGED pos /\ pass.pc = "read"
        /\ pass' = IF pos = pass.b THEN NoPass ELSE [pass EXCEPT !.pc = "classify", !.i = pos]
    BY <1>5 DEF Read
  <2>2. CASE pos = pass.b
    BY <1>1, <1>2, <2>1, <2>2, NoPassOK, OwnStays
  <2>3. CASE pos # pass.b
    <3>1. pass'.pc = "classify" /\ pass'.i = pos /\ pass'.b = pass.b
      BY <2>1, <2>3 DEF TypeInv, BooksOK
    <3>2. BrokerRead'
      BY <1>1, <2>1, <3>1 DEF Own, BrokerRead, Mid
    <3>3. Sound' /\ BotRead' /\ Harmless'
      BY <1>1, <2>1, <2>3, <3>1 DEF Own, Sound, BotRead, Harmless
    <3>4. Asked'
      BY <1>1 DEF Own, Asked, Mid, OneBuy
    <3> QED
      BY <3>2, <3>3, <3>4 DEF Own
  <2> QED
    BY <2>2, <2>3
<1>6. CASE Classify
  <2>1. UNCHANGED pos /\ ~Corrects(pass)
    BY <1>6, NothingToCorrect DEF Classify
  <2>2. pass' = NoPass
    BY <1>6, <2>1 DEF Classify, To
  <2> QED
    BY <1>1, <1>2, <2>1, <2>2, NoPassOK, OwnStays
<1>7. CASE Correct
    BY <1>7 DEF Correct, Own, Harmless
<1> QED
    BY <1>3, <1>4, <1>5, <1>6, <1>7 DEF Pass, ClassifyBlind

\* The fallback asks for the holdings when one buy is open.
LEMMA OwnAsks ==
    ASSUME TypeInv, Own, Clean, FallbackPositions
    PROVE  Own'
<1>1. /\ UNCHANGED <<exec, rec, pos, other, pass>>
      /\ poll' = [poll EXCEPT !.pc = "fallback", !.cand = Unrecovered, !.held = Held]
      /\ Cardinality(OpenOf("buy")) = 1 /\ Unrecovered # {}
    BY DEF FallbackPositions, broker, tracker
<1>2. PICK c, h : c = Unrecovered /\ h = Held
    OBVIOUS
<1>3. poll'.held = Held /\ poll'.cand = Unrecovered
    BY <1>1, <1>2 DEF TypeInv, PollOK
<1>4. PICK B : B = OpenOf("buy")
    OBVIOUS
<1>5. B \subseteq Orders /\ IsFiniteSet(B) /\ Cardinality(B) = 1 /\ c \subseteq B /\ c # {}
  <2>1. B \subseteq Orders /\ Cardinality(B) = 1 /\ c \subseteq B /\ c # {}
    BY <1>1, <1>2, <1>4 DEF OpenOf, Open, Unrecovered
  <2> QED
    BY <2>1, OrdersFacts, FS_Subset
<1>6. PICK u : B = {u}
    BY <1>5, FS_Singleton
<1>7. u \in Orders /\ poll'.cand = {u}
    BY <1>2, <1>3, <1>5, <1>6
<1>8. PICK e : Mid(e) /\ e = exec
    BY MidExec
<1>9. ASSUME NEW o \in Orders, o # u, Side[o] = "buy" PROVE e[o] = rec[o]
  <2>1. o \notin Open
    BY <1>4, <1>6, <1>9 DEF OpenOf
  <2> QED
    BY <1>8, <2>1, ClosedComplete
<1>10. OneBuy(e)' /\ Mid(e)' /\ poll'.held = other'.qty + Net(e)
    BY <1>1, <1>3, <1>7, <1>8, <1>9 DEF OneBuy, Mid, Held
<1>11. Asked'
    BY <1>10 DEF Asked
<1>12. BrokerRead'
    BY <1>1 DEF Own, BrokerRead, Mid
<1>13. Sound' /\ BotRead' /\ Harmless'
    BY <1>1 DEF Own, Sound, BotRead, Harmless
<1> QED
    BY <1>11, <1>12, <1>13 DEF Own

\* Every step preserves the second invariant.
LEMMA OwnNext ==
    ASSUME OwnInv, [Next]_vars
    PROVE  OwnInv'
<1>1. TypeInv /\ TypeInv'
    BY TypeNext DEF OwnInv
<1>2. SUFFICES ASSUME Clean' PROVE Own'
    BY <1>1 DEF OwnInv
<1>3. Clean /\ UNCHANGED other
    BY <1>1, <1>2, CleanBefore
<1>4. Own
    BY <1>3 DEF OwnInv
<1>5. \A o \in Orders : exec[o] \in Nat
    BY <1>1 DEF TypeInv, RowsOK
<1>6. CASE UNCHANGED vars \/ PollNothing \/ PollFails \/ NewDay
  <2>1. UNCHANGED <<exec, rec, pos, pass, poll>>
    BY <1>6 DEF vars, broker, tracker, sched, PollNothing, PollFails, NewDay
  <2>2. \A o \in Orders : exec[o] <= exec'[o]
    BY <1>5, <2>1
  <2> QED
    BY <1>1, <1>3, <1>4, <2>1, <2>2, OwnStays
<1>7. CASE ExternalTrade
  <2>1. other'.traded = TRUE
    BY <1>7 DEF ExternalTrade
  <2> QED
    BY <1>2, <2>1 DEF Clean
<1>8. ASSUME NEW o \in Orders, Submit(o) \/ Execute(o) \/ HistoryShows(o) \/ Cancel(o) PROVE Own'
  <2>1. UNCHANGED <<rec, pos, pass, poll>>
    BY <1>8 DEF Submit, Execute, HistoryShows, Cancel, tracker, sched
  <2>2. UNCHANGED exec \/ exec' = [exec EXCEPT ![o] = @ + 1]
    BY <1>8 DEF Submit, Execute, HistoryShows, Cancel, broker
  <2>3. \A p \in Orders : exec[p] <= exec'[p]
    BY <1>1, <1>5, <2>2 DEF TypeInv, RowsOK
  <2> QED
    BY <1>1, <1>3, <1>4, <2>1, <2>3, OwnStays
<1>9. CASE PollHistory
  <2>1. UNCHANGED <<exec, rec, pos, pass>> /\ poll'.pc = "items"
    BY <1>9 DEF PollHistory, broker, tracker, NoPoll
  <2>2. \A o \in Orders : exec[o] <= exec'[o]
    BY <1>5, <2>1
  <2> QED
    BY <1>1, <1>3, <1>4, <2>1, <2>2, OwnStays
<1>10. CASE Restart
  <2>1. UNCHANGED <<exec, rec, pos>> /\ poll'.pc = "idle" /\ pass'.pc = "idle"
    BY <1>10, NoPollOK, NoPassOK DEF Restart, broker, tracker
  <2>2. \A o \in Orders : exec[o] <= exec'[o]
    BY <1>5, <2>1
  <2> QED
    BY <1>1, <1>3, <1>4, <2>1, <2>2, OwnStays
<1>11. ASSUME NEW o \in Orders, PollItem(o) PROVE Own'
  <2> DEFINE q == poll.items[o]
  <2>1. /\ poll.pc = "items" /\ Apply(o, q) /\ UNCHANGED <<exec, other, pass>>
        /\ poll' = [poll EXCEPT !.items[o] = 0]
    BY <1>11 DEF PollItem, broker
  <2>2. poll'.pc # "fallback"
    BY <1>1, <2>1 DEF TypeInv, PollOK
  <2>3. q \in Nat /\ q <= ccld[o] /\ ccld[o] <= exec[o] /\ ccld[o] \in Nat /\ exec[o] \in Nat
    BY <1>1 DEF TypeInv, PollOK, RowsOK
  <2>4. q <= exec[o]
    BY <2>3
  <2> HIDE DEF q
  <2> QED
    BY <1>1, <1>2, <1>4, <2>1, <2>2, <2>3, <2>4, OwnApply
<1>12. CASE PollEnds(status, verify) /\ UNCHANGED <<rec, pos, overlap, clipped, blind>>
  <2>1. UNCHANGED <<exec, rec, pos, pass>> /\ poll'.pc # "fallback"
    BY <1>12, NoPollOK DEF PollEnds, broker
  <2>2. \A o \in Orders : exec[o] <= exec'[o]
    BY <1>5, <2>1
  <2> QED
    BY <1>1, <1>3, <1>4, <2>1, <2>2, OwnStays
<1>13. ASSUME NEW o \in Orders, poll.pc = "fallback", o \in Match, Apply(o, Qty[o]),
              PollEnds(Advanced(o, Qty[o]), verify \cup {o})
       PROVE  Own'
  <2>1. UNCHANGED <<exec, other, pass>> /\ poll'.pc # "fallback"
    BY <1>13, NoPollOK DEF PollEnds, broker
  <2>2. Qty[o] \in Nat /\ Qty[o] <= exec[o]
    BY <1>1, <1>3, <1>4, <1>13, OrdersFacts, MatchExecuted
  <2>3. PICK q : q = Qty[o]
    OBVIOUS
  <2> QED
    BY <1>1, <1>2, <1>4, <1>13, <2>1, <2>2, <2>3, OwnApply
<1>14. CASE NoFallback
    BY <1>12, <1>14 DEF NoFallback, past
<1>15. CASE FallbackApply
    BY <1>1, <1>12, <1>13, <1>15, FallbackCases
<1>16. CASE FallbackPositions
    BY <1>1, <1>3, <1>4, <1>16, OwnAsks
<1>17. CASE Pass \/ StartCommand
  <2>1. ~blind'
    BY <1>2 DEF Clean
  <2> QED
    BY <1>1, <1>3, <1>4, <1>17, <2>1, OwnPass
<1> QED
    BY <1>6, <1>7, <1>8, <1>9, <1>10, <1>11, <1>14, <1>15, <1>16, <1>17 DEF Next, Poll

\* The reconciler overwrites a position only when somebody else traded, an ended row hid shares, a fill
\* was recorded between the reads of a pass, a sell exceeded the position or the open orders could not
\* be read (reconciler.py, position.py:147-180).
THEOREM OwnFillsHold == Spec => []OwnFillsLeftAlone
<1>1. Init => OwnInv
    BY OwnInit
<1>2. OwnInv /\ [Next]_vars => OwnInv'
    BY OwnNext
<1>3. OwnInv => OwnFillsLeftAlone
    BY DEF OwnInv, Clean, Own, Harmless, OwnFillsLeftAlone
<1> QED
    BY <1>1, <1>2, <1>3, PTL DEF Spec

=============================================================================
