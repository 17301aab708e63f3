--------------------------- MODULE ResearchProofs ---------------------------
(***************************************************************************)
(* Proofs about Research: no look-ahead in a backtest (the clock of the    *)
(* timeline moves forward, what the strategy has seen stays behind it),    *)
(* stored rows survive, and a backtest sees every row it has listed.       *)
(*                                                                         *)
(* The last two rest on one invariant of the store: what a process is      *)
(* about to rename over a partition contains every row that is there, for  *)
(* as long as one process at most is past the lock.                        *)
(***************************************************************************)
EXTENDS Research, FiniteSetTheorems, TLAPS

-----------------------------------------------------------------------------
(* The timeline of a backtest: the dates of a finite set, in order *)

Before(T, d) == {e \in T : e < d}
Rank(T, d) == Cardinality(Before(T, d))

\* The rank of a bar counts the bars before it.
LEMMA RankType ==
    ASSUME NEW T, IsFiniteSet(T), T \subseteq Nat, NEW d \in T
    PROVE  Rank(T, d) \in 0..Cardinality(T) - 1
<1>1. Before(T, d) \in SUBSET (T \ {d})
    BY DEF Before
<1>2. IsFiniteSet(T \ {d}) /\ Cardinality(T \ {d}) = Cardinality(T) - 1
    BY FS_RemoveElement
<1>3. IsFiniteSet(Before(T, d)) /\ Cardinality(Before(T, d)) <= Cardinality(T \ {d})
    BY <1>1, <1>2, FS_Subset
<1>4. Cardinality(Before(T, d)) \in Nat /\ Cardinality(T) \in Nat
    BY <1>3, FS_CardinalityType
<1> QED
    BY <1>2, <1>3, <1>4 DEF Rank

\* Ranks increase with the date.
LEMMA RankOrder ==
    ASSUME NEW T, IsFiniteSet(T), T \subseteq Nat, NEW d \in T, NEW e \in T, d < e
    PROVE  Rank(T, d) < Rank(T, e)
<1>1. Before(T, d) \in SUBSET (Before(T, e) \ {d}) /\ d \in Before(T, e)
  <2>1. d \in Before(T, e)
    BY DEF Before
  <2>2. ASSUME NEW x \in Before(T, d) PROVE x \in Before(T, e) /\ x # d
    <3>1. x \in T /\ x < d
      BY DEF Before
    <3>2. x \in Nat /\ d \in Nat /\ e \in Nat
      BY <3>1
    <3>3. x < e /\ x # d
      BY <3>1, <3>2
    <3> QED
      BY <3>1, <3>3 DEF Before
  <2> QED
    BY <2>1, <2>2
<1>2. IsFiniteSet(Before(T, e))
  <2>1. Before(T, e) \in SUBSET T
    BY DEF Before
  <2> QED
    BY <2>1, FS_Subset
<1>3. IsFiniteSet(Before(T, e) \ {d}) /\ Cardinality(Before(T, e) \ {d}) = Cardinality(Before(T, e)) - 1
    BY <1>1, <1>2, FS_RemoveElement
<1>4. IsFiniteSet(Before(T, d)) /\ Cardinality(Before(T, d)) <= Cardinality(Before(T, e) \ {d})
    BY <1>1, <1>3, FS_Subset
<1>5. Cardinality(Before(T, d)) \in Nat /\ Cardinality(Before(T, e)) \in Nat
    BY <1>2, <1>4, FS_CardinalityType
<1> QED
    BY <1>3, <1>4, <1>5 DEF Rank

\* Every index below the number of bars is the rank of one.
LEMMA RankSurjective ==
    ASSUME NEW T, IsFiniteSet(T), T \subseteq Nat, NEW n \in 0..Cardinality(T) - 1
    PROVE  \E d \in T : Rank(T, d) = n
<1> DEFINE R == 0..Cardinality(T) - 1
           f == [d \in T |-> Rank(T, d)]
<1>1. Cardinality(T) \in Nat
    BY FS_CardinalityType
<1>2. IsFiniteSet(R) /\ Cardinality(R) = Cardinality(T)
  <2>1. 0 \in Int /\ Cardinality(T) - 1 \in Int
    BY <1>1
  <2> QED
    BY <2>1, <1>1, FS_Interval
<1>3. f \in [T -> R]
    BY RankType
<1>4. \A d, e \in T : f[d] = f[e] => d = e
  <2> SUFFICES ASSUME NEW d \in T, NEW e \in T, d # e PROVE Rank(T, d) # Rank(T, e)
    OBVIOUS
  <2> HIDE DEF R, f
  <2>0. Rank(T, d) \in 0..Cardinality(T) - 1 /\ Rank(T, e) \in 0..Cardinality(T) - 1
    BY RankType
  <2>1. d \in Nat /\ e \in Nat /\ Rank(T, d) \in Int /\ Rank(T, e) \in Int
    BY <2>0, <1>1
  <2>2. CASE d < e
    <3>1. Rank(T, d) < Rank(T, e)
      BY <2>2, RankOrder
    <3> QED
      BY <2>1, <3>1
  <2>3. CASE e < d
    <3>1. Rank(T, e) < Rank(T, d)
      BY <2>3, RankOrder
    <3> QED
      BY <2>1, <3>1
  <2> QED
    BY <2>1, <2>2, <2>3
<1>5. f \in Injection(T, R)
    BY <1>3, <1>4 DEF Injection, IsInjective
<1> HIDE DEF f
<1>6. f \in Surjection(T, R)
    BY <1>2, <1>5, FS_Injection
<1>7. PICK d \in T : f[d] = n
    BY <1>6 DEF Surjection
<1> QED
    BY <1>7 DEF f

\* LatestOf is the largest of the dates.
LEMMA LatestOfSpec ==
    ASSUME NEW T, IsFiniteSet(T), T \subseteq Nat, NEW old \in Nat
    PROVE  /\ LatestOf(T, old) \in T \cup {old}
           /\ \A e \in T \cup {old} : e <= LatestOf(T, old)
<1> DEFINE U == T \cup {old}
           n == Cardinality(U) - 1
<1>1. IsFiniteSet(U) /\ U \subseteq Nat /\ U # {}
    BY FS_AddElement
<1>2. Cardinality(U) \in Nat /\ Cardinality(U) # 0
    BY <1>1, FS_CardinalityType, FS_EmptySet
<1>3. n \in 0..Cardinality(U) - 1
    BY <1>2
<1>4. PICK d \in U : Rank(U, d) = n
    BY <1>1, <1>3, RankSurjective
<1>5. \A e \in U : e <= d
  <2> SUFFICES ASSUME NEW e \in U, d < e PROVE FALSE
    BY <1>1
  <2>1. Rank(U, d) < Rank(U, e)
    BY <1>1, RankOrder
  <2>2. Rank(U, e) \in 0..n
    BY <1>1, RankType
  <2> QED
    BY <1>2, <1>4, <2>1, <2>2
<1> QED
    BY <1>4, <1>5 DEF LatestOf

\* The timeline of the symbols in the cache is finite.
LEMMA TimelineFinite ==
    ASSUME NEW cache, cache \subseteq Symbols
    PROVE  /\ IsFiniteSet(Timeline(cache))
           /\ Timeline(cache) \subseteq Nat \ {0}
           /\ Cardinality(Timeline(cache)) \in Nat
<1> DEFINE S == {Bars[s] : s \in cache}
           f == [s \in cache |-> Bars[s]]
<1>1. IsFiniteSet(cache)
    BY SymbolsAssumption, FS_Subset
<1>2. f \in Surjection(cache, S)
    BY DEF Surjection
<1> HIDE DEF f
<1>3. IsFiniteSet(S)
    BY <1>1, <1>2, FS_Surjection
<1>4. \A b \in S : IsFiniteSet(b) /\ b \subseteq Nat \ {0}
    BY BarsAssumption
<1>5. IsFiniteSet(UNION S) /\ UNION S \subseteq Nat \ {0}
  <2> HIDE DEF S
  <2> QED
    BY <1>3, <1>4, FS_UNION
<1> QED
    BY <1>5, FS_CardinalityType DEF Timeline

\* Unless the timeline has ended, the date at an index is the bar of that rank.
LEMMA DateAtSpec ==
    ASSUME NEW cache, cache \subseteq Symbols, NEW idx \in Nat, ~Ended(cache, idx)
    PROVE  /\ DateAt(cache, idx) \in Timeline(cache)
           /\ Rank(Timeline(cache), DateAt(cache, idx)) = idx
           /\ DateAt(cache, idx) \in Nat \ {0}
<1> DEFINE T == Timeline(cache)
<1>1. IsFiniteSet(T) /\ T \subseteq Nat \ {0} /\ Cardinality(T) \in Nat
    BY TimelineFinite
<1>2. idx \in 0..Cardinality(T) - 1
    BY <1>1 DEF Ended
<1>3. \E d \in T : Rank(T, d) = idx
    BY <1>1, <1>2, RankSurjective
<1> QED
    BY <1>1, <1>3 DEF DateAt, Rank, Before

\* The clock moves forward with the index.
LEMMA DateAtNext ==
    ASSUME NEW cache, cache \subseteq Symbols, NEW idx \in Nat, ~Ended(cache, idx + 1)
    PROVE  ~Ended(cache, idx) /\ DateAt(cache, idx) < DateAt(cache, idx + 1)
<1> DEFINE T == Timeline(cache)
           d == DateAt(cache, idx)
           e == DateAt(cache, idx + 1)
<1>1. IsFiniteSet(T) /\ T \subseteq Nat /\ Cardinality(T) \in Nat
    BY TimelineFinite
<1>2. ~Ended(cache, idx)
    BY <1>1 DEF Ended
<1>3. d \in T /\ Rank(T, d) = idx
    BY <1>2, DateAtSpec
<1>4. e \in T /\ Rank(T, e) = idx + 1
    BY DateAtSpec
<1> HIDE DEF d, e, T
<1>5. ~(e < d)
  <2> SUFFICES ASSUME e < d PROVE FALSE
    OBVIOUS
  <2>1. Rank(T, e) < Rank(T, d)
    BY <1>1, <1>3, <1>4, RankOrder
  <2> QED
    BY <1>3, <1>4, <2>1
<1>6. e # d
    BY <1>3, <1>4
<1>7. d \in Nat /\ e \in Nat
    BY <1>1, <1>3, <1>4
<1>8. d < e
    BY <1>5, <1>6, <1>7
<1> QED
    BY <1>2, <1>8 DEF d, e

-----------------------------------------------------------------------------
(* The simulation *)

SimOK(s) ==
    /\ s = [pc |-> s.pc, idx |-> s.idx, cache |-> s.cache, cash |-> s.cash, hold |-> s.hold,
            signals |-> s.signals, queue |-> s.queue, fills |-> s.fills, equity |-> s.equity,
            seen |-> s.seen, moved |-> s.moved, ahead |-> s.ahead]
    /\ s.idx \in Int /\ s.idx >= -1
    /\ s.cache \subseteq Symbols
    /\ s.seen \in Nat
    /\ s.moved \in BOOLEAN /\ s.ahead \in BOOLEAN

\* At a bar of the timeline, the strategy has been shown nothing after it.
InBar(s) == s.idx >= 0 /\ ~Ended(s.cache, s.idx) /\ s.seen <= DateAt(s.cache, s.idx)

BarPcs == {"step", "signals", "follow"}

Honest(s) ==
    s.moved = FALSE =>
      /\ s.ahead = FALSE
      /\ s.pc \in {"config", "strategy"} => s.idx = -1 /\ s.seen = 0
      /\ s.pc = "advance" => (s.idx = -1 /\ s.seen = 0) \/ InBar(s)
      /\ s.pc \in BarPcs => InBar(s)

SimInv == SimOK(sim) /\ Honest(sim)

\* While a bar is worked on, the clock is its date.
LEMMA ClockInBar ==
    ASSUME NEW s, SimOK(s), InBar(s)
    PROVE  Clock(s) = DateAt(s.cache, s.idx) /\ Clock(s) \in Nat \ {0} /\ s.seen <= Clock(s)
<1>1. s.idx \in Nat /\ s.cache \subseteq Symbols /\ ~Ended(s.cache, s.idx)
    BY DEF SimOK, InBar
<1>2. Clock(s) = DateAt(s.cache, s.idx)
    BY <1>1 DEF Clock
<1>3. DateAt(s.cache, s.idx) \in Nat \ {0}
    BY <1>1, DateAtSpec
<1> QED
    BY <1>2, <1>3 DEF InBar

\* Loading a symbol only moves the clock by moving the timeline, and that is recorded.
LEMMA LoadedFields ==
    ASSUME NEW s, SimOK(s), NEW sym \in Symbols
    PROVE  /\ SimOK(Loaded(s, sym))
           /\ Loaded(s, sym).pc = s.pc /\ Loaded(s, sym).idx = s.idx
           /\ Loaded(s, sym).cache = s.cache \cup {sym}
           /\ Loaded(s, sym).seen = s.seen /\ Loaded(s, sym).ahead = s.ahead
           /\ Loaded(s, sym).moved = FALSE =>
                s.moved = FALSE /\ Clock(Loaded(s, sym)) = Clock(s)
<1> DEFINE t == [s EXCEPT !.cache = @ \cup {sym}]
           m == s.moved \/ Clock(t) # Clock(s)
           u == [t EXCEPT !.moved = m]
<1>1. /\ t = [pc |-> s.pc, idx |-> s.idx, cache |-> s.cache \cup {sym}, cash |-> s.cash,
              hold |-> s.hold, signals |-> s.signals, queue |-> s.queue, fills |-> s.fills,
              equity |-> s.equity, seen |-> s.seen, moved |-> s.moved, ahead |-> s.ahead]
    BY DEF SimOK
<1>2. u = Loaded(s, sym)
    <2>1. t.moved = s.moved
      BY <1>1
    <2> QED
      BY <2>1 DEF Loaded
<1>3. m \in BOOLEAN /\ (m = FALSE => s.moved = FALSE /\ Clock(t) = Clock(s))
    BY DEF SimOK
<1> HIDE DEF t, m
<1>4. u = [pc |-> s.pc, idx |-> s.idx, cache |-> s.cache \cup {sym}, cash |-> s.cash,
           hold |-> s.hold, signals |-> s.signals, queue |-> s.queue, fills |-> s.fills,
           equity |-> s.equity, seen |-> s.seen, moved |-> m, ahead |-> s.ahead]
    BY <1>1
<1> HIDE DEF u
<1>5. Clock(u) = Clock(t)
    BY <1>1, <1>4 DEF Clock
<1>6. SimOK(u)
    BY <1>3, <1>4 DEF SimOK
<1> QED
    BY <1>2, <1>3, <1>4, <1>5, <1>6

\* Loading a symbol keeps what the strategy has seen behind the clock, or moves the clock.
LEMMA LoadedHonest ==
    ASSUME NEW s, SimOK(s), Honest(s), s.pc \in BarPcs, NEW sym \in Symbols
    PROVE  LET t == Loaded(s, sym)
           IN SimOK(t) /\ Honest(t) /\ t.pc = s.pc /\ (t.moved = FALSE => t.ahead = FALSE /\ InBar(t))
<1> DEFINE t == Loaded(s, sym)
<1>1. /\ SimOK(t) /\ t.pc = s.pc /\ t.idx = s.idx /\ t.seen = s.seen /\ t.ahead = s.ahead
      /\ t.moved = FALSE => s.moved = FALSE /\ Clock(t) = Clock(s)
    BY LoadedFields
<1> HIDE DEF t
<1>2. ASSUME t.moved = FALSE PROVE t.ahead = FALSE /\ InBar(t)
  <2>1. s.moved = FALSE /\ Clock(t) = Clock(s)
    BY <1>1, <1>2
  <2>2. InBar(s) /\ s.ahead = FALSE
    BY <2>1 DEF Honest
  <2>3. Clock(s) \in Nat \ {0} /\ s.seen <= Clock(s)
    BY <2>2, ClockInBar
  <2>4. Clock(t) # 0 /\ t.seen <= Clock(t)
    BY <1>1, <2>1, <2>3
  <2>5. ~(t.idx < 0 \/ Ended(t.cache, t.idx)) /\ Clock(t) = DateAt(t.cache, t.idx)
    BY <2>4 DEF Clock
  <2>6. t.idx >= 0
    BY <2>5, <1>1 DEF SimOK
  <2> QED
    BY <1>1, <2>2, <2>4, <2>5, <2>6 DEF InBar
<1>3. Honest(t)
    BY <1>1, <1>2 DEF Honest, BarPcs
<1> QED
    BY <1>1, <1>2, <1>3 DEF t

\* The strategy looks at a chart.
LEMMA LookStep ==
    ASSUME SimInv, Look
    PROVE  SimInv'
<1>1. sim.pc \in BarPcs
    BY DEF Look, BarPcs
<1>2. PICK sym \in Symbols :
        sim' = [Loaded(sim, sym) EXCEPT !.seen = LatestOf(Visible(Loaded(sim, sym), sym), @)]
    BY DEF Look
<1> DEFINE t == Loaded(sim, sym)
           V == Visible(t, sym)
<1>3. SimOK(t) /\ Honest(t) /\ t.pc = sim.pc /\ (t.moved = FALSE => t.ahead = FALSE /\ InBar(t))
    BY <1>1, LoadedHonest DEF SimInv
<1> HIDE DEF t
<1>4. IsFiniteSet(V) /\ V \subseteq Nat
  <2>1. V \in SUBSET Bars[sym]
    BY DEF Visible
  <2> QED
    BY <2>1, BarsAssumption, FS_Subset
<1>5. t.seen \in Nat
    BY <1>3 DEF SimOK
<1> DEFINE n == LatestOf(V, t.seen)
<1>6. n \in V \cup {t.seen}
    BY <1>4, <1>5, LatestOfSpec
<1>7. n \in Nat
    BY <1>4, <1>5, <1>6
<1>8. \A d \in V : d <= Clock(t)
    BY DEF Visible
<1>9. sim' = [t EXCEPT !.seen = n]
    BY <1>2 DEF t
<1> HIDE DEF n, V
<1>10. sim' = [pc |-> t.pc, idx |-> t.idx, cache |-> t.cache, cash |-> t.cash, hold |-> t.hold,
            signals |-> t.signals, queue |-> t.queue, fills |-> t.fills, equity |-> t.equity,
            seen |-> n, moved |-> t.moved, ahead |-> t.ahead]
    BY <1>3, <1>9 DEF SimOK
<1>11. SimOK(sim')
    BY <1>3, <1>7, <1>10 DEF SimOK
<1>12. ASSUME t.moved = FALSE PROVE InBar(sim')
  <2>1. InBar(t)
    BY <1>3, <1>12
  <2>2. Clock(t) = DateAt(t.cache, t.idx) /\ t.seen <= Clock(t)
    BY <1>3, <2>1, ClockInBar
  <2>3. n <= Clock(t)
    BY <1>6, <1>8, <2>2
  <2> QED
    BY <1>10, <2>1, <2>2, <2>3 DEF InBar
<1>13. Honest(sim')
    BY <1>1, <1>3, <1>10, <1>12 DEF Honest, BarPcs
<1> QED
    BY <1>11, <1>13 DEF SimInv

\* What the invariant looks at.
Same(u, s) ==
    /\ u = [pc |-> u.pc, idx |-> u.idx, cache |-> u.cache, cash |-> u.cash, hold |-> u.hold,
            signals |-> u.signals, queue |-> u.queue, fills |-> u.fills, equity |-> u.equity,
            seen |-> u.seen, moved |-> u.moved, ahead |-> u.ahead]
    /\ u.idx = s.idx /\ u.cache = s.cache /\ u.seen = s.seen
    /\ u.moved = s.moved /\ u.ahead = s.ahead

\* A step that touches neither cache nor clock.
LEMMA SameInv ==
    ASSUME NEW s, NEW u, SimOK(s), Honest(s), Same(u, s),
           \/ u.pc = s.pc
           \/ u.pc \in BarPcs \cup {"advance"} /\ s.pc \in BarPcs
           \/ u.pc \in {"failed", "end", "save"}
    PROVE  SimOK(u) /\ Honest(u)
<1>1. SimOK(u)
    BY DEF SimOK, Same
<1>2. InBar(s) => InBar(u)
    BY DEF InBar, Same
<1>3. Honest(u)
    BY <1>2 DEF Honest, Same, BarPcs
<1> QED
    BY <1>1, <1>3

\* A simulated fill at the price of the current bar.
LEMMA FilledInv ==
    ASSUME NEW t, SimOK(t), Honest(t), t.pc \in BarPcs, NEW g,
           t.moved = FALSE => t.ahead = FALSE /\ InBar(t)
    PROVE  SimOK(Filled(t, g)) /\ Honest(Filled(t, g)) /\ Filled(t, g).pc = t.pc
<1> DEFINE a == t.ahead \/ Clock(t) < t.seen
           u == Filled(t, g)
<1>1. \E c, h : u = [t EXCEPT !.cash = c, !.hold = h, !.ahead = a]
    BY DEF Filled
<1>2. PICK c, h : u = [t EXCEPT !.cash = c, !.hold = h, !.ahead = a]
    BY <1>1
<1>3. a \in BOOLEAN
    BY DEF SimOK
<1>4. t.moved = FALSE => a = FALSE
  <2> SUFFICES ASSUME t.moved = FALSE PROVE a = FALSE
    OBVIOUS
  <2>1. t.ahead = FALSE /\ InBar(t)
    OBVIOUS
  <2>2. Clock(t) \in Nat /\ t.seen <= Clock(t) /\ t.seen \in Nat
    BY <2>1, ClockInBar DEF SimOK
  <2>3. ~(Clock(t) < t.seen)
    BY <2>2
  <2> QED
    BY <2>1, <2>3
<1> HIDE DEF a, u
<1>5. u = [pc |-> t.pc, idx |-> t.idx, cache |-> t.cache, cash |-> c, hold |-> h,
           signals |-> t.signals, queue |-> t.queue, fills |-> t.fills, equity |-> t.equity,
           seen |-> t.seen, moved |-> t.moved, ahead |-> a]
    BY <1>2 DEF SimOK
<1>6. SimOK(u)
    BY <1>3, <1>5 DEF SimOK
<1>7. InBar(t) => InBar(u)
    BY <1>5 DEF InBar
<1>8. Honest(u)
    BY <1>4, <1>5, <1>7 DEF Honest, BarPcs
<1> QED
    BY <1>5, <1>6, <1>8 DEF u

\* A signal loads its symbol and is filled or rejected.
LEMMA ExecutedInv ==
    ASSUME NEW s, SimOK(s), Honest(s), s.pc \in BarPcs, NEW g \in Signals
    PROVE  LET x == Executed(s, g) IN SimOK(x.to) /\ Honest(x.to) /\ x.to.pc = s.pc
<1>1. CASE ~Acceptable(g)
    BY <1>1 DEF Executed
<1>2. CASE Acceptable(g)
  <2> DEFINE t == Loaded(s, g.sym)
  <2>1. g.sym \in Symbols
    BY DEF Signals
  <2>2. SimOK(t) /\ Honest(t) /\ t.pc = s.pc /\ (t.moved = FALSE => t.ahead = FALSE /\ InBar(t))
    BY <2>1, LoadedHonest
  <2> HIDE DEF t
  <2>3. SimOK(Filled(t, g)) /\ Honest(Filled(t, g)) /\ Filled(t, g).pc = s.pc
    BY <2>2, FilledInv
  <2>4. Executed(s, g) = IF Fills(t, g) THEN [to |-> Filled(t, g), filled |-> TRUE]
                         ELSE [to |-> t, filled |-> FALSE]
    BY <1>2 DEF Executed, t
  <2>5. Executed(s, g).to = Filled(t, g) \/ Executed(s, g).to = t
    <3>1. CASE Fills(t, g)
      BY <2>4, <3>1
    <3>2. CASE ~Fills(t, g)
      BY <2>4, <3>2
    <3> QED
      BY <3>1, <3>2
  <2> QED
    BY <2>2, <2>3, <2>5
<1> QED
    BY <1>1, <1>2

\* A signal of on_step.
LEMMA ExecuteSignalStep ==
    ASSUME SimInv, ExecuteSignal
    PROVE  SimInv'
<1>1. sim.pc = "signals" /\ sim.pc \in BarPcs
    BY DEF ExecuteSignal, BarPcs
<1>2. PICK g \in Signals : \E q \in FollowUps(Executed(sim, g)) :
        sim' = [Executed(sim, g).to EXCEPT !.signals = @ - 1, !.queue = q]
    BY DEF ExecuteSignal
<1> DEFINE t == Executed(sim, g).to
<1>3. SimOK(t) /\ Honest(t)
    BY <1>1, ExecutedInv DEF SimInv
<1>4. PICK q : sim' = [t EXCEPT !.signals = @ - 1, !.queue = q]
    BY <1>2
<1> HIDE DEF t
<1>5. Same(sim', t) /\ sim'.pc = t.pc
    BY <1>3, <1>4 DEF Same, SimOK
<1> QED
    BY <1>3, <1>5, SameInv DEF SimInv

\* A signal of on_fill.
LEMMA ExecuteFollowUpStep ==
    ASSUME SimInv, ExecuteFollowUp
    PROVE  SimInv'
<1> DEFINE s == [sim EXCEPT !.queue = @ - 1]
<1>1. sim.pc = "follow"
    BY DEF ExecuteFollowUp
<1>2. PICK g \in Signals : \E q \in FollowUps(Executed(s, g)) :
        sim' = [Executed(s, g).to EXCEPT !.queue = q,
                  !.fills = IF Executed(s, g).filled /\ @ < MaxFollowUps THEN @ + 1 ELSE @]
    BY DEF ExecuteFollowUp
<1>3. Same(s, sim) /\ s.pc = sim.pc
    BY DEF Same, SimInv, SimOK
<1> HIDE DEF s
<1>4. SimOK(s) /\ Honest(s) /\ s.pc \in BarPcs
    BY <1>1, <1>3, SameInv DEF SimInv, BarPcs
<1> DEFINE t == Executed(s, g).to
<1>5. SimOK(t) /\ Honest(t)
    BY <1>4, ExecutedInv
<1>6. PICK q, n : sim' = [t EXCEPT !.queue = q, !.fills = n]
    BY <1>2
<1> HIDE DEF t
<1>7. Same(sim', t) /\ sim'.pc = t.pc
    BY <1>5, <1>6 DEF Same, SimOK
<1> QED
    BY <1>5, <1>7, SameInv DEF SimInv

\* The clock advances to the next bar.
LEMMA Advance1Step ==
    ASSUME SimInv, Advance1
    PROVE  SimInv'
<1> DEFINE i == sim.idx + 1
           pc == IF Ended(sim.cache, i) THEN "save" ELSE "step"
<1>1. SimOK(sim) /\ Honest(sim) /\ sim.pc = "advance"
    BY DEF SimInv, Advance1
<1>2. sim' = [pc |-> pc, idx |-> i, cache |-> sim.cache, cash |-> sim.cash, hold |-> sim.hold,
            signals |-> sim.signals, queue |-> sim.queue, fills |-> sim.fills,
            equity |-> sim.equity, seen |-> sim.seen, moved |-> sim.moved, ahead |-> sim.ahead]
  <2> DEFINE t == [sim EXCEPT !.idx = @ + 1]
  <2>1. t = [pc |-> sim.pc, idx |-> i, cache |-> sim.cache, cash |-> sim.cash, hold |-> sim.hold,
            signals |-> sim.signals, queue |-> sim.queue, fills |-> sim.fills,
            equity |-> sim.equity, seen |-> sim.seen, moved |-> sim.moved, ahead |-> sim.ahead]
    BY <1>1 DEF SimOK
  <2>2. sim' = [t EXCEPT !.pc = IF Ended(t.cache, t.idx) THEN "save" ELSE "step"]
    BY DEF Advance1
  <2> HIDE DEF t
  <2>3. t.cache = sim.cache /\ t.idx = i
    BY <2>1
  <2>4. sim' = [t EXCEPT !.pc = pc]
    BY <2>2, <2>3
  <2> HIDE DEF pc, i
  <2> QED
    BY <2>1, <2>4
<1>3. i \in Nat /\ sim.cache \subseteq Symbols /\ sim.seen \in Nat
    BY <1>1 DEF SimOK
<1>4. ASSUME sim.moved = FALSE, pc = "step" PROVE InBar(sim')
  <2>1. ~Ended(sim.cache, i)
    BY <1>4
  <2>2. DateAt(sim.cache, i) \in Nat
    BY <1>3, <2>1, DateAtSpec
  <2>3. (sim.idx = -1 /\ sim.seen = 0) \/ InBar(sim)
    BY <1>1, <1>4 DEF Honest
  <2>4. CASE sim.idx = -1 /\ sim.seen = 0
    BY <1>2, <1>3, <2>1, <2>2, <2>4 DEF InBar
  <2>5. CASE InBar(sim)
    <3>1. sim.idx \in Nat /\ sim.seen <= DateAt(sim.cache, sim.idx) /\ ~Ended(sim.cache, sim.idx)
      BY <1>1, <2>5 DEF SimOK, InBar
    <3>2. DateAt(sim.cache, sim.idx) < DateAt(sim.cache, i)
      BY <1>3, <2>1, <3>1, DateAtNext
    <3>3. DateAt(sim.cache, sim.idx) \in Nat
      BY <1>3, <3>1, DateAtSpec
    <3> HIDE DEF i
    <3>4. sim.seen <= DateAt(sim.cache, i)
      BY <1>3, <2>2, <3>1, <3>2, <3>3
    <3> QED
      BY <1>2, <1>3, <2>1, <3>4 DEF InBar
  <2> QED
    BY <2>3, <2>4, <2>5
<1>5. pc \in {"save", "step"}
    OBVIOUS
<1> HIDE DEF pc, i
<1>6. SimOK(sim')
    BY <1>1, <1>2, <1>3 DEF SimOK
<1>7. Honest(sim')
    BY <1>1, <1>2, <1>4, <1>5 DEF Honest, BarPcs
<1> QED
    BY <1>6, <1>7 DEF SimInv

\* The strategy is loaded.
LEMMA LoadStrategyStep ==
    ASSUME SimInv, LoadStrategy
    PROVE  SimInv'
<1>1. SimOK(sim) /\ Honest(sim) /\ sim.pc = "strategy"
    BY DEF SimInv, LoadStrategy
<1>2. \/ sim' = [sim EXCEPT !.pc = "advance", !.cache = Universe]
      \/ sim' = [sim EXCEPT !.pc = "failed"]
    BY DEF LoadStrategy
<1>3. CASE sim' = [sim EXCEPT !.pc = "failed"]
  <2>1. Same(sim', sim) /\ sim'.pc = "failed"
    BY <1>1, <1>3 DEF Same, SimOK
  <2> QED
    BY <1>1, <2>1, SameInv DEF SimInv
<1>4. CASE sim' = [sim EXCEPT !.pc = "advance", !.cache = Universe]
  <2>1. sim' = [pc |-> "advance", idx |-> sim.idx, cache |-> Universe, cash |-> sim.cash,
            hold |-> sim.hold, signals |-> sim.signals, queue |-> sim.queue, fills |-> sim.fills,
            equity |-> sim.equity, seen |-> sim.seen, moved |-> sim.moved, ahead |-> sim.ahead]
    BY <1>1, <1>4 DEF SimOK
  <2>2. SimOK(sim')
    BY <1>1, <2>1, SymbolsAssumption DEF SimOK
  <2>3. Honest(sim')
    BY <1>1, <2>1 DEF Honest, BarPcs
  <2> QED
    BY <2>2, <2>3 DEF SimInv
<1> QED
    BY <1>2, <1>3, <1>4

\* The configuration is checked before anything is read.
LEMMA CheckConfigStep ==
    ASSUME SimInv, CheckConfig
    PROVE  SimInv'
<1>1. SimOK(sim) /\ Honest(sim) /\ sim.pc = "config"
    BY DEF SimInv, CheckConfig
<1>2. PICK pc \in {"strategy", "failed"} : sim' = [sim EXCEPT !.pc = pc]
    BY DEF CheckConfig
<1>3. Same(sim', sim) /\ sim'.pc = pc
    BY <1>1, <1>2 DEF Same, SimOK
<1>4. SimOK(sim')
    BY <1>1, <1>3 DEF SimOK, Same
<1>5. Honest(sim')
    BY <1>1, <1>2, <1>3 DEF Honest, Same, BarPcs
<1> QED
    BY <1>4, <1>5 DEF SimInv

\* Every step of the simulation keeps its invariant.
LEMMA SimStep ==
    ASSUME SimInv, SimNext
    PROVE  SimInv'
<1>1. SimOK(sim) /\ Honest(sim)
    BY DEF SimInv
<1>2. CASE OnStep
  <2>1. PICK n : sim' = [sim EXCEPT !.pc = "signals", !.signals = n, !.queue = 0, !.fills = 0]
    BY <1>2 DEF OnStep
  <2>2. Same(sim', sim) /\ sim'.pc = "signals" /\ sim.pc = "step"
    BY <1>1, <1>2, <2>1 DEF Same, SimOK, OnStep
  <2> QED
    BY <1>1, <2>2, SameInv DEF SimInv, BarPcs
<1>3. CASE ToFollowUps
  <2>1. Same(sim', sim) /\ sim'.pc = "follow" /\ sim.pc = "signals"
    BY <1>1, <1>3 DEF Same, SimOK, ToFollowUps
  <2> QED
    BY <1>1, <2>1, SameInv DEF SimInv, BarPcs
<1>4. CASE StepDone
  <2>1. PICK e : sim' = [sim EXCEPT !.pc = "advance", !.equity = e, !.queue = 0]
    BY <1>4 DEF StepDone
  <2>2. Same(sim', sim) /\ sim'.pc = "advance" /\ sim.pc = "follow"
    BY <1>1, <1>4, <2>1 DEF Same, SimOK, StepDone
  <2> QED
    BY <1>1, <2>2, SameInv DEF SimInv, BarPcs
<1>5. CASE SaveResult
  <2>1. PICK pc \in {"end", "failed"} : sim' = [sim EXCEPT !.pc = pc]
    BY <1>5 DEF SaveResult
  <2>2. Same(sim', sim) /\ sim'.pc = pc
    BY <1>1, <2>1 DEF Same, SimOK
  <2> QED
    BY <1>1, <2>1, <2>2, SameInv DEF SimInv
<1> QED
    BY <1>2, <1>3, <1>4, <1>5, CheckConfigStep, LoadStrategyStep, Advance1Step,
       ExecuteSignalStep, ExecuteFollowUpStep, LookStep
    DEF SimNext, SimRun

\* The invariant of the simulation holds initially.
LEMMA SimInit ==
    ASSUME InitSim
    PROVE  SimInv
<1>1. sim.pc = "config" /\ sim.idx = -1 /\ sim.seen = 0 /\ sim.moved = FALSE /\ sim.ahead = FALSE
    BY DEF InitSim
<1>2. SimOK(sim)
    BY DEF InitSim, SimOK
<1>3. Honest(sim)
    BY <1>1 DEF Honest, BarPcs
<1> QED
    BY <1>2, <1>3 DEF SimInv

-----------------------------------------------------------------------------
(* The store *)

\* The states of a file that a write merges with.
Solid == {"ok", "damaged"}

IsFun(f, S) == f = [x \in S |-> f[x]]

\* A partition's file holds rows of that partition only.
FilesOK ==
    /\ IsFun(file, Parts)
    /\ \A p \in Parts : /\ file[p] = [st |-> file[p].st, rows |-> file[p].rows]
                        /\ \A i \in file[p].rows : PartOf[i] = p
                        /\ file[p].st \notin Solid => file[p].rows = {}

\* What a process is about to rename over a partition has every row that is there.
FlightOK(w) ==
    flight[w].part \in Parts =>
      /\ run[w].pc \in WritePcs /\ run[w].todo # <<>>
      /\ file[flight[w].part].rows \subseteq flight[w].rows
      /\ \A i \in flight[w].rows : PartOf[i] = flight[w].part

\* At most one process is past the lock.
OneRuns == \A p, q \in Procs : p \in Running(run) /\ q \in Running(run) => p = q

StoreOK ==
    /\ FilesOK
    /\ IsFun(flight, Writers) /\ IsFun(run, Procs)
    /\ \A w \in Procs : FlightOK(w)
    /\ found \in Parts \cup {Nothing}

StoreInv == ~raced => StoreOK /\ OneRuns

\* What a step may take away: a row leaves its partition with the partition only, and is
\* accounted for when it can no longer be read.
Keeps ==
    /\ \A p \in Parts : \A i \in file[p].rows : i \in file'[p].rows \/ p \in away'
    /\ \A p \in Parts : file[p].st = "ok" =>
         \A i \in file[p].rows : (file'[p].st = "ok" /\ i \in file'[p].rows) \/ i \in lost'
    /\ away \subseteq away'

\* No process writes, and p is the only one that may have moved.
Quiet(p) ==
    /\ UNCHANGED <<file, flight, found, lost, away>>
    /\ ~(run[p].pc \in WritePcs /\ run[p].todo # <<>>)
    /\ \A q \in Procs \ {p} : run'[q] = run[q]
    /\ IsFun(run', Procs)

\* A process changes its own record only.
LEMMA RunExcept ==
    ASSUME IsFun(run, Procs), NEW p \in Procs, NEW r, run' = [run EXCEPT ![p] = r]
    PROVE  IsFun(run', Procs) /\ \A q \in Procs \ {p} : run'[q] = run[q]
    BY DEF IsFun

\* The lock file: no row is touched.
LEMMA LockQuiet ==
    ASSUME IsFun(run, Procs), NEW p \in Procs,
           LockOpen(p) \/ LockRead(p) \/ LockUnlink(p) \/ LockOwn(p) \/ Release(p)
    PROVE  Quiet(p)
<1>1. run[p].pc \notin WritePcs
    BY DEF LockOpen, LockRead, LockUnlink, LockOwn, Release, Pc, WritePcs
<1>2. UNCHANGED <<file, flight, found, lost, away>>
    BY DEF LockOpen, LockRead, LockUnlink, LockOwn, Release, storeVars
<1>3. \E r : run' = [run EXCEPT ![p] = r]
  <2>1. CASE LockOpen(p)
    BY <2>1 DEF LockOpen, Goto
  <2>2. CASE LockRead(p)
    BY <2>2 DEF LockRead, Goto
  <2>3. CASE LockUnlink(p)
    BY <2>3 DEF LockUnlink
  <2>4. CASE LockOwn(p)
    BY <2>4 DEF LockOwn, Goto
  <2>5. CASE Release(p)
    BY <2>5 DEF Release
  <2> QED
    BY <2>1, <2>2, <2>3, <2>4, <2>5
<1> QED
    BY <1>1, <1>2, <1>3, RunExcept DEF Quiet

\* The loop over the dates and the fetches of data.go.kr touch no row.
LEMMA GovQuiet ==
    ASSUME IsFun(run, Procs), NEW p \in Procs,
           BeginBackfill(p) \/ BeginDaily(p) \/ GovPaused(p) \/ GovFetch(p)
    PROVE  Quiet(p)
<1>1. run[p].pc \notin WritePcs
    BY DEF BeginBackfill, BeginDaily, GovPaused, GovFetch, Pc, WritePcs
<1>2. UNCHANGED <<file, flight, found, lost, away>>
    BY DEF BeginBackfill, BeginDaily, GovPaused, GovFetch, storeVars
<1>3. \E r : run' = [run EXCEPT ![p] = r]
  <2>1. CASE BeginBackfill(p)
    BY <2>1 DEF BeginBackfill, Goto, Become
  <2>2. CASE BeginDaily(p)
    BY <2>2 DEF BeginDaily, Goto
  <2>3. CASE GovPaused(p)
    BY <2>3 DEF GovPaused, Become
  <2>4. CASE GovFetch(p)
    BY <2>4 DEF GovFetch, Become
  <2> QED
    BY <2>1, <2>2, <2>3, <2>4
<1> QED
    BY <1>1, <1>2, <1>3, RunExcept DEF Quiet

\* What is remembered of a stored batch touches no row.
LEMMA StoredQuiet ==
    ASSUME IsFun(run, Procs), NEW p \in Procs,
           GovStored(p) \/ GovUnsaved(p) \/ DartStored(p) \/ IndicatorsStored(p)
    PROVE  Quiet(p)
<1>1. run[p].todo = <<>>
    BY DEF GovStored, GovUnsaved, DartStored, IndicatorsStored
<1>2. UNCHANGED <<file, flight, found, lost, away>>
    BY DEF GovStored, GovUnsaved, DartStored, IndicatorsStored
<1>3. \E r : run' = [run EXCEPT ![p] = r]
  <2>1. CASE GovStored(p)
    BY <2>1 DEF GovStored, Become
  <2>2. CASE GovUnsaved(p)
    BY <2>2 DEF GovUnsaved, Become
  <2>3. CASE DartStored(p)
    BY <2>3 DEF DartStored, Become
  <2>4. CASE IndicatorsStored(p)
    BY <2>4 DEF IndicatorsStored, Goto
  <2> QED
    BY <2>1, <2>2, <2>3, <2>4
<1> QED
    BY <1>1, <1>2, <1>3, RunExcept DEF Quiet

\* The DART fetches touch no row.
LEMMA DartQuiet ==
    ASSUME IsFun(run, Procs), NEW p \in Procs,
           DartBegin(p) \/ DartFetch(p) \/ Indicators(p)
    PROVE  Quiet(p)
<1>1. run[p].pc \notin WritePcs
    BY DEF DartBegin, DartFetch, Indicators, Pc, WritePcs
<1>2. UNCHANGED <<file, flight, found, lost, away>>
    BY DEF DartBegin, DartFetch, Indicators, storeVars
<1>3. \E r : run' = [run EXCEPT ![p] = r]
  <2>1. CASE DartBegin(p)
    BY <2>1 DEF DartBegin, Become, Goto
  <2>2. CASE DartFetch(p)
    BY <2>2 DEF DartFetch, Become
  <2>3. CASE Indicators(p)
    BY <2>3 DEF Indicators
  <2> QED
    BY <2>1, <2>2, <2>3
<1> QED
    BY <1>1, <1>2, <1>3, RunExcept DEF Quiet

\* The scheduler and the commands start a run of one process.
LEMMA SchedQuiet ==
    ASSUME IsFun(run, Procs),
           SchedBackfill \/ SchedDaily \/ Command \/ InjectDone
    PROVE  \E p \in Procs : Quiet(p)
<1> DEFINE p == IF SchedBackfill \/ SchedDaily THEN "sched" ELSE "cli"
<1>1. p \in Procs
    BY DEF Procs
<1>2. UNCHANGED <<file, flight, found, lost, away>>
    BY DEF SchedBackfill, SchedDaily, Command, InjectDone, storeVars
<1>3. /\ \E r : run' = [run EXCEPT ![p] = r]
      /\ ~(run[p].pc \in WritePcs /\ run[p].todo # <<>>)
  <2>1. CASE SchedBackfill
    BY <2>1 DEF SchedBackfill, StartJob, Pc, WritePcs
  <2>2. CASE SchedDaily
    BY <2>2 DEF SchedDaily, StartJob, Pc, WritePcs
  <2>3. CASE ~(SchedBackfill \/ SchedDaily) /\ Command
    <3>1. p = "cli"
      BY <2>3
    <3>2. run[p].pc \notin WritePcs
      BY <2>3, <3>1 DEF Command, Pc, WritePcs
    <3>3. \E r : run' = [run EXCEPT !["cli"] = r]
      BY <2>3 DEF Command, StartJob
    <3> QED
      BY <3>1, <3>2, <3>3
  <2>4. CASE ~(SchedBackfill \/ SchedDaily) /\ InjectDone
    BY <2>4 DEF InjectDone
  <2> QED
    BY <2>1, <2>2, <2>3, <2>4
<1> QED
    BY <1>1, <1>2, <1>3, RunExcept DEF Quiet

\* Midnight, the scheduler's start and its end leave the processes alone.
LEMMA ClockQuiet ==
    ASSUME NewDay \/ SchedStop \/ SchedExit \/ SchedStart
    PROVE  UNCHANGED <<file, flight, found, lost, away, run>>
    BY DEF NewDay, SchedStop, SchedExit, SchedStart, storeVars

\* A quiet step keeps the invariant and the rows.
LEMMA QuietStep ==
    ASSUME StoreOK, NEW p \in Procs, Quiet(p)
    PROVE  StoreOK' /\ Keeps
<1>1. FilesOK' /\ IsFun(flight, Writers)' /\ IsFun(run, Procs)' /\ (found \in Parts \cup {Nothing})'
    BY DEF StoreOK, Quiet, FilesOK, IsFun
<1>2. ASSUME NEW w \in Procs PROVE FlightOK(w)'
  <2>1. FlightOK(w)
    BY DEF StoreOK
  <2>2. CASE w = p
    BY <2>1, <2>2 DEF FlightOK, Quiet
  <2>3. CASE w # p
    BY <2>1, <2>3 DEF FlightOK, Quiet
  <2> QED
    BY <2>2, <2>3
<1>3. Keeps
    BY DEF Keeps, Quiet
<1> QED
    BY <1>1, <1>2, <1>3 DEF StoreOK

\* So does one that leaves store and processes alone.
LEMMA ClockStep ==
    ASSUME StoreOK, UNCHANGED <<file, flight, found, lost, away, run>>
    PROVE  StoreOK' /\ Keeps
    BY DEF StoreOK, FilesOK, FlightOK, IsFun, Keeps

\* Where p writes, no other process does.
LEMMA OthersIdle ==
    ASSUME StoreOK, OneRuns, NEW p \in Procs, run[p].pc \in WritePcs, NEW q \in Procs, q # p
    PROVE  flight[q].part \notin Parts
<1>1. p \in Running(run)
    BY DEF Running, WritePcs, LockPcs
<1>2. q \notin Running(run)
    BY <1>1 DEF OneRuns
<1>3. run[q].pc \notin WritePcs
    BY <1>2 DEF Running, WritePcs, LockPcs
<1> QED
    BY <1>3 DEF StoreOK, FlightOK

\* A write ends without touching the partition.
LEMMA Dropped ==
    ASSUME StoreOK, OneRuns, NEW p \in Procs, run[p].pc \in WritePcs,
           UNCHANGED <<file, found, lost, away>>,
           flight' = [flight EXCEPT ![p] = NoWrite],
           IsFun(run', Procs)
    PROVE  StoreOK' /\ Keeps
<1>1. p \in Writers
    BY ProcsWrite
<1>2. IsFun(flight', Writers) /\ flight'[p] = NoWrite /\ \A q \in Writers \ {p} : flight'[q] = flight[q]
    BY <1>1 DEF StoreOK, IsFun
<1>3. FilesOK' /\ (found \in Parts \cup {Nothing})' /\ Keeps
    BY DEF StoreOK, FilesOK, IsFun, Keeps
<1>4. ASSUME NEW w \in Procs PROVE FlightOK(w)'
  <2>1. flight'[w].part \notin Parts
    <3>1. CASE w = p
      BY <1>2, <3>1, NothingNoPart DEF NoWrite
    <3>2. CASE w # p
      BY <1>2, <3>2, OthersIdle, ProcsWrite
    <3> QED
      BY <3>1, <3>2
  <2> QED
    BY <2>1 DEF FlightOK
<1> QED
    BY <1>2, <1>3, <1>4 DEF StoreOK

\* A writer reads the partition: nobody else has a write under way there.
LEMMA BeginWriteStep ==
    ASSUME StoreOK, OneRuns, NEW p \in Procs, run[p].pc \in WritePcs, run[p].todo # <<>>,
           BeginWrite(p, PartOf[Head(run[p].todo)], RowsToWrite(p)), UNCHANGED run
    PROVE  StoreOK' /\ Keeps
<1> DEFINE i == Head(run[p].todo)
           part == PartOf[i]
           rows == RowsToWrite(p)
           f == [part |-> part, rows |-> IF Occupied(part) THEN Merged(part, rows) ELSE rows,
                 fresh |-> ~Occupied(part)]
<1>1. /\ flight' = [flight EXCEPT ![p] = f]
      /\ ~Occupied(part) \/ Readable(part)
      /\ UNCHANGED <<file, found, lost, away>>
    BY DEF BeginWrite, OpenWrite
<1>2. part \in Parts => \A x \in rows : PartOf[x] = part
    BY DEF RowsToWrite, StoreOK, FilesOK
<1>3. f.part = part /\ f.rows = IF Occupied(part) THEN Merged(part, rows) ELSE rows
    OBVIOUS
<1> HIDE DEF f, rows, i, part
<1>4. part \in Parts => \A x \in f.rows : PartOf[x] = part
    BY <1>2, <1>3 DEF Merged, StoreOK, FilesOK
<1>5. p \in Writers
    BY ProcsWrite
<1>6. IsFun(flight', Writers) /\ flight'[p] = f /\ \A q \in Writers \ {p} : flight'[q] = flight[q]
    BY <1>1, <1>5 DEF StoreOK, IsFun
<1>7. FilesOK' /\ (found \in Parts \cup {Nothing})' /\ Keeps /\ IsFun(run', Procs)
    BY <1>1 DEF StoreOK, FilesOK, IsFun, Keeps
<1>8. part \in Parts => file[part].rows \subseteq f.rows
    BY <1>3 DEF Merged, Occupied, StoreOK, FilesOK, Solid
<1>9. ASSUME NEW w \in Procs PROVE FlightOK(w)'
  <2>1. CASE w = p
    BY <1>1, <1>3, <1>4, <1>6, <1>8, <2>1 DEF FlightOK
  <2>2. CASE w # p
    <3>1. flight'[w].part \notin Parts
      BY <1>6, <2>2, OthersIdle, ProcsWrite
    <3> QED
      BY <3>1 DEF FlightOK
  <2> QED
    BY <2>1, <2>2
<1> QED
    BY <1>6, <1>7, <1>9 DEF StoreOK

\* The file is replaced by the rows read before, merged with the new: none is missing.
LEMMA ReplaceStep ==
    ASSUME StoreOK, OneRuns, NEW p \in Procs, run[p].pc \in WritePcs,
           Replace(p), IsFun(run', Procs)
    PROVE  StoreOK' /\ Keeps
<1> DEFINE part == flight[p].part
           rows == flight[p].rows
<1>1. /\ file' = [file EXCEPT ![part] = [st |-> "ok", rows |-> rows]]
      /\ flight' = [flight EXCEPT ![p] = NoWrite]
      /\ UNCHANGED <<found, lost, away>>
    BY DEF Replace, Ok
<1>2. p \in Writers
    BY ProcsWrite
<1>3. IsFun(flight', Writers) /\ flight'[p] = NoWrite /\ \A q \in Writers \ {p} : flight'[q] = flight[q]
    BY <1>1, <1>2 DEF StoreOK, IsFun
<1>4. IsFun(file', Parts) /\ \A x \in Parts : x # part => file'[x] = file[x]
    BY <1>1 DEF StoreOK, FilesOK, IsFun
<1>5. part \in Parts => file'[part] = [st |-> "ok", rows |-> rows]
    BY <1>1 DEF StoreOK, FilesOK, IsFun
<1>6. part \in Parts => file[part].rows \subseteq rows /\ \A i \in rows : PartOf[i] = part
    BY DEF StoreOK, FlightOK
<1> HIDE DEF part, rows
<1>7. ASSUME NEW x \in Parts
      PROVE /\ file'[x] = [st |-> file'[x].st, rows |-> file'[x].rows]
            /\ \A i \in file'[x].rows : PartOf[i] = x
            /\ file[x].rows \subseteq file'[x].rows
            /\ file[x].st = "ok" => file'[x].st = "ok"
            /\ file'[x].st \notin Solid => file'[x].rows = {}
  <2>1. CASE x = part
    BY <1>5, <1>6, <2>1 DEF Solid
  <2>2. CASE x # part
    BY <1>4, <2>2 DEF StoreOK, FilesOK
  <2> QED
    BY <2>1, <2>2
<1>8. FilesOK' /\ Keeps
    BY <1>1, <1>4, <1>7 DEF FilesOK, Keeps
<1>9. ASSUME NEW w \in Procs PROVE FlightOK(w)'
  <2>1. flight'[w].part \notin Parts
    <3>1. CASE w = p
      BY <1>3, <3>1, NothingNoPart DEF NoWrite
    <3>2. CASE w # p
      BY <1>3, <3>2, OthersIdle, ProcsWrite
    <3> QED
      BY <3>1, <3>2
  <2> QED
    BY <2>1 DEF FlightOK
<1> QED
    BY <1>1, <1>3, <1>8, <1>9 DEF StoreOK

\* Every step of a writer.
LEMMA StoreStepStep ==
    ASSUME StoreOK, OneRuns, NEW p \in Procs, StoreStep(p)
    PROVE  StoreOK' /\ Keeps
<1> DEFINE part == PartOf[Head(run[p].todo)]
<1>1. run[p].pc \in WritePcs /\ run[p].todo # <<>> /\ IsFun(run, Procs)
    BY DEF StoreStep, Pc, StoreOK
<1>2. CASE BeginWrite(p, part, RowsToWrite(p)) /\ UNCHANGED run
    BY <1>1, <1>2, BeginWriteStep
<1>3. CASE WriteUnmerged(p, part) /\ run' = Next1(p)
  <2>1. IsFun(run', Procs)
    BY <1>1, <1>3 DEF Next1, IsFun
  <2>2. UNCHANGED <<file, found, lost, away>> /\ flight' = [flight EXCEPT ![p] = NoWrite]
    BY <1>3 DEF WriteUnmerged, MergeFailure
  <2> QED
    BY <1>1, <2>1, <2>2, Dropped
<1>4. CASE Replace(p) /\ run' = Next1(p)
  <2>1. IsFun(run', Procs)
    BY <1>1, <1>4 DEF Next1, IsFun
  <2> QED
    BY <1>1, <1>4, <2>1, ReplaceStep
<1>5. CASE ReplaceWarns(p) /\ run' = Next1(p)
  <2>1. IsFun(run', Procs)
    BY <1>1, <1>5 DEF Next1, IsFun
  <2>2. UNCHANGED <<file, found, lost, away>> /\ flight' = [flight EXCEPT ![p] = NoWrite]
    BY <1>5 DEF ReplaceWarns, MergeFailure
  <2> QED
    BY <1>1, <2>1, <2>2, Dropped
<1>6. CASE ReplaceRaises(p) /\ Become(p, AfterRaise(p))
  <2>1. IsFun(run', Procs)
    BY <1>1, <1>6 DEF Become, IsFun
  <2>2. UNCHANGED <<file, found, lost, away>> /\ flight' = [flight EXCEPT ![p] = NoWrite]
    BY <1>6 DEF ReplaceRaises
  <2> QED
    BY <1>1, <2>1, <2>2, Dropped
<1> QED
    BY <1>2, <1>3, <1>4, <1>5, <1>6 DEF StoreStep

\* A crash leaves the file as the rename left it.
LEMMA CrashStep ==
    ASSUME StoreOK, NEW p \in Procs, Crash(p)
    PROVE  StoreOK' /\ Keeps
<1>1. /\ UNCHANGED <<file, found, lost, away>>
      /\ flight' = [flight EXCEPT ![p] = NoWrite]
      /\ run' = [run EXCEPT ![p] = Idle]
    BY DEF Crash, StoreCrash
<1>2. p \in Writers
    BY ProcsWrite
<1>3. IsFun(flight', Writers) /\ flight'[p] = NoWrite /\ \A q \in Writers \ {p} : flight'[q] = flight[q]
    BY <1>1, <1>2 DEF StoreOK, IsFun
<1>4. IsFun(run', Procs) /\ \A q \in Procs \ {p} : run'[q] = run[q]
    BY <1>1 DEF StoreOK, IsFun
<1>5. FilesOK' /\ (found \in Parts \cup {Nothing})' /\ Keeps
    BY <1>1 DEF StoreOK, FilesOK, IsFun, Keeps
<1>6. ASSUME NEW w \in Procs PROVE FlightOK(w)'
  <2>1. CASE w = p
    BY <1>3, <2>1, NothingNoPart DEF NoWrite, FlightOK
  <2>2. CASE w # p
    <3>1. FlightOK(w) /\ w \in Writers
      BY ProcsWrite DEF StoreOK
    <3> QED
      BY <1>1, <1>3, <1>4, <2>2, <3>1 DEF FlightOK
  <2> QED
    BY <2>1, <2>2
<1> QED
    BY <1>3, <1>4, <1>5, <1>6 DEF StoreOK

\* A partition is moved away, or loses its contents.
LEMMA PartTaken ==
    ASSUME StoreOK, UNCHANGED <<flight, run>>, NEW x \in Parts,
           NEW st, NEW rows, rows \subseteq file[x].rows, st \notin Solid => rows = {},
           file' = [file EXCEPT ![x] = [st |-> st, rows |-> rows]],
           found' \in Parts \cup {Nothing}
    PROVE  StoreOK' /\ file'[x] = [st |-> st, rows |-> rows] /\ \A y \in Parts \ {x} : file'[y] = file[y]
<1>1. IsFun(file', Parts) /\ file'[x] = [st |-> st, rows |-> rows] /\ \A y \in Parts \ {x} : file'[y] = file[y]
    BY DEF StoreOK, FilesOK, IsFun
<1>2. ASSUME NEW y \in Parts
      PROVE /\ file'[y] = [st |-> file'[y].st, rows |-> file'[y].rows]
            /\ file'[y].rows \subseteq file[y].rows
            /\ \A i \in file'[y].rows : PartOf[i] = y
            /\ file'[y].st \notin Solid => file'[y].rows = {}
  <2>1. CASE y = x
    <3>1. file'[y].st = st /\ file'[y].rows = rows
      BY <1>1, <2>1
    <3>2. \A i \in file[y].rows : PartOf[i] = y
      BY DEF StoreOK, FilesOK
    <3> QED
      BY <1>1, <2>1, <3>1, <3>2
  <2>2. CASE y # x
    BY <1>1, <2>2 DEF StoreOK, FilesOK
  <2> QED
    BY <2>1, <2>2
<1>3. FilesOK'
    BY <1>1, <1>2 DEF FilesOK
<1>4. ASSUME NEW w \in Procs PROVE FlightOK(w)'
  <2>1. FlightOK(w)
    BY DEF StoreOK
  <2> QED
    BY <1>2, <2>1 DEF FlightOK
<1>5. IsFun(flight, Writers)' /\ IsFun(run, Procs)'
    BY DEF StoreOK, IsFun
<1> QED
    BY <1>1, <1>3, <1>4, <1>5 DEF StoreOK

\* The maintenance commands drop only what they say.
LEMMA MaintenanceStep ==
    ASSUME StoreOK, Maintenance, UNCHANGED run
    PROVE  StoreOK' /\ Keeps
<1>1. CASE SweepTmp
  <2>1. UNCHANGED <<file, flight, found, lost, away, run>>
    BY <1>1 DEF SweepTmp
  <2> QED
    BY <2>1, ClockStep
<1>2. CASE FindDamaged
  <2>1. UNCHANGED <<file, flight, lost, away, run>> /\ found' \in Parts
    BY <1>2 DEF FindDamaged
  <2> QED
    BY <2>1 DEF StoreOK, FilesOK, FlightOK, IsFun, Keeps
<1>3. CASE Quarantine
  <2>1. PICK x \in Parts :
          /\ x = found
          /\ file' = [file EXCEPT ![x] = [st |-> "absent", rows |-> {}]]
          /\ found' \in Parts \cup {Nothing}
          /\ UNCHANGED <<flight, run>>
          /\ lost' = lost \cup file[x].rows
          /\ away' = away \cup {x}
    BY <1>3 DEF Quarantine, StoreOK, Absent
  <2> DEFINE none == {}
  <2>1a. none \subseteq file[x].rows /\ ("absent" \notin Solid => none = {})
    OBVIOUS
  <2>1b. file' = [file EXCEPT ![x] = [st |-> "absent", rows |-> none]]
    BY <2>1
  <2> HIDE DEF none
  <2>2. StoreOK' /\ \A y \in Parts \ {x} : file'[y] = file[y]
    BY <2>1, <2>1a, <2>1b, PartTaken
  <2>3. Keeps
    BY <2>1, <2>2 DEF Keeps
  <2> QED
    BY <2>2, <2>3
<1>4. CASE Damage
  <2>1. PICK x \in Parts :
          /\ file' = [file EXCEPT ![x].st = "damaged"]
          /\ lost' = lost \cup file[x].rows
          /\ UNCHANGED <<flight, found, away>>
    BY <1>4 DEF Damage
  <2>2. file' = [file EXCEPT ![x] = [st |-> "damaged", rows |-> file[x].rows]]
    <3> DEFINE f == file[x]
    <3>0. f = [st |-> f.st, rows |-> f.rows]
      BY DEF StoreOK, FilesOK
    <3> HIDE DEF f
    <3>1. [f EXCEPT !.st = "damaged"] = [st |-> "damaged", rows |-> f.rows]
      BY <3>0
    <3> QED
      BY <2>1, <3>1 DEF f
  <2>3. found' \in Parts \cup {Nothing}
    BY <2>1 DEF StoreOK
  <2>4. "damaged" \in Solid
    BY DEF Solid
  <2>5. /\ StoreOK' /\ file'[x] = [st |-> "damaged", rows |-> file[x].rows]
        /\ \A y \in Parts \ {x} : file'[y] = file[y]
    BY <2>1, <2>2, <2>3, <2>4, PartTaken
  <2>6. Keeps
    BY <2>1, <2>5 DEF Keeps
  <2> QED
    BY <2>5, <2>6
<1> QED
    BY <1>1, <1>2, <1>3, <1>4 DEF Maintenance

\* Every step of the feed.
LEMMA FeedStepOK ==
    ASSUME StoreOK, OneRuns, FeedStep
    PROVE  StoreOK' /\ Keeps
<1>0. IsFun(run, Procs)
    BY DEF StoreOK
<1>1. ASSUME NEW p \in Procs, ProcStep(p) PROVE StoreOK' /\ Keeps
  <2>1. StoreStep(p) \/ Quiet(p)
    BY <1>0, <1>1, LockQuiet, GovQuiet, StoredQuiet, DartQuiet DEF ProcStep
  <2> QED
    BY <2>1, StoreStepStep, QuietStep
<1>2. ASSUME SchedBackfill \/ SchedDaily \/ Command \/ InjectDone PROVE StoreOK' /\ Keeps
    BY <1>0, <1>2, SchedQuiet, QuietStep
<1>3. ASSUME NewDay \/ SchedStop \/ SchedExit \/ SchedStart PROVE StoreOK' /\ Keeps
    BY <1>3, ClockQuiet, ClockStep
<1>4. ASSUME FeedMaintenance PROVE StoreOK' /\ Keeps
    BY <1>4, MaintenanceStep DEF FeedMaintenance
<1> QED
    BY <1>1, <1>2, <1>3, <1>4, CrashStep DEF FeedStep

\* Runs that were never two at a time are one.
LEMMA OneRunsFromCount ==
    ASSUME NEW r, ~(Cardinality(Running(r)) > 1)
    PROVE  \A p, q \in Procs : p \in Running(r) /\ q \in Running(r) => p = q
<1> SUFFICES ASSUME NEW p \in Procs, NEW q \in Procs, p \in Running(r), q \in Running(r), p # q
             PROVE  FALSE
    OBVIOUS
<1>1. IsFiniteSet({q}) /\ Cardinality({q}) = 1
    BY FS_Singleton
<1>2. IsFiniteSet({q} \cup {p}) /\ Cardinality({q} \cup {p}) = 2
  <2>1. IsFiniteSet({q} \cup {p}) /\ Cardinality({q} \cup {p}) = Cardinality({q}) + 1
    BY <1>1, FS_AddElement
  <2> QED
    BY <1>1, <2>1
<1>3. Running(r) = {q} \cup {p}
    BY DEF Running, Procs
<1> QED
    BY <1>2, <1>3

-----------------------------------------------------------------------------
(* The backtest's read, and the theorems *)

\* What was listed is still to be read and still there, has been read, or was moved away.
ReadInv ==
    ~raced /\ bt.pc \in {"read", "loaded"} =>
      /\ bt = [pc |-> bt.pc, left |-> bt.left, due |-> bt.due, got |-> bt.got]
      /\ bt.left \subseteq Parts
      /\ bt.pc = "loaded" => bt.left = {}
      /\ \A i \in bt.due :
           \/ PartOf[i] \in away
           \/ i \in bt.got
           \/ PartOf[i] \in bt.left /\ i \in file[PartOf[i]].rows

OfflineInv == StoreInv /\ ReadInv

\* The invariant of store and feed holds initially.
LEMMA OfflineInit ==
    ASSUME Init
    PROVE  OfflineInv
<1>1. PICK z : file = [p \in Parts |-> IF p \in z THEN [st |-> "zero", rows |-> {}] ELSE Absent]
    BY DEF Init, InitStore
<1>2. FilesOK
  <2>1. ASSUME NEW p \in Parts
        PROVE  file[p] = [st |-> file[p].st, rows |-> file[p].rows] /\ file[p].rows = {}
    BY <1>1 DEF Absent
  <2>2. IsFun(file, Parts)
    BY <1>1 DEF IsFun
  <2> QED
    BY <2>1, <2>2 DEF FilesOK
<1>3. IsFun(flight, Writers) /\ IsFun(run, Procs) /\ found \in Parts \cup {Nothing}
    BY DEF Init, InitStore, InitFeed, IsFun
<1>4. ASSUME NEW w \in Procs PROVE FlightOK(w)
  <2>1. flight[w].part = Nothing
    BY ProcsWrite DEF Init, InitStore, NoWrite
  <2> QED
    BY <2>1, NothingNoPart DEF FlightOK
<1>5. OneRuns
  <2>1. \A p \in Procs : run[p].pc = "idle"
    BY DEF Init, InitFeed, Idle
  <2> QED
    BY <2>1 DEF OneRuns, Running, LockPcs
<1>6. ReadInv
    BY DEF Init, InitBt, NoBt, ReadInv
<1> QED
    BY <1>2, <1>3, <1>4, <1>5, <1>6 DEF OfflineInv, StoreInv, StoreOK

\* A step of the feed while a backtest waits.
LEMMA FeedKeeps ==
    ASSUME OfflineInv, FeedNext, UNCHANGED btVars
    PROVE  OfflineInv' /\ Keeps
<1>1. ~raced /\ FeedStep /\ raced' = (Cardinality(Running(run')) > 1)
    BY DEF FeedNext, Alone
<1>2. StoreOK /\ OneRuns
    BY <1>1 DEF OfflineInv, StoreInv
<1>3. StoreOK' /\ Keeps
    BY <1>1, <1>2, FeedStepOK
<1>4. ~raced' => OneRuns'
    BY <1>1, OneRunsFromCount DEF OneRuns, Running, LockPcs
<1>5. ReadInv'
  <2> SUFFICES ASSUME ~raced', bt.pc \in {"read", "loaded"}
               PROVE \A i \in bt.due :
                       \/ PartOf[i] \in away'
                       \/ i \in bt.got
                       \/ PartOf[i] \in bt.left /\ i \in file'[PartOf[i]].rows
    BY <1>1 DEF OfflineInv, ReadInv, btVars
  <2> TAKE i \in bt.due
  <2>1. bt.left \subseteq Parts
    BY <1>1 DEF OfflineInv, ReadInv
  <2>2. CASE PartOf[i] \in away \/ i \in bt.got
    BY <1>3, <2>2 DEF Keeps
  <2>3. CASE PartOf[i] \in bt.left /\ i \in file[PartOf[i]].rows
    BY <1>3, <2>1, <2>3 DEF Keeps
  <2> QED
    BY <1>1, <2>2, <2>3 DEF OfflineInv, ReadInv
<1> QED
    BY <1>3, <1>4, <1>5 DEF OfflineInv, StoreInv

\* A step that leaves the store alone.
LEMMA StoreLeftAlone ==
    ASSUME StoreInv, UNCHANGED <<file, flight, found, run, raced>>
    PROVE  StoreInv'
    BY DEF StoreInv, StoreOK, FilesOK, FlightOK, OneRuns, Running, IsFun

\* The partitions a backtest reads are partitions.
LEMMA OhlcvPartsType == OhlcvParts \subseteq Parts
    BY PriceRowType, PartOfType DEF OhlcvParts

\* A backtest lists the files it will read.
LEMMA BacktestBeginStep ==
    ASSUME OfflineInv, BacktestBegin
    PROVE  OfflineInv'
<1>1. UNCHANGED <<storeVars, run, raced>>
    BY DEF BacktestBegin
<1>2. StoreInv'
    BY <1>1, StoreLeftAlone DEF OfflineInv, storeVars
<1> DEFINE files == {p \in OhlcvParts : file[p].st # "absent"}
<1>3. bt' = [pc |-> "read", left |-> files, due |-> UNION {file[p].rows : p \in files}, got |-> {}]
    BY DEF BacktestBegin, ReadOpen
<1>4. files \subseteq Parts
    BY OhlcvPartsType
<1> HIDE DEF files
<1>5. ASSUME ~raced, NEW i \in UNION {file[p].rows : p \in files}
      PROVE  PartOf[i] \in files /\ i \in file[PartOf[i]].rows
  <2>1. PICK p \in files : i \in file[p].rows
    OBVIOUS
  <2>2. PartOf[i] = p
    BY <1>4, <1>5, <2>1 DEF OfflineInv, StoreInv, StoreOK, FilesOK
  <2> QED
    BY <2>1, <2>2
<1>6. ReadInv'
    BY <1>1, <1>3, <1>4, <1>5 DEF ReadInv, storeVars
<1> QED
    BY <1>2, <1>6 DEF OfflineInv

\* It reads one of them.
LEMMA BacktestReadStep ==
    ASSUME OfflineInv, BacktestRead
    PROVE  OfflineInv'
<1>1. UNCHANGED <<storeVars, feedVars>> /\ bt.pc = "read"
    BY DEF BacktestRead, ReadNext
<1>2. StoreInv'
    BY <1>1, StoreLeftAlone DEF OfflineInv, storeVars, feedVars
<1>3. ASSUME ~raced PROVE ReadInv'
  <2>1. /\ bt = [pc |-> bt.pc, left |-> bt.left, due |-> bt.due, got |-> bt.got]
        /\ bt.left \subseteq Parts
        /\ \A i \in bt.due :
             \/ PartOf[i] \in away
             \/ i \in bt.got
             \/ PartOf[i] \in bt.left /\ i \in file[PartOf[i]].rows
    BY <1>1, <1>3 DEF OfflineInv, ReadInv
  <2>2. CASE bt.left = {}
    <3>1. bt' = [bt EXCEPT !.pc = "loaded"]
      BY <2>2 DEF BacktestRead, ReadNext
    <3>2. bt' = [pc |-> "loaded", left |-> bt.left, due |-> bt.due, got |-> bt.got]
      BY <2>1, <3>1
    <3> QED
      BY <1>1, <2>1, <2>2, <3>2 DEF ReadInv, storeVars
  <2>3. CASE bt.left # {}
    <3>1. PICK p \in bt.left : bt' = ReadPart(p)
      BY <2>3 DEF BacktestRead, ReadNext
    <3>2. CASE Readable(p)
      <4>1. bt' = [pc |-> "read", left |-> bt.left \ {p}, due |-> bt.due,
                   got |-> bt.got \cup file[p].rows]
        BY <1>1, <2>1, <3>1, <3>2 DEF ReadPart
      <4>2. \A i \in bt.due :
             \/ PartOf[i] \in away
             \/ i \in bt.got \cup file[p].rows
             \/ PartOf[i] \in bt.left \ {p} /\ i \in file[PartOf[i]].rows
        BY <2>1
      <4> QED
        BY <1>1, <2>1, <4>1, <4>2 DEF ReadInv, storeVars
    <3>3. CASE ~Readable(p)
      <4>1. bt' = [pc |-> "failed", left |-> bt.left, due |-> bt.due, got |-> bt.got]
        BY <2>1, <3>1, <3>3 DEF ReadPart
      <4> QED
        BY <4>1 DEF ReadInv
    <3> QED
      BY <3>2, <3>3
  <2> QED
    BY <2>2, <2>3
<1>4. ASSUME raced PROVE ReadInv'
    BY <1>1, <1>4 DEF ReadInv, feedVars
<1> QED
    BY <1>2, <1>3, <1>4 DEF OfflineInv

\* A step that leaves store, feed and the reading alone.
LEMMA OfflineStutter ==
    ASSUME OfflineInv, UNCHANGED <<storeVars, feedVars, bt>>
    PROVE  OfflineInv'
<1>1. StoreInv'
    BY StoreLeftAlone DEF OfflineInv, storeVars, feedVars
<1>2. ReadInv'
    BY DEF OfflineInv, ReadInv, storeVars, feedVars
<1> QED
    BY <1>1, <1>2 DEF OfflineInv

\* The simulation works on what has been read.
LEMMA SimLeavesStore ==
    ASSUME SimNext
    PROVE  UNCHANGED bt
    BY DEF SimNext, SimRun, CheckConfig, LoadStrategy, Advance1, OnStep, ExecuteSignal,
           ToFollowUps, ExecuteFollowUp, StepDone, SaveResult, Look

\* Every step preserves the invariant of store and feed.
LEMMA OfflineNext ==
    ASSUME OfflineInv, [Next]_vars
    PROVE  OfflineInv'
<1>1. CASE UNCHANGED vars
    BY <1>1, OfflineStutter DEF vars, btVars
<1>2. CASE FeedNext /\ UNCHANGED btVars
    BY <1>2, FeedKeeps
<1>3. CASE SimNext /\ UNCHANGED <<storeVars, feedVars>>
    BY <1>3, SimLeavesStore, OfflineStutter
<1> QED
    BY <1>1, <1>2, <1>3, BacktestBeginStep, BacktestReadStep DEF Next

\* Every row a backtest has listed is among those it loaded or in quarantine, whatever the feed, crashes and
\* the maintenance do to the partitions while it reads them (data/store.py).
THEOREM BacktestSeesAllHolds == Spec => []BacktestSeesAll
<1>1. OfflineInv => BacktestSeesAll
    BY DEF OfflineInv, ReadInv, BacktestSeesAll
<1> QED
    BY <1>1, OfflineInit, OfflineNext, PTL DEF Spec

\* Unless two jobs overlap, no crash, stale lock, failed merge or restarted run takes a stored row away
\* (data/store.py, feed/pipeline); a deletion by command is not among the steps.
THEOREM StoredRowsSurviveHolds == Spec => StoredRowsSurvive
<1> DEFINE A == ~raced' => \A i \in Items : Stored(i) => Stored(i)' \/ i \in lost'
<1>1. ASSUME OfflineInv, [Next]_vars PROVE [A]_<<storeVars, feedVars>>
  <2>1. CASE FeedNext /\ UNCHANGED btVars
    <3>1. Keeps
      BY <1>1, <2>1, FeedKeeps
    <3>2. ASSUME NEW i \in Items, Stored(i) PROVE Stored(i)' \/ i \in lost'
      BY <3>1, <3>2, PartOfType DEF Keeps, Stored, Readable
    <3> QED
      BY <3>2
  <2>2. CASE UNCHANGED <<file>>
    BY <2>2 DEF Stored, Readable
  <2> QED
    BY <1>1, <2>1, <2>2 DEF Next, vars, BacktestBegin, BacktestRead, storeVars
<1> QED
    BY <1>1, OfflineInit, OfflineNext, PTL DEF Spec, StoredRowsSurvive


\* Every step preserves the invariant of the simulation.
LEMMA SimInvNext ==
    ASSUME SimInv, [Next]_vars
    PROVE  SimInv'
<1>1. CASE UNCHANGED sim
    BY <1>1 DEF SimInv, SimOK, Honest, InBar
<1> QED
    BY <1>1, SimStep
    DEF Next, vars, btVars, BacktestBegin, BacktestRead, ReadOpen, ReadNext

\* No trade is made before a date the strategy has been shown, unless a symbol it loaded on
\* the way has moved the clock back (backtest/data_provider.py).
THEOREM NoLookAheadHolds == Spec => []NoLookAhead
<1>1. Init => SimInv
    BY SimInit DEF Init
<1>2. SimInv => NoLookAhead
    BY DEF SimInv, SimOK, Honest, NoLookAhead
<1> QED
    BY <1>1, <1>2, SimInvNext, PTL DEF Spec

=============================================================================
