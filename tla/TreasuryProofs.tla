--------------------------- MODULE TreasuryProofs ---------------------------
(***************************************************************************)
(* Proofs about the books of Treasury and the desk of Amend: the books     *)
(* balance in memory, in the rows and in the saves on their way; a fill is *)
(* charged once, a failed transaction included; no reservation outlives    *)
(* its order; reservations cover what the market may still take.  All are  *)
(* sums over sets of orders, fills or bots (Sums).  The invariant is made   *)
(* of predicates on values (OrdersFit, HeldFit, SettledFit, ...), so that  *)
(* the lemmas about them can be cited for the state before or after a step.*)
(***************************************************************************)
EXTENDS Amend, Sums, SequenceTheorems

-----------------------------------------------------------------------------
(* The operators of the books *)

\* A subtraction that is clipped at zero is the plain one when it does not have to be.
LEMMA MinusIs ==
    ASSUME NEW a \in Int, NEW b \in Int
    PROVE  Minus(a, b) \in Nat /\ (b <= a => Minus(a, b) = a - b)
<1>1. \E x \in {0, a - b} : \A y \in {0, a - b} : x >= y
  OBVIOUS
<1>2. Minus(a, b) \in {0, a - b} /\ \A y \in {0, a - b} : Minus(a, b) >= y
  BY <1>1 DEF Minus, Max
<1> QED BY <1>2

\* A dict after one assignment.
LEMMA WithIs ==
    ASSUME NEW f, NEW x, NEW v
    PROVE  /\ DOMAIN With(f, x, v) = DOMAIN f \cup {x} /\ With(f, x, v)[x] = v
           /\ \A y \in DOMAIN f : y # x => With(f, x, v)[y] = f[y]
BY DEF With

\* A dict after one pop.
LEMMA WithoutIs ==
    ASSUME NEW f, NEW x
    PROVE  /\ DOMAIN Without(f, x) = DOMAIN f \ {x}
           /\ \A y \in DOMAIN f \ {x} : Without(f, x)[y] = f[y]
BY DEF Without, Restrict

\* Dicts stay finite.
LEMMA DomainFinite ==
    ASSUME NEW f, IsFiniteSet(DOMAIN f), NEW x, NEW v
    PROVE  IsFiniteSet(DOMAIN With(f, x, v)) /\ IsFiniteSet(DOMAIN Without(f, x))
<1>1. IsFiniteSet(DOMAIN f \cup {x})
  BY FS_AddElement
<1>2. IsFiniteSet(DOMAIN f \ {x})
  BY FS_Subset
<1> QED BY <1>1, <1>2, WithIs, WithoutIs

\* What a bot's orders hold after one reservation is set.
LEMMA HeldWith ==
    ASSUME NEW r, IsFiniteSet(DOMAIN r), \A p \in DOMAIN r : r[p] \in Nat, NEW o, NEW v \in Nat, NEW b
    PROVE  /\ Held(r, b) \in Nat
           /\ Held(With(r, o, v), b) =
                IF BotOf[o] = b THEN Held(r, b) - (IF o \in DOMAIN r THEN r[o] ELSE 0) + v ELSE Held(r, b)
<1> DEFINE q == With(r, o, v)
           S == {p \in DOMAIN r : BotOf[p] = b}
           T == {p \in DOMAIN q : BotOf[p] = b}
<1>1. DOMAIN q = DOMAIN r \cup {o} /\ q[o] = v /\ (\A p \in DOMAIN r : p # o => q[p] = r[p])
  BY DEF With
<1>2. IsFiniteSet(DOMAIN q)
  BY DomainFinite
<1>3. Held(r, b) = SumFunctionOnSet(r, S) /\ Held(q, b) = SumFunctionOnSet(q, T)
  BY DEF Held
<1> HIDE DEF q
<1>4. IsFiniteSet(S) /\ IsFiniteSet(T)
  BY <1>2, FS_Subset
<1>5. Moves(r, S, q, T, o)
  BY <1>1, <1>4 DEF Moves, Numbers
<1>6. SumFunctionOnSet(r, S) \in Nat
  BY <1>4, SumNat
<1>7. /\ o \in S <=> o \in DOMAIN r /\ BotOf[o] = b
      /\ o \in T <=> BotOf[o] = b
      /\ o \in DOMAIN r => r[o] \in Nat
  BY <1>1
<1> HIDE DEF S, T
<1>8. SumFunctionOnSet(q, T) =
        SumFunctionOnSet(r, S) - (IF o \in S THEN r[o] ELSE 0) + (IF o \in T THEN q[o] ELSE 0)
  BY <1>5, SumMoves
<1> QED BY <1>1, <1>3, <1>6, <1>7, <1>8 DEF q

\* What a bot's orders hold after one reservation is popped.
LEMMA HeldWithout ==
    ASSUME NEW r, IsFiniteSet(DOMAIN r), \A p \in DOMAIN r : r[p] \in Nat, NEW o, NEW b
    PROVE  /\ Held(r, b) \in Nat /\ Held(Without(r, o), b) \in Nat
           /\ Held(Without(r, o), b) =
                IF BotOf[o] = b THEN Held(r, b) - (IF o \in DOMAIN r THEN r[o] ELSE 0) ELSE Held(r, b)
<1> DEFINE q == Without(r, o)
           S == {p \in DOMAIN r : BotOf[p] = b}
           T == {p \in DOMAIN q : BotOf[p] = b}
<1>1. DOMAIN q = DOMAIN r \ {o} /\ (\A p \in DOMAIN r \ {o} : q[p] = r[p])
  BY WithoutIs
<1>2. IsFiniteSet(DOMAIN q)
  BY DomainFinite
<1>3. Held(r, b) = SumFunctionOnSet(r, S) /\ Held(q, b) = SumFunctionOnSet(q, T)
  BY DEF Held
<1> HIDE DEF q
<1>4. IsFiniteSet(S) /\ IsFiniteSet(T)
  BY <1>2, FS_Subset
<1>5. Moves(r, S, q, T, o)
  BY <1>1, <1>4 DEF Moves, Numbers
<1>6. SumFunctionOnSet(r, S) \in Nat /\ SumFunctionOnSet(q, T) \in Nat
  BY <1>1, <1>4, SumNat
<1>7. /\ o \in S <=> o \in DOMAIN r /\ BotOf[o] = b
      /\ o \notin T
      /\ o \in DOMAIN r => r[o] \in Nat
  BY <1>1
<1> HIDE DEF S, T
<1>8. SumFunctionOnSet(q, T) =
        SumFunctionOnSet(r, S) - (IF o \in S THEN r[o] ELSE 0) + (IF o \in T THEN q[o] ELSE 0)
  BY <1>5, SumMoves
<1> QED BY <1>1, <1>3, <1>6, <1>7, <1>8 DEF q

\* No reservation of a bot exceeds what they add up to.
LEMMA HeldCovers ==
    ASSUME NEW r, IsFiniteSet(DOMAIN r), \A p \in DOMAIN r : r[p] \in Nat, NEW o \in DOMAIN r
    PROVE  r[o] <= Held(r, BotOf[o])
<1>1. Held(Without(r, o), BotOf[o]) \in Nat /\ Held(r, BotOf[o]) \in Nat
  BY HeldWithout
<1>2. Held(Without(r, o), BotOf[o]) = Held(r, BotOf[o]) - r[o]
  BY HeldWithout
<1> QED BY <1>1, <1>2

\* The reservations of one bot are given back, those of the others stay.
LEMMA HeldReleased ==
    ASSUME NEW r, IsFiniteSet(DOMAIN r), \A p \in DOMAIN r : r[p] \in Nat, NEW b, NEW q,
           DOMAIN q = {p \in DOMAIN r : BotOf[p] # b}, \A p \in DOMAIN q : q[p] = r[p]
    PROVE  Held(q, b) = 0 /\ \A c : c # b => Held(q, c) = Held(r, c)
<1>1. {p \in DOMAIN q : BotOf[p] = b} = {}
  OBVIOUS
<1>2. Held(q, b) = 0
  BY <1>1, SumRemove, FS_EmptySet DEF Held, Numbers
<1>3. ASSUME NEW c, c # b PROVE Held(q, c) = Held(r, c)
  <2> DEFINE S == {p \in DOMAIN r : BotOf[p] = c}
  <2>1. {p \in DOMAIN q : BotOf[p] = c} = S
    BY <1>3
  <2>2. IsFiniteSet(S)
    BY FS_Subset
  <2>3. Numbers(r, S) /\ \A p \in S : q[p] = r[p]
    BY <1>3 DEF Numbers
  <2>4. Held(r, c) = SumFunctionOnSet(r, S) /\ Held(q, c) = SumFunctionOnSet(q, S)
    BY <2>1 DEF Held
  <2> HIDE DEF S
  <2> QED BY <2>2, <2>3, <2>4, SumSame
<1> QED BY <1>2, <1>3

\* What all bots are allocated after one budget is set.
LEMMA TotalWith ==
    ASSUME NEW bs, IsFiniteSet(DOMAIN bs), \A b \in DOMAIN bs : bs[b].allocated \in Int,
           NEW b, NEW bg, bg.allocated \in Int
    PROVE  /\ TotalAllocated(bs) \in Int
           /\ TotalAllocated(With(bs, b, bg)) =
                TotalAllocated(bs) + bg.allocated - (IF b \in DOMAIN bs THEN bs[b].allocated ELSE 0)
<1> DEFINE cs == With(bs, b, bg)
           S == DOMAIN bs
           T == DOMAIN cs
           f == [x \in S |-> bs[x].allocated]
           h == [x \in T |-> cs[x].allocated]
<1>1. /\ T = S \cup {b} /\ IsFiniteSet(T) /\ cs[b] = bg /\ \A y \in S : y # b => cs[y] = bs[y]
  <2>1. IsFiniteSet(T)
    BY DomainFinite
  <2>2. T = S \cup {b} /\ cs[b] = bg /\ \A y \in S : y # b => cs[y] = bs[y]
    BY DEF With
  <2> HIDE DEF cs, S, T
  <2> QED BY <2>1, <2>2
<1>2. TotalAllocated(bs) = SumFunctionOnSet(f, S) /\ TotalAllocated(cs) = SumFunctionOnSet(h, T)
  BY DEF TotalAllocated, SumFunction
<1> HIDE DEF cs
<1>3. Numbers(f, S) /\ Numbers(h, T)
  BY <1>1 DEF Numbers
<1>4. S \ {b} = T \ {b} /\ \A y \in S \ {b} : h[y] = f[y]
  BY <1>1
<1>5. h[b] = bg.allocated /\ b \in T /\ (b \in S => f[b] = bs[b].allocated)
  BY <1>1
<1>6. Moves(f, S, h, T, b)
  BY <1>1, <1>3, <1>4 DEF Moves
<1>8. b \in S => f[b] \in Int
  BY <1>3 DEF Numbers
<1> HIDE DEF S, T, f, h
<1>7. /\ SumFunctionOnSet(f, S) \in Int
      /\ SumFunctionOnSet(h, T) =
           SumFunctionOnSet(f, S) - (IF b \in S THEN f[b] ELSE 0) + (IF b \in T THEN h[b] ELSE 0)
  BY <1>6, SumMoves
<1> QED BY <1>2, <1>5, <1>7, <1>8 DEF cs, S

-----------------------------------------------------------------------------
(* The inductive invariant *)

Statuses == {"new", "reserving", "approved", "ended"}

Record == [allocated : Int, available : Int, reserved : Nat, spent : Int, returned : Int]

Message ==
    [kind : {"budget"}, bot : Bots, val : Record, order : Orders \cup {NoOrder}, more : BOOLEAN]
    \cup [kind : {"state"}, val : Int, more : BOOLEAN] \cup {Settlement}

\* What may be wrong with the budget of a bot: a write failed, or it was given what another
\* bot had reserved; and, of what it has reserved, a restart forgot for which order, or the
\* money went to another bot.
blame == [b \in Bots |-> IF b \in gained THEN 1 ELSE errors]
astray == [b \in Bots |-> IF b \in lost THEN 1 ELSE crashes]

\* A budget of the books, which balances unless there is something to blame.
Good(bg, e) == bg \in Record /\ (e = 0 => Balanced(bg))

Book(bs, e) ==
    /\ IsFiniteSet(DOMAIN bs) /\ DOMAIN bs \subseteq Bots
    /\ \A b \in DOMAIN bs : Good(bs[b], e[b])

\* _on_order_filled holds its snapshot.
Holding == {"waiting", "begun", "settled"}

Task == [pc : {"idle", "done"} \cup Holding, budget : Record, resv : Nat,
         present : BOOLEAN, staged : Record]

TypesOK ==
    /\ balance \in Int /\ unallocated \in Int /\ stored \in Int
    /\ crashes \in Nat /\ errors \in Nat /\ others \in Nat /\ up \in BOOLEAN
    /\ fill \in Task
    /\ ~up => crashes # 0

\* The events of an order.
FillsIn(ev, o) == {i \in 1..Len(ev) : ev[i].order = o}

\* The orders of the behaviour are those of a live or of a virtual account, whose fills
\* are events or direct.
OrdersFit(mx, od, ev, d) ==
    /\ mx \in Mixes
    /\ od \in [Orders -> Statuses] /\ \A o \in Orders : od[o] # "new" => o \in mx
    /\ ev \in Seq([order : Orders \ Virtual, cost : Nat])
    /\ \A i \in 1..Len(ev) : od[ev[i].order] \in {"approved", "ended"}
    /\ \A o \in Orders : Cardinality(FillsIn(ev, o)) <= Qty[o]
    /\ IsFiniteSet(DOMAIN d) /\ DOMAIN d \subseteq Virtual
    /\ \A o \in DOMAIN d : d[o] \in Nat /\ od[o] = "ended"
OrdersOK == OrdersFit(mix, ord, events, direct)

BooksOK ==
    /\ Book(budget, blame) /\ Book(row, blame)
    /\ fill.pc = "settled" => Good(fill.staged, blame[Bot])

AllocatedOK == up /\ errors = 0 => unallocated = balance - TotalAllocated(budget)

\* The reservations are those of buys of bots with a budget.
ResvFit(r, od, bs) ==
    /\ r = [o \in DOMAIN r |-> r[o]] /\ IsFiniteSet(DOMAIN r)
    /\ DOMAIN r \subseteq Orders \ Sells
    /\ \A o \in DOMAIN r : r[o] \in Nat /\ od[o] # "new" /\ BotOf[o] \in DOMAIN bs
ResvOK == ResvFit(resv, ord, budget)

\* What is reserved are the reservations, and what went astray.
HeldFit(r, bs, c, e) ==
    \A b \in DOMAIN bs : e[b] = 0 =>
        /\ Held(r, b) <= bs[b].reserved
        /\ c[b] = 0 => Held(r, b) = bs[b].reserved
HeldOK == up => HeldFit(resv, budget, astray, blame)

\* In the line before the write lock every save is of the books, one is there for an order
\* that is being reserved, and one settlement when _on_order_filled waits.
Line(ws, e, od, pc) ==
    /\ ws \in Seq(Message)
    /\ \A i \in DOMAIN ws : ws[i].kind = "budget" => Good(ws[i].val, e[ws[i].bot])
    /\ \A i \in DOMAIN ws : ws[i].kind = "budget" /\ ws[i].order # NoOrder =>
          /\ od[ws[i].order] = "reserving"
          /\ \A j \in DOMAIN ws : ws[j].kind = "budget" /\ ws[j].order = ws[i].order => i = j
    /\ \A i \in DOMAIN ws : ws[i].kind = "fill" =>
          pc = "waiting" /\ \A j \in DOMAIN ws : ws[j].kind = "fill" => i = j

LineOK == Line(writes, blame, ord, fill.pc) /\ (~up => writes = <<>> /\ fill = Idle)

\* What the task in _on_order_filled knows.
FillFit(fl, n, ev, ks, bs, faults) ==
    /\ n \in Nat \ {0} /\ n <= Len(ev) + 1 /\ (fl.pc # "idle" => n <= Len(ev))
    /\ ks \subseteq 1..Len(ev)
    /\ fl.pc \in Holding =>
          BotOf[ev[n].order] \in DOMAIN bs /\ (fl.present => ev[n].order \notin Sells)
    /\ fl.pc \in {"begun", "settled"} => n \notin ks
    /\ faults = 0 => \A k \in ks : k < n \/ (k = n /\ fl.pc = "done")
FillOK == FillFit(fill, next, events, keys, budget, crashes + errors)

\* bg has spent and returned the fills K and the direct ones.
Matches(bg, ev, K, d, b) ==
    /\ bg.spent = Charged(ev, K, b, Orders \ Sells) + Direct(d, b, Orders \ Sells)
    /\ bg.returned = Charged(ev, K, b, Sells) + Direct(d, b, Sells)

SettledFit(bs, ev, K, d) ==
    /\ \A i \in K : BotOf[ev[i].order] \in DOMAIN bs
    /\ \A o \in DOMAIN d : BotOf[o] \in DOMAIN bs
    /\ \A b \in DOMAIN bs : Matches(bs[b], ev, K, d, b)
SettledOK ==
    crashes = 0 =>
        /\ SettledFit(budget, events, SettledFills, direct)
        /\ fill.pc \in Holding => Matches(fill.budget, events, keys, direct, Bot)

\* A limit order pays at most its price, and its reservation the rest of it.
LimitFit(lim, ev) ==
    /\ lim \in [Orders -> Nat]
    /\ \A o \in Orders : lim[o] <= Price[o] /\ (lim[o] # 0 => o \notin Sells)
    /\ \A i \in 1..Len(ev) : lim[ev[i].order] # 0 => ev[i].cost <= Price[ev[i].order]
LimitOK == LimitFit(limit, events)

CoverFit(r, lim, ev, K) ==
    \A o \in DOMAIN r :
        lim[o] # 0 => (Qty[o] - Cardinality(FillsIn(ev, o) \cap K)) * Price[o] <= r[o]
CoverOK == up /\ errors = 0 => CoverFit(resv, limit, events, SettledFills)

\* A reservation that outlives its order waits for a fill of it.
EndedFit(r, od, ev, n, pc) ==
    \A o \in DOMAIN r : od[o] = "ended" =>
        /\ Cardinality(FillsIn(ev, o)) >= Qty[o]
        /\ \E i \in FillsIn(ev, o) : i > n \/ (i = n /\ pc \in {"idle", "waiting", "begun"})
EndedOK == crashes + errors = 0 => EndedFit(resv, ord, events, next, fill.pc)

Core ==
    /\ TypesOK /\ OrdersOK /\ BooksOK /\ AllocatedOK /\ ResvOK /\ HeldOK /\ LineOK /\ FillOK
    /\ SettledOK /\ LimitOK /\ CoverOK /\ EndedOK

\* An action a bot waits for; a modification that is on its way was found in order.
Action ==
    {Nothing, [pc |-> "done"]} \cup [pc : {"cancel"}, order : Orders]
    \cup [pc : {"rules", "gateway", "modify"}, order : Orders, to : Changes, consumed : BOOLEAN]

AskedOK ==
    /\ asked \in [Bots -> Action]
    /\ \A b \in Bots : asked[b].pc = "modify" =>
          /\ limit[asked[b].order] # 0
          /\ asked[b].to.price > 0 /\ asked[b].to.price <= Price[asked[b].order]

Inv == Core /\ AskedOK

-----------------------------------------------------------------------------
(* What an operation leaves of a budget *)

\* allocate and deallocate move the allocation alone, and keep a budget balanced.
LEMMA AllocatedIs ==
    ASSUME NEW bg \in Record, NEW a \in Int
    PROVE  LET n == Allocated(bg, a) IN
           /\ n \in Record /\ (Balanced(bg) => Balanced(n))
           /\ n.allocated = bg.allocated + a /\ n.reserved = bg.reserved
           /\ n.spent = bg.spent /\ n.returned = bg.returned
<1> DEFINE n == Allocated(bg, a)
<1>1. /\ bg.allocated \in Int /\ bg.available \in Int /\ bg.reserved \in Nat
      /\ bg.spent \in Int /\ bg.returned \in Int
  BY DEF Record
<1>3. n \in Record
  <2>1. bg.allocated + a \in Int /\ bg.available + a \in Int
    BY <1>1
  <2> QED BY <1>1, <2>1, Zenon DEF Allocated, Record
<1>4. /\ n.allocated = bg.allocated + a
      /\ n.available = bg.available + a
      /\ n.reserved = bg.reserved
      /\ n.spent = bg.spent
      /\ n.returned = bg.returned
  BY DEF Allocated, Record
<1> HIDE DEF n
<1>5. Balanced(bg) => Balanced(n)
  BY <1>1, <1>4 DEF Balanced
<1> QED BY <1>1, <1>3, <1>4, <1>5 DEF n

\* reserve_for_order moves the reservation alone, and keeps a budget balanced.
LEMMA ReservedIs ==
    ASSUME NEW bg \in Record, NEW a \in Nat
    PROVE  LET n == Reserved(bg, a) IN
           /\ n \in Record /\ (Balanced(bg) => Balanced(n))
           /\ n.allocated = bg.allocated /\ n.reserved = bg.reserved + a
           /\ n.spent = bg.spent /\ n.returned = bg.returned
<1> DEFINE n == Reserved(bg, a)
<1>1. /\ bg.allocated \in Int /\ bg.available \in Int /\ bg.reserved \in Nat
      /\ bg.spent \in Int /\ bg.returned \in Int
  BY DEF Record
<1>3. n \in Record
  <2>1. bg.available - a \in Int /\ bg.reserved + a \in Nat
    BY <1>1
  <2> QED BY <1>1, <2>1, Zenon DEF Reserved, Record
<1>4. /\ n.allocated = bg.allocated
      /\ n.available = bg.available - a
      /\ n.reserved = bg.reserved + a
      /\ n.spent = bg.spent
      /\ n.returned = bg.returned
  BY DEF Reserved, Record
<1> HIDE DEF n
<1>5. Balanced(bg) => Balanced(n)
  BY <1>1, <1>4 DEF Balanced
<1> QED BY <1>1, <1>3, <1>4, <1>5 DEF n

\* The proceeds of a sell move what is returned alone, and keep a budget balanced.
LEMMA ReturnedIs ==
    ASSUME NEW bg \in Record, NEW a \in Nat
    PROVE  LET n == Returned(bg, a) IN
           /\ n \in Record /\ (Balanced(bg) => Balanced(n))
           /\ n.allocated = bg.allocated /\ n.reserved = bg.reserved
           /\ n.spent = bg.spent /\ n.returned = bg.returned + a
<1> DEFINE n == Returned(bg, a)
<1>1. /\ bg.allocated \in Int /\ bg.available \in Int /\ bg.reserved \in Nat
      /\ bg.spent \in Int /\ bg.returned \in Int
  BY DEF Record
<1>3. n \in Record
  <2>1. bg.returned + a \in Int /\ bg.available + a \in Int
    BY <1>1
  <2> QED BY <1>1, <2>1, Zenon DEF Returned, Record
<1>4. /\ n.allocated = bg.allocated
      /\ n.available = bg.available + a
      /\ n.reserved = bg.reserved
      /\ n.spent = bg.spent
      /\ n.returned = bg.returned + a
  BY DEF Returned, Record
<1> HIDE DEF n
<1>5. Balanced(bg) => Balanced(n)
  BY <1>1, <1>4 DEF Balanced
<1> QED BY <1>1, <1>3, <1>4, <1>5 DEF n

\* A release keeps a budget balanced when no more is released than is reserved.
LEMMA ReleasedIs ==
    ASSUME NEW bg \in Record, NEW a \in Nat
    PROVE  LET n == Released(bg, a) IN
           /\ n \in Record
           /\ a <= bg.reserved =>
                n.reserved = bg.reserved - a /\ (Balanced(bg) => Balanced(n))
           /\ n.allocated = bg.allocated /\ n.spent = bg.spent /\ n.returned = bg.returned
<1> DEFINE n == Released(bg, a)
<1>1. /\ bg.allocated \in Int /\ bg.available \in Int /\ bg.reserved \in Nat
      /\ bg.spent \in Int /\ bg.returned \in Int
  BY DEF Record
<1>2. /\ Minus(bg.reserved, a) \in Nat
      /\ a <= bg.reserved => Minus(bg.reserved, a) = bg.reserved - a
  <2>1. bg.reserved \in Int /\ a \in Int
    BY <1>1
  <2> QED BY <2>1, MinusIs
<1>3. n \in Record
  <2>1. bg.available + a \in Int
    BY <1>1
  <2> QED BY <1>1, <1>2, <2>1, Zenon DEF Released, Record
<1>4. /\ n.allocated = bg.allocated
      /\ n.available = bg.available + a
      /\ n.reserved = Minus(bg.reserved, a)
      /\ n.spent = bg.spent
      /\ n.returned = bg.returned
  BY DEF Released, Record
<1> HIDE DEF n
<1>5. a <= bg.reserved /\ Balanced(bg) => Balanced(n)
  BY <1>1, <1>2, <1>4 DEF Balanced
<1> QED BY <1>1, <1>2, <1>3, <1>4, <1>5 DEF n

\* A buy keeps a budget balanced when no more is covered than is reserved.
LEMMA SpentIs ==
    ASSUME NEW bg \in Record, NEW cost \in Nat, NEW covered \in Nat
    PROVE  LET n == Spent(bg, cost, covered) IN
           /\ n \in Record
           /\ covered <= bg.reserved =>
                n.reserved = bg.reserved - covered /\ (Balanced(bg) => Balanced(n))
           /\ n.allocated = bg.allocated /\ n.spent = bg.spent + cost /\ n.returned = bg.returned
<1> DEFINE n == Spent(bg, cost, covered)
<1>1. /\ bg.allocated \in Int /\ bg.available \in Int /\ bg.reserved \in Nat
      /\ bg.spent \in Int /\ bg.returned \in Int
  BY DEF Record
<1>2. /\ Minus(bg.reserved, covered) \in Nat
      /\ covered <= bg.reserved => Minus(bg.reserved, covered) = bg.reserved - covered
  <2>1. bg.reserved \in Int /\ covered \in Int
    BY <1>1
  <2> QED BY <2>1, MinusIs
<1>3. n \in Record
  <2>1. bg.spent + cost \in Int /\ bg.available - (cost - covered) \in Int
    BY <1>1
  <2> QED BY <1>1, <1>2, <2>1, Zenon DEF Spent, Record
<1>4. /\ n.allocated = bg.allocated
      /\ n.available = bg.available - (cost - covered)
      /\ n.reserved = Minus(bg.reserved, covered)
      /\ n.spent = bg.spent + cost
      /\ n.returned = bg.returned
  BY DEF Spent, Record
<1> HIDE DEF n
<1>5. covered <= bg.reserved /\ Balanced(bg) => Balanced(n)
  BY <1>1, <1>2, <1>4 DEF Balanced
<1> QED BY <1>1, <1>2, <1>3, <1>4, <1>5 DEF n

\* The same of the settlement under the write lock.
LEMMA SpentOnceIs ==
    ASSUME NEW bg \in Record, NEW cost \in Nat, NEW covered \in Nat
    PROVE  LET n == SpentOnce(bg, cost, covered) IN
           /\ n \in Record
           /\ covered <= bg.reserved =>
                n.reserved = bg.reserved - covered /\ (Balanced(bg) => Balanced(n))
           /\ n.allocated = bg.allocated /\ n.spent = bg.spent + cost /\ n.returned = bg.returned
<1> DEFINE n == SpentOnce(bg, cost, covered)
<1>1. /\ bg.allocated \in Int /\ bg.available \in Int /\ bg.reserved \in Nat
      /\ bg.spent \in Int /\ bg.returned \in Int
  BY DEF Record
<1>2. /\ Minus(bg.reserved, covered) \in Nat
      /\ covered <= bg.reserved => Minus(bg.reserved, covered) = bg.reserved - covered
  <2>1. bg.reserved \in Int /\ covered \in Int
    BY <1>1
  <2> QED BY <2>1, MinusIs
<1>3. n \in Record
  <2>1. bg.spent + cost \in Int /\ bg.available + (covered - cost) \in Int
    BY <1>1
  <2> QED BY <1>1, <1>2, <2>1, Zenon DEF SpentOnce, Record
<1>4. /\ n.allocated = bg.allocated
      /\ n.available = bg.available + (covered - cost)
      /\ n.reserved = Minus(bg.reserved, covered)
      /\ n.spent = bg.spent + cost
      /\ n.returned = bg.returned
  BY DEF SpentOnce, Record
<1> HIDE DEF n
<1>5. covered <= bg.reserved /\ Balanced(bg) => Balanced(n)
  BY <1>1, <1>2, <1>4 DEF Balanced
<1> QED BY <1>1, <1>2, <1>3, <1>4, <1>5 DEF n

\* A new budget is balanced.
LEMMA NewBudgetIs == NewBudget \in Record /\ Balanced(NewBudget)
BY DEF NewBudget, Record, Balanced

\* The fills K have a cost.
Costed(ev, K) == \A i \in K : ev[i].cost \in Nat

\* A fill is added to the charged ones.
LEMMA ChargedAdds ==
    ASSUME NEW ev, NEW K, IsFiniteSet(K), NEW k, k \notin K, NEW b, NEW S,
           Costed(ev, K \cup {k})
    PROVE  /\ Charged(ev, K, b, S) \in Int
           /\ Charged(ev, K \cup {k}, b, S) =
                Charged(ev, K, b, S) + (IF BotOf[ev[k].order] = b /\ ev[k].order \in S
                                    THEN ev[k].cost ELSE 0)
<1> DEFINE f == [i \in K |-> ev[i].cost]
           h == [i \in K \cup {k} |-> ev[i].cost]
           U == {i \in K : BotOf[ev[i].order] = b /\ ev[i].order \in S}
           T == {i \in K \cup {k} : BotOf[ev[i].order] = b /\ ev[i].order \in S}
<1>1. IsFiniteSet(U) /\ IsFiniteSet(T)
  <2>1. IsFiniteSet(K \cup {k})
    BY FS_AddElement
  <2> QED BY <2>1, FS_Subset
<1>2. Moves(f, U, h, T, k)
  BY <1>1 DEF Moves, Numbers, Costed
<1>3. Charged(ev, K, b, S) = SumFunctionOnSet(f, U) /\ Charged(ev, K \cup {k}, b, S) = SumFunctionOnSet(h, T)
  BY DEF Charged
<1>4. /\ k \notin U /\ h[k] = ev[k].cost
      /\ k \in T <=> BotOf[ev[k].order] = b /\ ev[k].order \in S
  OBVIOUS
<1> HIDE DEF f, h, U, T
<1>5. /\ SumFunctionOnSet(f, U) \in Int
      /\ SumFunctionOnSet(h, T) =
           SumFunctionOnSet(f, U) - (IF k \in U THEN f[k] ELSE 0) + (IF k \in T THEN h[k] ELSE 0)
  BY <1>2, SumMoves
<1> QED BY <1>3, <1>4, <1>5

\* What was charged stays when events are added.
LEMMA ChargedStays ==
    ASSUME NEW ev, NEW ev1, NEW K, NEW b, NEW S, \A i \in K : ev1[i] = ev[i]
    PROVE  Charged(ev1, K, b, S) = Charged(ev, K, b, S)
<1> DEFINE U == {i \in K : BotOf[ev[i].order] = b /\ ev[i].order \in S}
           T == {i \in K : BotOf[ev1[i].order] = b /\ ev1[i].order \in S}
           f == [i \in K |-> ev[i].cost]
           h == [i \in K |-> ev1[i].cost]
<1>1. U = T /\ f = h
  OBVIOUS
<1>2. Charged(ev, K, b, S) = SumFunctionOnSet(f, U) /\ Charged(ev1, K, b, S) = SumFunctionOnSet(h, T)
  BY DEF Charged
<1> HIDE DEF U, T, f, h
<1> QED BY <1>1, <1>2

\* One direct fill more adds its cost.
LEMMA DirectAdds ==
    ASSUME NEW d, IsFiniteSet(DOMAIN d), \A p \in DOMAIN d : d[p] \in Nat,
           NEW o, o \notin DOMAIN d, NEW v \in Nat, NEW b, NEW S
    PROVE  /\ Direct(d, b, S) \in Int
           /\ Direct(With(d, o, v), b, S) =
                Direct(d, b, S) + (IF BotOf[o] = b /\ o \in S THEN v ELSE 0)
<1> DEFINE q == With(d, o, v)
           U == {p \in DOMAIN d \cap S : BotOf[p] = b}
           T == {p \in DOMAIN q \cap S : BotOf[p] = b}
<1>1. DOMAIN q = DOMAIN d \cup {o} /\ q[o] = v /\ (\A p \in DOMAIN d : p # o => q[p] = d[p])
  BY DEF With
<1>2. IsFiniteSet(DOMAIN q)
  BY DomainFinite
<1>3. Direct(d, b, S) = SumFunctionOnSet(d, U) /\ Direct(q, b, S) = SumFunctionOnSet(q, T)
  BY DEF Direct
<1> HIDE DEF q
<1>4. IsFiniteSet(U) /\ IsFiniteSet(T)
  BY <1>2, FS_Subset
<1>5. Moves(d, U, q, T, o)
  BY <1>1, <1>4 DEF Moves, Numbers
<1>6. o \notin U /\ (o \in T <=> BotOf[o] = b /\ o \in S)
  BY <1>1
<1> HIDE DEF U, T
<1>7. /\ SumFunctionOnSet(d, U) \in Int
      /\ SumFunctionOnSet(q, T) =
           SumFunctionOnSet(d, U) - (IF o \in U THEN d[o] ELSE 0) + (IF o \in T THEN q[o] ELSE 0)
  BY <1>5, SumMoves
<1> QED BY <1>1, <1>3, <1>6, <1>7 DEF q

\* A bot without a settled fill has spent and returned nothing.
LEMMA ChargedNothing ==
    ASSUME NEW ev, NEW K, NEW b, NEW S, \A i \in K : BotOf[ev[i].order] # b
    PROVE  Charged(ev, K, b, S) = 0
<1>1. {i \in K : BotOf[ev[i].order] = b /\ ev[i].order \in S} = {}
  OBVIOUS
<1>2. Charged(ev, K, b, S) = SumFunctionOnSet([i \in K |-> ev[i].cost], {})
  BY <1>1 DEF Charged
<1>3. \A f : SumFunctionOnSet(f, {}) = 0
  BY SumRemove, FS_EmptySet DEF Numbers
<1> QED BY <1>2, <1>3

\* A bot without direct fills has paid nothing by them.
LEMMA DirectNothing ==
    ASSUME NEW d, NEW b, NEW S, \A o \in DOMAIN d : BotOf[o] # b
    PROVE  Direct(d, b, S) = 0
<1>1. {p \in DOMAIN d \cap S : BotOf[p] = b} = {}
  OBVIOUS
<1>2. Direct(d, b, S) = SumFunctionOnSet(d, {})
  BY <1>1 DEF Direct
<1>3. SumFunctionOnSet(d, {}) = 0
  BY SumRemove, FS_EmptySet DEF Numbers
<1> QED BY <1>2, <1>3

-----------------------------------------------------------------------------
(* The line before the write lock *)

\* What waits for the write lock, by its kind.
LEMMA MessageIs ==
    ASSUME NEW w \in Message
    PROVE  /\ w.kind \in {"budget", "state", "fill"}
           /\ w.kind = "budget" => /\ w.bot \in Bots /\ w.val \in Record
                                   /\ w.order \in Orders \cup {NoOrder} /\ w.more \in BOOLEAN
           /\ w.kind = "state" => w.val \in Int /\ w.more \in BOOLEAN
           /\ w.kind = "fill" => w = Settlement
BY DEF Message, Settlement

\* A save of a budget.
LEMMA SaveIs ==
    ASSUME NEW b \in Bots, NEW bg \in Record, NEW o \in Orders \cup {NoOrder}, NEW more \in BOOLEAN
    PROVE  /\ Save(b, bg, o, more) \in Message
           /\ Save(b, bg, o, more).kind = "budget" /\ Save(b, bg, o, more).val = bg
           /\ Save(b, bg, o, more).order = o /\ Save(b, bg, o, more).bot = b
BY DEF Message, Save

\* A save of the account's state.
LEMMA SaveStateIs ==
    ASSUME NEW c \in Int, NEW more \in BOOLEAN
    PROVE  SaveState(c, more) \in Message /\ SaveState(c, more).kind = "state"
BY DEF Message, SaveState

\* A settlement.
LEMMA SettlementIs == Settlement \in Message /\ Settlement.kind = "fill"
BY DEF Message, Settlement

\* Those in the line go on, or an error is counted.
LEMMA LineChanges ==
    ASSUME NEW ws, NEW e, NEW e1, NEW od, NEW od1, NEW pc, NEW pc1, Line(ws, e, od, pc),
           \A b \in Bots : e1[b] = 0 => e[b] = 0,
           \A i \in DOMAIN ws :
              /\ ws[i].kind = "budget" /\ ws[i].order # NoOrder => od1[ws[i].order] = "reserving"
              /\ ws[i].kind = "fill" => pc1 = "waiting"
    PROVE  Line(ws, e1, od1, pc1)
<1>1. ws \in Seq(Message)
  BY DEF Line
<1>2. \A i \in DOMAIN ws : ws[i].kind = "budget" => Good(ws[i].val, e1[ws[i].bot])
  <2>1. \A i \in DOMAIN ws : ws[i].kind = "budget" => ws[i].bot \in Bots
    BY MessageIs DEF Line
  <2> QED BY <2>1 DEF Line, Good
<1>3. \A i \in DOMAIN ws : ws[i].kind = "budget" /\ ws[i].order # NoOrder =>
         /\ od1[ws[i].order] = "reserving"
         /\ \A j \in DOMAIN ws : ws[j].kind = "budget" /\ ws[j].order = ws[i].order => i = j
  BY DEF Line
<1>4. \A i \in DOMAIN ws : ws[i].kind = "fill" =>
         pc1 = "waiting" /\ \A j \in DOMAIN ws : ws[j].kind = "fill" => i = j
  BY DEF Line
<1> QED BY <1>1, <1>2, <1>3, <1>4 DEF Line

\* The line stays in order while its orders are being reserved and its fill waits.
LEMMA LineKeeps ==
    ASSUME NEW ws, NEW e, NEW e1, NEW od, NEW od1, NEW pc, NEW pc1, Line(ws, e, od, pc),
           \A b \in Bots : e1[b] = 0 => e[b] = 0,
           \A o \in Orders : od[o] = "reserving" => od1[o] = "reserving",
           pc = "waiting" => pc1 = "waiting"
    PROVE  Line(ws, e1, od1, pc1)
<1>1. \A i \in DOMAIN ws : ws[i] \in Message
  BY DEF Line
<1>2. ASSUME NEW i \in DOMAIN ws
      PROVE  /\ ws[i].kind = "budget" /\ ws[i].order # NoOrder => od1[ws[i].order] = "reserving"
             /\ ws[i].kind = "fill" => pc1 = "waiting"
  <2>1. ws[i].kind = "budget" /\ ws[i].order # NoOrder => ws[i].order \in Orders
    BY <1>1, MessageIs
  <2> QED BY <2>1 DEF Line
<1> QED BY <1>2, LineChanges

\* The line stays in order when a write that fits joins it.
LEMMA LineAppend ==
    ASSUME NEW ws, NEW e, NEW od, NEW pc, Line(ws, e, od, pc), NEW w \in Message,
           w.kind = "budget" => Good(w.val, e[w.bot]),
           w.kind = "budget" /\ w.order # NoOrder =>
              /\ od[w.order] = "reserving"
              /\ \A i \in DOMAIN ws : ws[i].kind = "budget" => ws[i].order # w.order,
           w.kind = "fill" => pc = "waiting" /\ \A i \in DOMAIN ws : ws[i].kind # "fill"
    PROVE  Line(Append(ws, w), e, od, pc)
<1> DEFINE n == Len(ws) + 1
           vs == Append(ws, w)
<1>1. ws \in Seq(Message)
  BY DEF Line
<1>2. /\ vs \in Seq(Message) /\ DOMAIN vs = 1..n /\ DOMAIN ws = 1..(n - 1) /\ n \in Nat \ {0}
      /\ vs[n] = w /\ \A i \in DOMAIN ws : vs[i] = ws[i]
  BY <1>1, AppendProperties, LenProperties
<1> HIDE DEF vs, n
<1>3. \A i \in DOMAIN vs : i = n \/ (i \in DOMAIN ws /\ vs[i] = ws[i])
  BY <1>2
<1>4. \A i \in DOMAIN vs : vs[i].kind = "budget" => Good(vs[i].val, e[vs[i].bot])
  BY <1>2, <1>3 DEF Line
<1>5. ASSUME NEW i \in DOMAIN vs, vs[i].kind = "budget", vs[i].order # NoOrder
      PROVE  /\ od[vs[i].order] = "reserving"
             /\ \A j \in DOMAIN vs : vs[j].kind = "budget" /\ vs[j].order = vs[i].order => i = j
  BY <1>2, <1>3, <1>5 DEF Line
<1>6. \A i \in DOMAIN vs : vs[i].kind = "fill" =>
         pc = "waiting" /\ \A j \in DOMAIN vs : vs[j].kind = "fill" => i = j
  BY <1>2, <1>3 DEF Line
<1>7. Line(vs, e, od, pc)
  BY <1>2, <1>4, <1>5, <1>6 DEF Line
<1> QED BY <1>7 DEF vs

\* The head has left: nobody else waits for its order, and nobody else settles.
LEMMA LineTail ==
    ASSUME NEW ws, NEW e, NEW od, NEW pc, Line(ws, e, od, pc), ws # <<>>
    PROVE  /\ Head(ws) \in Message
           /\ Head(ws).kind = "budget" => Good(Head(ws).val, e[Head(ws).bot])
           /\ Head(ws).kind = "budget" /\ Head(ws).order # NoOrder =>
                /\ od[Head(ws).order] = "reserving"
                /\ \A i \in DOMAIN Tail(ws) : Tail(ws)[i].kind = "budget" => Tail(ws)[i].order # Head(ws).order
           /\ Head(ws).kind = "fill" =>
                pc = "waiting" /\ \A i \in DOMAIN Tail(ws) : Tail(ws)[i].kind # "fill"
           /\ Line(Tail(ws), e, od, pc)
<1> DEFINE vs == Tail(ws)
           n == Len(ws)
<1>1. ws \in Seq(Message)
  BY DEF Line
<1>2. /\ vs \in Seq(Message) /\ DOMAIN vs = 1..(n - 1) /\ DOMAIN ws = 1..n /\ n \in Nat \ {0}
      /\ Head(ws) = ws[1] /\ \A i \in DOMAIN vs : vs[i] = ws[i + 1]
  BY <1>1, HeadTailProperties, LenProperties, EmptySeq
<1> HIDE DEF vs, n
<1>3. 1 \in DOMAIN ws /\ \A i \in DOMAIN vs : i + 1 \in DOMAIN ws /\ i + 1 # 1 /\ i \in Nat
  BY <1>2
<1>4. Head(ws) \in Message
  BY <1>1, <1>2, <1>3
<1>5. \A i \in DOMAIN vs : vs[i].kind = "budget" => Good(vs[i].val, e[vs[i].bot])
  BY <1>2, <1>3 DEF Line
<1>6. ASSUME NEW i \in DOMAIN vs, vs[i].kind = "budget", vs[i].order # NoOrder
      PROVE  /\ od[vs[i].order] = "reserving"
             /\ \A j \in DOMAIN vs : vs[j].kind = "budget" /\ vs[j].order = vs[i].order => i = j
  <2>1. od[vs[i].order] = "reserving"
    BY <1>2, <1>3, <1>6 DEF Line
  <2>2. ASSUME NEW j \in DOMAIN vs, vs[j].kind = "budget", vs[j].order = vs[i].order
        PROVE  i = j
    <3>1. i + 1 = j + 1
      BY <1>2, <1>3, <1>6, <2>2 DEF Line
    <3> QED BY <3>1, <1>3
  <2> QED BY <2>1, <2>2
<1>7. ASSUME NEW i \in DOMAIN vs, vs[i].kind = "fill"
      PROVE  pc = "waiting" /\ \A j \in DOMAIN vs : vs[j].kind = "fill" => i = j
  <2>1. pc = "waiting"
    BY <1>2, <1>3, <1>7 DEF Line
  <2>2. ASSUME NEW j \in DOMAIN vs, vs[j].kind = "fill"
        PROVE  i = j
    <3>1. i + 1 = j + 1
      BY <1>2, <1>3, <1>7, <2>2 DEF Line
    <3> QED BY <3>1, <1>3
  <2> QED BY <2>1, <2>2
<1>8. Line(vs, e, od, pc)
  BY <1>2, <1>5, <1>6, <1>7 DEF Line
<1>9. Head(ws).kind = "budget" => Good(Head(ws).val, e[Head(ws).bot])
  BY <1>2, <1>3 DEF Line
<1>10. Head(ws).kind = "budget" /\ Head(ws).order # NoOrder =>
         /\ od[Head(ws).order] = "reserving"
         /\ \A i \in DOMAIN vs : vs[i].kind = "budget" => vs[i].order # Head(ws).order
  BY <1>2, <1>3 DEF Line
<1>11. Head(ws).kind = "fill" => pc = "waiting" /\ \A i \in DOMAIN vs : vs[i].kind # "fill"
  BY <1>2, <1>3 DEF Line
<1> QED BY <1>4, <1>8, <1>9, <1>10, <1>11 DEF vs

-----------------------------------------------------------------------------
(* What keeps a part of the invariant *)

\* The events are fills of orders of live accounts.
LEMMA EventIs ==
    ASSUME NEW mx, NEW od, NEW ev, NEW d, OrdersFit(mx, od, ev, d)
    PROVE  /\ Len(ev) \in Nat
           /\ \A i \in 1..Len(ev) : ev[i].order \in Orders /\ ev[i].order \notin Virtual /\ ev[i].cost \in Nat
<1> DEFINE E == [order : Orders \ Virtual, cost : Nat]
<1>1. ev \in Seq(E)
  BY DEF OrdersFit
<1>2. \A x \in E : x.order \in Orders /\ x.order \notin Virtual /\ x.cost \in Nat
  OBVIOUS
<1> HIDE DEF E
<1>3. Len(ev) \in Nat /\ \A i \in 1..Len(ev) : ev[i] \in E
  BY <1>1, ElementOfSeq, LenProperties
<1> QED BY <1>2, <1>3

\* The log of events is finite.
LEMMA EventsFinite ==
    ASSUME NEW mx, NEW od, NEW ev, NEW d, OrdersFit(mx, od, ev, d)
    PROVE  IsFiniteSet(1..Len(ev))
<1>1. Len(ev) \in Int
  BY EventIs
<1> QED BY <1>1, FS_Interval

\* Orders go on: from new over reserving and approved to ended.
LEMMA OrdersKeep ==
    ASSUME NEW mx, NEW od, NEW od1 \in [Orders -> Statuses], NEW ev, NEW d, OrdersFit(mx, od, ev, d),
           \A o \in Orders : od1[o] # od[o] =>
              /\ o \in mx /\ od[o] # "ended" /\ od1[o] # "new"
              /\ od[o] = "approved" => od1[o] = "ended"
    PROVE  OrdersFit(mx, od1, ev, d)
<1>1. \A i \in 1..Len(ev) : ev[i].order \in Orders
  BY EventIs
<1>2. \A o \in DOMAIN d : o \in Orders
  BY OrdersAssumption DEF OrdersFit
<1>3. \A i \in 1..Len(ev) : od1[ev[i].order] \in {"approved", "ended"}
  BY <1>1 DEF OrdersFit
<1>4. \A o \in DOMAIN d : d[o] \in Nat /\ od1[o] = "ended"
  BY <1>2 DEF OrdersFit
<1>5. \A o \in Orders : od1[o] # "new" => o \in mx
  BY DEF OrdersFit
<1> QED BY <1>3, <1>4, <1>5 DEF OrdersFit

\* A book stays one when a good budget is set.
LEMMA BookWith ==
    ASSUME NEW bs, NEW e, Book(bs, e), NEW b \in Bots, NEW bg, Good(bg, e[b])
    PROVE  Book(With(bs, b, bg), e)
<1>1. IsFiniteSet(DOMAIN With(bs, b, bg))
  BY DomainFinite DEF Book
<1>2. DOMAIN With(bs, b, bg) = DOMAIN bs \cup {b}
  BY DEF With
<1>3. \A c \in DOMAIN bs \cup {b} : Good(With(bs, b, bg)[c], e[c])
  <2>1. With(bs, b, bg)[b] = bg
    BY DEF With
  <2>2. \A c \in DOMAIN bs : c # b => With(bs, b, bg)[c] = bs[c]
    BY DEF With
  <2> QED BY <2>1, <2>2 DEF Book
<1>4. DOMAIN bs \subseteq Bots
  BY DEF Book
<1> QED BY <1>1, <1>2, <1>3, <1>4 DEF Book

\* A book stays one when a settlement fails.
LEMMA BookLater ==
    ASSUME NEW bs, NEW e, NEW e1, Book(bs, e), \A b \in Bots : e1[b] = 0 => e[b] = 0
    PROVE  Book(bs, e1)
BY DEF Book, Good

\* The reservations fit when orders progress and budgets are added.
LEMMA ResvKeep ==
    ASSUME NEW r, NEW od, NEW od1, NEW bs, NEW bs1, ResvFit(r, od, bs),
           \A o \in DOMAIN r : od1[o] # "new", DOMAIN bs \subseteq DOMAIN bs1
    PROVE  ResvFit(r, od1, bs1)
BY DEF ResvFit

\* The reservations fit when some are dropped.
LEMMA ResvLess ==
    ASSUME NEW r, NEW od, NEW bs, ResvFit(r, od, bs), NEW S, S \subseteq DOMAIN r
    PROVE  ResvFit(Restrict(r, S), od, bs)
<1> DEFINE q == Restrict(r, S)
<1>1. q = [o \in S |-> r[o]]
  BY DEF Restrict
<1>2. DOMAIN q = S /\ (\A o \in S : q[o] = r[o]) /\ q = [o \in DOMAIN q |-> q[o]]
  BY <1>1
<1>3. IsFiniteSet(S)
  BY FS_Subset DEF ResvFit
<1> HIDE DEF q
<1>4. ResvFit(q, od, bs)
  BY <1>2, <1>3 DEF ResvFit
<1> QED BY <1>4 DEF q

\* The reservations fit when one is popped.
LEMMA ResvWithout ==
    ASSUME NEW r, NEW od, NEW bs, ResvFit(r, od, bs), NEW o
    PROVE  ResvFit(Without(r, o), od, bs)
BY ResvLess DEF Without

\* The reservations fit when that of a buy of a bot with a budget is set.
LEMMA ResvWith ==
    ASSUME NEW r, NEW od, NEW bs, ResvFit(r, od, bs), NEW o \in Orders \ Sells, NEW v \in Nat,
           od[o] # "new", BotOf[o] \in DOMAIN bs
    PROVE  ResvFit(With(r, o, v), od, bs)
<1> DEFINE q == With(r, o, v)
<1>1. q = [p \in DOMAIN r \cup {o} |-> IF p = o THEN v ELSE r[p]]
  BY DEF With
<1>2. DOMAIN q = DOMAIN r \cup {o} /\ q[o] = v /\ (\A p \in DOMAIN r : p # o => q[p] = r[p])
  BY DEF With
<1>3. q = [p \in DOMAIN q |-> q[p]]
  BY <1>1
<1>4. IsFiniteSet(DOMAIN q)
  BY DomainFinite DEF ResvFit
<1> HIDE DEF q
<1>5. ResvFit(q, od, bs)
  BY <1>2, <1>3, <1>4 DEF ResvFit
<1> QED BY <1>5 DEF q

\* A bot without reservations holds nothing.
LEMMA HeldNothing ==
    ASSUME NEW r, NEW b, \A o \in DOMAIN r : BotOf[o] # b
    PROVE  Held(r, b) = 0
<1>1. {p \in DOMAIN r : BotOf[p] = b} = {}
  OBVIOUS
<1>2. Held(r, b) = SumFunctionOnSet(r, {})
  BY <1>1 DEF Held
<1>3. SumFunctionOnSet(r, {}) = 0
  BY SumRemove, FS_EmptySet DEF Numbers
<1> QED BY <1>2, <1>3

\* The reservations stay, and what is reserved of the budgets.
LEMMA HeldKeep ==
    ASSUME NEW r, NEW od, NEW bs, NEW bs1, NEW c, NEW e, ResvFit(r, od, bs), HeldFit(r, bs, c, e),
           \A b \in DOMAIN bs : bs1[b].reserved = bs[b].reserved,
           \A b \in DOMAIN bs1 \ DOMAIN bs : bs1[b].reserved = 0
    PROVE  HeldFit(r, bs1, c, e)
<1> SUFFICES ASSUME NEW b \in DOMAIN bs1, e[b] = 0
             PROVE  Held(r, b) <= bs1[b].reserved /\ (c[b] = 0 => Held(r, b) = bs1[b].reserved)
  BY DEF HeldFit
<1>1. CASE b \in DOMAIN bs
  BY <1>1 DEF HeldFit
<1>2. CASE b \notin DOMAIN bs
  <2>1. \A o \in DOMAIN r : BotOf[o] # b
    BY <1>2 DEF ResvFit
  <2>2. Held(r, b) = 0
    BY <2>1, HeldNothing
  <2> QED BY <1>2, <2>2
<1> QED BY <1>1, <1>2

\* The settled fills stay, and what the bots spent and returned.
LEMMA SettledKeep ==
    ASSUME NEW bs, NEW bs1, NEW ev, NEW K, NEW d, SettledFit(bs, ev, K, d),
           DOMAIN bs \subseteq DOMAIN bs1,
           \A b \in DOMAIN bs : bs1[b].spent = bs[b].spent /\ bs1[b].returned = bs[b].returned,
           \A b \in DOMAIN bs1 \ DOMAIN bs : bs1[b].spent = 0 /\ bs1[b].returned = 0
    PROVE  SettledFit(bs1, ev, K, d)
<1>1. ASSUME NEW b \in DOMAIN bs1 PROVE Matches(bs1[b], ev, K, d, b)
  <2>1. CASE b \in DOMAIN bs
    BY <2>1 DEF SettledFit, Matches
  <2>2. CASE b \notin DOMAIN bs
    <3>1. (\A i \in K : BotOf[ev[i].order] # b) /\ (\A o \in DOMAIN d : BotOf[o] # b)
      BY <2>2 DEF SettledFit
    <3>2. \A S : Charged(ev, K, b, S) = 0 /\ Direct(d, b, S) = 0
      BY <3>1, ChargedNothing, DirectNothing
    <3>3. bs1[b].spent = 0 /\ bs1[b].returned = 0
      BY <2>2
    <3> QED BY <3>2, <3>3 DEF Matches
  <2> QED BY <2>1, <2>2
<1> QED BY <1>1 DEF SettledFit

\* The fills and the covered orders stay, and there are fewer reservations.
LEMMA CoverKeep ==
    ASSUME NEW r, NEW q, NEW lim, NEW ev, NEW K, CoverFit(r, lim, ev, K),
           DOMAIN q \subseteq DOMAIN r, \A o \in DOMAIN q : q[o] = r[o]
    PROVE  CoverFit(q, lim, ev, K)
BY DEF CoverFit

\* A book's allocations add up to a number, zero when it is empty.
LEMMA TotalIs ==
    ASSUME NEW bs, NEW e, Book(bs, e)
    PROVE  TotalAllocated(bs) \in Int /\ (DOMAIN bs = {} => TotalAllocated(bs) = 0)
<1> DEFINE f == [b \in DOMAIN bs |-> bs[b].allocated]
<1>1. IsFiniteSet(DOMAIN bs) /\ Numbers(f, DOMAIN bs)
  BY DEF Book, Good, Record, Numbers
<1>2. TotalAllocated(bs) = SumFunctionOnSet(f, DOMAIN bs)
  BY DEF TotalAllocated, SumFunction, SumFunctionOnSet, FoldFunction
<1> HIDE DEF f
<1> QED BY <1>1, <1>2, SumRemove

\* The line stays in order when a save of a good budget joins it.
LEMMA SaveAppend ==
    ASSUME NEW ws, NEW e, NEW od, NEW pc, Line(ws, e, od, pc), NEW b \in Bots, NEW bg, Good(bg, e[b]),
           NEW more \in BOOLEAN
    PROVE  Line(Append(ws, Save(b, bg, NoOrder, more)), e, od, pc)
<1> DEFINE w == Save(b, bg, NoOrder, more)
<1>1. bg \in Record /\ NoOrder \in Orders \cup {NoOrder}
  BY DEF Good
<1>2. w \in Message /\ w.kind = "budget" /\ w.val = bg /\ w.order = NoOrder /\ w.bot = b
  BY <1>1, SaveIs
<1> HIDE DEF w
<1>3. Line(Append(ws, w), e, od, pc)
  BY <1>2, LineAppend
<1> QED BY <1>3 DEF w

\* The bot of the fill that is being settled.
LEMMA BotIs ==
    ASSUME Core
    PROVE  fill.pc = "settled" => Bot \in Bots
BY DEF Core, FillOK, FillFit, Holding, BooksOK, Book, Bot, Event

\* The settled fills are finitely many of the events.
LEMMA SettledIs ==
    ASSUME Core
    PROVE  SettledFills \subseteq 1..Len(events) /\ IsFiniteSet(SettledFills)
<1>1. keys \subseteq 1..Len(events) /\ (fill.pc = "settled" => next \in 1..Len(events))
  BY EventIs DEF Core, FillOK, FillFit, OrdersOK
<1>2. SettledFills \subseteq 1..Len(events)
  BY <1>1 DEF SettledFills
<1>3. IsFiniteSet(1..Len(events))
  BY EventsFinite DEF Core, OrdersOK
<1> QED BY <1>2, <1>3, FS_Subset

-----------------------------------------------------------------------------
(* The invariant holds at first *)

\* The empty dict and the empty log.
LEMMA EmptyIs == DOMAIN <<>> = {} /\ IsFiniteSet({}) /\ (\A o : FillsIn(<<>>, o) = {}) /\ Cardinality({}) = 0
BY FS_EmptySet DEF FillsIn

\* The task between two fills.
LEMMA IdleIs ==
    /\ Idle \in Task /\ Finished \in Task
    /\ Idle.pc = "idle" /\ Finished.pc = "done"
    /\ Idle.staged = NewBudget /\ Finished.staged = NewBudget
<1>1. NewBudget \in Record
  BY NewBudgetIs
<1> QED BY <1>1 DEF Idle, Finished, Task

\* The invariant holds in the initial states.
LEMMA InitCore ==
    ASSUME Init
    PROVE  Inv
<1> USE DEF Init, InitBooks
<1>1. balance \in Int
  BY MoneyAssumption
<1>2. TypesOK
  BY <1>1, IdleIs DEF TypesOK
<1>3. OrdersOK
  <2>1. events \in Seq([order : Orders \ Virtual, cost : Nat]) /\ Len(events) = 0
    BY EmptySeq
  <2>2. \A o \in Orders : Cardinality(FillsIn(events, o)) <= Qty[o]
    <3>1. \A o : FillsIn(events, o) = {}
      BY EmptyIs
    <3>2. \A o \in Orders : Qty[o] \in Nat /\ 0 <= Qty[o]
      BY OrdersAssumption
    <3> QED BY <3>1, <3>2, EmptyIs
  <2> QED BY <2>1, <2>2, EmptyIs DEF OrdersOK, OrdersFit, Statuses
<1>4. BooksOK
  BY EmptyIs, IdleIs, NewBudgetIs DEF BooksOK, Book, Good
<1>5. AllocatedOK
  <2>1. TotalAllocated(budget) = 0
    BY <1>4, TotalIs, EmptyIs DEF BooksOK
  <2> QED BY <1>1, <2>1 DEF AllocatedOK
<1>6. ResvOK
  <2>1. resv = [o \in DOMAIN resv |-> resv[o]]
    OBVIOUS
  <2> QED BY <2>1, EmptyIs DEF ResvOK, ResvFit
<1>7. HeldOK /\ CoverOK /\ EndedOK
  BY EmptyIs DEF HeldOK, HeldFit, CoverOK, CoverFit, EndedOK, EndedFit
<1>8. LineOK
  <2>1. writes \in Seq(Message) /\ DOMAIN writes = {}
    BY EmptySeq, EmptyIs
  <2> QED BY <2>1 DEF LineOK, Line
<1>9. FillOK
  BY IdleIs DEF FillOK, FillFit, Holding
<1>10. SettledOK
  <2>1. SettledFills = {}
    BY IdleIs DEF SettledFills
  <2> QED BY <2>1, EmptyIs, IdleIs DEF SettledOK, SettledFit, Holding
<1>11. LimitOK
  <2>1. \A o \in Orders : limit[o] \in Nat /\ limit[o] <= Price[o] /\ (limit[o] # 0 => o \notin Sells)
    BY AmendAssumption
  <2>2. limit \in [Orders -> Nat]
    BY <2>1
  <2> QED BY <2>1, <2>2 DEF LimitOK, LimitFit
<1>12. AskedOK
  <2>1. asked \in [Bots -> Action] /\ \A b \in Bots : asked[b].pc = "none"
    BY DEF Action, Nothing
  <2> QED BY <2>1 DEF AskedOK
<1> QED BY <1>2, <1>3, <1>4, <1>5, <1>6, <1>7, <1>8, <1>9, <1>10, <1>11, <1>12 DEF Inv, Core

-----------------------------------------------------------------------------
(* Every step of the books keeps it *)

\* sync_balance keeps the invariant.
LEMMA SyncBalanceKeeps ==
    ASSUME Core, NEW c \in Balances[mix], SyncBalance(c), UNCHANGED limit
    PROVE  Core'
<1>1. /\ up /\ balance' = c /\ unallocated' = c - TotalAllocated(budget)
      /\ others' = others + 1
      /\ mix' = mix /\ budget' = budget /\ resv' = resv /\ fill' = fill /\ up' = up
      /\ row' = row /\ stored' = stored /\ keys' = keys
      /\ running' = running /\ ord' = ord /\ events' = events /\ next' = next /\ direct' = direct
      /\ crashes' = crashes /\ errors' = errors /\ limit' = limit
      /\ blame' = blame /\ astray' = astray
  BY DEF SyncBalance, Ready, database, world, outbox, crossed, blame, astray
<1>2. c \in Int /\ TotalAllocated(budget) \in Int
  <2>1. mix \in Mixes
    BY DEF Core, OrdersOK, OrdersFit
  <2>2. Balances[mix] \subseteq Nat
    BY <2>1, MoneyAssumption
  <2> QED BY <2>2, TotalIs DEF Core, BooksOK
<1>3. TypesOK'
  BY <1>1, <1>2 DEF Core, TypesOK
<1>4. AllocatedOK'
  BY <1>1 DEF AllocatedOK
<1>5. LineOK'
  <2>1. PICK more \in BOOLEAN : writes' = Append(writes, SaveState(c, more))
    BY DEF SyncBalance, Live
  <2>2. Line(writes, blame, ord, fill.pc)
    BY DEF Core, LineOK
  <2>3. SaveState(c, more) \in Message /\ SaveState(c, more).kind = "state"
    BY <1>2, SaveStateIs
  <2>4. Line(Append(writes, SaveState(c, more)), blame, ord, fill.pc)
    BY <2>2, <2>3, LineAppend
  <2> QED BY <1>1, <2>1, <2>4 DEF LineOK
<1>6. OrdersOK' /\ BooksOK' /\ ResvOK' /\ HeldOK' /\ FillOK' /\ LimitOK' /\ EndedOK'
  BY <1>1 DEF Core, OrdersOK, BooksOK, ResvOK, HeldOK, FillOK, LimitOK, EndedOK, Bot, Event
<1>7. SettledOK' /\ CoverOK'
  BY <1>1 DEF Core, SettledOK, CoverOK, SettledFills, Bot, Event
<1> QED BY <1>3, <1>4, <1>5, <1>6, <1>7 DEF Core

\* The balance of a virtual account keeps the invariant.
LEMMA SyncVirtualKeeps ==
    ASSUME Core, SyncVirtual, UNCHANGED limit
    PROVE  Core'
<1>1. /\ up /\ balance' = balance /\ unallocated' = unallocated
      /\ mix' = mix /\ budget' = budget /\ resv' = resv /\ fill' = fill /\ up' = up
      /\ row' = row /\ stored' = stored /\ keys' = keys
      /\ ord' = ord /\ events' = events /\ next' = next /\ direct' = direct
      /\ crashes' = crashes /\ errors' = errors /\ others' = others /\ limit' = limit
      /\ blame' = blame /\ astray' = astray
  BY DEF SyncVirtual, Ready, memory, database, world, outbox, crossed, blame, astray
<1>2. TypesOK' /\ AllocatedOK'
  BY <1>1 DEF Core, TypesOK, AllocatedOK
<1>3. LineOK'
  <2>1. writes' = Append(writes, SaveState(balance, FALSE))
    BY DEF SyncVirtual
  <2>2. Line(writes, blame, ord, fill.pc) /\ balance \in Int
    BY DEF Core, LineOK, TypesOK
  <2>3. SaveState(balance, FALSE) \in Message /\ SaveState(balance, FALSE).kind = "state"
    BY <2>2, SaveStateIs
  <2>4. Line(Append(writes, SaveState(balance, FALSE)), blame, ord, fill.pc)
    BY <2>2, <2>3, LineAppend
  <2> QED BY <1>1, <2>1, <2>4 DEF LineOK
<1>4. OrdersOK' /\ BooksOK' /\ ResvOK' /\ HeldOK' /\ FillOK' /\ LimitOK' /\ EndedOK'
  BY <1>1 DEF Core, OrdersOK, BooksOK, ResvOK, HeldOK, FillOK, LimitOK, EndedOK, Bot, Event
<1>5. SettledOK' /\ CoverOK'
  BY <1>1 DEF Core, SettledOK, CoverOK, SettledFills, Bot, Event
<1> QED BY <1>2, <1>3, <1>4, <1>5 DEF Core

\* The start of a bot keeps the invariant.
LEMMA StartBotKeeps ==
    ASSUME Core, NEW b, StartBot(b), UNCHANGED limit
    PROVE  Core'
<1>1. /\ balance' = balance /\ unallocated' = unallocated
      /\ mix' = mix /\ budget' = budget /\ resv' = resv /\ fill' = fill /\ up' = up
      /\ row' = row /\ stored' = stored /\ keys' = keys /\ writes' = writes
      /\ ord' = ord /\ events' = events /\ next' = next /\ direct' = direct
      /\ crashes' = crashes /\ errors' = errors /\ others' = others /\ limit' = limit
      /\ blame' = blame /\ astray' = astray
  BY DEF StartBot, memory, database, outbox, crossed, blame, astray
<1>2. TypesOK' /\ AllocatedOK' /\ LineOK'
  BY <1>1 DEF Core, TypesOK, AllocatedOK, LineOK
<1>3. OrdersOK' /\ BooksOK' /\ ResvOK' /\ HeldOK' /\ FillOK' /\ LimitOK' /\ EndedOK'
  BY <1>1 DEF Core, OrdersOK, BooksOK, ResvOK, HeldOK, FillOK, LimitOK, EndedOK, Bot, Event
<1>4. SettledOK' /\ CoverOK'
  BY <1>1 DEF Core, SettledOK, CoverOK, SettledFills, Bot, Event
<1> QED BY <1>2, <1>3, <1>4 DEF Core

\* The approval of a sell and the rejection of an order keep the invariant.
LEMMA NewOrderKeeps ==
    ASSUME Core, NEW o \in Orders, ApproveSell(o) \/ RejectOrder(o), UNCHANGED limit
    PROVE  Core'
<1>1. /\ balance' = balance /\ unallocated' = unallocated
      /\ mix' = mix /\ budget' = budget /\ resv' = resv /\ fill' = fill /\ up' = up
      /\ row' = row /\ stored' = stored /\ keys' = keys /\ writes' = writes
      /\ events' = events /\ next' = next /\ direct' = direct
      /\ crashes' = crashes /\ errors' = errors /\ others' = others /\ limit' = limit
      /\ blame' = blame /\ astray' = astray
  BY DEF ApproveSell, RejectOrder, memory, database, outbox, crossed, blame, astray
<1>2. o \in mix /\ ord[o] = "new" /\ ord \in [Orders -> Statuses]
  BY DEF ApproveSell, RejectOrder, Unrequested, Core, OrdersOK, OrdersFit
<1>3. PICK s \in {"approved", "ended"} : ord' = [ord EXCEPT ![o] = s]
  BY DEF ApproveSell, RejectOrder
<1>4. ord' \in [Orders -> Statuses] /\ ord'[o] = s /\ \A p \in Orders : p # o => ord'[p] = ord[p]
  BY <1>2, <1>3 DEF Statuses
<1>5. TypesOK' /\ BooksOK' /\ AllocatedOK' /\ HeldOK' /\ FillOK' /\ LimitOK'
  BY <1>1 DEF Core, TypesOK, BooksOK, AllocatedOK, HeldOK, FillOK, LimitOK, Bot, Event
<1>6. SettledOK' /\ CoverOK'
  BY <1>1 DEF Core, SettledOK, CoverOK, SettledFills, Bot, Event
<1>7. OrdersOK'
  BY <1>1, <1>2, <1>4, OrdersKeep DEF Core, OrdersOK
<1>8. o \notin DOMAIN resv /\ DOMAIN resv \subseteq Orders
  BY <1>2 DEF Core, ResvOK, ResvFit
<1>9. ResvOK'
  BY <1>1, <1>4, <1>8 DEF Core, ResvOK, ResvFit
<1>10. LineOK'
  <2>1. \A p \in Orders : ord[p] = "reserving" => ord'[p] = "reserving"
    BY <1>2, <1>4
  <2>2. Line(writes, blame, ord', fill.pc)
    BY <2>1, LineKeeps DEF Core, LineOK
  <2> QED BY <1>1, <2>2 DEF Core, LineOK
<1>11. EndedOK'
  BY <1>1, <1>4, <1>8 DEF Core, EndedOK, EndedFit
<1> QED BY <1>5, <1>6, <1>7, <1>9, <1>10, <1>11 DEF Core

\* Reservations and fills stay, and what the budgets have reserved, spent and returned.
LEMMA AllocationKeeps ==
    ASSUME Core, NEW b \in Bots, NEW a \in Int, Ready,
           b \notin DOMAIN budget => budget' = With(budget, b, Allocated(NewBudget, a)),
           b \in DOMAIN budget => budget' = With(budget, b, Allocated(budget[b], a)),
           writes' = Append(writes, Save(b, budget'[b], NoOrder, TRUE)),
           unallocated' = unallocated - a,
           UNCHANGED <<mix, crossed, balance, resv, fill, up, database, world, crashes, errors, others, limit>>
    PROVE  Core'
<1>1. /\ up /\ balance' = balance
      /\ mix' = mix /\ resv' = resv /\ fill' = fill /\ up' = up
      /\ row' = row /\ stored' = stored /\ keys' = keys
      /\ ord' = ord /\ events' = events /\ next' = next /\ direct' = direct
      /\ crashes' = crashes /\ errors' = errors /\ others' = others /\ limit' = limit
      /\ blame' = blame /\ astray' = astray
  BY DEF Ready, database, world, outbox, crossed, blame, astray
<1> DEFINE old == IF b \in DOMAIN budget THEN budget[b] ELSE NewBudget
           bg == Allocated(old, a)
<1>2. Book(budget, blame)
  BY DEF Core, BooksOK
<1>3. old \in Record /\ (blame[b] = 0 => Balanced(old))
  BY <1>2, NewBudgetIs DEF Book, Good
<1>4. b \notin DOMAIN budget => old.reserved = 0 /\ old.spent = 0 /\ old.returned = 0 /\ old.allocated = 0
  BY DEF NewBudget
<1>5. budget' = With(budget, b, bg)
  OBVIOUS
<1>6. b \in DOMAIN budget => old = budget[b]
  OBVIOUS
<1> HIDE DEF old
<1>7. /\ bg \in Record /\ (Balanced(old) => Balanced(bg))
      /\ bg.allocated = old.allocated + a /\ bg.reserved = old.reserved
      /\ bg.spent = old.spent /\ bg.returned = old.returned
  BY <1>3, AllocatedIs
<1> HIDE DEF bg
<1>8. /\ DOMAIN budget' = DOMAIN budget \cup {b} /\ budget'[b] = bg
      /\ \A c \in DOMAIN budget : c # b => budget'[c] = budget[c]
  BY <1>5 DEF With
<1>9. Good(bg, blame[b])
  BY <1>3, <1>7 DEF Good
<1>10. TypesOK'
  BY <1>1 DEF Core, TypesOK
<1>11. OrdersOK' /\ LimitOK' /\ EndedOK'
  BY <1>1 DEF Core, OrdersOK, LimitOK, EndedOK
<1>12. BooksOK'
  <2>1. Book(budget', blame)
    BY <1>2, <1>5, <1>9, BookWith
  <2> QED BY <1>1, <2>1 DEF Core, BooksOK, Bot, Event
<1>13. AllocatedOK'
  <2>1. \A c \in DOMAIN budget : budget[c].allocated \in Int
    BY <1>2 DEF Book, Good, Record
  <2>2. bg.allocated \in Int /\ old.allocated \in Int /\ IsFiniteSet(DOMAIN budget)
    BY <1>2, <1>3, <1>7 DEF Book, Record
  <2>3. /\ TotalAllocated(budget) \in Int
        /\ TotalAllocated(With(budget, b, bg)) =
             TotalAllocated(budget) + bg.allocated - (IF b \in DOMAIN budget THEN budget[b].allocated ELSE 0)
    BY <2>1, <2>2, TotalWith
  <2>4. TotalAllocated(budget') = TotalAllocated(budget) + a
    BY <1>4, <1>5, <1>6, <1>7, <2>2, <2>3
  <2> QED BY <1>1, <2>3, <2>4 DEF Core, AllocatedOK, TypesOK
<1>14. ResvOK'
  BY <1>1, <1>8, ResvKeep DEF Core, ResvOK, ResvFit
<1>15. /\ \A c \in DOMAIN budget : budget'[c].reserved = budget[c].reserved
       /\ \A c \in DOMAIN budget :
             budget'[c].spent = budget[c].spent /\ budget'[c].returned = budget[c].returned
       /\ \A c \in DOMAIN budget' \ DOMAIN budget :
             budget'[c].reserved = 0 /\ budget'[c].spent = 0 /\ budget'[c].returned = 0
  BY <1>4, <1>6, <1>7, <1>8
<1>16. HeldOK'
  BY <1>1, <1>15, HeldKeep DEF Core, HeldOK, ResvOK
<1>17. LineOK'
  <2>1. Line(writes, blame, ord, fill.pc)
    BY DEF Core, LineOK
  <2>2. Line(Append(writes, Save(b, bg, NoOrder, TRUE)), blame, ord, fill.pc)
    BY <1>9, <2>1, SaveAppend
  <2>3. writes' = Append(writes, Save(b, bg, NoOrder, TRUE))
    BY <1>8, Zenon
  <2>4. Line(writes', blame', ord', fill'.pc)
    BY <1>1, <2>2, <2>3, Zenon
  <2> QED BY ONLY <1>1, <2>4 DEF LineOK
<1>18. FillOK'
  BY <1>1, <1>8 DEF Core, FillOK, FillFit
<1>19. SettledFills' = SettledFills /\ Bot' = Bot
  BY <1>1 DEF SettledFills, Bot, Event
<1>20. SettledOK'
  BY <1>1, <1>8, <1>15, <1>19, SettledKeep DEF Core, SettledOK
<1>21. CoverOK'
  BY <1>1, <1>19 DEF Core, CoverOK
<1> QED BY <1>10, <1>11, <1>12, <1>13, <1>14, <1>16, <1>17, <1>18, <1>20, <1>21 DEF Core

\* allocate and deallocate keep the invariant.
LEMMA AllocateKeeps ==
    ASSUME Core, NEW b \in Bots, NEW a \in Int, UNCHANGED limit
    PROVE  Allocate(b, a) \/ Deallocate(b, a) => Core'
<1>1. CASE Allocate(b, a)
  <2>1. /\ b \notin DOMAIN budget => budget' = With(budget, b, Allocated(NewBudget, a))
        /\ b \in DOMAIN budget => budget' = With(budget, b, Allocated(budget[b], a))
        /\ unallocated' = unallocated - a
        /\ UNCHANGED <<mix, crossed, balance, resv, fill, up, database, world, crashes, errors, others, limit>>
        /\ Ready
    BY <1>1 DEF Allocate
  <2>2. writes' = Append(writes, Save(b, budget'[b], NoOrder, TRUE))
    BY <1>1 DEF Allocate, With
  <2> QED BY <2>1, <2>2, AllocationKeeps
<1>2. CASE Deallocate(b, a)
  <2>1. /\ b \in DOMAIN budget /\ budget' = With(budget, b, Allocated(budget[b], -a))
        /\ unallocated' = unallocated + a
        /\ UNCHANGED <<mix, crossed, balance, resv, fill, up, database, world, crashes, errors, others, limit>>
        /\ Ready
    BY <1>2 DEF Deallocate
  <2>2. writes' = Append(writes, Save(b, budget'[b], NoOrder, TRUE))
    BY <1>2 DEF Deallocate, With
  <2>3. -a \in Int /\ unallocated' = unallocated - (-a)
    BY <2>1 DEF Core, TypesOK
  <2> QED BY <2>1, <2>2, <2>3, AllocationKeeps
<1> QED BY <1>1, <1>2

\* update_budget keeps the invariant.
LEMMA UpdateBudgetKeeps ==
    ASSUME Core, NEW b \in Bots, NEW target \in Int, UpdateBudget(b, target), UNCHANGED limit
    PROVE  Core'
<1> DEFINE diff == target - (IF b \in DOMAIN budget THEN budget[b].allocated ELSE 0)
<1>1. diff \in Int /\ -diff \in Int
  BY DEF Core, BooksOK, Book, Good, Record
<1>2. Allocate(b, diff) \/ Deallocate(b, -diff)
  BY DEF UpdateBudget
<1> HIDE DEF diff
<1>3. Allocate(b, diff) => Core'
  BY <1>1, AllocateKeeps
<1>4. Deallocate(b, -diff) => Core'
  BY <1>1, AllocateKeeps
<1> QED BY <1>2, <1>3, <1>4

\* A change of the budget of b that leaves its allocation.
LEMMA TotalSame ==
    ASSUME NEW bs, NEW e, Book(bs, e), NEW b \in DOMAIN bs, NEW bg, Good(bg, e[b]),
           bg.allocated = bs[b].allocated
    PROVE  /\ Book(With(bs, b, bg), e) /\ TotalAllocated(With(bs, b, bg)) = TotalAllocated(bs)
           /\ DOMAIN With(bs, b, bg) = DOMAIN bs /\ With(bs, b, bg)[b] = bg
           /\ \A c \in DOMAIN bs : c # b => With(bs, b, bg)[c] = bs[c]
<1>1. /\ IsFiniteSet(DOMAIN bs) /\ b \in Bots
      /\ (\A c \in DOMAIN bs : bs[c].allocated \in Int) /\ bg.allocated \in Int
  BY DEF Book, Good, Record
<1>2. /\ TotalAllocated(bs) \in Int
      /\ TotalAllocated(With(bs, b, bg)) =
           TotalAllocated(bs) + bg.allocated - (IF b \in DOMAIN bs THEN bs[b].allocated ELSE 0)
  BY <1>1, TotalWith
<1>3. TotalAllocated(With(bs, b, bg)) = TotalAllocated(bs)
  BY <1>1, <1>2
<1>4. Book(With(bs, b, bg), e)
  BY <1>1, BookWith
<1>5. /\ DOMAIN With(bs, b, bg) = DOMAIN bs /\ With(bs, b, bg)[b] = bg
      /\ \A c \in DOMAIN bs : c # b => With(bs, b, bg)[c] = bs[c]
  BY DEF With
<1> QED BY <1>3, <1>4, <1>5

\* What is reserved for b changes as its reservations do.
LEMMA HeldMoves ==
    ASSUME NEW r, NEW q, NEW bs, NEW c, NEW e, HeldFit(r, bs, c, e), NEW b \in DOMAIN bs, NEW bg,
           Held(r, b) \in Int, bs[b].reserved \in Int, NEW a \in Int,
           Held(q, b) = Held(r, b) + a, e[b] = 0 => bg.reserved = bs[b].reserved + a,
           \A x : x # b => Held(q, x) = Held(r, x)
    PROVE  HeldFit(q, With(bs, b, bg), c, e)
<1> DEFINE n == With(bs, b, bg)
<1>1. DOMAIN n = DOMAIN bs /\ n[b] = bg /\ \A x \in DOMAIN bs : x # b => n[x] = bs[x]
  BY DEF With
<1> HIDE DEF n
<1>2. HeldFit(q, n, c, e)
  <2> SUFFICES ASSUME NEW x \in DOMAIN n, e[x] = 0
               PROVE  Held(q, x) <= n[x].reserved /\ (c[x] = 0 => Held(q, x) = n[x].reserved)
    BY DEF HeldFit
  <2>1. CASE x = b
    BY <1>1, <2>1 DEF HeldFit
  <2>2. CASE x # b
    BY <1>1, <2>2 DEF HeldFit
  <2> QED BY <2>1, <2>2
<1> QED BY <1>2 DEF n

\* reserve_for_order keeps the invariant.
LEMMA ReserveKeeps ==
    ASSUME Core, NEW o \in Orders, Reserve(o), UNCHANGED limit
    PROVE  Core'
<1>1. /\ up /\ balance' = balance /\ unallocated' = unallocated
      /\ mix' = mix /\ fill' = fill /\ up' = up
      /\ row' = row /\ stored' = stored /\ keys' = keys
      /\ events' = events /\ next' = next /\ direct' = direct
      /\ crashes' = crashes /\ errors' = errors /\ others' = others /\ limit' = limit
      /\ blame' = blame /\ astray' = astray
  BY DEF Reserve, Ready, database, outbox, crossed, blame, astray
<1> DEFINE b == BotOf[o]
           a == ReserveOf[o]
           bg == Reserved(budget[b], a)
<1>2. /\ o \in mix /\ ord[o] = "new" /\ o \notin Sells /\ b \in DOMAIN budget
      /\ budget' = With(budget, b, bg) /\ resv' = With(resv, o, a)
      /\ ord' = [ord EXCEPT ![o] = "reserving"]
  BY DEF Reserve, Unrequested
<1>3. writes' = Append(writes, Save(b, bg, o, FALSE))
  BY DEF Reserve
<1>4. b \in Bots /\ a \in Nat /\ o # NoOrder
  BY OrdersAssumption DEF NoOrder
<1>5. Book(budget, blame) /\ Good(budget[b], blame[b])
  BY <1>2 DEF Core, BooksOK, Book
<1>6. /\ bg \in Record /\ (Balanced(budget[b]) => Balanced(bg))
      /\ bg.allocated = budget[b].allocated /\ bg.reserved = budget[b].reserved + a
      /\ bg.spent = budget[b].spent /\ bg.returned = budget[b].returned
  <2>1. budget[b] \in Record
    BY <1>5 DEF Good
  <2> HIDE DEF b, a
  <2> QED BY <1>4, <2>1, ReservedIs
<1>7. Good(bg, blame[b])
  BY <1>5, <1>6 DEF Good
<1> HIDE DEF b, a, bg
<1>8. ord \in [Orders -> Statuses]
  BY DEF Core, OrdersOK, OrdersFit
<1>9. ord' \in [Orders -> Statuses] /\ ord'[o] = "reserving" /\ \A p \in Orders : p # o => ord'[p] = ord[p]
  BY <1>2, <1>8 DEF Statuses
<1>10. o \notin DOMAIN resv /\ DOMAIN resv \subseteq Orders
  BY <1>2 DEF Core, ResvOK, ResvFit
<1>11. /\ Book(budget', blame) /\ TotalAllocated(budget') = TotalAllocated(budget)
       /\ DOMAIN budget' = DOMAIN budget /\ budget'[b] = bg
       /\ \A c \in DOMAIN budget : c # b => budget'[c] = budget[c]
  BY <1>2, <1>5, <1>6, <1>7, TotalSame
<1>12. DOMAIN resv' = DOMAIN resv \cup {o} /\ resv'[o] = a /\ \A p \in DOMAIN resv : resv'[p] = resv[p]
  BY <1>2, <1>10 DEF With
<1>13. TypesOK' /\ LimitOK' /\ AllocatedOK' /\ BooksOK'
  BY <1>1, <1>11 DEF Core, TypesOK, LimitOK, AllocatedOK, BooksOK, Bot, Event
<1>14. OrdersOK'
  BY <1>1, <1>2, <1>8, <1>9, OrdersKeep DEF Core, OrdersOK
<1>15. ResvOK'
  <2>1. ResvFit(resv, ord', budget')
    BY <1>9, <1>10, <1>11 DEF Core, ResvOK, ResvFit
  <2>2. BotOf[o] \in DOMAIN budget' /\ ord'[o] # "new"
    BY <1>2, <1>9, <1>11 DEF b
  <2> QED BY <1>2, <1>4, <2>1, <2>2, ResvWith DEF ResvOK
<1>16. HeldOK'
  <2>1. IsFiniteSet(DOMAIN resv) /\ \A p \in DOMAIN resv : resv[p] \in Nat
    BY DEF Core, ResvOK, ResvFit
  <2>2. \A x : /\ Held(resv, x) \in Nat
               /\ Held(resv', x) = IF BotOf[o] = x THEN Held(resv, x) - (IF o \in DOMAIN resv THEN resv[o] ELSE 0) + a
                                                   ELSE Held(resv, x)
    BY <1>2, <1>4, <2>1, HeldWith
  <2>3. Held(resv, b) \in Int /\ Held(resv', b) = Held(resv, b) + a /\ \A x : x # b => Held(resv', x) = Held(resv, x)
    BY <1>4, <1>10, <2>2 DEF b
  <2>4. budget[b].reserved \in Int /\ a \in Int
    BY <1>4, <1>5 DEF Good, Record
  <2>5. HeldFit(resv, budget, astray, blame) => HeldFit(resv', budget', astray, blame)
    BY <1>2, <1>6, <2>3, <2>4, HeldMoves
  <2> QED BY <1>1, <2>5 DEF Core, HeldOK
<1>17. LineOK'
  <2>1. Line(writes, blame, ord, fill.pc)
    BY DEF Core, LineOK
  <2>2. \A p \in Orders : ord[p] = "reserving" => ord'[p] = "reserving"
    BY <1>2, <1>9
  <2>3. Line(writes, blame, ord', fill.pc)
    BY <2>1, <2>2, LineKeeps
  <2>4. \A i \in DOMAIN writes : writes[i].kind = "budget" => writes[i].order # o
    BY <1>2, <1>4, <2>1 DEF Line
  <2> DEFINE w == Save(b, bg, o, FALSE)
  <2>5. w \in Message /\ w.kind = "budget" /\ w.val = bg /\ w.order = o /\ w.bot = b
    <3>1. bg \in Record /\ b \in Bots /\ o \in Orders \cup {NoOrder} /\ FALSE \in BOOLEAN
      BY <1>4, <1>6
    <3>2. /\ Save(b, bg, o, FALSE) \in Message
          /\ Save(b, bg, o, FALSE).kind = "budget" /\ Save(b, bg, o, FALSE).val = bg
          /\ Save(b, bg, o, FALSE).order = o /\ Save(b, bg, o, FALSE).bot = b
      BY ONLY <3>1, SaveIs
    <3> QED BY <3>2
  <2> HIDE DEF w
  <2>6. Line(Append(writes, w), blame, ord', fill.pc)
    BY <1>7, <1>9, <2>3, <2>4, <2>5, LineAppend
  <2>7. writes' = Append(writes, w)
    BY <1>3 DEF w
  <2> QED BY ONLY <1>1, <2>6, <2>7 DEF LineOK
<1>18. FillOK'
  BY <1>1, <1>11 DEF Core, FillOK, FillFit
<1>19. SettledFills' = SettledFills /\ Bot' = Bot
  BY <1>1 DEF SettledFills, Bot, Event
<1>20. SettledOK'
  <2>1. \A c \in DOMAIN budget :
           budget'[c].spent = budget[c].spent /\ budget'[c].returned = budget[c].returned
    BY <1>6, <1>11
  <2> QED BY <1>1, <1>11, <1>19, <2>1, SettledKeep DEF Core, SettledOK
<1>21. CoverOK'
  <2>1. FillsIn(events, o) \cap SettledFills = {}
    <3>1. \A i \in 1..Len(events) : ord[events[i].order] # "new"
      BY DEF Core, OrdersOK, OrdersFit
    <3> QED BY <1>2, <3>1 DEF FillsIn
  <2>2. Cardinality(FillsIn(events, o) \cap SettledFills) = 0
    BY <2>1, FS_EmptySet
  <2>3. (Qty[o] - 0) * Price[o] <= a
    BY <1>2, OrdersAssumption, AmendAssumption DEF a
  <2>4. CoverFit(resv, limit, events, SettledFills) => CoverFit(resv', limit, events, SettledFills)
    BY <1>12, <2>2, <2>3 DEF CoverFit
  <2> QED BY <1>1, <1>19, <2>4 DEF Core, CoverOK
<1>22. EndedOK'
  BY <1>1, <1>9, <1>10, <1>12 DEF Core, EndedOK, EndedFit
<1> QED BY <1>13, <1>14, <1>15, <1>16, <1>17, <1>18, <1>20, <1>21, <1>22 DEF Core

\* release_reservation gives a of the reservations of b back.
Gives(b, a) ==
    \/ UNCHANGED <<budget, writes>> /\ (b \in DOMAIN budget => a = 0)
    \/ /\ b \in DOMAIN budget
       /\ budget' = With(budget, b, Released(budget[b], a))
       /\ writes' = Append(writes, Save(b, budget'[b], NoOrder, FALSE))

\* The reservations q of those that b had are left, a of them are gone.
Gone(q, b, a) ==
    /\ DOMAIN q \subseteq DOMAIN resv /\ \A o \in DOMAIN q : q[o] = resv[o]
    /\ ResvFit(q, ord, budget)
    /\ Held(resv, b) \in Nat /\ Held(q, b) \in Nat /\ Held(q, b) = Held(resv, b) - a
    /\ \A x : x # b => Held(q, x) = Held(resv, x)

\* What a release of reservations leaves of the books.
LEMMA GivesBooks ==
    ASSUME Core, up, NEW b, NEW a \in Nat, Gives(b, a), Gone(resv', b, a)
    PROVE  /\ DOMAIN budget' = DOMAIN budget /\ Book(budget', blame)
           /\ TotalAllocated(budget') = TotalAllocated(budget)
           /\ HeldFit(resv', budget', astray, blame)
           /\ \A c \in DOMAIN budget :
                 budget'[c].spent = budget[c].spent /\ budget'[c].returned = budget[c].returned
           /\ Line(writes', blame, ord, fill.pc)
<1>1. Book(budget, blame) /\ Line(writes, blame, ord, fill.pc)
  BY DEF Core, BooksOK, LineOK
<1>2. HeldFit(resv, budget, astray, blame)
  BY DEF Core, HeldOK
<1>3. CASE UNCHANGED <<budget, writes>> /\ (b \in DOMAIN budget => a = 0)
  <2>1. budget' = budget /\ writes' = writes
    BY <1>3
  <2>2. \A x \in DOMAIN budget : Held(resv', x) = Held(resv, x)
    BY <1>3 DEF Gone
  <2>3. HeldFit(resv, budget, astray, blame) => HeldFit(resv', budget, astray, blame)
    BY <2>2 DEF HeldFit
  <2> QED BY <1>1, <1>2, <2>1, <2>3
<1>4. CASE /\ b \in DOMAIN budget
           /\ budget' = With(budget, b, Released(budget[b], a))
           /\ writes' = Append(writes, Save(b, budget'[b], NoOrder, FALSE))
  <2> DEFINE bg == Released(budget[b], a)
  <2>1. b \in DOMAIN budget /\ budget' = With(budget, b, bg) /\ b \in Bots /\ Good(budget[b], blame[b])
    BY <1>1, <1>4 DEF Book
  <2>2. /\ bg \in Record
        /\ a <= budget[b].reserved =>
             bg.reserved = budget[b].reserved - a /\ (Balanced(budget[b]) => Balanced(bg))
        /\ bg.allocated = budget[b].allocated /\ bg.spent = budget[b].spent
        /\ bg.returned = budget[b].returned
    <3>1. budget[b] \in Record
      BY <2>1 DEF Good
    <3> QED BY <3>1, ReleasedIs
  <2> HIDE DEF bg
  <2>3. budget[b].reserved \in Nat
    BY <2>1 DEF Good, Record
  <2>4. blame[b] = 0 => a <= budget[b].reserved
    <3>1. blame[b] = 0 => Held(resv, b) <= budget[b].reserved
      BY <1>2, <2>1 DEF HeldFit
    <3>2. Held(resv, b) \in Nat /\ a <= Held(resv, b)
      BY DEF Gone
    <3> QED BY <2>3, <3>1, <3>2
  <2>5. Good(bg, blame[b])
    BY <2>1, <2>2, <2>4 DEF Good
  <2>6. /\ Book(budget', blame) /\ TotalAllocated(budget') = TotalAllocated(budget)
        /\ DOMAIN budget' = DOMAIN budget /\ budget'[b] = bg
        /\ \A c \in DOMAIN budget : c # b => budget'[c] = budget[c]
    BY <1>1, <2>1, <2>2, <2>5, TotalSame
  <2>7. HeldFit(resv', budget', astray, blame)
    <3>1. /\ Held(resv, b) \in Int /\ -a \in Int /\ Held(resv', b) = Held(resv, b) + (-a)
          /\ \A x : x # b => Held(resv', x) = Held(resv, x)
      BY DEF Gone
    <3>2. blame[b] = 0 => bg.reserved = budget[b].reserved + (-a)
      BY <2>2, <2>3, <2>4
    <3> QED BY <1>2, <2>1, <2>3, <3>1, <3>2, HeldMoves
  <2>8. Line(writes', blame, ord, fill.pc)
    <3>1. writes' = Append(writes, Save(b, bg, NoOrder, FALSE))
      BY <1>4, <2>6, Zenon
    <3>2. Line(Append(writes, Save(b, bg, NoOrder, FALSE)), blame, ord, fill.pc)
      <4>1. FALSE \in BOOLEAN
        OBVIOUS
      <4> QED BY <1>1, <2>1, <2>5, <4>1, SaveAppend, Zenon
    <3> QED BY <3>1, <3>2, Zenon
  <2>9. \A c \in DOMAIN budget :
           budget'[c].spent = budget[c].spent /\ budget'[c].returned = budget[c].returned
    BY <2>2, <2>6
  <2> QED BY <2>6, <2>7, <2>8, <2>9
<1> QED BY <1>3, <1>4 DEF Gives

\* What a release of reservations of w to another bot b leaves of the books, when what is
\* wrong from then on (e, c) includes the budget of b and what w had reserved.
LEMMA GivesForeign ==
    ASSUME Core, up, NEW b \in Bots, NEW w \in Bots, NEW a \in Nat, Gives(b, a), Gone(resv', w, a),
           NEW e, NEW c,
           \A x \in Bots : e[x] = 0 => blame[x] = 0 /\ (x = b => b \notin DOMAIN budget),
           \A x \in Bots : c[x] = 0 => astray[x] = 0 /\ x # w
    PROVE  /\ DOMAIN budget' = DOMAIN budget /\ Book(budget', e)
           /\ TotalAllocated(budget') = TotalAllocated(budget)
           /\ HeldFit(resv', budget', c, e)
           /\ \A x \in DOMAIN budget :
                 budget'[x].spent = budget[x].spent /\ budget'[x].returned = budget[x].returned
           /\ Line(writes', e, ord, fill.pc)
<1>1. Book(budget, e) /\ Line(writes, e, ord, fill.pc) /\ DOMAIN budget \subseteq Bots
  <2>1. Book(budget, blame) /\ Line(writes, blame, ord, fill.pc)
    BY DEF Core, BooksOK, LineOK
  <2>2. Book(budget, e)
    BY <2>1, BookLater
  <2>3. Line(writes, e, ord, fill.pc)
    BY <2>1, LineKeeps
  <2> QED BY <2>2, <2>3 DEF Book
<1>2. \A x \in DOMAIN budget : e[x] = 0 =>
         /\ x # b
         /\ Held(resv', x) <= budget[x].reserved
         /\ c[x] = 0 => Held(resv', x) = budget[x].reserved
  <2> SUFFICES ASSUME NEW x \in DOMAIN budget, e[x] = 0
               PROVE  /\ x # b
                      /\ Held(resv', x) <= budget[x].reserved
                      /\ c[x] = 0 => Held(resv', x) = budget[x].reserved
    OBVIOUS
  <2>1. x \in Bots /\ x # b /\ blame[x] = 0
    BY <1>1
  <2>2. Held(resv, x) <= budget[x].reserved /\ (astray[x] = 0 => Held(resv, x) = budget[x].reserved)
    BY <2>1 DEF Core, HeldOK, HeldFit
  <2>3. CASE x = w
    <3>1. Held(resv', x) \in Nat /\ Held(resv, x) \in Nat /\ Held(resv', x) = Held(resv, x) - a
      BY <2>3 DEF Gone
    <3>2. budget[x].reserved \in Nat
      BY <1>1 DEF Book, Good, Record
    <3> QED BY <2>1, <2>2, <2>3, <3>1, <3>2
  <2>4. CASE x # w
    <3>1. Held(resv', x) = Held(resv, x)
      BY <2>4 DEF Gone
    <3> QED BY <2>1, <2>2, <3>1
  <2> QED BY <2>3, <2>4
<1>3. CASE UNCHANGED <<budget, writes>> /\ (b \in DOMAIN budget => a = 0)
  <2>1. budget' = budget /\ writes' = writes
    BY <1>3
  <2>2. HeldFit(resv', budget, c, e)
    BY <1>2 DEF HeldFit
  <2> QED BY <1>1, <2>1, <2>2
<1>4. CASE /\ b \in DOMAIN budget
           /\ budget' = With(budget, b, Released(budget[b], a))
           /\ writes' = Append(writes, Save(b, budget'[b], NoOrder, FALSE))
  <2> DEFINE bg == Released(budget[b], a)
  <2>1. b \in DOMAIN budget /\ budget' = With(budget, b, bg) /\ budget[b] \in Record
    BY <1>1, <1>4 DEF Book, Good
  <2>2. /\ bg \in Record /\ bg.allocated = budget[b].allocated
        /\ bg.spent = budget[b].spent /\ bg.returned = budget[b].returned
    BY <2>1, ReleasedIs
  <2> HIDE DEF bg
  <2>3. Good(bg, e[b])
    BY <2>1, <2>2 DEF Good
  <2>4. /\ Book(budget', e) /\ TotalAllocated(budget') = TotalAllocated(budget)
        /\ DOMAIN budget' = DOMAIN budget /\ budget'[b] = bg
        /\ \A x \in DOMAIN budget : x # b => budget'[x] = budget[x]
    BY <1>1, <2>1, <2>2, <2>3, TotalSame
  <2>5. HeldFit(resv', budget', c, e)
    BY <1>2, <2>4 DEF HeldFit
  <2>6. Line(writes', e, ord, fill.pc)
    <3>1. writes' = Append(writes, Save(b, bg, NoOrder, FALSE))
      BY <1>4, <2>4, Zenon
    <3>2. Line(Append(writes, Save(b, bg, NoOrder, FALSE)), e, ord, fill.pc)
      <4>1. FALSE \in BOOLEAN
        OBVIOUS
      <4> QED BY <1>1, <2>3, <4>1, SaveAppend, Zenon
    <3> QED BY <3>1, <3>2, Zenon
  <2>7. \A x \in DOMAIN budget :
           budget'[x].spent = budget[x].spent /\ budget'[x].returned = budget[x].returned
    BY <2>2, <2>4
  <2> QED BY <2>4, <2>5, <2>6, <2>7
<1> QED BY <1>3, <1>4 DEF Gives

\* What the history keeps of a of the reservations of w that b was given.
Told(b, w, a) ==
    LET foreign == b # w /\ a > 0
    IN  /\ gained' = gained \cup (IF foreign THEN {b} \cap DOMAIN budget ELSE {})
        /\ lost' = lost \cup (IF foreign THEN {w} ELSE {})

\* What the end of reservations of w, given to b, leaves of the books.
LEMMA GivesAny ==
    ASSUME Core, up, NEW b \in Bots, NEW w \in Bots, NEW a \in Nat, Gives(b, a), Gone(resv', w, a),
           Told(b, w, a), UNCHANGED <<crashes, errors>>
    PROVE  /\ DOMAIN budget' = DOMAIN budget /\ Book(budget', blame')
           /\ TotalAllocated(budget') = TotalAllocated(budget)
           /\ HeldFit(resv', budget', astray', blame')
           /\ \A x \in DOMAIN budget :
                 budget'[x].spent = budget[x].spent /\ budget'[x].returned = budget[x].returned
           /\ Line(writes', blame', ord, fill.pc)
           /\ \A x \in Bots : blame'[x] = 0 => blame[x] = 0
<1>1. CASE b = w \/ a = 0
  <2>1. gained' = gained /\ lost' = lost
    BY <1>1 DEF Told
  <2>2. blame' = blame /\ astray' = astray
    BY <2>1 DEF blame, astray
  <2>3. Gone(resv', b, a)
    <3>1. CASE b = w
      BY <3>1
    <3>2. CASE b # w
      <4>1. a = 0
        BY <1>1, <3>2
      <4>2. Held(resv', w) = Held(resv, w)
        BY <4>1 DEF Gone
      <4>3. \A x : Held(resv', x) = Held(resv, x)
        BY <4>2 DEF Gone
      <4>4. Held(resv, b) \in Nat
        <5>1. IsFiniteSet(DOMAIN resv) /\ \A p \in DOMAIN resv : resv[p] \in Nat
          BY DEF Core, ResvOK, ResvFit
        <5> QED BY <5>1, HeldWithout
      <4>5. Held(resv', b) \in Nat /\ Held(resv', b) = Held(resv, b) - a
        BY <4>1, <4>3, <4>4
      <4> QED BY <4>3, <4>4, <4>5 DEF Gone
    <3> QED BY <3>1, <3>2
  <2>4. /\ DOMAIN budget' = DOMAIN budget /\ Book(budget', blame)
        /\ TotalAllocated(budget') = TotalAllocated(budget)
        /\ HeldFit(resv', budget', astray, blame)
        /\ \A x \in DOMAIN budget :
              budget'[x].spent = budget[x].spent /\ budget'[x].returned = budget[x].returned
        /\ Line(writes', blame, ord, fill.pc)
    BY <2>3, GivesBooks
  <2> QED BY <2>2, <2>4
<1>2. CASE b # w /\ a > 0
  <2>1. gained' = gained \cup ({b} \cap DOMAIN budget) /\ lost' = lost \cup {w}
    BY <1>2 DEF Told
  <2>2. \A x \in Bots : blame'[x] = 0 => blame[x] = 0 /\ (x = b => b \notin DOMAIN budget)
    BY <2>1 DEF blame
  <2>3. \A x \in Bots : astray'[x] = 0 => astray[x] = 0 /\ x # w
    BY <2>1 DEF astray
  <2> QED BY <2>2, <2>3, GivesForeign
<1>3. (b = w \/ a = 0) \/ (b # w /\ a > 0)
  OBVIOUS
<1> QED BY <1>1, <1>2, <1>3

\* The order whose reservation is given back, if any, ends.
LEMMA GivesKeeps ==
    ASSUME Core, up, NEW b \in Bots, NEW w \in Bots, NEW a \in Nat, Gives(b, a), Gone(resv', w, a),
           Told(b, w, a), ord' \in [Orders -> Statuses],
           \A o \in Orders : ord'[o] # ord[o] => ord[o] = "approved" /\ ord'[o] = "ended",
           \A o \in DOMAIN resv' : ord'[o] = ord[o],
           UNCHANGED <<mix, balance, unallocated, fill, up, database, outbox, crashes, errors, others, limit>>
    PROVE  Core'
<1>1. /\ balance' = balance /\ unallocated' = unallocated
      /\ mix' = mix /\ fill' = fill /\ up' = up
      /\ row' = row /\ stored' = stored /\ keys' = keys
      /\ events' = events /\ next' = next /\ direct' = direct
      /\ crashes' = crashes /\ errors' = errors /\ others' = others /\ limit' = limit
  BY DEF database, outbox
<1>2. /\ DOMAIN budget' = DOMAIN budget /\ Book(budget', blame')
      /\ TotalAllocated(budget') = TotalAllocated(budget)
      /\ HeldFit(resv', budget', astray', blame')
      /\ \A c \in DOMAIN budget :
            budget'[c].spent = budget[c].spent /\ budget'[c].returned = budget[c].returned
      /\ Line(writes', blame', ord, fill.pc)
      /\ \A x \in Bots : blame'[x] = 0 => blame[x] = 0
  BY <1>1, GivesAny
<1>3. TypesOK' /\ AllocatedOK' /\ LimitOK' /\ HeldOK'
  BY <1>1, <1>2 DEF Core, TypesOK, AllocatedOK, LimitOK, HeldOK
<1>4. OrdersOK'
  <2>1. \A o \in Orders : ord[o] = "approved" => o \in mix
    BY DEF Core, OrdersOK, OrdersFit
  <2>2. OrdersFit(mix, ord', events, direct)
    BY <2>1, OrdersKeep DEF Core, OrdersOK
  <2> QED BY <1>1, <2>2 DEF OrdersOK
<1>5. ResvOK'
  BY <1>2 DEF Gone, ResvOK, ResvFit
<1>6. LineOK'
  <2>1. Line(writes', blame', ord', fill.pc)
    BY <1>2, LineKeeps
  <2> QED BY <1>1, <2>1 DEF LineOK
<1>7. FillOK'
  BY <1>1, <1>2 DEF Core, FillOK, FillFit
<1>8. SettledFills' = SettledFills /\ Bot' = Bot
  BY <1>1 DEF SettledFills, Bot, Event
<1>9. SettledOK'
  BY <1>1, <1>2, <1>8, SettledKeep DEF Core, SettledOK
<1>10. CoverOK'
  <2>1. CoverFit(resv, limit, events, SettledFills) => CoverFit(resv', limit, events, SettledFills)
    BY CoverKeep DEF Gone
  <2> QED BY <1>1, <1>8, <2>1 DEF Core, CoverOK
<1>11. EndedOK'
  <2>1. EndedFit(resv, ord, events, next, fill.pc) => EndedFit(resv', ord', events, next, fill.pc)
    BY DEF Gone, EndedFit
  <2> QED BY <1>1, <2>1 DEF Core, EndedOK
<1>12. BooksOK'
  <2>1. Book(row, blame')
    BY <1>2, BookLater DEF Core, BooksOK
  <2>2. fill.pc = "settled" => Good(fill.staged, blame'[Bot])
    BY <1>2, BotIs DEF Core, BooksOK, Good
  <2> QED BY <1>1, <1>2, <1>8, <2>1, <2>2 DEF BooksOK
<1> QED BY <1>3, <1>4, <1>5, <1>6, <1>7, <1>9, <1>10, <1>11, <1>12 DEF Core

\* The end of an order, which releases its reservation to the bot the event names, keeps
\* the invariant.
LEMMA OrderEndsKeeps ==
    ASSUME Core, NEW o \in Orders, NEW b \in Bots, OrderEnds(o, b), UNCHANGED limit
    PROVE  Core'
<1> DEFINE w == BotOf[o]
           a == Remaining(o)
<1>1. /\ up /\ ord[o] = "approved" /\ ord' = [ord EXCEPT ![o] = "ended"]
      /\ resv' = Without(resv, o)
      /\ UNCHANGED <<mix, balance, unallocated, fill, up, database, outbox, crashes, errors, others, limit>>
  BY DEF OrderEnds, Ready
<1>2. ord \in [Orders -> Statuses]
  BY DEF Core, OrdersOK, OrdersFit
<1>3. ord' \in [Orders -> Statuses] /\ ord'[o] = "ended" /\ \A p \in Orders : p # o => ord'[p] = ord[p]
  BY <1>1, <1>2 DEF Statuses
<1>4. ResvFit(resv, ord, budget)
  BY DEF Core, ResvOK
<1>5. a \in Nat /\ (o \in DOMAIN resv => a = resv[o]) /\ (o \notin DOMAIN resv => a = 0)
  BY <1>4 DEF Remaining, ResvFit
<1> HIDE DEF a
<1>6. Gives(b, a)
  <2>1. CASE b \in DOMAIN budget /\ Remaining(o) > 0
    <3>1. /\ budget' = With(budget, b, Released(budget[b], Remaining(o)))
          /\ writes' = Append(writes, Save(b, budget'[b], NoOrder, FALSE))
      BY <2>1 DEF OrderEnds
    <3> QED BY <2>1, <3>1, Zenon DEF Gives, a
  <2>2. CASE ~(b \in DOMAIN budget /\ Remaining(o) > 0)
    <3>1. budget' = budget /\ writes' = writes
      BY <2>2 DEF OrderEnds
    <3>2. b \in DOMAIN budget => a = 0
      BY <1>5, <2>2 DEF a
    <3> QED BY <3>1, <3>2 DEF Gives
  <2> QED BY <2>1, <2>2
<1>7. DOMAIN resv' = DOMAIN resv \ {o} /\ (\A p \in DOMAIN resv \ {o} : resv'[p] = resv[p])
  BY <1>1, WithoutIs
<1>8. Gone(resv', w, a)
  <2>1. IsFiniteSet(DOMAIN resv) /\ \A p \in DOMAIN resv : resv[p] \in Nat
    BY <1>4 DEF ResvFit
  <2>2. \A x : /\ Held(resv, x) \in Nat /\ Held(resv', x) \in Nat
               /\ Held(resv', x) = IF BotOf[o] = x THEN Held(resv, x) - (IF o \in DOMAIN resv THEN resv[o] ELSE 0)
                                                   ELSE Held(resv, x)
    BY <1>1, <2>1, HeldWithout
  <2>3. ResvFit(resv', ord, budget)
    BY <1>1, <1>4, ResvWithout
  <2> QED BY <1>5, <1>7, <2>2, <2>3 DEF Gone
<1>9. \A p \in DOMAIN resv' : ord'[p] = ord[p]
  BY <1>3, <1>4, <1>7 DEF ResvFit
<1>10. Told(b, w, a)
  <2>1. LET foreign == b # BotOf[o] /\ Remaining(o) > 0
        IN  /\ gained' = gained \cup (IF foreign THEN {b} \cap DOMAIN budget ELSE {})
            /\ lost' = lost \cup (IF foreign THEN {BotOf[o]} ELSE {})
    BY DEF OrderEnds
  <2> QED BY <2>1, Zenon DEF Told, a
<1>11. w \in Bots
  BY OrdersAssumption
<1> HIDE DEF w
<1> QED BY <1>1, <1>3, <1>5, <1>6, <1>8, <1>9, <1>10, <1>11, GivesKeeps

\* The stop of a bot, which releases all its reservations, keeps the invariant.
LEMMA BotStoppedKeeps ==
    ASSUME Core, NEW b \in Bots, BotStopped(b), UNCHANGED limit
    PROVE  Core'
<1> DEFINE pending == {o \in DOMAIN resv : BotOf[o] = b}
           a == Held(resv, b)
<1>1. /\ up /\ ord' = ord /\ resv' = Restrict(resv, DOMAIN resv \ pending)
      /\ UNCHANGED <<mix, balance, unallocated, fill, up, database, outbox, crashes, errors, others, limit>>
      /\ gained' = gained /\ lost' = lost
  BY DEF BotStopped, Ready, crossed
<1>2. ResvFit(resv, ord, budget) /\ ord \in [Orders -> Statuses]
  BY DEF Core, ResvOK, OrdersOK, OrdersFit
<1>3. IsFiniteSet(DOMAIN resv) /\ \A p \in DOMAIN resv : resv[p] \in Nat
  BY <1>2 DEF ResvFit
<1>4. a \in Nat
  BY <1>3, HeldWithout
<1>5. Gives(b, a)
  <2>1. pending = {} => a = 0
    BY HeldNothing
  <2> HIDE DEF a
  <2> QED BY <2>1 DEF BotStopped, Gives, a
<1>6. DOMAIN resv' = {p \in DOMAIN resv : BotOf[p] # b} /\ \A p \in DOMAIN resv' : resv'[p] = resv[p]
  BY <1>1 DEF Restrict
<1>7. Gone(resv', b, a)
  <2>1. Held(resv', b) = 0 /\ \A c : c # b => Held(resv', c) = Held(resv, c)
    <3> DEFINE q == resv'
    <3>1. DOMAIN q = {p \in DOMAIN resv : BotOf[p] # b} /\ \A p \in DOMAIN q : q[p] = resv[p]
      BY <1>6
    <3> HIDE DEF q, a, pending
    <3>2. Held(q, b) = 0 /\ \A c : c # b => Held(q, c) = Held(resv, c)
      BY ONLY <1>3, <3>1, HeldReleased
    <3> QED BY <3>2 DEF q
  <2>2. ResvFit(resv', ord, budget)
    BY <1>1, <1>2, ResvLess
  <2> QED BY <1>4, <1>6, <2>1, <2>2 DEF Gone
<1>8. Told(b, b, a)
  BY <1>1 DEF Told
<1> HIDE DEF a
<1> QED BY <1>1, <1>2, <1>4, <1>5, <1>7, <1>8, GivesKeeps

\* _save_state joins the line.
LEMMA StateAppend ==
    ASSUME NEW ws, NEW e, NEW od, NEW pc, Line(ws, e, od, pc), NEW c \in Int, NEW more \in BOOLEAN
    PROVE  Line(Append(ws, SaveState(c, more)), e, od, pc)
<1> DEFINE w == SaveState(c, more)
<1>1. w \in Message /\ w.kind = "state"
  BY SaveStateIs
<1> HIDE DEF w
<1>2. Line(Append(ws, w), e, od, pc)
  BY <1>1, LineAppend
<1> QED BY <1>2 DEF w

\* A write that succeeds keeps the invariant.
LEMMA WriteKeeps ==
    ASSUME Core, Write, UNCHANGED limit
    PROVE  Core'
<1> DEFINE w == Head(writes)
<1>1. /\ up /\ writes # <<>> /\ balance' = balance /\ unallocated' = unallocated
      /\ mix' = mix /\ budget' = budget /\ resv' = resv /\ fill' = fill /\ up' = up
      /\ keys' = keys /\ events' = events /\ next' = next /\ direct' = direct
      /\ crashes' = crashes /\ errors' = errors /\ others' = others /\ limit' = limit
      /\ blame' = blame /\ astray' = astray
  BY DEF Write, LockFree, memory, outbox, crossed, blame, astray
<1>2. Line(writes, blame, ord, fill.pc) /\ ord \in [Orders -> Statuses] /\ balance \in Int
  BY DEF Core, LineOK, OrdersOK, OrdersFit, TypesOK
<1>3. /\ w \in Message
      /\ w.kind = "budget" => Good(w.val, blame[w.bot])
      /\ w.kind = "budget" /\ w.order # NoOrder =>
           /\ ord[w.order] = "reserving"
           /\ \A i \in DOMAIN Tail(writes) : Tail(writes)[i].kind = "budget" => Tail(writes)[i].order # w.order
      /\ Line(Tail(writes), blame, ord, fill.pc)
  BY <1>1, <1>2, LineTail
<1>4. /\ w.kind = "budget" => w.bot \in Bots /\ w.order \in Orders \cup {NoOrder}
      /\ w.kind = "state" => w.val \in Int
  BY <1>3, MessageIs
<1>5. \/ /\ w.kind = "budget" /\ row' = With(row, w.bot, w.val) /\ stored' = stored
         /\ ord' = IF w.order = NoOrder THEN ord ELSE [ord EXCEPT ![w.order] = "approved"]
         /\ writes' = Tail(writes) \o (IF w.more THEN <<SaveState(balance, FALSE)>> ELSE <<>>)
      \/ /\ w.kind = "state" /\ stored' = w.val /\ row' = row /\ ord' = ord
         /\ writes' \in {Tail(writes)} \cup SyncRest(w)
  BY DEF Write
<1>6. writes' = Tail(writes) \/ writes' = Append(Tail(writes), SaveState(balance, FALSE))
  <2>1. CASE w.kind = "budget"
    <3>1. Tail(writes) \in Seq(Message)
      BY <1>3 DEF Line
    <3>2. Tail(writes) \o <<>> = Tail(writes)
      BY <3>1, ConcatEmptySeq
    <3>3. SaveState(balance, FALSE) \in Message
      BY <1>2, SaveStateIs
    <3>4. Tail(writes) \o <<SaveState(balance, FALSE)>> = Append(Tail(writes), SaveState(balance, FALSE))
      BY <3>1, <3>3, AppendIsConcat
    <3>5. CASE w.more
      BY <1>5, <2>1, <3>4, <3>5
    <3>6. CASE ~w.more
      BY <1>5, <2>1, <3>2, <3>6
    <3> QED BY <3>5, <3>6
  <2>2. CASE w.kind # "budget"
    BY <1>5, <2>2 DEF SyncRest
  <2> QED BY <2>1, <2>2
<1> HIDE DEF w
<1>7. /\ ord' \in [Orders -> Statuses]
      /\ \A p \in Orders : ord'[p] # ord[p] =>
            ord[p] = "reserving" /\ ord'[p] = "approved" /\ w.kind = "budget" /\ w.order = p
  <2>1. CASE w.kind = "budget" /\ w.order # NoOrder
    BY <1>2, <1>3, <1>4, <1>5, <2>1 DEF Statuses
  <2>2. CASE ~(w.kind = "budget" /\ w.order # NoOrder)
    BY <1>2, <1>5, <2>2
  <2> QED BY <2>1, <2>2
<1>8. TypesOK'
  BY <1>1, <1>4, <1>5 DEF Core, TypesOK
<1>9. OrdersOK'
  <2>1. \A p \in Orders : ord[p] = "reserving" => p \in mix
    BY DEF Core, OrdersOK, OrdersFit
  <2>2. OrdersFit(mix, ord', events, direct)
    BY <1>7, <2>1, OrdersKeep DEF Core, OrdersOK
  <2> QED BY <1>1, <2>2 DEF OrdersOK
<1>10. BooksOK'
  <2>1. Book(row, blame)
    BY DEF Core, BooksOK
  <2>2. Book(row', blame)
    BY <1>3, <1>4, <1>5, <2>1, BookWith
  <2> QED BY <1>1, <2>2 DEF Core, BooksOK, Bot, Event
<1>11. AllocatedOK' /\ HeldOK' /\ FillOK' /\ LimitOK'
  BY <1>1 DEF Core, AllocatedOK, HeldOK, FillOK, LimitOK
<1>12. SettledOK' /\ CoverOK'
  BY <1>1 DEF Core, SettledOK, CoverOK, SettledFills, Bot, Event
<1>13. DOMAIN resv \subseteq Orders /\ \A p \in DOMAIN resv : ord[p] # "new" /\ ord'[p] # "new"
  BY <1>7 DEF Core, ResvOK, ResvFit
<1>14. ResvOK'
  BY <1>1, <1>13 DEF Core, ResvOK, ResvFit
<1>15. LineOK'
  <2> DEFINE ws == Tail(writes)
  <2>1. ASSUME NEW i \in DOMAIN ws
        PROVE  /\ ws[i].kind = "budget" /\ ws[i].order # NoOrder => ord'[ws[i].order] = "reserving"
               /\ ws[i].kind = "fill" => fill.pc = "waiting"
    <3>1. ws[i] \in Message
      BY <1>3 DEF Line
    <3> HIDE DEF ws
    <3>2. ws[i].kind = "budget" /\ ws[i].order # NoOrder =>
             ws[i].order \in Orders /\ ord[ws[i].order] = "reserving"
      BY <1>3, <3>1, MessageIs DEF Line, ws
    <3>3. w.kind = "budget" /\ w.order # NoOrder /\ ws[i].kind = "budget" => ws[i].order # w.order
      BY <1>3 DEF ws
    <3>4. ws[i].kind = "fill" => fill.pc = "waiting"
      BY <1>3 DEF Line, ws
    <3> QED BY <1>7, <3>2, <3>3, <3>4
  <2>2. Line(ws, blame, ord, fill.pc)
    BY <1>3
  <2> HIDE DEF ws
  <2>3. Line(ws, blame, ord', fill.pc)
    BY <2>1, <2>2, LineChanges
  <2>4. FALSE \in BOOLEAN
    OBVIOUS
  <2>5. Line(Append(ws, SaveState(balance, FALSE)), blame, ord', fill.pc)
    BY <1>2, <2>3, <2>4, StateAppend, Zenon
  <2>6. Line(writes', blame, ord', fill.pc)
    BY <1>6, <2>3, <2>5, Zenon DEF ws
  <2> QED BY ONLY <1>1, <2>6 DEF LineOK
<1>16. EndedOK'
  <2>1. \A p \in DOMAIN resv : ord'[p] = "ended" => ord[p] = "ended"
    BY <1>7, <1>13
  <2> QED BY <1>1, <2>1 DEF Core, EndedOK, EndedFit
<1> QED BY <1>8, <1>9, <1>10, <1>11, <1>12, <1>14, <1>15, <1>16 DEF Core

\* A write that fails keeps the invariant.
LEMMA WriteFailsKeeps ==
    ASSUME Core, WriteFails, UNCHANGED limit
    PROVE  Core'
<1> DEFINE w == Head(writes)
<1>1. /\ up /\ writes # <<>> /\ balance' = balance /\ unallocated' = unallocated
      /\ mix' = mix /\ budget' = budget /\ resv' = resv /\ fill' = fill /\ up' = up
      /\ row' = row /\ stored' = stored
      /\ keys' = keys /\ events' = events /\ next' = next /\ direct' = direct
      /\ crashes' = crashes /\ errors' = errors + 1 /\ others' = others /\ limit' = limit
      /\ writes' = Tail(writes)
  BY DEF WriteFails, LockFree, memory, database, outbox
<1>2. Line(writes, blame, ord, fill.pc) /\ ord \in [Orders -> Statuses] /\ errors \in Nat /\ crashes \in Nat
  BY DEF Core, LineOK, OrdersOK, OrdersFit, TypesOK
<1>3. errors' # 0 /\ crashes' + errors' # 0 /\ errors' \in Nat
  BY <1>1, <1>2
<1>4. /\ w \in Message
      /\ w.kind = "budget" /\ w.order # NoOrder =>
           /\ ord[w.order] = "reserving"
           /\ \A i \in DOMAIN Tail(writes) : Tail(writes)[i].kind = "budget" => Tail(writes)[i].order # w.order
      /\ Line(Tail(writes), blame, ord, fill.pc)
  BY <1>1, <1>2, LineTail
<1>5. w.kind = "budget" => w.order \in Orders \cup {NoOrder}
  BY <1>4, MessageIs
<1>6. ord' = IF w.kind = "budget" /\ w.order # NoOrder THEN [ord EXCEPT ![w.order] = "ended"] ELSE ord
  BY DEF WriteFails
<1> HIDE DEF w
<1>7. /\ ord' \in [Orders -> Statuses]
      /\ \A p \in Orders : ord'[p] # ord[p] =>
            ord[p] = "reserving" /\ ord'[p] = "ended" /\ w.kind = "budget" /\ w.order = p
  <2>1. CASE w.kind = "budget" /\ w.order # NoOrder
    BY <1>2, <1>4, <1>5, <1>6, <2>1 DEF Statuses
  <2>2. CASE ~(w.kind = "budget" /\ w.order # NoOrder)
    BY <1>2, <1>6, <2>2
  <2> QED BY <2>1, <2>2
<1>8. TypesOK'
  BY <1>1, <1>3 DEF Core, TypesOK
<1>9. OrdersOK'
  <2>1. \A p \in Orders : ord[p] = "reserving" => p \in mix
    BY DEF Core, OrdersOK, OrdersFit
  <2>2. OrdersFit(mix, ord', events, direct)
    BY <1>7, <2>1, OrdersKeep DEF Core, OrdersOK
  <2> QED BY <1>1, <2>2 DEF OrdersOK
<1>16. \A b \in Bots : blame'[b] # 0
  BY <1>3 DEF blame
<1>10. BooksOK'
  <2>1. Book(budget, blame') /\ Book(row, blame')
    BY <1>16, BookLater DEF Core, BooksOK
  <2>2. fill.pc = "settled" => Good(fill.staged, blame'[Bot])
    BY <1>16, BotIs DEF Core, BooksOK, Good
  <2> QED BY <1>1, <2>1, <2>2 DEF BooksOK, Bot, Event
<1>17. HeldOK'
  <2>1. DOMAIN budget' \subseteq Bots
    BY <1>1 DEF Core, BooksOK, Book
  <2> QED BY <1>16, <2>1 DEF HeldOK, HeldFit
<1>11. AllocatedOK' /\ CoverOK' /\ EndedOK'
  BY <1>3 DEF AllocatedOK, CoverOK, EndedOK
<1>12. FillOK' /\ LimitOK'
  BY <1>1, <1>3 DEF Core, FillOK, FillFit, LimitOK
<1>13. SettledOK'
  BY <1>1 DEF Core, SettledOK, SettledFills, Bot, Event
<1>14. ResvOK'
  <2>1. DOMAIN resv \subseteq Orders /\ \A p \in DOMAIN resv : ord[p] # "new" /\ ord'[p] # "new"
    BY <1>7 DEF Core, ResvOK, ResvFit
  <2> QED BY <1>1, <2>1 DEF Core, ResvOK, ResvFit
<1>15. LineOK'
  <2> DEFINE ws == Tail(writes)
  <2>1. ASSUME NEW i \in DOMAIN ws
        PROVE  /\ ws[i].kind = "budget" /\ ws[i].order # NoOrder => ord'[ws[i].order] = "reserving"
               /\ ws[i].kind = "fill" => fill.pc = "waiting"
    <3>1. ws[i] \in Message
      BY <1>4 DEF Line
    <3> HIDE DEF ws
    <3>2. ws[i].kind = "budget" /\ ws[i].order # NoOrder =>
             ws[i].order \in Orders /\ ord[ws[i].order] = "reserving"
      BY <1>4, <3>1, MessageIs DEF Line, ws
    <3>3. w.kind = "budget" /\ w.order # NoOrder /\ ws[i].kind = "budget" => ws[i].order # w.order
      BY <1>4 DEF ws
    <3>4. ws[i].kind = "fill" => fill.pc = "waiting"
      BY <1>4 DEF Line, ws
    <3> QED BY <1>7, <3>2, <3>3, <3>4
  <2>2. Line(ws, blame, ord, fill.pc)
    BY <1>4
  <2> HIDE DEF ws
  <2>3. Line(ws, blame', ord', fill.pc)
    BY <1>16, <2>1, <2>2, LineChanges
  <2> QED BY <1>1, <2>3 DEF LineOK, ws
<1> QED BY <1>8, <1>9, <1>10, <1>11, <1>12, <1>13, <1>14, <1>15, <1>17 DEF Core

-----------------------------------------------------------------------------
(* Every step of a fill keeps it *)

\* What the fills of a bot cost is a number.
LEMMA ChargedIs ==
    ASSUME NEW ev, NEW K, IsFiniteSet(K), NEW b, NEW S, Costed(ev, K)
    PROVE  Charged(ev, K, b, S) \in Int
<1> DEFINE f == [i \in K |-> ev[i].cost]
           U == {i \in K : BotOf[ev[i].order] = b /\ ev[i].order \in S}
<1>1. IsFiniteSet(U) /\ Numbers(f, U)
  BY FS_Subset DEF Numbers, Costed
<1>2. Charged(ev, K, b, S) = SumFunctionOnSet(f, U)
  BY DEF Charged
<1> HIDE DEF f, U
<1> QED BY <1>1, <1>2, SumRemove

\* What the direct fills of a bot cost is a number.
LEMMA DirectIs ==
    ASSUME NEW d, IsFiniteSet(DOMAIN d), \A o \in DOMAIN d : d[o] \in Nat, NEW b, NEW S
    PROVE  Direct(d, b, S) \in Int
<1> DEFINE U == {o \in DOMAIN d \cap S : BotOf[o] = b}
<1>1. IsFiniteSet(U) /\ Numbers(d, U)
  BY FS_Subset DEF Numbers
<1>2. Direct(d, b, S) = SumFunctionOnSet(d, U)
  BY DEF Direct
<1> HIDE DEF U
<1> QED BY <1>1, <1>2, SumRemove

\* bg is what a buy, or a sell, of o at cost makes of old.
Paid(bg, old, o, cost) ==
    /\ bg.spent = old.spent + (IF o \in Sells THEN 0 ELSE cost)
    /\ bg.returned = old.returned + (IF o \in Sells THEN cost ELSE 0)

\* A direct fill that is paid is accounted for.
LEMMA DirectSettles ==
    ASSUME NEW bs, NEW ev, NEW K, NEW d, SettledFit(bs, ev, K, d),
           IsFiniteSet(K), Costed(ev, K),
           IsFiniteSet(DOMAIN d), \A p \in DOMAIN d : d[p] \in Nat,
           NEW o \in Orders, o \notin DOMAIN d, NEW cost \in Nat,
           BotOf[o] \in DOMAIN bs, NEW bg, Paid(bg, bs[BotOf[o]], o, cost)
    PROVE  SettledFit(With(bs, BotOf[o], bg), ev, K, With(d, o, cost))
<1> DEFINE n == With(bs, BotOf[o], bg)
           e == With(d, o, cost)
<1>1. /\ DOMAIN n = DOMAIN bs /\ n[BotOf[o]] = bg
      /\ \A x \in DOMAIN bs : x # BotOf[o] => n[x] = bs[x]
  BY DEF With
<1>2. DOMAIN e = DOMAIN d \cup {o}
  BY DEF With
<1>3. \A x, S : /\ Direct(d, x, S) \in Int
                /\ Direct(e, x, S) = Direct(d, x, S) + (IF BotOf[o] = x /\ o \in S THEN cost ELSE 0)
  BY DirectAdds
<1>4. \A x, S : Charged(ev, K, x, S) \in Int
  BY ChargedIs
<1> HIDE DEF n, e
<1>5. ASSUME NEW x \in DOMAIN n PROVE Matches(n[x], ev, K, e, x)
  <2>1. Matches(bs[x], ev, K, d, x)
    BY <1>1 DEF SettledFit
  <2>2. CASE x # BotOf[o]
    <3>1. \A S : Direct(e, x, S) = Direct(d, x, S)
      BY <1>3, <2>2
    <3> QED BY <1>1, <2>1, <2>2, <3>1 DEF Matches
  <2>3. CASE x = BotOf[o]
    <3>1. /\ Direct(e, x, Sells) = Direct(d, x, Sells) + (IF o \in Sells THEN cost ELSE 0)
          /\ Direct(e, x, Orders \ Sells) = Direct(d, x, Orders \ Sells) + (IF o \in Sells THEN 0 ELSE cost)
      BY <1>3, <2>3
    <3>2. /\ Direct(d, x, Sells) \in Int /\ Direct(d, x, Orders \ Sells) \in Int
          /\ Charged(ev, K, x, Sells) \in Int /\ Charged(ev, K, x, Orders \ Sells) \in Int
      BY <1>3, <1>4
    <3>3. n[x] = bg /\ Paid(bg, bs[x], o, cost)
      BY <1>1, <2>3
    <3> QED BY <2>1, <3>1, <3>2, <3>3 DEF Matches, Paid
  <2> QED BY <2>2, <2>3
<1>6. SettledFit(n, ev, K, e)
  BY <1>1, <1>2, <1>5 DEF SettledFit
<1> QED BY <1>6 DEF n, e

\* A fill that is paid is accounted for once it is settled.
LEMMA EventSettles ==
    ASSUME NEW bs, NEW ev, NEW K, NEW d, SettledFit(bs, ev, K, d),
           IsFiniteSet(K), NEW k, k \notin K, Costed(ev, K \cup {k}),
           IsFiniteSet(DOMAIN d), \A p \in DOMAIN d : d[p] \in Nat,
           ev[k].order \in Orders, BotOf[ev[k].order] \in DOMAIN bs,
           NEW bg, Paid(bg, bs[BotOf[ev[k].order]], ev[k].order, ev[k].cost)
    PROVE  SettledFit(With(bs, BotOf[ev[k].order], bg), ev, K \cup {k}, d)
<1> DEFINE o == ev[k].order
           cost == ev[k].cost
           b == BotOf[o]
           n == With(bs, b, bg)
           L == K \cup {k}
<1>1. DOMAIN n = DOMAIN bs /\ n[b] = bg /\ \A x \in DOMAIN bs : x # b => n[x] = bs[x]
  BY DEF With
<1>2. \A x, S : /\ Charged(ev, K, x, S) \in Int
                /\ Charged(ev, L, x, S) = Charged(ev, K, x, S) + (IF b = x /\ o \in S THEN cost ELSE 0)
  BY ChargedAdds
<1>3. \A x, S : Direct(d, x, S) \in Int
  BY DirectIs
<1>4. cost \in Nat /\ Paid(bg, bs[b], o, cost) /\ o \in Orders /\ b \in DOMAIN bs /\ b = BotOf[ev[k].order]
  BY DEF Costed
<1> HIDE DEF n, o, cost, b
<1>5. ASSUME NEW x \in DOMAIN n PROVE Matches(n[x], ev, L, d, x)
  <2>1. Matches(bs[x], ev, K, d, x)
    BY <1>1 DEF SettledFit
  <2>2. CASE x # b
    <3> HIDE DEF L
    <3>1. \A S : Charged(ev, L, x, S) = Charged(ev, K, x, S)
      BY <1>2, <2>2
    <3> QED BY <1>1, <2>1, <2>2, <3>1 DEF Matches
  <2>3. CASE x = b
    <3>1. /\ Charged(ev, L, x, Sells) = Charged(ev, K, x, Sells) + (IF o \in Sells THEN cost ELSE 0)
          /\ Charged(ev, L, x, Orders \ Sells) = Charged(ev, K, x, Orders \ Sells) + (IF o \in Sells THEN 0 ELSE cost)
      BY <1>2, <1>4, <2>3
    <3>2. /\ Direct(d, x, Sells) \in Int /\ Direct(d, x, Orders \ Sells) \in Int
          /\ Charged(ev, K, x, Sells) \in Int /\ Charged(ev, K, x, Orders \ Sells) \in Int
      BY <1>2, <1>3
    <3>3. n[x] = bg /\ Paid(bg, bs[x], o, cost)
      BY <1>1, <1>4, <2>3
    <3> HIDE DEF L
    <3> QED BY <1>4, <2>1, <3>1, <3>2, <3>3 DEF Matches, Paid
  <2> QED BY <2>2, <2>3
<1>6. \A i \in L : BotOf[ev[i].order] \in DOMAIN n
  BY <1>1, <1>4 DEF SettledFit
<1> HIDE DEF L
<1>7. SettledFit(n, ev, L, d)
  BY <1>1, <1>5, <1>6 DEF SettledFit
<1> QED BY <1>7 DEF n, L, b, o

\* A budget that is put back to the snapshot accounts for the fills before it.
LEMMA RollbackSettles ==
    ASSUME NEW bs, NEW ev, NEW K, NEW L, NEW d, NEW k, SettledFit(bs, ev, L, d),
           L = K \/ L = K \cup {k}, IsFiniteSet(K), Costed(ev, K \cup {k}),
           NEW b \in DOMAIN bs, b = BotOf[ev[k].order], NEW bg, Matches(bg, ev, K, d, b)
    PROVE  SettledFit(With(bs, b, bg), ev, K, d)
<1> DEFINE n == With(bs, b, bg)
<1>1. DOMAIN n = DOMAIN bs /\ n[b] = bg /\ \A x \in DOMAIN bs : x # b => n[x] = bs[x]
  BY DEF With
<1>2. ASSUME NEW x, x # b, NEW S PROVE Charged(ev, L, x, S) = Charged(ev, K, x, S)
  <2>1. CASE L = K
    BY <2>1
  <2>2. CASE L = K \cup {k} /\ k \notin K
    <3>1. /\ Charged(ev, K, x, S) \in Int
          /\ Charged(ev, K \cup {k}, x, S) =
               Charged(ev, K, x, S) + (IF BotOf[ev[k].order] = x /\ ev[k].order \in S THEN ev[k].cost ELSE 0)
      BY <2>2, ChargedAdds
    <3> QED BY <1>2, <2>2, <3>1
  <2>3. CASE L = K \cup {k} /\ k \in K
    <3>1. L = K
      BY <2>3
    <3> QED BY <3>1
  <2> QED BY <2>1, <2>2, <2>3
<1> HIDE DEF n
<1>3. ASSUME NEW x \in DOMAIN n PROVE Matches(n[x], ev, K, d, x)
  <2>1. CASE x = b
    BY <1>1, <2>1
  <2>2. CASE x # b
    <3>1. Matches(bs[x], ev, L, d, x)
      BY <1>1 DEF SettledFit
    <3> QED BY <1>1, <1>2, <2>2, <3>1 DEF Matches
  <2> QED BY <2>1, <2>2
<1>4. \A i \in K : i \in L
  OBVIOUS
<1>5. SettledFit(n, ev, K, d)
  BY <1>1, <1>3, <1>4 DEF SettledFit
<1> QED BY <1>5 DEF n

\* ev1 has one more event, a fill of o.
Recorded(ev, ev1, o, cost) ==
    LET n == Len(ev) + 1
    IN  /\ ev1 \in Seq([order : Orders \ Virtual, cost : Nat]) /\ Len(ev1) = n /\ n \in Nat \ {0}
        /\ ev1[n].order = o /\ ev1[n].cost = cost /\ \A i \in 1..Len(ev) : ev1[i] = ev[i]
        /\ FillsIn(ev1, o) = FillsIn(ev, o) \cup {n} /\ n \notin FillsIn(ev, o)
        /\ \A p : p # o => FillsIn(ev1, p) = FillsIn(ev, p)
        /\ Cardinality(FillsIn(ev1, o)) = Cardinality(FillsIn(ev, o)) + 1
        /\ Cardinality(FillsIn(ev, o)) \in Nat

\* What one fill more changes in the log.
LEMMA EventAppend ==
    ASSUME NEW mx, NEW od, NEW ev, NEW d, OrdersFit(mx, od, ev, d), NEW o \in Orders \ Virtual, NEW cost \in Nat
    PROVE  Recorded(ev, Append(ev, [order |-> o, cost |-> cost]), o, cost)
<1> DEFINE E == [order : Orders \ Virtual, cost : Nat]
           e == [order |-> o, cost |-> cost]
           ev1 == Append(ev, e)
           n == Len(ev) + 1
<1>1. e \in E /\ e.order = o /\ e.cost = cost
  OBVIOUS
<1>2. ev \in Seq(E)
  BY DEF OrdersFit
<1> HIDE DEF E, e
<1>3. /\ ev1 \in Seq(E) /\ Len(ev1) = n /\ n \in Nat \ {0} /\ ev1[n] = e
      /\ \A i \in 1..Len(ev) : ev1[i] = ev[i]
  BY <1>1, <1>2, AppendProperties, LenProperties
<1>4. Len(ev) \in Nat /\ 1..n = (1..Len(ev)) \cup {n} /\ n \notin 1..Len(ev)
  BY <1>2, LenProperties
<1> HIDE DEF n, ev1
<1>5. FillsIn(ev1, o) = FillsIn(ev, o) \cup {n} /\ n \notin FillsIn(ev, o)
  BY <1>1, <1>3, <1>4 DEF FillsIn
<1>6. \A p : p # o => FillsIn(ev1, p) = FillsIn(ev, p)
  BY <1>1, <1>3, <1>4 DEF FillsIn
<1>7. IsFiniteSet(FillsIn(ev, o))
  <2>1. FillsIn(ev, o) \subseteq 1..Len(ev)
    BY DEF FillsIn
  <2>2. IsFiniteSet(1..Len(ev))
    BY <1>4, FS_Interval
  <2> QED BY <2>1, <2>2, FS_Subset
<1>8. Cardinality(FillsIn(ev1, o)) = Cardinality(FillsIn(ev, o)) + 1 /\ Cardinality(FillsIn(ev, o)) \in Nat
  BY <1>5, <1>7, FS_AddElement, FS_CardinalityType
<1> QED BY <1>1, <1>3, <1>5, <1>6, <1>8 DEF E, e, n, ev1, Recorded

\* A fill that the tracker records keeps the invariant.
LEMMA TrackerFillKeeps ==
    ASSUME Core, NEW o \in Orders, NEW cost \in Nat, TrackerFill(o, cost), UNCHANGED limit,
           limit[o] # 0 => cost <= Price[o]
    PROVE  Core'
<1>1. /\ up /\ balance' = balance /\ unallocated' = unallocated
      /\ mix' = mix /\ budget' = budget /\ resv' = resv /\ fill' = fill /\ up' = up
      /\ row' = row /\ stored' = stored /\ keys' = keys /\ writes' = writes
      /\ next' = next /\ direct' = direct
      /\ crashes' = crashes /\ errors' = errors /\ others' = others /\ limit' = limit
      /\ blame' = blame /\ astray' = astray
  BY DEF TrackerFill, memory, database, crossed, blame, astray
<1>2. /\ ord[o] = "approved" /\ o \notin Virtual /\ Cardinality(FillsIn(events, o)) < Qty[o]
      /\ events' = Append(events, [order |-> o, cost |-> cost])
      /\ ord' = IF Cardinality(FillsIn(events, o)) + 1 = Qty[o] THEN [ord EXCEPT ![o] = "ended"] ELSE ord
  BY DEF TrackerFill, Fills, FillsIn
<1>3. OrdersFit(mix, ord, events, direct) /\ ord \in [Orders -> Statuses] /\ Qty[o] \in Nat
  BY OrdersAssumption DEF Core, OrdersOK, OrdersFit
<1> DEFINE n == Len(events) + 1
<1>4. /\ events' \in Seq([order : Orders \ Virtual, cost : Nat]) /\ Len(events') = n /\ n \in Nat \ {0}
      /\ events'[n].order = o /\ events'[n].cost = cost /\ \A i \in 1..Len(events) : events'[i] = events[i]
      /\ FillsIn(events', o) = FillsIn(events, o) \cup {n} /\ n \notin FillsIn(events, o)
      /\ \A p : p # o => FillsIn(events', p) = FillsIn(events, p)
      /\ Cardinality(FillsIn(events', o)) = Cardinality(FillsIn(events, o)) + 1
      /\ Cardinality(FillsIn(events, o)) \in Nat
  <2>1. o \in Orders \ Virtual
    BY <1>2
  <2>2. Recorded(events, events', o, cost)
    BY <1>2, <1>3, <2>1, EventAppend
  <2> QED BY <2>2 DEF Recorded
<1>5. Len(events) \in Nat /\ 1..Len(events') = (1..Len(events)) \cup {n}
  BY <1>3, <1>4, EventIs
<1>6. /\ ord' \in [Orders -> Statuses] /\ ord'[o] \in {"approved", "ended"}
      /\ (ord'[o] = "ended" => Cardinality(FillsIn(events', o)) = Qty[o])
      /\ \A p \in Orders : p # o => ord'[p] = ord[p]
  BY <1>2, <1>3, <1>4 DEF Statuses
<1> HIDE DEF n
<1>7. TypesOK' /\ BooksOK' /\ AllocatedOK' /\ HeldOK'
  <2>1. fill.pc = "settled" => Bot' = Bot
    <3>1. fill.pc = "settled" => next \in 1..Len(events)
      BY <1>5 DEF Core, FillOK, FillFit, Holding
    <3> QED BY <1>1, <1>4, <3>1 DEF Bot, Event
  <2> QED BY <1>1, <2>1 DEF Core, TypesOK, BooksOK, AllocatedOK, HeldOK
<1>8. OrdersOK'
  <2>1. o \in mix
    BY <1>2, <1>3 DEF OrdersFit
  <2>2. OrdersFit(mix, ord', events, direct)
    BY <1>2, <1>3, <1>6, <2>1, OrdersKeep
  <2>3. \A i \in 1..Len(events') : ord'[events'[i].order] \in {"approved", "ended"}
    BY <1>4, <1>5, <1>6, <2>2 DEF OrdersFit
  <2>4. \A p \in Orders : Cardinality(FillsIn(events', p)) <= Qty[p]
    <3>1. Cardinality(FillsIn(events', o)) <= Qty[o]
      BY <1>2, <1>3, <1>4
    <3>2. \A p \in Orders : p # o => Cardinality(FillsIn(events', p)) <= Qty[p]
      BY <1>3, <1>4 DEF OrdersFit
    <3> QED BY <3>1, <3>2
  <2>5. OrdersFit(mix, ord', events', direct)
    BY <1>4, <2>2, <2>3, <2>4 DEF OrdersFit
  <2> QED BY <1>1, <2>5 DEF OrdersOK
<1>9. ResvOK'
  BY <1>1, <1>6 DEF Core, ResvOK, ResvFit
<1>10. LineOK'
  <2>1. Line(writes, blame, ord', fill.pc)
    BY <1>2, <1>6, LineKeeps DEF Core, LineOK
  <2> QED BY <1>1, <2>1 DEF Core, LineOK
<1>11. fill.pc # "idle" => next \in 1..Len(events) /\ events'[next] = events[next]
  BY <1>4, <1>5 DEF Core, FillOK, FillFit
<1>12. FillOK'
  <2>1. fill.pc \in Holding => fill.pc # "idle"
    BY DEF Holding
  <2>2. next <= n + 1 /\ (fill.pc # "idle" => next <= n)
    BY <1>5 DEF Core, FillOK, FillFit, n
  <2> QED BY <1>1, <1>4, <1>5, <1>11, <2>1, <2>2 DEF Core, FillOK, FillFit
<1>13. SettledFills' = SettledFills /\ SettledFills \subseteq 1..Len(events) /\ keys \subseteq 1..Len(events)
  BY <1>1, SettledIs DEF SettledFills, Core, FillOK, FillFit
<1>14. SettledOK'
  <2>1. \A K, b, S : K \subseteq 1..Len(events) => Charged(events', K, b, S) = Charged(events, K, b, S)
    <3>1. SUFFICES ASSUME NEW K, NEW b, NEW S, K \subseteq 1..Len(events)
                   PROVE  Charged(events', K, b, S) = Charged(events, K, b, S)
      OBVIOUS
    <3>2. \A i \in K : events'[i] = events[i]
      BY <1>4, <3>1
    <3> QED BY <3>2, ChargedStays
  <2>2. \A bg, K, b : K \subseteq 1..Len(events) =>
           (Matches(bg, events', K, direct, b) <=> Matches(bg, events, K, direct, b))
    BY <2>1 DEF Matches
  <2>3. SettledFit(budget, events, SettledFills, direct) => SettledFit(budget, events', SettledFills, direct)
    BY <1>4, <1>13, <2>2 DEF SettledFit
  <2>4. fill.pc \in Holding => Bot' = Bot
    BY <1>1, <1>11 DEF Bot, Event, Holding
  <2> QED BY <1>1, <1>13, <2>2, <2>3, <2>4 DEF Core, SettledOK
<1>15. LimitOK'
  BY <1>1, <1>4, <1>5 DEF Core, LimitOK, LimitFit
<1>16. CoverOK'
  <2>1. \A p : FillsIn(events', p) \cap SettledFills = FillsIn(events, p) \cap SettledFills
    <3>1. n \notin SettledFills
      BY <1>5, <1>13 DEF n
    <3> QED BY <1>4, <3>1
  <2> QED BY <1>1, <1>13, <2>1 DEF Core, CoverOK, CoverFit
<1>17. EndedOK'
  <2>1. n > next \/ (n = next /\ fill.pc = "idle")
    BY <1>5, <1>11 DEF Core, FillOK, FillFit, n
  <2>2. ASSUME EndedFit(resv, ord, events, next, fill.pc)
        PROVE  EndedFit(resv, ord', events', next, fill.pc)
    <3> SUFFICES ASSUME NEW p \in DOMAIN resv, ord'[p] = "ended"
                 PROVE  /\ Cardinality(FillsIn(events', p)) >= Qty[p]
                        /\ \E i \in FillsIn(events', p) :
                              i > next \/ (i = next /\ fill.pc \in {"idle", "waiting", "begun"})
      BY DEF EndedFit
    <3>1. CASE p = o
      <4>1. Cardinality(FillsIn(events', p)) = Qty[p] /\ Qty[p] \in Nat
        BY <1>3, <1>6, <3>1
      <4>2. n \in FillsIn(events', p)
        BY <1>4, <3>1
      <4> QED BY <2>1, <4>1, <4>2
    <3>2. CASE p # o
      <4>1. ord[p] = "ended"
        BY <1>6, <3>2 DEF Core, ResvOK, ResvFit
      <4>2. FillsIn(events', p) = FillsIn(events, p)
        BY <1>4, <3>2
      <4> QED BY <2>2, <4>1, <4>2 DEF EndedFit
    <3> QED BY <3>1, <3>2
  <2> QED BY <1>1, <2>2 DEF Core, EndedOK
<1> QED BY <1>7, <1>8, <1>9, <1>10, <1>12, <1>14, <1>15, <1>16, <1>17 DEF Core

\* A fill of a virtual order, settled without a key, keeps the invariant.
LEMMA VirtualFillKeeps ==
    ASSUME Core, NEW o \in Orders, NEW cost \in Nat, VirtualFill(o, cost), UNCHANGED limit
    PROVE  Core'
<1>1. /\ up /\ balance' = balance /\ unallocated' = unallocated
      /\ mix' = mix /\ fill' = fill /\ up' = up
      /\ row' = row /\ stored' = stored /\ keys' = keys
      /\ events' = events /\ next' = next
      /\ crashes' = crashes /\ errors' = errors /\ others' = others /\ limit' = limit
      /\ blame' = blame /\ astray' = astray
  BY DEF VirtualFill, Ready, database, crossed, blame, astray
<1> DEFINE b == BotOf[o]
           a == Remaining(o)
           bg == IF o \in Sells THEN Returned(budget[b], cost) ELSE SpentOnce(budget[b], cost, a)
<1>2. /\ ord[o] = "approved" /\ o \in Virtual /\ ord' = [ord EXCEPT ![o] = "ended"]
      /\ b \in DOMAIN budget => /\ budget' = With(budget, b, bg) /\ resv' = Without(resv, o)
                                /\ direct' = With(direct, o, cost)
      /\ b \notin DOMAIN budget => budget' = budget /\ resv' = resv /\ direct' = direct /\ writes' = writes
  BY DEF VirtualFill
<1>3. b \in DOMAIN budget => writes' = Append(writes, Save(b, budget'[b], NoOrder, FALSE))
  BY DEF VirtualFill
<1>4. OrdersFit(mix, ord, events, direct) /\ ResvFit(resv, ord, budget) /\ Book(budget, blame)
  BY DEF Core, OrdersOK, ResvOK, BooksOK
<1>5. a \in Nat /\ (o \in DOMAIN resv => a = resv[o]) /\ (o \notin DOMAIN resv => a = 0)
  BY <1>4 DEF Remaining, ResvFit
<1>6. ord \in [Orders -> Statuses] /\ o \in mix
  BY <1>2, <1>4 DEF OrdersFit
<1>7. ord' \in [Orders -> Statuses] /\ ord'[o] = "ended" /\ \A p \in Orders : p # o => ord'[p] = ord[p]
  BY <1>2, <1>6 DEF Statuses
<1>8. OrdersFit(mix, ord', events, direct)
  BY <1>2, <1>4, <1>6, <1>7, OrdersKeep
\* The account is virtual: there are no events.
<1>9. Len(events) = 0 /\ fill.pc = "idle"
  <2>1. mix \subseteq Virtual
    BY <1>2, <1>4, <1>6, OrdersAssumption DEF OrdersFit
  <2>2. \A i \in 1..Len(events) : FALSE
    <3> SUFFICES ASSUME NEW i \in 1..Len(events) PROVE FALSE
      OBVIOUS
    <3>1. events[i].order \in Orders /\ events[i].order \notin Virtual
      BY <1>4, EventIs
    <3>2. ord[events[i].order] \in {"approved", "ended"}
      BY <1>4 DEF OrdersFit
    <3>3. events[i].order \in mix
      BY <1>4, <3>1, <3>2 DEF OrdersFit
    <3> QED BY <2>1, <3>1, <3>3
  <2>3. Len(events) \in Nat
    BY <1>4, EventIs
  <2>4. Len(events) = 0
    BY <2>2, <2>3
  <2> QED BY <2>4 DEF Core, FillOK, FillFit
<1>10. fill.pc \notin Holding /\ SettledFills' = SettledFills /\ SettledFills = {}
  BY <1>1, <1>9, SettledIs DEF Holding, SettledFills
<1>11. TypesOK' /\ LimitOK'
  BY <1>1 DEF Core, TypesOK, LimitOK
<1>12. CASE b \notin DOMAIN budget
  <2>1. /\ budget' = budget /\ resv' = resv /\ direct' = direct /\ writes' = writes
        /\ o \notin DOMAIN resv /\ DOMAIN resv \subseteq Orders
    BY <1>2, <1>4, <1>12 DEF ResvFit
  <2>2. OrdersOK' /\ BooksOK' /\ AllocatedOK' /\ HeldOK' /\ FillOK'
    BY <1>1, <1>8, <2>1 DEF Core, OrdersOK, BooksOK, AllocatedOK, HeldOK, FillOK, Bot, Event
  <2>3. SettledOK' /\ CoverOK'
    BY <1>1, <2>1 DEF Core, SettledOK, CoverOK, SettledFills, Bot, Event
  <2>4. ResvOK' /\ EndedOK'
    BY <1>1, <1>7, <2>1 DEF Core, ResvOK, ResvFit, EndedOK, EndedFit
  <2>5. LineOK'
    <3>1. Line(writes, blame, ord', fill.pc)
      BY <1>2, <1>7, LineKeeps DEF Core, LineOK
    <3> QED BY <1>1, <2>1, <3>1 DEF Core, LineOK
  <2> QED BY <1>11, <2>2, <2>3, <2>4, <2>5 DEF Core
<1>13. CASE b \in DOMAIN budget
  <2>1. budget' = With(budget, b, bg) /\ resv' = Without(resv, o) /\ direct' = With(direct, o, cost)
    BY <1>2, <1>13
  <2>2. Good(budget[b], blame[b]) /\ budget[b] \in Record /\ b \in Bots /\ budget[b].reserved \in Nat
    BY <1>4, <1>13 DEF Book, Good, Record
  <2>3. IsFiniteSet(DOMAIN resv) /\ \A p \in DOMAIN resv : resv[p] \in Nat
    BY <1>4 DEF ResvFit
  <2>4. \A x : /\ Held(resv, x) \in Nat /\ Held(resv', x) \in Nat
               /\ Held(resv', x) = IF BotOf[o] = x THEN Held(resv, x) - (IF o \in DOMAIN resv THEN resv[o] ELSE 0)
                                                   ELSE Held(resv, x)
    BY <2>1, <2>3, HeldWithout
  <2>5. /\ Held(resv, b) \in Int /\ -a \in Int /\ Held(resv', b) = Held(resv, b) + (-a)
        /\ a <= Held(resv, b) /\ \A x : x # b => Held(resv', x) = Held(resv, x)
    BY <1>5, <2>4
  <2>6. HeldFit(resv, budget, astray, blame) /\ (blame[b] = 0 => a <= budget[b].reserved)
    <3>1. HeldFit(resv, budget, astray, blame)
      BY <1>1 DEF Core, HeldOK
    <3> QED BY <1>5, <1>13, <2>2, <2>5, <3>1 DEF HeldFit
  <2>7. /\ bg \in Record /\ bg.allocated = budget[b].allocated
        /\ a <= budget[b].reserved =>
             bg.reserved = budget[b].reserved + (-a) /\ (Balanced(budget[b]) => Balanced(bg))
        /\ Paid(bg, budget[b], o, cost)
    <3>1. budget[b].spent \in Int /\ budget[b].returned \in Int
      BY <2>2 DEF Record
    <3>2. CASE o \in Sells
      <4>1. a = 0
        BY <1>4, <1>5, <3>2 DEF ResvFit
      <4>2. bg = Returned(budget[b], cost)
        BY <3>2
      <4> HIDE DEF bg, a, b
      <4>3. /\ bg \in Record /\ (Balanced(budget[b]) => Balanced(bg))
            /\ bg.allocated = budget[b].allocated /\ bg.reserved = budget[b].reserved
            /\ bg.spent = budget[b].spent /\ bg.returned = budget[b].returned + cost
        BY <2>2, <4>2, ReturnedIs
      <4> QED BY <2>2, <3>1, <3>2, <4>1, <4>3 DEF Paid
    <3>3. CASE o \notin Sells
      <4>1. bg = SpentOnce(budget[b], cost, a)
        BY <3>3
      <4> HIDE DEF bg, a, b
      <4>2. /\ bg \in Record
            /\ a <= budget[b].reserved =>
                 bg.reserved = budget[b].reserved - a /\ (Balanced(budget[b]) => Balanced(bg))
            /\ bg.allocated = budget[b].allocated /\ bg.spent = budget[b].spent + cost
            /\ bg.returned = budget[b].returned
        BY <1>5, <2>2, <4>1, SpentOnceIs
      <4> QED BY <1>5, <2>2, <3>1, <3>3, <4>2 DEF Paid
    <3> QED BY <3>2, <3>3
  <2> HIDE DEF bg, a
  <2>8. Good(bg, blame[b])
    BY <2>2, <2>6, <2>7 DEF Good
  <2>9. /\ Book(budget', blame) /\ TotalAllocated(budget') = TotalAllocated(budget)
        /\ DOMAIN budget' = DOMAIN budget /\ budget'[b] = bg
    BY <1>4, <1>13, <2>1, <2>7, <2>8, TotalSame
  <2>10. DOMAIN resv' = DOMAIN resv \ {o} /\ (\A p \in DOMAIN resv \ {o} : resv'[p] = resv[p])
    BY <2>1, WithoutIs
  <2>11. BooksOK' /\ AllocatedOK'
    BY <1>1, <2>9 DEF Core, BooksOK, AllocatedOK, Bot, Event
  <2>12. o \notin DOMAIN direct /\ IsFiniteSet(DOMAIN direct) /\ \A p \in DOMAIN direct : direct[p] \in Nat
    BY <1>2, <1>4 DEF OrdersFit
  <2>13. OrdersOK'
    <3>1. IsFiniteSet(DOMAIN direct')
      BY <2>1, <2>12, DomainFinite
    <3>2. DOMAIN direct' = DOMAIN direct \cup {o} /\ direct'[o] = cost /\ \A p \in DOMAIN direct : p # o => direct'[p] = direct[p]
      BY <2>1 DEF With
    <3>3. \A p \in DOMAIN direct' : direct'[p] \in Nat /\ ord'[p] = "ended"
      BY <1>7, <1>8, <3>2 DEF OrdersFit
    <3>4. DOMAIN direct' \subseteq Virtual
      BY <1>2, <1>8, <3>2 DEF OrdersFit
    <3>5. OrdersFit(mix, ord', events, direct')
      BY <1>8, <3>1, <3>3, <3>4 DEF OrdersFit
    <3> QED BY <1>1, <3>5 DEF OrdersOK
  <2>14. ResvOK'
    <3>1. ResvFit(resv', ord, budget)
      BY <1>4, <2>1, ResvWithout
    <3> QED BY <1>7, <2>9, <3>1 DEF ResvOK, ResvFit
  <2>15. HeldOK'
    <3>1. HeldFit(resv', budget', astray, blame)
      BY <1>13, <2>1, <2>2, <2>5, <2>6, <2>7, HeldMoves
    <3> QED BY <1>1, <3>1 DEF HeldOK
  <2>16. LineOK'
    <3>1. Line(writes, blame, ord', fill.pc)
      BY <1>2, <1>7, LineKeeps DEF Core, LineOK
    <3>2. FALSE \in BOOLEAN
      OBVIOUS
    <3>3. Line(Append(writes, Save(b, bg, NoOrder, FALSE)), blame, ord', fill.pc)
      BY <2>2, <2>8, <3>1, <3>2, SaveAppend, Zenon
    <3>4. writes' = Append(writes, Save(b, bg, NoOrder, FALSE))
      BY <1>3, <1>13, <2>9, Zenon
    <3>5. Line(writes', blame, ord', fill.pc)
      BY <3>3, <3>4, Zenon
    <3> QED BY ONLY <1>1, <3>5 DEF LineOK
  <2>17. FillOK'
    BY <1>1, <2>9 DEF Core, FillOK, FillFit
  <2>18. SettledOK'
    <3>1. IsFiniteSet(SettledFills) /\ Costed(events, SettledFills)
      BY <1>10, FS_EmptySet DEF Costed
    <3>2. SettledFit(budget, events, SettledFills, direct) => SettledFit(budget', events, SettledFills, direct')
      BY <1>13, <2>1, <2>7, <2>12, <3>1, DirectSettles
    <3> QED BY <1>1, <1>10, <3>2 DEF Core, SettledOK
  <2>19. CoverOK'
    BY <1>1, <1>10, <2>10, CoverKeep DEF Core, CoverOK
  <2>20. EndedOK'
    BY <1>1, <1>4, <1>7, <2>10 DEF Core, EndedOK, EndedFit, ResvFit
  <2> QED BY <1>11, <2>11, <2>13, <2>14, <2>15, <2>16, <2>17, <2>18, <2>19, <2>20 DEF Core
<1> QED BY <1>12, <1>13

\* The task after a step of _on_order_filled.
LEMMA MovedIs ==
    ASSUME NEW t \in Task, NEW pc \in Holding, NEW bg \in Record
    PROVE  /\ [t EXCEPT !.pc = pc] \in Task /\ [t EXCEPT !.pc = pc].pc = pc
           /\ [t EXCEPT !.pc = pc].staged = t.staged /\ [t EXCEPT !.pc = pc].budget = t.budget
           /\ [t EXCEPT !.pc = pc].present = t.present
           /\ [t EXCEPT !.pc = pc, !.staged = bg] \in Task /\ [t EXCEPT !.pc = pc, !.staged = bg].pc = pc
           /\ [t EXCEPT !.pc = pc, !.staged = bg].staged = bg
           /\ [t EXCEPT !.pc = pc, !.staged = bg].budget = t.budget
           /\ [t EXCEPT !.pc = pc, !.staged = bg].present = t.present
BY DEF Task

\* The snapshot of _on_order_filled keeps the invariant.
LEMMA FillStartKeeps ==
    ASSUME Core, FillStart, UNCHANGED limit
    PROVE  Core'
<1>1. /\ up /\ balance' = balance /\ unallocated' = unallocated
      /\ mix' = mix /\ budget' = budget /\ resv' = resv /\ up' = up
      /\ row' = row /\ stored' = stored /\ keys' = keys
      /\ ord' = ord /\ events' = events /\ next' = next /\ direct' = direct
      /\ crashes' = crashes /\ errors' = errors /\ others' = others /\ limit' = limit
      /\ blame' = blame /\ astray' = astray
  BY DEF FillStart, Ready, memory, database, world, outbox, crossed, blame, astray
<1> DEFINE o == Event.order
<1>2. /\ next <= Len(events) /\ fill.pc = "idle" /\ Bot = BotOf[events[next].order] /\ o = events[next].order
      /\ next \in Nat \ {0}
  BY DEF FillStart, Bot, Event, Core, FillOK, FillFit
<1>3. OrdersOK' /\ AllocatedOK' /\ ResvOK' /\ HeldOK' /\ LimitOK'
  BY <1>1 DEF Core, OrdersOK, AllocatedOK, ResvOK, HeldOK, LimitOK
<1>4. Line(writes, blame, ord, fill.pc) /\ \A i \in DOMAIN writes : writes[i].kind # "fill"
  BY <1>2 DEF Core, LineOK, Line
<1>5. Line(writes, blame, ord, "waiting") /\ Line(writes, blame, ord, "done")
  <2>1. ASSUME NEW pc PROVE Line(writes, blame, ord, pc)
    <3>1. \A i \in DOMAIN writes :
             /\ writes[i].kind = "budget" /\ writes[i].order # NoOrder => ord[writes[i].order] = "reserving"
             /\ writes[i].kind = "fill" => pc = "waiting"
      BY <1>4 DEF Line
    <3> QED BY <1>4, <3>1, LineChanges
  <2> QED BY <2>1
<1>6. fill'.pc # "settled" => SettledFills' = SettledFills /\ Bot' = Bot
  BY <1>1, <1>2 DEF SettledFills, Bot, Event
<1>7. CASE Bot \in DOMAIN budget
  <2>1. fill' = [Idle EXCEPT !.pc = "waiting", !.budget = budget[Bot],
                             !.resv = Remaining(o), !.present = (o \in DOMAIN resv)]
        /\ writes' = Append(writes, Settlement)
    BY <1>7 DEF FillStart
  <2>2. budget[Bot] \in Record /\ Remaining(o) \in Nat
    BY <1>7 DEF Core, BooksOK, Book, Good, ResvOK, ResvFit, Remaining
  <2>3. /\ fill' \in Task /\ fill'.pc = "waiting" /\ fill'.budget = budget[Bot]
        /\ fill'.present = (o \in DOMAIN resv) /\ fill'.staged = NewBudget
    <3>1. (o \in DOMAIN resv) \in BOOLEAN
      OBVIOUS
    <3>2. NewBudget \in Record
      BY NewBudgetIs
    <3> HIDE DEF o
    <3> QED BY <2>1, <2>2, <3>1, <3>2, Zenon DEF Idle, Task, Holding
  <2>4. TypesOK' /\ BooksOK'
    BY <1>1, <2>3, NewBudgetIs DEF Core, TypesOK, BooksOK, Good, Bot, Event
  <2>5. LineOK'
    <3>1. Line(Append(writes, Settlement), blame, ord, "waiting")
      BY <1>4, <1>5, SettlementIs, LineAppend
    <3> QED BY <1>1, <2>1, <2>3, <3>1 DEF LineOK
  <2>6. FillOK'
    <3>1. o \in DOMAIN resv => o \notin Sells
      BY DEF Core, ResvOK, ResvFit
    <3> QED BY <1>1, <1>2, <1>7, <2>3, <3>1 DEF Core, FillOK, FillFit
  <2>7. SettledOK'
    <3>1. SettledFills = keys
      BY <1>2 DEF SettledFills
    <3>2. SettledFit(budget, events, SettledFills, direct) => Matches(budget[Bot], events, keys, direct, Bot)
      BY <1>7, <3>1 DEF SettledFit
    <3> QED BY <1>1, <1>6, <2>3, <3>2 DEF Core, SettledOK
  <2>8. CoverOK' /\ EndedOK'
    BY <1>1, <1>2, <1>6, <2>3 DEF Core, CoverOK, EndedOK, EndedFit
  <2> QED BY <1>3, <2>4, <2>5, <2>6, <2>7, <2>8 DEF Core
<1>8. CASE Bot \notin DOMAIN budget
  <2>1. fill' = Finished /\ writes' = writes /\ fill'.pc = "done" /\ fill'.staged = NewBudget /\ fill' \in Task
    BY <1>8, IdleIs DEF FillStart
  <2>2. TypesOK' /\ BooksOK'
    BY <1>1, <2>1, NewBudgetIs DEF Core, TypesOK, BooksOK, Good, Bot, Event
  <2>3. LineOK'
    BY <1>1, <1>5, <2>1 DEF LineOK
  <2>4. FillOK'
    BY <1>1, <1>2, <2>1 DEF Core, FillOK, FillFit, Holding
  <2>5. SettledOK' /\ CoverOK'
    BY <1>1, <1>6, <2>1 DEF Core, SettledOK, CoverOK, Holding
  <2>6. EndedOK'
    <3>1. o \notin DOMAIN resv
      BY <1>2, <1>8 DEF Core, ResvOK, ResvFit
    <3>2. \A p \in DOMAIN resv : next \notin FillsIn(events, p)
      BY <1>2, <3>1 DEF FillsIn
    <3> QED BY <1>1, <3>2 DEF Core, EndedOK, EndedFit
  <2> QED BY <1>3, <2>2, <2>3, <2>4, <2>5, <2>6 DEF Core
<1> QED BY <1>7, <1>8

\* The look-up of the settlement key keeps the invariant.
LEMMA FillBeginKeeps ==
    ASSUME Core, FillBegin, UNCHANGED limit
    PROVE  Core'
<1>1. /\ up /\ balance' = balance /\ unallocated' = unallocated
      /\ mix' = mix /\ budget' = budget /\ resv' = resv /\ up' = up
      /\ row' = row /\ stored' = stored /\ keys' = keys
      /\ ord' = ord /\ events' = events /\ next' = next /\ direct' = direct
      /\ crashes' = crashes /\ errors' = errors /\ others' = others /\ limit' = limit
      /\ blame' = blame /\ astray' = astray
      /\ writes # <<>> /\ Head(writes) = Settlement /\ writes' = Tail(writes)
      /\ fill' = IF next \in keys THEN Finished ELSE [fill EXCEPT !.pc = "begun"]
  BY DEF FillBegin, LockFree, memory, database, world, outbox, crossed, blame, astray
<1>2. Line(writes, blame, ord, fill.pc) /\ fill \in Task
  BY DEF Core, LineOK, TypesOK
<1>3. /\ fill.pc = "waiting" /\ Line(Tail(writes), blame, ord, fill.pc)
      /\ \A i \in DOMAIN Tail(writes) : Tail(writes)[i].kind # "fill"
  BY <1>1, <1>2, LineTail, SettlementIs
<1>4. /\ fill' \in Task /\ fill'.pc = (IF next \in keys THEN "done" ELSE "begun")
      /\ fill'.staged \in {NewBudget, fill.staged}
      /\ next \notin keys => fill'.budget = fill.budget /\ fill'.present = fill.present
  <2>1. "begun" \in Holding /\ NewBudget \in Record
    BY NewBudgetIs DEF Holding
  <2>2. CASE next \in keys
    BY <1>1, <2>2, IdleIs
  <2>3. CASE next \notin keys
    <3>1. fill' = [fill EXCEPT !.pc = "begun"]
      BY <1>1, <2>3
    <3>2. /\ fill' \in Task /\ fill'.pc = "begun" /\ fill'.staged = fill.staged
          /\ fill'.budget = fill.budget /\ fill'.present = fill.present
      BY ONLY <1>2, <2>1, <3>1, MovedIs
    <3> QED BY <2>3, <3>2
  <2> QED BY <2>2, <2>3
<1>5. OrdersOK' /\ AllocatedOK' /\ ResvOK' /\ HeldOK' /\ LimitOK'
  BY <1>1 DEF Core, OrdersOK, AllocatedOK, ResvOK, HeldOK, LimitOK
<1>6. TypesOK' /\ BooksOK'
  BY <1>1, <1>4, NewBudgetIs DEF Core, TypesOK, BooksOK, Good, Bot, Event
<1>7. LineOK'
  <2> DEFINE ws == Tail(writes)
  <2>1. Line(ws, blame, ord, fill.pc) /\ \A i \in DOMAIN ws : ws[i].kind # "fill"
    BY <1>3
  <2> HIDE DEF ws
  <2>2. \A i \in DOMAIN ws :
           /\ ws[i].kind = "budget" /\ ws[i].order # NoOrder => ord[ws[i].order] = "reserving"
           /\ ws[i].kind = "fill" => fill'.pc = "waiting"
    BY <2>1 DEF Line
  <2>3. Line(ws, blame, ord, fill'.pc)
    BY <2>1, <2>2, LineChanges
  <2> QED BY <1>1, <2>3 DEF LineOK, ws
<1>8. FillOK'
  BY <1>1, <1>3, <1>4 DEF Core, FillOK, FillFit, Holding
<1>9. SettledFills' = SettledFills /\ Bot' = Bot
  BY <1>1, <1>3, <1>4 DEF SettledFills, Bot, Event
<1>10. SettledOK' /\ CoverOK'
  BY <1>1, <1>3, <1>4, <1>9 DEF Core, SettledOK, CoverOK, Holding
<1>11. EndedOK'
  <2>1. crashes + errors = 0 => next \notin keys
    BY <1>3 DEF Core, FillOK, FillFit
  <2> QED BY <1>1, <1>4, <2>1 DEF Core, EndedOK, EndedFit
<1> QED BY <1>5, <1>6, <1>7, <1>8, <1>10, <1>11 DEF Core

\* The commit of a settlement keeps the invariant.
LEMMA FillCommitKeeps ==
    ASSUME Core, FillCommit, UNCHANGED limit
    PROVE  Core'
<1>1. /\ balance' = balance /\ unallocated' = unallocated
      /\ mix' = mix /\ budget' = budget /\ resv' = resv /\ up' = up
      /\ stored' = stored /\ writes' = writes
      /\ ord' = ord /\ events' = events /\ next' = next /\ direct' = direct
      /\ crashes' = crashes /\ errors' = errors /\ others' = others /\ limit' = limit
      /\ blame' = blame /\ astray' = astray
      /\ fill.pc = "settled" /\ row' = With(row, Bot, fill.staged) /\ keys' = keys \cup {next}
      /\ fill' = Finished
  BY DEF FillCommit, memory, world, outbox, crossed, blame, astray
<1>2. fill' \in Task /\ fill'.pc = "done" /\ fill'.staged = NewBudget
  BY <1>1, IdleIs
<1>3. OrdersOK' /\ AllocatedOK' /\ ResvOK' /\ HeldOK' /\ LimitOK'
  BY <1>1 DEF Core, OrdersOK, AllocatedOK, ResvOK, HeldOK, LimitOK
<1>4. TypesOK'
  BY <1>1, <1>2 DEF Core, TypesOK
<1>5. next \in 1..Len(events) /\ Bot \in DOMAIN budget
  BY <1>1, EventIs DEF Core, OrdersOK, FillOK, FillFit, Holding, Bot, Event
<1>6. BooksOK'
  <2>1. Bot \in Bots /\ Good(fill.staged, blame[Bot]) /\ Book(row, blame)
    BY <1>1, <1>5 DEF Core, BooksOK, Book
  <2>2. Book(row', blame)
    BY <1>1, <2>1, BookWith
  <2> QED BY <1>1, <1>2, <2>2 DEF Core, BooksOK
<1>7. up
  BY <1>1, IdleIs DEF Core, LineOK
<1>8. LineOK'
  <2>1. Line(writes, blame, ord, fill'.pc)
    BY <1>1, <1>2, LineKeeps DEF Core, LineOK
  <2> QED BY <1>1, <1>7, <2>1 DEF LineOK
<1>9. FillOK'
  BY <1>1, <1>2, <1>5 DEF Core, FillOK, FillFit, Holding
<1>10. SettledFills' = SettledFills
  BY <1>1, <1>2 DEF SettledFills
<1>11. SettledOK' /\ CoverOK'
  BY <1>1, <1>2, <1>10 DEF Core, SettledOK, CoverOK, Holding
<1>12. EndedOK'
  BY <1>1, <1>2 DEF Core, EndedOK, EndedFit
<1> QED BY <1>3, <1>4, <1>6, <1>8, <1>9, <1>11, <1>12 DEF Core

\* Marking an event as published, or failing to, keeps the invariant.
LEMMA MarkKeeps ==
    ASSUME Core, MarkPublished \/ MarkFails, UNCHANGED limit
    PROVE  Core'
<1>1. /\ up /\ balance' = balance /\ unallocated' = unallocated
      /\ mix' = mix /\ budget' = budget /\ resv' = resv /\ up' = up
      /\ row' = row /\ stored' = stored /\ keys' = keys /\ writes' = writes
      /\ ord' = ord /\ events' = events /\ direct' = direct
      /\ crashes' = crashes /\ others' = others /\ limit' = limit
      /\ fill.pc = "done" /\ fill' = Idle
      /\ (next' = next + 1 /\ errors' = errors) \/ (next' = next /\ errors' = errors + 1)
  BY DEF MarkPublished, MarkFails, memory, database, world, outbox
<1>2. fill' \in Task /\ fill'.pc = "idle" /\ fill'.staged = NewBudget
  BY <1>1, IdleIs
<1>3. /\ errors \in Nat /\ crashes \in Nat /\ next \in Nat \ {0} /\ next <= Len(events) /\ Len(events) \in Nat
  BY <1>1, EventIs DEF Core, TypesOK, FillOK, FillFit, OrdersOK
<1>4. errors' \in Nat /\ (errors' = 0 => errors = 0) /\ (crashes + errors' = 0 => crashes + errors = 0 /\ next' = next + 1)
  BY <1>1, <1>3
<1>5. TypesOK' /\ OrdersOK' /\ LimitOK' /\ ResvOK'
  BY <1>1, <1>2, <1>4 DEF Core, TypesOK, OrdersOK, LimitOK, ResvOK
<1>13. (\A b \in Bots : blame'[b] = 0 => blame[b] = 0) /\ astray' = astray
  <2>1. gained' = gained /\ lost' = lost
    BY DEF MarkPublished, MarkFails, crossed
  <2> QED BY <1>1, <1>4, <2>1 DEF blame, astray
<1>14. DOMAIN budget \subseteq Bots
  BY DEF Core, BooksOK, Book
<1>6. AllocatedOK' /\ HeldOK'
  BY <1>1, <1>4, <1>13, <1>14 DEF Core, AllocatedOK, HeldOK, HeldFit
<1>7. BooksOK'
  BY <1>1, <1>2, <1>13, BookLater DEF Core, BooksOK
<1>8. LineOK'
  <2>1. Line(writes, blame', ord, fill'.pc)
    BY <1>1, <1>2, <1>13, LineKeeps DEF Core, LineOK
  <2> QED BY <1>1, <2>1 DEF LineOK
<1>9. FillOK'
  <2>1. next' \in Nat \ {0} /\ next' <= Len(events) + 1
    BY <1>1, <1>3
  <2>2. crashes' + errors' = 0 => \A k \in keys : k < next'
    <3>1. keys \subseteq 1..Len(events)
      BY DEF Core, FillOK, FillFit
    <3>2. crashes + errors = 0 => \A k \in keys : k < next \/ k = next
      BY DEF Core, FillOK, FillFit
    <3> QED BY <1>1, <1>3, <1>4, <3>1, <3>2
  <2> QED BY <1>1, <1>2, <2>1, <2>2 DEF Core, FillOK, FillFit, Holding
<1>10. SettledFills' = SettledFills
  BY <1>1, <1>2 DEF SettledFills
<1>11. SettledOK' /\ CoverOK'
  BY <1>1, <1>2, <1>4, <1>10 DEF Core, SettledOK, CoverOK, Holding
<1>12. EndedOK'
  <2>1. ASSUME EndedFit(resv, ord, events, next, fill.pc)
        PROVE  EndedFit(resv, ord, events, next + 1, "idle")
    <3>1. \A p : \A i \in FillsIn(events, p) : i \in Nat
      BY <1>3 DEF FillsIn
    <3>2. \A i \in Nat : i > next => i > next + 1 \/ i = next + 1
      BY <1>3
    <3> QED BY <1>1, <2>1, <3>1, <3>2 DEF EndedFit
  <2> QED BY <1>1, <1>2, <1>4, <2>1 DEF Core, EndedOK
<1> QED BY <1>5, <1>6, <1>7, <1>8, <1>9, <1>11, <1>12 DEF Core

\* A reservation covers a fill as far as it goes.
LEMMA CoveredIs ==
    ASSUME NEW o, NEW cost \in Nat, Remaining(o) \in Nat
    PROVE  LET c == Covered(o, cost) IN
           c \in Nat /\ c <= Remaining(o) /\ c <= cost /\ (c = cost \/ c = Remaining(o))
<1> DEFINE r == Remaining(o)
<1>1. \E x \in {r, cost} : \A y \in {r, cost} : x <= y
  OBVIOUS
<1>2. Covered(o, cost) \in {r, cost} /\ \A y \in {r, cost} : Covered(o, cost) <= y
  BY <1>1 DEF Covered, Min
<1> QED BY <1>2

\* The settlement leaves bg to the bot of o, and takes a from the reservation.
Settled(bg, a, b, o, cost) ==
    /\ bg \in Record /\ bg.allocated = budget[b].allocated /\ Paid(bg, budget[b], o, cost)
    /\ a \in Nat /\ a <= Held(resv, b)
    /\ a <= budget[b].reserved =>
          bg.reserved = budget[b].reserved + (-a) /\ (Balanced(budget[b]) => Balanced(bg))
    /\ budget' = With(budget, b, bg)
    /\ Held(resv', b) = Held(resv, b) + (-a) /\ \A x : x # b => Held(resv', x) = Held(resv, x)
    /\ ResvFit(resv', ord, budget)

\* What a settlement does to the budget and to the reservation.
LEMMA SettleMoves ==
    ASSUME Core, FillSettle
    PROVE  \E bg, a : Settled(bg, a, Bot, Event.order, Event.cost)
<1> DEFINE o == Event.order
           cost == Event.cost
           b == Bot
           covered == Covered(o, cost)
           left == Remaining(o) - covered
           paid == Spent(budget[b], cost, covered)
<1>1. fill.pc = "begun"
  BY DEF FillSettle
<1>2. next \in 1..Len(events) /\ o = events[next].order /\ b = BotOf[o] /\ cost = events[next].cost
  BY <1>1, EventIs DEF Core, OrdersOK, FillOK, FillFit, Holding, Bot, Event
<1>3. o \in Orders /\ cost \in Nat
  BY <1>2, EventIs DEF Core, OrdersOK
<1>4. b \in DOMAIN budget /\ budget[b] \in Record
  BY <1>1 DEF Core, FillOK, FillFit, Holding, Bot, Event, BooksOK, Book, Good
<1>5. /\ budget[b].reserved \in Nat /\ budget[b].spent \in Int /\ budget[b].returned \in Int
  BY <1>4 DEF Record
<1>6. /\ ResvFit(resv, ord, budget) /\ IsFiniteSet(DOMAIN resv) /\ \A p \in DOMAIN resv : resv[p] \in Nat
  BY DEF Core, ResvOK, ResvFit
<1>7. Remaining(o) \in Nat /\ (o \in DOMAIN resv => Remaining(o) = resv[o]) /\ (o \notin DOMAIN resv => Remaining(o) = 0)
  BY <1>6 DEF Remaining
<1>8. \/ /\ o \in Sells /\ budget' = With(budget, b, Returned(budget[b], cost)) /\ resv' = resv
      \/ /\ o \notin Sells /\ budget' = With(budget, b, Released(paid, left)) /\ resv' = Without(resv, o)
      \/ /\ o \notin Sells /\ budget' = With(budget, b, paid)
         /\ resv' = IF o \in DOMAIN resv THEN With(resv, o, left) ELSE resv
  BY DEF FillSettle
<1> HIDE DEF o, cost, b
<1>9. covered \in Nat /\ covered <= Remaining(o) /\ covered <= cost
  BY <1>3, <1>7, CoveredIs
<1> HIDE DEF covered
<1>10. left \in Nat /\ covered + left = Remaining(o)
  BY <1>7, <1>9
<1>11. Held(resv, b) \in Nat /\ Remaining(o) <= Held(resv, b)
  <2>1. Held(resv, b) \in Nat
    BY <1>6, HeldWithout
  <2>2. o \in DOMAIN resv => resv[o] <= Held(resv, BotOf[o])
    BY <1>6, HeldCovers
  <2> QED BY <1>2, <1>7, <2>1, <2>2
<1> HIDE DEF left
<1>12. /\ paid \in Record /\ paid.allocated = budget[b].allocated
       /\ paid.spent = budget[b].spent + cost /\ paid.returned = budget[b].returned
       /\ covered <= budget[b].reserved =>
            paid.reserved = budget[b].reserved - covered /\ (Balanced(budget[b]) => Balanced(paid))
  BY <1>3, <1>4, <1>9, SpentIs
<1> HIDE DEF paid
<1>13. CASE o \in Sells /\ budget' = With(budget, b, Returned(budget[b], cost)) /\ resv' = resv
  <2> DEFINE bg == Returned(budget[b], cost)
  <2>1. /\ bg \in Record /\ (Balanced(budget[b]) => Balanced(bg))
        /\ bg.allocated = budget[b].allocated /\ bg.reserved = budget[b].reserved
        /\ bg.spent = budget[b].spent /\ bg.returned = budget[b].returned + cost
    BY <1>3, <1>4, ReturnedIs
  <2>2. budget' = With(budget, b, bg) /\ resv' = resv
    BY <1>13
  <2> HIDE DEF bg
  <2>3. Paid(bg, budget[b], o, cost)
    BY <1>5, <1>13, <2>1 DEF Paid
  <2>4. bg.reserved = budget[b].reserved + (-0) /\ Held(resv, b) = Held(resv, b) + (-0)
    BY <1>5, <1>11, <2>1
  <2>5. Settled(bg, 0, b, o, cost)
    BY <1>6, <1>11, <2>1, <2>2, <2>3, <2>4 DEF Settled
  <2> QED BY <2>5 DEF b, o, cost
<1>14. CASE o \notin Sells /\ budget' = With(budget, b, Released(paid, left)) /\ resv' = Without(resv, o)
  <2> DEFINE bg == Released(paid, left)
             a == Remaining(o)
  <2>1. /\ bg \in Record
        /\ left <= paid.reserved =>
             bg.reserved = paid.reserved - left /\ (Balanced(paid) => Balanced(bg))
        /\ bg.allocated = paid.allocated /\ bg.spent = paid.spent /\ bg.returned = paid.returned
    BY <1>10, <1>12, ReleasedIs
  <2>2. budget' = With(budget, b, bg) /\ resv' = Without(resv, o) /\ o \notin Sells
    BY <1>14
  <2> HIDE DEF bg
  <2>3. Paid(bg, budget[b], o, cost)
    BY <1>5, <1>12, <2>1, <2>2 DEF Paid
  <2>4. a <= budget[b].reserved =>
          bg.reserved = budget[b].reserved + (-a) /\ (Balanced(budget[b]) => Balanced(bg))
    BY <1>5, <1>7, <1>9, <1>10, <1>12, <2>1
  <2>5. \A x : Held(resv', x) = IF BotOf[o] = x THEN Held(resv, x) - (IF o \in DOMAIN resv THEN resv[o] ELSE 0)
                                                ELSE Held(resv, x)
    BY <1>6, <2>2, HeldWithout
  <2>6. Held(resv', b) = Held(resv, b) + (-a) /\ \A x : x # b => Held(resv', x) = Held(resv, x)
    BY <1>2, <1>7, <1>11, <2>5
  <2>7. ResvFit(resv', ord, budget)
    BY <1>6, <2>2, ResvWithout
  <2>8. Settled(bg, a, b, o, cost)
    BY <1>7, <1>11, <1>12, <2>1, <2>2, <2>3, <2>4, <2>6, <2>7 DEF Settled
  <2> QED BY <2>8 DEF b, o, cost
<1>15. CASE /\ o \notin Sells /\ budget' = With(budget, b, paid)
            /\ resv' = IF o \in DOMAIN resv THEN With(resv, o, left) ELSE resv
  <2>1. Paid(paid, budget[b], o, cost)
    BY <1>5, <1>12, <1>15 DEF Paid
  <2>2. covered <= budget[b].reserved =>
          paid.reserved = budget[b].reserved + (-covered) /\ (Balanced(budget[b]) => Balanced(paid))
    BY <1>5, <1>9, <1>12
  <2>3. Held(resv', b) = Held(resv, b) + (-covered) /\ \A x : x # b => Held(resv', x) = Held(resv, x)
    <3>1. CASE o \notin DOMAIN resv
      <4>1. covered = 0 /\ resv' = resv
        BY <1>7, <1>9, <1>15, <3>1
      <4> QED BY <1>11, <4>1
    <3>2. CASE o \in DOMAIN resv
      <4>1. resv' = With(resv, o, left)
        BY <1>15, <3>2
      <4>2. \A x : Held(resv', x) = IF BotOf[o] = x THEN Held(resv, x) - (IF o \in DOMAIN resv THEN resv[o] ELSE 0) + left
                                                    ELSE Held(resv, x)
        BY <1>6, <1>10, <4>1, HeldWith
      <4> QED BY <1>2, <1>7, <1>9, <1>10, <1>11, <3>2, <4>2
    <3> QED BY <3>1, <3>2
  <2>4. ResvFit(resv', ord, budget)
    <3>1. CASE o \notin DOMAIN resv
      BY <1>6, <1>15, <3>1
    <3>2. CASE o \in DOMAIN resv
      <4>1. o \in Orders \ Sells /\ ord[o] # "new" /\ BotOf[o] \in DOMAIN budget /\ resv' = With(resv, o, left)
        BY <1>6, <1>15, <3>2 DEF ResvFit
      <4> QED BY <1>6, <1>10, <4>1, ResvWith
    <3> QED BY <3>1, <3>2
  <2>5. covered <= Held(resv, b) /\ budget' = With(budget, b, paid)
    BY <1>7, <1>9, <1>11, <1>15
  <2>6. Settled(paid, covered, b, o, cost)
    BY <1>9, <1>12, <2>1, <2>2, <2>3, <2>4, <2>5 DEF Settled
  <2> QED BY <2>6 DEF b, o, cost
<1> QED BY <1>8, <1>13, <1>14, <1>15

\* The fills of an order are finitely many.
LEMMA CountIs ==
    ASSUME Core, NEW o \in Orders
    PROVE  Cardinality(FillsIn(events, o)) \in Nat /\ Qty[o] \in Nat
<1>1. FillsIn(events, o) \subseteq 1..Len(events)
  BY DEF FillsIn
<1>2. IsFiniteSet(1..Len(events))
  BY EventsFinite DEF Core, OrdersOK
<1> QED BY <1>1, <1>2, FS_Subset, FS_CardinalityType, OrdersAssumption

\* The settlement of a fill keeps the invariant.
LEMMA FillSettleKeeps ==
    ASSUME Core, FillSettle, UNCHANGED limit
    PROVE  Core'
<1> DEFINE o == Event.order
           cost == Event.cost
           b == Bot
<1>1. /\ balance' = balance /\ unallocated' = unallocated
      /\ mix' = mix /\ up' = up
      /\ row' = row /\ stored' = stored /\ keys' = keys /\ writes' = writes
      /\ ord' = ord /\ events' = events /\ next' = next /\ direct' = direct
      /\ crashes' = crashes /\ errors' = errors /\ others' = others /\ limit' = limit
      /\ blame' = blame /\ astray' = astray
      /\ fill.pc = "begun" /\ fill' = [fill EXCEPT !.pc = "settled", !.staged = budget'[b]]
  BY DEF FillSettle, database, world, outbox, crossed, blame, astray
<1>2. next \in 1..Len(events) /\ o = events[next].order /\ b = BotOf[o] /\ cost = events[next].cost /\ next \notin keys
  BY <1>1, EventIs DEF Core, OrdersOK, FillOK, FillFit, Holding, Bot, Event
<1>3. o \in Orders /\ cost \in Nat
  BY <1>2, EventIs DEF Core, OrdersOK
<1>4. b \in DOMAIN budget /\ Good(budget[b], blame[b]) /\ b \in Bots /\ Book(budget, blame)
  BY <1>1 DEF Core, FillOK, FillFit, Holding, Bot, Event, BooksOK, Book
<1>5. PICK bg, a : Settled(bg, a, b, o, cost)
  BY SettleMoves
<1>6. up
  BY <1>1, IdleIs DEF Core, LineOK
<1> HIDE DEF o, cost, b
<1>7. /\ bg \in Record /\ bg.allocated = budget[b].allocated /\ Paid(bg, budget[b], o, cost)
      /\ a \in Nat /\ a <= Held(resv, b)
      /\ a <= budget[b].reserved =>
            bg.reserved = budget[b].reserved + (-a) /\ (Balanced(budget[b]) => Balanced(bg))
      /\ budget' = With(budget, b, bg)
      /\ Held(resv', b) = Held(resv, b) + (-a) /\ \A x : x # b => Held(resv', x) = Held(resv, x)
      /\ ResvFit(resv', ord, budget)
  BY <1>5 DEF Settled
<1>8. Held(resv, b) \in Nat /\ budget[b].reserved \in Nat
  <2>1. IsFiniteSet(DOMAIN resv) /\ \A p \in DOMAIN resv : resv[p] \in Nat
    BY DEF Core, ResvOK, ResvFit
  <2> QED BY <1>4, <2>1, HeldWithout DEF Good, Record
<1>9. HeldFit(resv, budget, astray, blame) /\ (blame[b] = 0 => a <= budget[b].reserved)
  <2>1. HeldFit(resv, budget, astray, blame)
    BY <1>6 DEF Core, HeldOK
  <2> QED BY <1>4, <1>7, <1>8, <2>1 DEF HeldFit
<1>10. Good(bg, blame[b])
  BY <1>4, <1>7, <1>9 DEF Good
<1>11. /\ Book(budget', blame) /\ TotalAllocated(budget') = TotalAllocated(budget)
       /\ DOMAIN budget' = DOMAIN budget /\ budget'[b] = bg
  BY <1>4, <1>7, <1>10, TotalSame
<1>12. /\ fill' \in Task /\ fill'.pc = "settled" /\ fill'.staged = bg
       /\ fill'.budget = fill.budget /\ fill'.present = fill.present
  <2>1. fill' = [fill EXCEPT !.pc = "settled", !.staged = bg] /\ fill \in Task /\ "settled" \in Holding
    BY <1>1, <1>11 DEF Core, TypesOK, Holding
  <2> QED BY ONLY <1>7, <2>1, MovedIs
<1>13. TypesOK' /\ OrdersOK' /\ AllocatedOK' /\ LimitOK'
  BY <1>1, <1>11, <1>12 DEF Core, TypesOK, OrdersOK, AllocatedOK, LimitOK
<1>14. BooksOK'
  <2>1. Bot' = b
    BY <1>1 DEF Bot, Event, b
  <2> QED BY <1>1, <1>10, <1>11, <1>12, <2>1 DEF Core, BooksOK
<1>15. ResvOK'
  BY <1>1, <1>7, <1>11 DEF ResvOK, ResvFit
<1>16. HeldOK'
  <2>1. Held(resv, b) \in Int /\ budget[b].reserved \in Int /\ -a \in Int
    BY <1>7, <1>8
  <2>2. HeldFit(resv', budget', astray, blame)
    BY <1>4, <1>7, <1>9, <2>1, HeldMoves
  <2> QED BY <1>1, <2>2 DEF HeldOK
<1>17. LineOK'
  <2>1. Line(writes, blame, ord, fill'.pc)
    BY <1>1, <1>12, LineKeeps DEF Core, LineOK
  <2> QED BY <1>1, <1>6, <2>1 DEF LineOK
<1>18. FillOK'
  BY <1>1, <1>2, <1>11, <1>12 DEF Core, FillOK, FillFit, Holding
<1>19. SettledFills = keys /\ SettledFills' = keys \cup {next} /\ Bot' = b
  BY <1>1, <1>12 DEF SettledFills, Bot, Event, b
<1>20. IsFiniteSet(keys) /\ Costed(events, keys \cup {next})
  <2>1. keys \cup {next} \subseteq 1..Len(events) /\ IsFiniteSet(keys)
    BY <1>2, <1>19, SettledIs
  <2>2. \A i \in 1..Len(events) : events[i].cost \in Nat
    BY EventIs DEF Core, OrdersOK
  <2> QED BY <2>1, <2>2 DEF Costed
<1>21. SettledOK'
  <2>1. IsFiniteSet(DOMAIN direct) /\ \A p \in DOMAIN direct : direct[p] \in Nat
    BY DEF Core, OrdersOK, OrdersFit
  <2>2. SettledFit(budget, events, keys, direct) => SettledFit(budget', events, keys \cup {next}, direct)
    BY <1>2, <1>3, <1>4, <1>7, <1>20, <2>1, EventSettles
  <2> QED BY <1>1, <1>12, <1>19, <2>2 DEF Core, SettledOK, Holding, b
<1>22. \A p : p # o => next \notin FillsIn(events, p)
  BY <1>2 DEF FillsIn
<1>23. /\ \A p \in DOMAIN resv' : p # o => p \in DOMAIN resv /\ resv'[p] = resv[p]
       /\ o \in DOMAIN resv' => /\ o \in DOMAIN resv /\ Cardinality(FillsIn(events, o)) < Qty[o]
                                /\ resv'[o] = resv[o] - Covered(o, cost) /\ Remaining(o) = resv[o]
  <2>1. o \in Sells => o \notin DOMAIN resv
    BY DEF Core, ResvOK, ResvFit
  <2>2. Cardinality(FillsIn(events, o)) \in Nat /\ Qty[o] \in Nat
    BY <1>3, CountIs
  <2>3. \/ o \in Sells /\ resv' = resv
        \/ o \notin Sells /\ resv' = Without(resv, o)
        \/ /\ ~(Cardinality(FillsIn(events, o)) >= Qty[o])
           /\ resv' = IF o \in DOMAIN resv THEN With(resv, o, Remaining(o) - Covered(o, cost)) ELSE resv
    BY DEF FillSettle, Terminal, Fills, FillsIn, o, cost
  <2>4. CASE o \in Sells /\ resv' = resv
    BY <2>1, <2>4
  <2>5. CASE resv' = Without(resv, o)
    BY <2>5, WithoutIs
  <2>6. CASE /\ ~(Cardinality(FillsIn(events, o)) >= Qty[o])
             /\ resv' = IF o \in DOMAIN resv THEN With(resv, o, Remaining(o) - Covered(o, cost)) ELSE resv
    BY <2>2, <2>6 DEF With, Remaining
  <2> QED BY <2>3, <2>4, <2>5, <2>6
<1>24. CoverOK'
  <2> SUFFICES ASSUME errors = 0, CoverFit(resv, limit, events, keys),
                      NEW p \in DOMAIN resv', limit[p] # 0
               PROVE  (Qty[p] - Cardinality(FillsIn(events, p) \cap (keys \cup {next}))) * Price[p] <= resv'[p]
    BY <1>1, <1>6, <1>19 DEF Core, CoverOK, CoverFit
  <2>1. CASE p # o
    <3>1. FillsIn(events, p) \cap (keys \cup {next}) = FillsIn(events, p) \cap keys
      BY <1>22, <2>1
    <3> QED BY <1>23, <2>1, <3>1 DEF CoverFit
  <2>2. CASE p = o
    <3> DEFINE S == FillsIn(events, o) \cap keys
               c == Cardinality(S)
               q == Qty[o]
               u == Price[o]
               k == Covered(o, cost)
    <3>1. FillsIn(events, o) \cap (keys \cup {next}) = S \cup {next} /\ next \notin S
      BY <1>2 DEF FillsIn
    <3>2. IsFiniteSet(S)
      BY <1>20, FS_Subset
    <3> HIDE DEF S
    <3>3. c \in Nat /\ Cardinality(S \cup {next}) = c + 1
      BY <3>1, <3>2, FS_AddElement, FS_CardinalityType
    <3>4. q \in Nat /\ u \in Nat /\ cost <= u
      <4>1. limit[events[next].order] # 0 => events[next].cost <= Price[events[next].order]
        BY <1>2 DEF Core, LimitOK, LimitFit
      <4> QED BY <1>2, <1>3, <2>2, <4>1, OrdersAssumption, AmendAssumption
    <3>5. (q - c) * u <= resv[o]
      BY <1>23, <2>2 DEF CoverFit, S
    <3>6. resv[o] \in Nat /\ Remaining(o) = resv[o] /\ resv'[o] = resv[o] - k
      BY <1>23, <2>2 DEF Core, ResvOK, ResvFit
    <3>7. k \in Nat /\ k <= resv[o] /\ k <= cost
      BY <1>3, <3>6, CoveredIs
    <3> HIDE DEF c, q, u, k
    <3>8. (q - (c + 1)) * u = (q - c) * u - u
      BY ONLY <3>3, <3>4
    <3>9. (q - c) * u \in Int
      BY ONLY <3>3, <3>4
    <3>10. k <= u
      BY ONLY <1>3, <3>4, <3>6, <3>7
    <3>11. (q - (c + 1)) * u <= resv[o] - k
      BY ONLY <3>4, <3>5, <3>6, <3>7, <3>8, <3>9, <3>10
    <3> QED BY <2>2, <3>1, <3>3, <3>6, <3>11 DEF c, q, u, k
  <2> QED BY <2>1, <2>2
<1>25. EndedOK'
  <2> SUFFICES ASSUME EndedFit(resv, ord, events, next, fill.pc), NEW p \in DOMAIN resv', ord[p] = "ended"
               PROVE  /\ Cardinality(FillsIn(events, p)) >= Qty[p]
                      /\ \E i \in FillsIn(events, p) : i > next \/ (i = next /\ fill'.pc \in {"idle", "waiting", "begun"})
    BY <1>1 DEF Core, EndedOK, EndedFit
  <2>1. CASE p # o
    BY <1>22, <1>23, <2>1 DEF EndedFit
  <2>2. CASE p = o
    <3>1. Cardinality(FillsIn(events, o)) >= Qty[o] /\ Cardinality(FillsIn(events, o)) < Qty[o]
      BY <1>23, <2>2 DEF EndedFit
    <3>2. Cardinality(FillsIn(events, o)) \in Nat /\ Qty[o] \in Nat
      BY <1>3, CountIs
    <3> QED BY <3>1, <3>2
  <2> QED BY <2>1, <2>2
<1> QED BY <1>13, <1>14, <1>15, <1>16, <1>17, <1>18, <1>21, <1>24, <1>25 DEF Core

\* The roll-back to the snapshot keeps the invariant.
LEMMA FillRollbackKeeps ==
    ASSUME Core, FillRollback, UNCHANGED limit
    PROVE  Core'
<1> DEFINE o == Event.order
           b == Bot
<1>1. /\ balance' = balance /\ unallocated' = unallocated
      /\ mix' = mix /\ up' = up
      /\ row' = row /\ stored' = stored /\ keys' = keys /\ writes' = writes
      /\ ord' = ord /\ events' = events /\ next' = next /\ direct' = direct
      /\ crashes' = crashes /\ errors' = errors + 1 /\ others' = others /\ limit' = limit
      /\ fill.pc \in {"begun", "settled"} /\ fill' = Finished
      /\ budget' = With(budget, b, fill.budget)
      /\ resv' = IF fill.present THEN With(resv, o, fill.resv) ELSE Without(resv, o)
  BY DEF FillRollback, database, world, outbox
<1>2. /\ next \in 1..Len(events) /\ o = events[next].order /\ b = BotOf[o]
      /\ b \in DOMAIN budget /\ (fill.present => o \notin Sells)
  BY <1>1, EventIs DEF Core, OrdersOK, FillOK, FillFit, Holding, Bot, Event
<1>3. o \in Orders /\ ord[o] # "new"
  BY <1>2, EventIs DEF Core, OrdersOK, OrdersFit
<1>4. errors \in Nat /\ crashes \in Nat /\ fill.budget \in Record /\ fill.resv \in Nat
  BY DEF Core, TypesOK, Task
<1>5. errors' \in Nat /\ errors' # 0 /\ crashes' + errors' # 0
  BY <1>1, <1>4
<1>6. fill' \in Task /\ fill'.pc = "done" /\ fill'.staged = NewBudget
  BY <1>1, IdleIs
<1>7. up
  BY <1>1, IdleIs DEF Core, LineOK
<1> HIDE DEF o, b
<1>8. TypesOK' /\ OrdersOK' /\ LimitOK'
  BY <1>1, <1>5, <1>6 DEF Core, TypesOK, OrdersOK, LimitOK
<1>9. AllocatedOK' /\ CoverOK' /\ EndedOK'
  BY <1>5 DEF AllocatedOK, CoverOK, EndedOK
<1>16. \A x \in Bots : blame'[x] # 0
  BY <1>5 DEF blame
<1>10. DOMAIN budget' = DOMAIN budget
  BY <1>1, <1>2 DEF With
<1>11. BooksOK'
  <2>1. b \in Bots
    BY <1>2 DEF Core, BooksOK, Book
  <2>2. Book(budget, blame') /\ Book(row, blame') /\ Good(fill.budget, blame'[b])
    BY <1>4, <1>16, <2>1, BookLater DEF Core, BooksOK, Good
  <2>3. Book(budget', blame')
    BY <1>1, <2>1, <2>2, BookWith
  <2> QED BY <1>1, <1>6, <2>2, <2>3 DEF BooksOK
<1>17. HeldOK'
  <2>1. DOMAIN budget' \subseteq Bots
    BY <1>10 DEF Core, BooksOK, Book
  <2> QED BY <1>16, <2>1 DEF HeldOK, HeldFit
<1>12. ResvOK'
  <2>1. ResvFit(resv, ord, budget)
    BY DEF Core, ResvOK
  <2>2. ResvFit(resv', ord, budget)
    BY <1>1, <1>2, <1>3, <1>4, <2>1, ResvWith, ResvWithout
  <2> QED BY <1>1, <1>10, <2>2 DEF ResvOK, ResvFit
<1>13. LineOK'
  <2>1. Line(writes, blame', ord, fill'.pc)
    BY <1>1, <1>6, <1>16, LineKeeps DEF Core, LineOK
  <2> QED BY <1>1, <1>7, <2>1 DEF LineOK
<1>14. FillOK'
  BY <1>1, <1>2, <1>5, <1>6 DEF Core, FillOK, FillFit, Holding
<1>15. SettledOK'
  <2>1. SettledFills' = keys /\ (SettledFills = keys \/ SettledFills = keys \cup {next})
    BY <1>1, <1>6 DEF SettledFills
  <2>2. IsFiniteSet(keys) /\ Costed(events, keys \cup {next})
    <3>1. keys \subseteq 1..Len(events) /\ IsFiniteSet(1..Len(events))
      BY EventIs, EventsFinite DEF Core, OrdersOK, FillOK, FillFit
    <3>2. \A i \in 1..Len(events) : events[i].cost \in Nat
      BY EventIs DEF Core, OrdersOK
    <3> QED BY <1>2, <3>1, <3>2, FS_Subset DEF Costed
  <2>3. crashes = 0 => /\ SettledFit(budget, events, SettledFills, direct)
                       /\ Matches(fill.budget, events, keys, direct, b)
    BY <1>1 DEF Core, SettledOK, Holding, b
  <2>4. crashes = 0 => SettledFit(budget', events, keys, direct)
    BY <1>1, <1>2, <2>1, <2>2, <2>3, RollbackSettles
  <2> QED BY <1>1, <1>6, <2>1, <2>4 DEF SettledOK, Holding
<1> QED BY <1>8, <1>9, <1>11, <1>12, <1>13, <1>14, <1>15, <1>17 DEF Core

\* A crash keeps the invariant.
LEMMA CrashKeeps ==
    ASSUME Core, Crash, UNCHANGED limit
    PROVE  Core'
<1>1. /\ balance' = balance /\ unallocated' = unallocated /\ budget' = budget /\ resv' = resv
      /\ mix' = mix /\ up' = FALSE
      /\ row' = row /\ stored' = stored /\ keys' = keys /\ writes' = <<>>
      /\ events' = events /\ next' = next /\ direct' = direct
      /\ crashes' = crashes + 1 /\ errors' = errors /\ others' = others /\ limit' = limit
      /\ fill' = Idle
      /\ ord' = [o \in Orders |-> IF ord[o] = "reserving" THEN "ended" ELSE ord[o]]
  BY DEF Crash, memory, database, outbox
<1>2. /\ errors \in Nat /\ crashes \in Nat /\ crashes' \in Nat /\ crashes' # 0 /\ crashes' + errors' # 0
  BY <1>1 DEF Core, TypesOK
<1>3. fill' \in Task /\ fill'.pc = "idle" /\ fill'.staged = NewBudget
  BY <1>1, IdleIs
<1>4. /\ ord \in [Orders -> Statuses] /\ ord' \in [Orders -> Statuses]
      /\ \A o \in Orders : ord'[o] # ord[o] => ord[o] = "reserving" /\ ord'[o] = "ended"
  BY <1>1 DEF Core, OrdersOK, OrdersFit, Statuses
<1>5. TypesOK' /\ LimitOK'
  BY <1>1, <1>2, <1>3 DEF Core, TypesOK, LimitOK
<1>6. AllocatedOK' /\ HeldOK' /\ CoverOK' /\ EndedOK' /\ SettledOK'
  BY <1>1, <1>2 DEF AllocatedOK, HeldOK, CoverOK, EndedOK, SettledOK
<1>7. BooksOK'
  <2>1. blame' = blame
    BY <1>1 DEF Crash, crossed, blame
  <2> QED BY <1>1, <1>3, <2>1 DEF Core, BooksOK
<1>8. OrdersOK'
  <2>1. \A p \in Orders : ord[p] = "reserving" => p \in mix
    BY DEF Core, OrdersOK, OrdersFit
  <2>2. OrdersFit(mix, ord', events, direct)
    BY <1>4, <2>1, OrdersKeep DEF Core, OrdersOK
  <2> QED BY <1>1, <2>2 DEF OrdersOK
<1>9. ResvOK'
  <2>1. DOMAIN resv \subseteq Orders /\ \A p \in DOMAIN resv : ord[p] # "new" /\ ord'[p] # "new"
    BY <1>4 DEF Core, ResvOK, ResvFit
  <2> QED BY <1>1, <2>1 DEF Core, ResvOK, ResvFit
<1>10. LineOK'
  <2>1. writes' \in Seq(Message) /\ DOMAIN writes' = {}
    BY <1>1, EmptySeq, EmptyIs
  <2> QED BY <1>1, <2>1 DEF LineOK, Line
<1>11. FillOK'
  BY <1>1, <1>2, <1>3 DEF Core, FillOK, FillFit, Holding
<1> QED BY <1>5, <1>6, <1>7, <1>8, <1>9, <1>10, <1>11 DEF Core

\* A restart, which reads the rows, keeps the invariant.
LEMMA RestartKeeps ==
    ASSUME Core, Restart, UNCHANGED limit
    PROVE  Core'
<1>1. /\ ~up /\ up' = TRUE /\ balance' = stored /\ budget' = row /\ resv' = <<>>
      /\ unallocated' = stored - TotalAllocated(row)
      /\ mix' = mix /\ fill' = fill
      /\ row' = row /\ stored' = stored /\ keys' = keys /\ writes' = writes
      /\ ord' = ord /\ events' = events /\ next' = next /\ direct' = direct
      /\ crashes' = crashes /\ errors' = errors /\ others' = others /\ limit' = limit
      /\ blame' = blame /\ astray' = astray
  BY DEF Restart, database, world, outbox, crossed, blame, astray
<1>2. fill.pc = "idle" /\ crashes # 0 /\ crashes \in Nat /\ errors \in Nat
  BY <1>1, IdleIs DEF Core, LineOK, TypesOK
<1>3. Book(row, blame) /\ TotalAllocated(row) \in Int
  BY TotalIs DEF Core, BooksOK
<1>4. TypesOK' /\ OrdersOK' /\ LimitOK' /\ AllocatedOK'
  BY <1>1, <1>3 DEF Core, TypesOK, OrdersOK, LimitOK, AllocatedOK
<1>5. BooksOK'
  BY <1>1 DEF Core, BooksOK, Bot, Event
<1>6. ResvOK'
  <2>1. resv' = [o \in DOMAIN resv' |-> resv'[o]]
    BY <1>1
  <2> QED BY <1>1, <2>1, EmptyIs DEF ResvOK, ResvFit
<1>7. HeldOK'
  <2>1. \A b : Held(resv', b) = 0
    BY <1>1, EmptyIs, HeldNothing
  <2>2. \A b \in DOMAIN row : row[b].reserved \in Nat
    BY <1>3 DEF Book, Good, Record
  <2>3. DOMAIN row \subseteq Bots /\ \A b \in Bots : astray[b] # 0
    BY <1>2, <1>3 DEF Book, astray
  <2> QED BY <1>1, <2>1, <2>2, <2>3 DEF HeldOK, HeldFit
<1>8. LineOK'
  BY <1>1 DEF Core, LineOK
<1>9. FillOK'
  BY <1>1, <1>2 DEF Core, FillOK, FillFit, Holding
<1>10. SettledOK' /\ CoverOK' /\ EndedOK'
  BY <1>1, <1>2, EmptyIs DEF SettledOK, CoverOK, CoverFit, EndedOK
<1> QED BY <1>4, <1>5, <1>6, <1>7, <1>8, <1>9, <1>10 DEF Core

-----------------------------------------------------------------------------
(* Every step of the desk keeps it *)

\* Every step of the treasury keeps the invariant.
LEMMA BooksKeep ==
    ASSUME Core, Books, UNCHANGED limit
    PROVE  Core'
<1>1. CASE SyncVirtual \/ \E c \in Balances[mix] : SyncBalance(c)
  BY <1>1, SyncVirtualKeeps, SyncBalanceKeeps
<1>2. ASSUME NEW b \in Bots, NEW a \in Amounts, Allocate(b, a) \/ Deallocate(b, a) \/ UpdateBudget(b, a)
      PROVE  Core'
  <2>1. a \in Int
    BY MoneyAssumption
  <2> QED BY <1>2, <2>1, AllocateKeeps, UpdateBudgetKeeps
<1>3. ASSUME NEW b \in Bots, StartBot(b) PROVE Core'
  BY <1>3, StartBotKeeps
<1>4. ASSUME NEW o \in Orders, Reserve(o) \/ ApproveSell(o) \/ RejectOrder(o) \/ OrderEnds(o, BotOf[o]) PROVE Core'
  <2>1. BotOf[o] \in Bots
    BY OrdersAssumption
  <2> QED BY <1>4, <2>1, ReserveKeeps, NewOrderKeeps, OrderEndsKeeps
<1>5. ASSUME NEW o \in Orders, NEW c \in Costs, VirtualFill(o, c) PROVE Core'
  <2>1. c \in Nat
    BY MoneyAssumption
  <2> QED BY <1>5, <2>1, VirtualFillKeeps
<1>6. CASE FillStart \/ FillBegin \/ FillSettle \/ FillCommit \/ FillRollback
  BY <1>6, FillStartKeeps, FillBeginKeeps, FillSettleKeeps, FillCommitKeeps, FillRollbackKeeps
<1>7. CASE MarkPublished \/ MarkFails \/ Write \/ WriteFails \/ Restart
  BY <1>7, MarkKeeps, WriteKeeps, WriteFailsKeeps, RestartKeeps
<1> QED BY <1>1, <1>2, <1>3, <1>4, <1>5, <1>6, <1>7 DEF Books

\* Only the count of incidents and a price of the broker change.
LEMMA DeskKeeps ==
    ASSUME Core, limit' \in [Orders -> Nat],
           \A o \in Orders : limit'[o] # limit[o] => limit[o] # 0 /\ limit'[o] # 0 /\ limit'[o] <= Price[o],
           others' \in Nat,
           UNCHANGED <<mix, crossed, memory, fill, up, database, writes, world, crashes, errors>>
    PROVE  Core'
<1>1. /\ balance' = balance /\ unallocated' = unallocated
      /\ mix' = mix /\ budget' = budget /\ resv' = resv /\ fill' = fill /\ up' = up
      /\ row' = row /\ stored' = stored /\ keys' = keys /\ writes' = writes
      /\ ord' = ord /\ events' = events /\ next' = next /\ direct' = direct
      /\ crashes' = crashes /\ errors' = errors
      /\ blame' = blame /\ astray' = astray
  BY DEF memory, database, world, outbox, crossed, blame, astray
<1>2. TypesOK' /\ AllocatedOK' /\ LineOK'
  BY <1>1 DEF Core, TypesOK, AllocatedOK, LineOK
<1>3. OrdersOK' /\ BooksOK' /\ ResvOK' /\ HeldOK' /\ FillOK' /\ EndedOK'
  BY <1>1 DEF Core, OrdersOK, BooksOK, ResvOK, HeldOK, FillOK, EndedOK, Bot, Event
<1>4. SettledOK'
  BY <1>1 DEF Core, SettledOK, SettledFills, Bot, Event
<1>5. \A o \in Orders : /\ limit'[o] # 0 => limit[o] # 0
                        /\ limit'[o] <= Price[o]
  BY DEF Core, LimitOK, LimitFit
<1>6. LimitOK'
  <2>1. \A i \in 1..Len(events) : events[i].order \in Orders
    BY EventIs DEF Core, OrdersOK
  <2> QED BY <1>1, <1>5, <2>1 DEF Core, LimitOK, LimitFit
<1>7. CoverOK'
  <2>1. SettledFills' = SettledFills /\ DOMAIN resv \subseteq Orders
    BY <1>1 DEF SettledFills, Core, ResvOK, ResvFit
  <2> QED BY <1>1, <1>5, <2>1 DEF Core, CoverOK, CoverFit
<1> QED BY <1>2, <1>3, <1>4, <1>6, <1>7 DEF Core

\* A bot is told something else; if it waits for the broker, then to a sound price.
LEMMA AskedKeeps ==
    ASSUME AskedOK, UNCHANGED limit, NEW b \in Bots, NEW r \in Action, Asked(b, r),
           r.pc = "modify" => limit[r.order] # 0 /\ r.to.price > 0 /\ r.to.price <= Price[r.order]
    PROVE  AskedOK'
<1>1. asked' = [asked EXCEPT ![b] = r] /\ asked \in [Bots -> Action]
  BY DEF Asked, AskedOK
<1>2. asked' \in [Bots -> Action] /\ asked'[b] = r /\ \A c \in Bots : c # b => asked'[c] = asked[c]
  BY <1>1
<1> QED BY <1>2 DEF AskedOK

\* The records of the actions bots wait for.
LEMMA ActionIs ==
    /\ Nothing \in Action /\ Nothing.pc = "none"
    /\ [pc |-> "done"] \in Action /\ [pc |-> "done"].pc = "done"
    /\ \A o \in Orders : [pc |-> "cancel", order |-> o] \in Action
    /\ \A o \in Orders, c \in Changes :
          [pc |-> "rules", order |-> o, to |-> c, consumed |-> FALSE] \in Action
    /\ \A x \in Action : x.pc = "cancel" => x.order \in Orders
    /\ \A x \in Action : x.pc \in {"rules", "gateway", "modify"} =>
          /\ x \in [pc : {"rules", "gateway", "modify"}, order : Orders, to : Changes, consumed : BOOLEAN]
          /\ x.order \in Orders /\ x.to \in Changes
BY DEF Action, Nothing

\* The record of a modification on its way.
LEMMA ModificationIs ==
    ASSUME NEW x \in Action, x.pc \in {"rules", "gateway", "modify"}, NEW pc \in {"gateway", "modify"}
    PROVE  /\ [x EXCEPT !.pc = pc] \in Action /\ [x EXCEPT !.pc = pc].pc = pc
           /\ [x EXCEPT !.pc = pc].order = x.order /\ [x EXCEPT !.pc = pc].to = x.to
           /\ [x EXCEPT !.pc = pc, !.consumed = TRUE] \in Action
           /\ [x EXCEPT !.pc = pc, !.consumed = TRUE].pc = pc
<1>1. x \in [pc : {"rules", "gateway", "modify"}, order : Orders, to : Changes, consumed : BOOLEAN]
  BY ActionIs
<1>2. [x EXCEPT !.pc = pc] \in [pc : {"rules", "gateway", "modify"}, order : Orders, to : Changes, consumed : BOOLEAN]
  BY <1>1
<1>3. [x EXCEPT !.pc = pc, !.consumed = TRUE]
        \in [pc : {"rules", "gateway", "modify"}, order : Orders, to : Changes, consumed : BOOLEAN]
  BY <1>1
<1> QED BY <1>1, <1>2, <1>3 DEF Action

\* A step of the desk that leaves the books and the limits alone keeps the invariant.
LEMMA StillCore ==
    ASSUME Core, UNCHANGED <<vars, limit>>
    PROVE  Core'
<1>1. /\ UNCHANGED <<mix, crossed, memory, fill, up, database, writes, world, crashes, errors>>
      /\ others' = others /\ limit' = limit
  BY DEF vars
<1>2. others \in Nat /\ limit \in [Orders -> Nat]
  BY DEF Core, TypesOK, LimitOK, LimitFit
<1> QED BY <1>1, <1>2, DeskKeeps

\* The publication of a bot's actions keeps the invariant.
LEMMA PublishKeeps ==
    ASSUME Inv, NEW b \in Bots, NEW o, NEW r \in Action, r.pc # "modify", Publish(b, o, r)
    PROVE  Inv'
<1>1. /\ UNCHANGED <<mix, crossed, memory, fill, up, database, writes, world, crashes, errors>>
      /\ others' = others + 1 /\ limit' = limit /\ Asked(b, r)
  BY DEF Publish
<1>2. others' \in Nat /\ limit \in [Orders -> Nat]
  BY <1>1 DEF Inv, Core, TypesOK, LimitOK, LimitFit
<1>3. Core'
  BY <1>1, <1>2, DeskKeeps DEF Inv
<1>4. AskedOK'
  BY <1>1, AskedKeeps DEF Inv
<1> QED BY <1>3, <1>4 DEF Inv

\* The action of b is answered or goes on, and nothing else changes.
LEMMA AnswerKeeps ==
    ASSUME Inv, NEW b \in Bots,
           CancelFails(b) \/ RuleRefuses(b) \/ RulePasses(b) \/ GatewayModify(b) \/ GoOn(b)
    PROVE  Inv'
<1>1. limit' = limit /\ UNCHANGED <<vars, limit>>
  BY DEF CancelFails, RuleRefuses, RulePasses, GatewayModify, GoOn
<1>2. Core'
  BY <1>1, StillCore DEF Inv
<1>3. asked[b] \in Action /\ AskedOK
  BY DEF Inv, AskedOK
<1> DEFINE x == asked[b]
<1>4. CASE CancelFails(b) \/ GoOn(b)
  <2>1. Asked(b, [pc |-> "done"]) \/ Asked(b, Nothing)
    BY <1>4 DEF CancelFails, GoOn, Answered
  <2>2. AskedOK'
    BY <1>1, <1>3, <2>1, ActionIs, AskedKeeps
  <2> QED BY <1>2, <2>2 DEF Inv
<1>5. CASE RuleRefuses(b) \/ RulePasses(b)
  <2>1. x.pc = "rules" /\ (Asked(b, [x EXCEPT !.pc = "gateway", !.consumed = TRUE]) \/ Asked(b, [x EXCEPT !.pc = "gateway"]))
    BY <1>5 DEF RuleRefuses, RulePasses, Goes
  <2>2. /\ [x EXCEPT !.pc = "gateway"] \in Action /\ [x EXCEPT !.pc = "gateway"].pc = "gateway"
        /\ [x EXCEPT !.pc = "gateway", !.consumed = TRUE] \in Action
        /\ [x EXCEPT !.pc = "gateway", !.consumed = TRUE].pc = "gateway"
    BY <1>3, <2>1, ModificationIs
  <2> HIDE DEF x
  <2>3. AskedOK'
    BY <1>1, <1>3, <2>1, <2>2, AskedKeeps
  <2> QED BY <1>2, <2>3 DEF Inv
<1>6. CASE GatewayModify(b)
  <2>1. CASE Answered(b)
    <3>1. AskedOK'
      BY <1>1, <1>3, <2>1, ActionIs, AskedKeeps DEF Answered
    <3> QED BY <1>2, <3>1 DEF Inv
  <2>2. CASE Modifiable(b, x.order, x.to) /\ Goes(b, "modify")
    <3> DEFINE y == [x EXCEPT !.pc = "modify"]
    <3>1. x.pc = "gateway" /\ Asked(b, y)
      BY <1>6, <2>2 DEF GatewayModify, Goes
    <3>2. y \in Action /\ y.pc = "modify" /\ y.order = x.order /\ y.to = x.to /\ x.order \in Orders
      BY <1>3, <3>1, ModificationIs, ActionIs
    <3>3. limit[x.order] # 0 /\ x.to.price > 0 /\ (x.order \notin Sells => x.to.price <= Price[x.order])
      BY <2>2 DEF Modifiable
    <3>4. x.order \notin Sells
      BY <3>2, <3>3 DEF Inv, Core, LimitOK, LimitFit
    <3> HIDE DEF x, y
    <3>5. AskedOK'
      BY <1>1, <1>3, <3>1, <3>2, <3>3, <3>4, AskedKeeps
    <3> QED BY <1>2, <3>5 DEF Inv
  <2> QED BY <1>6, <2>1, <2>2 DEF GatewayModify
<1> QED BY <1>4, <1>5, <1>6

\* A modification, as far as its handlers take it, keeps the invariant.
LEMMA ModifyKeeps ==
    ASSUME Inv, NEW b \in Bots, ModifyFails(b) \/ Modified(b)
    PROVE  Inv'
<1> DEFINE o == asked[b].order
           p == asked[b].to.price
<1>1. /\ asked[b].pc = "modify" /\ UNCHANGED vars /\ asked' = [asked EXCEPT ![b] = [pc |-> "done"]]
      /\ limit' = limit \/ limit' = [limit EXCEPT ![o] = p]
  BY DEF ModifyFails, Modified, Answered, Asked
<1>2. asked \in [Bots -> Action] /\ o \in Orders /\ asked[b].to \in Changes
  BY <1>1, ActionIs DEF Inv, AskedOK
<1>3. limit[o] # 0 /\ p > 0 /\ p <= Price[o]
  BY <1>1 DEF Inv, AskedOK
<1>4. p \in Nat /\ limit \in [Orders -> Nat]
  BY <1>2, AmendAssumption DEF Inv, Core, LimitOK, LimitFit
<1> HIDE DEF o, p
<1>5. /\ limit' \in [Orders -> Nat]
      /\ \A q \in Orders : limit'[q] # limit[q] => limit[q] # 0 /\ limit'[q] # 0 /\ limit'[q] <= Price[q]
  BY <1>1, <1>2, <1>3, <1>4
<1>6. /\ UNCHANGED <<mix, crossed, memory, fill, up, database, writes, world, crashes, errors>> /\ others' = others
  BY <1>1 DEF vars
<1>7. Core'
  <2>1. others' \in Nat
    BY <1>6 DEF Inv, Core, TypesOK
  <2> QED BY <1>5, <1>6, <2>1, DeskKeeps DEF Inv
<1>8. asked' \in [Bots -> Action] /\ asked'[b].pc = "done" /\ \A c \in Bots : c # b => asked'[c] = asked[c]
  BY <1>1, <1>2, ActionIs
<1>9. AskedOK'
  <2>1. ASSUME NEW c \in Bots, asked'[c].pc = "modify"
        PROVE  /\ limit'[asked'[c].order] # 0
               /\ asked'[c].to.price > 0 /\ asked'[c].to.price <= Price[asked'[c].order]
    <3>1. asked'[c] = asked[c] /\ asked[c].pc = "modify"
      BY <1>8, <2>1
    <3>2. asked[c].order \in Orders
      BY <1>2, <3>1, ActionIs
    <3>3. limit[asked[c].order] # 0
      BY <3>1 DEF Inv, AskedOK
    <3>4. limit'[asked[c].order] # 0
      BY <1>5, <3>2, <3>3
    <3> QED BY <3>1, <3>4 DEF Inv, AskedOK
  <2> QED BY <1>8, <2>1 DEF AskedOK
<1> QED BY <1>7, <1>9 DEF Inv

\* Every step keeps the invariant.
LEMMA NextKeeps ==
    ASSUME Inv, [Next]_allvars
    PROVE  Inv'
<1>1. CASE Books /\ UNCHANGED desk
  <2>1. limit' = limit /\ asked' = asked
    BY <1>1 DEF desk
  <2>2. Core'
    BY <1>1, <2>1, BooksKeep DEF Inv
  <2>3. AskedOK'
    BY <2>1 DEF Inv, AskedOK
  <2> QED BY <2>2, <2>3 DEF Inv
<1>2. ASSUME NEW o \in Orders, NEW c \in Costs, MarketFill(o, c) PROVE Inv'
  <2>1. limit' = limit /\ asked' = asked /\ c \in Nat /\ TrackerFill(o, c) /\ (limit[o] # 0 => c <= Price[o])
    BY <1>2, MoneyAssumption DEF MarketFill, desk
  <2>2. Core'
    BY <2>1, TrackerFillKeeps DEF Inv
  <2>3. AskedOK'
    BY <2>1 DEF Inv, AskedOK
  <2> QED BY <2>2, <2>3 DEF Inv
<1>3. ASSUME NEW b \in Bots, NEW o \in Orders, AskCancel(b, o) \/ \E c \in Changes : AskModify(b, o, c)
      PROVE  Inv'
  <2>1. CASE AskCancel(b, o)
    <3> DEFINE r == [pc |-> "cancel", order |-> o]
    <3>1. r \in Action /\ r.pc # "modify" /\ Publish(b, o, r)
      BY <2>1, ActionIs DEF AskCancel
    <3> HIDE DEF r
    <3> QED BY <3>1, PublishKeeps
  <2>2. ASSUME NEW c \in Changes, AskModify(b, o, c) PROVE Inv'
    <3> DEFINE r == [pc |-> "rules", order |-> o, to |-> c, consumed |-> FALSE]
    <3>1. r \in Action /\ r.pc # "modify" /\ Publish(b, o, r)
      BY <2>2, ActionIs DEF AskModify
    <3> HIDE DEF r
    <3> QED BY <3>1, PublishKeeps
  <2> QED BY <1>3, <2>1, <2>2
<1>4. ASSUME NEW b \in Bots,
             \/ CancelFails(b) \/ RuleRefuses(b) \/ RulePasses(b) \/ GatewayModify(b) \/ GoOn(b)
             \/ ModifyFails(b) \/ Modified(b)
      PROVE  Inv'
  BY <1>4, AnswerKeeps, ModifyKeeps
<1>5. ASSUME NEW b \in Bots, Cancelled(b) PROVE Inv'
  <2>1. /\ asked[b].pc = "cancel" /\ OrderEnds(asked[b].order, b) /\ limit' = limit
        /\ Asked(b, [pc |-> "done"])
    BY <1>5 DEF Cancelled, Answered
  <2>2. asked[b].order \in Orders
    BY <2>1, ActionIs DEF Inv, AskedOK
  <2>3. Core'
    BY <2>1, <2>2, OrderEndsKeeps DEF Inv
  <2>4. AskedOK'
    BY <2>1, ActionIs, AskedKeeps DEF Inv
  <2> QED BY <2>3, <2>4 DEF Inv
<1>6. ASSUME NEW b \in Bots, Stop(b) PROVE Inv'
  <2>1. BotStopped(b) /\ limit' = limit /\ Asked(b, Nothing)
    BY <1>6 DEF Stop
  <2>2. Core'
    BY <2>1, BotStoppedKeeps DEF Inv
  <2>3. AskedOK'
    BY <2>1, ActionIs, AskedKeeps DEF Inv
  <2> QED BY <2>2, <2>3 DEF Inv
<1>7. CASE Die
  <2>1. Crash /\ limit' = limit /\ asked' = [b \in Bots |-> Nothing]
    BY <1>7 DEF Die
  <2>2. Core'
    BY <2>1, CrashKeeps DEF Inv
  <2>3. asked' \in [Bots -> Action] /\ \A b \in Bots : asked'[b].pc = "none"
    BY <2>1, ActionIs
  <2>4. AskedOK'
    BY <2>3 DEF AskedOK
  <2> QED BY <2>2, <2>4 DEF Inv
<1>8. CASE UNCHANGED allvars
  <2>1. UNCHANGED <<vars, limit>> /\ limit' = limit /\ asked' = asked
    BY <1>8 DEF allvars, desk
  <2>2. Core'
    BY <2>1, StillCore DEF Inv
  <2>3. AskedOK'
    BY <2>1 DEF Inv, AskedOK
  <2> QED BY <2>2, <2>3 DEF Inv
<1> QED BY <1>1, <1>2, <1>3, <1>4, <1>5, <1>6, <1>7, <1>8 DEF Next

-----------------------------------------------------------------------------
(* What it gives *)

\* Every reachable state of the books and of the desk satisfies the inductive invariant:
\* each budget in memory, in bot_budgets or waiting to be written is a sound record, what
\* is reserved is what the reservations add up to, unless a cancellation by another bot
\* (treasury.py:1404) gave or took it, what is spent is what the settled fills cost, and a
\* reservation that outlives its order waits for a fill of it.
THEOREM TreasuryInvariant == Spec => []Inv
<1>1. Init => Inv
  BY InitCore
<1>2. Inv /\ [Next]_allvars => Inv'
  BY NextKeeps
<1> QED BY <1>1, <1>2, PTL DEF Spec

\* Money is accounted for at every moment until a write fails, for any bots, orders, amounts,
\* balances and number of crashes: Treasury's budgets, rows and pending saves balance, but for
\* the bots that cancelled the order of another one and were given its reservation, and
\* unallocated is the balance without what is allocated.
THEOREM BooksAlwaysBalance == Spec => []BooksBalance
<1>1. Inv => BooksBalance
  <2> SUFFICES ASSUME Inv, errors = 0
               PROVE  /\ \A b \in DOMAIN budget \ gained : Balanced(budget[b])
                      /\ \A b \in DOMAIN row \ gained : Balanced(row[b])
                      /\ \A i \in DOMAIN writes :
                            writes[i].kind = "budget" /\ writes[i].bot \notin gained
                               => Balanced(writes[i].val)
                      /\ up => unallocated = balance - TotalAllocated(budget)
    BY DEF BooksBalance
  <2>0. \A b \in Bots \ gained : blame[b] = 0
    BY DEF blame
  <2>1. /\ \A b \in DOMAIN budget \ gained : Balanced(budget[b])
        /\ \A b \in DOMAIN row \ gained : Balanced(row[b])
    BY <2>0 DEF Inv, Core, BooksOK, Book, Good
  <2>2. ASSUME NEW i \in DOMAIN writes, writes[i].kind = "budget", writes[i].bot \notin gained
        PROVE  Balanced(writes[i].val)
    <3>1. writes[i].bot \in Bots /\ Good(writes[i].val, blame[writes[i].bot])
      BY <2>2, MessageIs DEF Inv, Core, LineOK, Line
    <3> QED BY <2>0, <2>2, <3>1 DEF Good
  <2>3. up => unallocated = balance - TotalAllocated(budget)
    BY DEF Inv, Core, AllocatedOK
  <2> QED BY <2>1, <2>2, <2>3
<1> QED BY <1>1, TreasuryInvariant, PTL

\* A fill is charged exactly once, whatever _on_order_filled's transaction and the tasks
\* that run while it waits for the lock do, as long as the process does not restart.
THEOREM FillsChargedOnce == Spec => []SpentMatchesSettlements
<1>1. Inv => SpentMatchesSettlements
  BY DEF Inv, Core, SettledOK, SettledFit, Matches, SpentMatchesSettlements
<1> QED BY <1>1, TreasuryInvariant, PTL

\* When nothing is under way and every order has ended, no reservation is left and no
\* budget has anything reserved (no crash, no failed write), but for the two bots of a
\* cancellation that release_reservation credited to the one that asked.
THEOREM NoReservationLeft == Spec => []EndedOrdersHoldNothing
<1>1. Inv => EndedOrdersHoldNothing
  <2> SUFFICES ASSUME Inv, Quiet, crashes + errors = 0, \A o \in Orders : ord[o] \in {"new", "ended"}
               PROVE  resv = <<>> /\ \A b \in DOMAIN budget \ (gained \cup lost) : budget[b].reserved = 0
    BY DEF EndedOrdersHoldNothing
  <2>1. /\ ResvFit(resv, ord, budget) /\ crashes = 0 /\ errors = 0 /\ up /\ next > Len(events)
        /\ next \in Nat /\ Len(events) \in Nat
    BY EventIs DEF Inv, Core, ResvOK, TypesOK, Quiet, OrdersOK, FillOK, FillFit
  <2>2. DOMAIN resv = {}
    <3> SUFFICES ASSUME NEW o \in DOMAIN resv PROVE FALSE
      OBVIOUS
    <3>1. ord[o] = "ended"
      BY <2>1 DEF ResvFit
    <3>2. \E i \in FillsIn(events, o) : i > next \/ i = next
      BY <2>1, <3>1 DEF Inv, Core, EndedOK, EndedFit
    <3> QED BY <2>1, <3>2 DEF FillsIn
  <2>3. resv = <<>>
    <3>1. resv = [o \in {} |-> resv[o]]
      BY <2>1, <2>2 DEF ResvFit
    <3> QED BY <3>1
  <2>4. \A b : Held(resv, b) = 0
    BY <2>2, HeldNothing
  <2>5. \A b \in DOMAIN budget \ (gained \cup lost) : budget[b].reserved = 0
    <3>1. DOMAIN budget \subseteq Bots
      BY DEF Inv, Core, BooksOK, Book
    <3>2. \A b \in DOMAIN budget \ (gained \cup lost) : blame[b] = 0 /\ astray[b] = 0
      BY <2>1, <3>1 DEF blame, astray
    <3> QED BY <2>1, <2>4, <3>2 DEF Inv, Core, HeldOK, HeldFit
  <2> QED BY <2>3, <2>5
<1> QED BY <1>1, TreasuryInvariant, PTL

\* The reservation of a limit order always covers the rest of it at the broker's price, and
\* what a bot has reserved its reservations, unless it cancelled the order of another bot,
\* however modifications, partial fills and cancellations of any bots overlap, until a write
\* fails.
THEOREM OrdersAlwaysCovered == Spec => []ReservedCoversOrders
<1>1. Inv => ReservedCoversOrders
  <2> SUFFICES ASSUME Inv, up, errors = 0
               PROVE  /\ \A o \in DOMAIN resv : limit[o] # 0 => Outstanding(o) * limit[o] <= resv[o]
                      /\ \A b \in DOMAIN budget \ gained : Held(resv, b) <= budget[b].reserved
    BY DEF ReservedCoversOrders
  <2>1. \A b \in DOMAIN budget \ gained : Held(resv, b) <= budget[b].reserved
    <3>1. \A b \in DOMAIN budget \ gained : blame[b] = 0
      BY DEF Inv, Core, BooksOK, Book, blame
    <3> QED BY <3>1 DEF Inv, Core, HeldOK, HeldFit
  <2>2. ASSUME NEW o \in DOMAIN resv, limit[o] # 0 PROVE Outstanding(o) * limit[o] <= resv[o]
    <3> DEFINE S == FillsIn(events, o) \cap SettledFills
               m == Qty[o] - Cardinality(S)
               u == Price[o]
               l == limit[o]
               r == resv[o]
    <3>1. Outstanding(o) = m
      BY DEF Outstanding, Fills, FillsIn
    <3>2. m * u <= r
      BY <2>2 DEF Inv, Core, CoverOK, CoverFit
    <3>3. o \in Orders /\ r \in Nat
      BY DEF Inv, Core, ResvOK, ResvFit
    <3>4. l \in Nat /\ u \in Nat /\ l <= u
      BY <3>3, AmendAssumption DEF Inv, Core, LimitOK, LimitFit
    <3>5. m \in Int /\ m >= 0
      <4>1. FillsIn(events, o) \subseteq 1..Len(events)
        BY DEF FillsIn
      <4>2. IsFiniteSet(1..Len(events))
        <5>1. Len(events) \in Nat
          BY EventIs DEF Inv, Core, OrdersOK
        <5> QED BY <5>1, FS_Interval
      <4>3. Cardinality(S) \in Nat /\ Cardinality(S) <= Cardinality(FillsIn(events, o))
        BY <4>1, <4>2, FS_Subset, FS_CardinalityType
      <4>4. Cardinality(FillsIn(events, o)) \in Nat /\ Qty[o] \in Nat
        BY <3>3, CountIs DEF Inv
      <4>5. Cardinality(FillsIn(events, o)) <= Qty[o]
        BY <3>3 DEF Inv, Core, OrdersOK, OrdersFit
      <4> QED BY <4>3, <4>4, <4>5
    <3> HIDE DEF m, u, l, r
    <3>6. m * l <= m * u /\ m * l \in Int /\ m * u \in Int
      BY ONLY <3>4, <3>5
    <3>7. m * l <= r
      BY ONLY <3>2, <3>3, <3>6
    <3> QED BY <3>1, <3>7 DEF l, r
  <2> QED BY <2>1, <2>2
<1> QED BY <1>1, TreasuryInvariant, PTL
=============================================================================
