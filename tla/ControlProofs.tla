---------------------------- MODULE ControlProofs ----------------------------
(***************************************************************************)
(* HaltHolds, RevokedStaysOut, ApprovedIsExecuted and LimitsBind hold for  *)
(* any number of commands at once, of accounts, rules and faults.          *)
(*                                                                         *)
(* None of them is inductive.  What is missing is who waits for the write  *)
(* lock and in which order (QueueOK): the row of an account, and the       *)
(* rules of the engine, follow what was decided last because the writes    *)
(* happen in the order in which they were asked for.                       *)
(***************************************************************************)
EXTENDS Control, FiniteSetTheorems, TLAPS

-----------------------------------------------------------------------------
(* Queues *)

\* A queue of members of S in which nobody is twice.
IsQueue(q, S) == q \in Seq(S) /\ \A i, j \in DOMAIN q : q[i] = q[j] => i = j

\* Leaving a queue closes the gap.
LEMMA WithoutShape ==
  ASSUME NEW S, NEW q, IsQueue(q, S), NEW t, Queued(q, t)
  PROVE  \E k \in 1..Len(q) :
            /\ q[k] = t
            /\ Without(q, t) = [i \in 1..(Len(q) - 1) |-> q[IF i < k THEN i ELSE i + 1]]
<1> DEFINE k == CHOOSE i \in DOMAIN q : q[i] = t
<1>1. k \in DOMAIN q /\ q[k] = t
  BY DEF Queued
<1>2. DOMAIN q = 1..Len(q)
  BY DEF IsQueue
<1>3. Without(q, t) = [i \in 1..(Len(q) - 1) |-> q[IF i < k THEN i ELSE i + 1]]
  BY DEF Without
<1> QED
  BY <1>1, <1>2, <1>3

\* Who leaves a queue is out of it, and the others keep their order.
LEMMA WithoutQueue ==
  ASSUME NEW S, NEW q, IsQueue(q, S), NEW t
  PROVE  /\ IsQueue(Without(q, t), S)
         /\ \A u : Queued(Without(q, t), u) <=> Queued(q, u) /\ u # t
         /\ \A u, v : Before(q, u, v) /\ u # t /\ v # t => Before(Without(q, t), u, v)
<1>1. DOMAIN q = 1..Len(q) /\ Len(q) \in Nat
  BY DEF IsQueue
<1>2. CASE ~Queued(q, t)
  BY <1>2 DEF Without, Queued
<1>3. CASE Queued(q, t)
  <2>1. PICK k \in 1..Len(q) :
            /\ q[k] = t
            /\ Without(q, t) = [i \in 1..(Len(q) - 1) |-> q[IF i < k THEN i ELSE i + 1]]
    BY <1>3, WithoutShape
  <2> DEFINE w == Without(q, t)
             n == Len(q) - 1
  <2>2. n \in Nat /\ DOMAIN w = 1..n
    BY <1>1, <2>1
  <2>3. \A i \in 1..n : w[i] = q[IF i < k THEN i ELSE i + 1]
    BY <2>1
  <2>4. w \in Seq(S)
    <3>1. w \in [1..n -> S]
      BY <2>1, <1>1 DEF IsQueue
    <3> QED
      BY <3>1, <2>2
  <2>5. \A i, j \in DOMAIN w : w[i] = w[j] => i = j
    BY <1>1, <2>1, <2>2, <2>3 DEF IsQueue
  <2>6. ASSUME NEW i \in DOMAIN q, i # k
        PROVE  \E j \in DOMAIN w : w[j] = q[i] /\ j = (IF i < k THEN i ELSE i - 1)
    <3>1. CASE i < k
      <4>1. i \in DOMAIN w /\ w[i] = q[i]
        BY <3>1, <1>1, <2>1, <2>2, <2>3
      <4> QED
        BY <3>1, <4>1
    <3>2. CASE i > k
      <4>1. i - 1 \in DOMAIN w /\ w[i - 1] = q[i]
        BY <3>2, <1>1, <2>1, <2>2, <2>3
      <4> QED
        BY <3>2, <4>1, <1>1
    <3> QED
      BY <3>1, <3>2, <2>6, <1>1
  <2>7. ASSUME NEW u
        PROVE  Queued(w, u) <=> Queued(q, u) /\ u # t
    <3>1. ASSUME NEW j \in DOMAIN w
          PROVE  \E i \in DOMAIN q : i # k /\ w[j] = q[i]
      BY <1>1, <2>1, <2>2, <2>3
    <3>2. \A i \in DOMAIN q : i # k => q[i] # t
      BY <1>1, <2>1 DEF IsQueue
    <3>3. Queued(w, u) => Queued(q, u) /\ u # t
      BY <3>1, <3>2 DEF Queued
    <3>4. Queued(q, u) /\ u # t => Queued(w, u)
      BY <2>1, <2>6 DEF Queued
    <3> QED
      BY <3>3, <3>4
  <2>8. ASSUME NEW u, NEW v, Before(q, u, v), u # t, v # t
        PROVE  Before(w, u, v)
    <3>1. PICK i \in DOMAIN q, j \in DOMAIN q : i < j /\ q[i] = u /\ q[j] = v
      BY <2>8 DEF Before
    <3>2. i # k /\ j # k
      BY <3>1, <2>8, <2>1
    <3> QED
      BY <3>1, <3>2, <2>6, <1>1, <2>1 DEF Before
  <2> QED
    BY <2>4, <2>5, <2>7, <2>8 DEF IsQueue
<1> QED
  BY <1>2, <1>3

\* Who joins a queue is behind everybody.
LEMMA AppendQueue ==
  ASSUME NEW S, NEW q, IsQueue(q, S), NEW t \in S, ~Queued(q, t)
  PROVE  /\ IsQueue(Append(q, t), S)
         /\ \A u : Queued(Append(q, t), u) <=> Queued(q, u) \/ u = t
         /\ \A u, v : Before(q, u, v) => Before(Append(q, t), u, v)
         /\ \A u : Queued(q, u) => Before(Append(q, t), u, t)
<1> DEFINE w == Append(q, t)
           n == Len(q)
<1>1. /\ n \in Nat /\ DOMAIN q = 1..n /\ w \in Seq(S) /\ DOMAIN w = 1..(n + 1)
      /\ w[n + 1] = t /\ \A i \in 1..n : w[i] = q[i]
  BY DEF IsQueue
<1>2. \A i, j \in DOMAIN w : w[i] = w[j] => i = j
  BY <1>1 DEF IsQueue, Queued
<1>3. \A u : Queued(w, u) <=> Queued(q, u) \/ u = t
  BY <1>1 DEF Queued
<1>4. \A u, v : Before(q, u, v) => Before(w, u, v)
  BY <1>1 DEF Before
<1>5. \A u : Queued(q, u) => Before(w, u, t)
  BY <1>1 DEF Before, Queued
<1> QED
  BY <1>1, <1>2, <1>3, <1>4, <1>5 DEF IsQueue

\* Nobody is before the head, or before himself.
LEMMA BeforeQueued ==
  ASSUME NEW S, NEW q, IsQueue(q, S), NEW u, NEW v, Before(q, u, v)
  PROVE  Queued(q, u) /\ Queued(q, v) /\ u # v /\ Head(q) # v
<1>1. PICK i \in DOMAIN q, j \in DOMAIN q : i < j /\ q[i] = u /\ q[j] = v
  BY DEF Before
<1>2. Queued(q, u) /\ Queued(q, v) /\ u # v
  BY <1>1 DEF Queued, IsQueue
<1>3. DOMAIN q = 1..Len(q) /\ Len(q) \in Nat /\ Len(q) # 0
  BY <1>1 DEF IsQueue
<1>4. Head(q) = q[1]
  BY <1>3 DEF IsQueue
<1> QED
  BY <1>1, <1>2, <1>3, <1>4 DEF IsQueue
-----------------------------------------------------------------------------
(* The inductive invariant *)

Seats == Tasks \cup {Expirer}
Waiting == {"write", "history", "failed", "token"}
Pcs == {"-", "go", "next", "set", "exec"} \cup Waiting
Ops == HotOps \cup ColdOps
Statuses == {"active", "suspended"}
Resolutions == {"approved", "rejected", "cancelled", "pending"}
Configs == [RuleTypes -> Int]
Arguments == {"-"} \cup AccountIds \cup [type : RuleTypes, limit : Limits]
Findings == {"-"} \cup Resolutions \cup Seq(AccountIds) \cup Configs

\* What a task may be: its command, where it is, its argument and what it has seen.
TaskOK == task \in [Tasks -> [op : Ops \cup {"none"}, pc : Pcs, arg : Arguments, seen : Findings, tg : BOOLEAN]]

\* Those in the queue of the write lock are those who are to write.
QueueOK ==
    /\ IsQueue(wq, Seats)
    /\ \A t \in Tasks : Queued(wq, t) <=> task[t].pc \in Waiting
    /\ Queued(wq, Expirer) <=> expire = "write"

\* t is to write the row of a.
Writes(t, a) == task[t].op \in KillOps /\ task[t].pc = "write" /\ Head(task[t].seen) = a

KillTypeOK ==
    /\ status \in [AccountIds -> Statuses] /\ rows \in [AccountIds -> Statuses]
    /\ calm \subseteq Tasks /\ halted \in BOOLEAN /\ unsaved \subseteq AccountIds

\* The commands of the kill switch run in the daemon, over accounts.
KillTasks ==
    \A t \in Tasks : task[t].op \in KillOps =>
        /\ up /\ task[t].pc \in {"go", "next", "write"}
        /\ Todo(t) \in Seq(AccountIds)
        /\ task[t].pc = "write" => Todo(t) # <<>>

\* While a calm halt is in flight, and after it has returned, no activation is in flight.
NoClear == (calm # {} \/ halted) => \A t \in Tasks : task[t].op \notin ClearOps

\* A calm halt has suspended every account that it has not still to look at.
CalmDone ==
    \A t \in calm : /\ task[t].op = "halt"
                    /\ \A a \in AccountIds : status[a] = "suspended" \/ Queued(Todo(t), a)

\* The last of those who wait to write the row of an account writes what the memory says.
LastWins ==
    \A t \in Tasks, a \in AccountIds : Writes(t, a) =>
        \/ Target(t) = status[a]
        \/ \E u \in Tasks : Writes(u, a) /\ Target(u) = status[a] /\ Before(wq, t, u)

\* A row says what the memory says, or is to be written.
RowsFollow ==
    up => \A a \in AccountIds \ unsaved : status[a] = rows[a] \/ \E t \in Tasks : Writes(t, a)

\* After a halt the accounts are suspended in the memory, and after a crash in their rows.
HaltStays ==
    halted => \A a \in AccountIds \ unsaved : IF up THEN status[a] = "suspended" ELSE rows[a] = "suspended"

KillInv == KillTypeOK /\ KillTasks /\ NoClear /\ CalmDone /\ LastWins /\ RowsFollow /\ HaltStays

MemberTypeOK ==
    /\ row \in [MemberIds -> [status : {"none", "active", "suspended", "revoked"}, token : Nat,
                              expired : BOOLEAN, scoped : BOOLEAN]]
    /\ issued \in [MemberIds -> SUBSET Nat] /\ \A m \in MemberIds : IsFiniteSet(issued[m])
    /\ gone \in BOOLEAN

\* After a revocation no suspension and no reactivation has passed its check.
RevokedFirst ==
    gone => /\ row["agent"].status = "revoked"
            /\ \A t \in Tasks : task[t].op \in StatusOps => task[t].pc = "go"

MemberInv == MemberTypeOK /\ RevokedFirst

ApprovalTypeOK ==
    /\ req \in [status : {"none", "expired", "execution_failed"} \cup Resolutions,
                type : {"rule_change", "legacy"}, late : BOOLEAN]
    /\ executed \in BOOLEAN /\ cut \in BOOLEAN /\ expire \in {"sleep", "write"}
    /\ \A t \in Tasks : task[t].op \in ApprovalOps =>
         /\ task[t].pc \in {"go", "write", "exec", "history", "failed"}
         /\ task[t].pc = "write" => task[t].seen \in Resolutions

\* What is approved has been executed, is being executed, or was cut.  Who records an
\* execution has executed.
ApprovedOrCut ==
    /\ (req.status = "approved" /\ ~cut) => executed \/ Executing # {}
    /\ \A t \in Tasks : (task[t].op \in ApprovalOps /\ task[t].pc = "history") => executed

ApprovalInv == ApprovalTypeOK /\ ApprovedOrCut

RuleTypeOK ==
    /\ stored \in Configs \cup {NoList} /\ engine \in Configs
    /\ \A t \in Tasks : task[t].op = "rule" =>
         /\ task[t].pc \in {"go", "set", "write", "history"}
         /\ task[t].arg \in [type : RuleTypes, limit : Limits]
         /\ task[t].pc # "go" => task[t].seen \in Configs

\* The engine has the rules of the store when no event is to be published and none is
\* missed; the last of those who are to publish has written what the store holds, unless
\* config set has written it since.
EngineFollows ==
    up =>
      /\ (missed = {} /\ ~\E t \in Tasks : At(t, "rule", "history")) => engine = EffectiveRules(StoredOr(Seed))
      /\ \A t \in Tasks : At(t, "rule", "history") =>
           \/ stored = task[t].seen
           \/ \E u \in Tasks : At(u, "rule", "history") /\ stored = task[u].seen /\ Before(wq, t, u)
           \/ "bypassed" \in missed

RuleInv == RuleTypeOK /\ EngineFollows

Inv ==
    /\ TaskOK /\ QueueOK /\ KillInv /\ MemberInv /\ ApprovalInv /\ RuleInv
    /\ confirm \in {"none", "halt", "clear"} /\ mix \in Mixes

-----------------------------------------------------------------------------
(* How a command moves *)

CommandsOK == TaskOK /\ QueueOK

\* Nobody but t moves, and the others keep their order before the write lock.
OnlyMoves(t) ==
    /\ CommandsOK'
    /\ \A u \in Tasks : u # t => task'[u] = task[u]
    /\ \A u, v \in Tasks : Before(wq, u, v) /\ u # t /\ v # t => Before(wq', u, v)

\* The head of the queue is behind nobody.
LEMMA LockFirst ==
  ASSUME QueueOK, NEW t, HasLock(t), up, NEW u
  PROVE  ~Before(wq, u, t)
BY BeforeQueued DEF QueueOK, HasLock

LEMMA GoesMoves ==
  ASSUME CommandsOK, expire' = expire, NEW t \in Tasks, NEW pc \in Pcs \ Waiting, NEW seen \in Findings,
         Goes(t, pc, seen)
  PROVE  /\ OnlyMoves(t)
         /\ task'[t].op = task[t].op /\ task'[t].arg = task[t].arg
         /\ task'[t].pc = pc /\ task'[t].seen = seen
<1>1. /\ task' \in [Tasks -> [op : Ops \cup {"none"}, pc : Pcs, arg : Arguments, seen : Findings, tg : BOOLEAN]]
      /\ task'[t].op = task[t].op /\ task'[t].arg = task[t].arg
      /\ task'[t].pc = pc /\ task'[t].seen = seen
      /\ \A u \in Tasks : u # t => task'[u] = task[u]
  BY DEF CommandsOK, TaskOK, Goes
<1>2. /\ IsQueue(wq', Seats)
      /\ \A u : Queued(wq', u) <=> Queued(wq, u) /\ u # t
      /\ \A u, v : Before(wq, u, v) /\ u # t /\ v # t => Before(wq', u, v)
  BY WithoutQueue DEF CommandsOK, QueueOK, Goes
<1>3. QueueOK'
  BY <1>1, <1>2, ExpirerAssumption DEF CommandsOK, QueueOK
<1> QED
  BY <1>1, <1>2, <1>3 DEF OnlyMoves, CommandsOK, TaskOK

LEMMA RequestsMoves ==
  ASSUME CommandsOK, expire' = expire, NEW t \in Tasks, NEW pc \in Waiting, NEW seen \in Findings,
         Requests(t, pc, seen)
  PROVE  /\ OnlyMoves(t)
         /\ task'[t].op = task[t].op /\ task'[t].arg = task[t].arg
         /\ task'[t].pc = pc /\ task'[t].seen = seen
         /\ \A u \in Tasks : Queued(wq, u) /\ u # t => Before(wq', u, t)
<1> DEFINE w == Without(wq, t)
<1>1. /\ task' \in [Tasks -> [op : Ops \cup {"none"}, pc : Pcs, arg : Arguments, seen : Findings, tg : BOOLEAN]]
      /\ task'[t].op = task[t].op /\ task'[t].arg = task[t].arg
      /\ task'[t].pc = pc /\ task'[t].seen = seen
      /\ \A u \in Tasks : u # t => task'[u] = task[u]
  BY DEF CommandsOK, TaskOK, Requests, Pcs
<1>2. /\ IsQueue(w, Seats)
      /\ \A u : Queued(w, u) <=> Queued(wq, u) /\ u # t
      /\ \A u, v : Before(wq, u, v) /\ u # t /\ v # t => Before(w, u, v)
  BY WithoutQueue DEF CommandsOK, QueueOK
<1> HIDE DEF w
<1>3. wq' = Append(w, t) /\ t \in Seats
  BY DEF Requests, w, Seats
<1>4. /\ IsQueue(wq', Seats)
      /\ \A u : Queued(wq', u) <=> Queued(w, u) \/ u = t
      /\ \A u, v : Before(w, u, v) => Before(wq', u, v)
      /\ \A u : Queued(w, u) => Before(wq', u, t)
  BY <1>2, <1>3, AppendQueue
<1>5. QueueOK'
  BY <1>1, <1>2, <1>4, ExpirerAssumption DEF CommandsOK, QueueOK
<1> QED
  BY <1>1, <1>2, <1>4, <1>5 DEF OnlyMoves, CommandsOK, TaskOK

LEMMA EndsMoves ==
  ASSUME CommandsOK, expire' = expire, NEW t \in Tasks, Ends(t)
  PROVE  OnlyMoves(t) /\ task'[t] = NoTask
<1>1. /\ task' \in [Tasks -> [op : Ops \cup {"none"}, pc : Pcs, arg : Arguments, seen : Findings, tg : BOOLEAN]]
      /\ task'[t] = NoTask
      /\ \A u \in Tasks : u # t => task'[u] = task[u]
  BY DEF CommandsOK, TaskOK, Ends, NoTask, Pcs, Arguments, Findings
<1>2. /\ IsQueue(wq', Seats)
      /\ \A u : Queued(wq', u) <=> Queued(wq, u) /\ u # t
      /\ \A u, v : Before(wq, u, v) /\ u # t /\ v # t => Before(wq', u, v)
  BY WithoutQueue DEF CommandsOK, QueueOK, Ends
<1>3. QueueOK'
  BY <1>1, <1>2, ExpirerAssumption DEF CommandsOK, QueueOK, NoTask, Waiting
<1> QED
  BY <1>1, <1>2, <1>3 DEF OnlyMoves, CommandsOK, TaskOK

LEMMA GivenMoves ==
  ASSUME CommandsOK, expire' = expire, wq' = wq, NEW t \in Tasks, NEW op \in Ops, NEW arg \in Arguments,
         NEW tg \in BOOLEAN, Given(t, op, arg, tg)
  PROVE  /\ OnlyMoves(t) /\ task[t] = NoTask
         /\ task'[t].op = op /\ task'[t].arg = arg /\ task'[t].pc = "go"
<1>1. /\ task' \in [Tasks -> [op : Ops \cup {"none"}, pc : Pcs, arg : Arguments, seen : Findings, tg : BOOLEAN]]
      /\ task[t] = NoTask
      /\ task'[t].op = op /\ task'[t].arg = arg /\ task'[t].pc = "go"
      /\ \A u \in Tasks : u # t => task'[u] = task[u]
  BY DEF CommandsOK, TaskOK, Given, NoTask, Pcs, Findings
<1>2. QueueOK'
  BY <1>1, ExpirerAssumption DEF CommandsOK, QueueOK, NoTask, Waiting
<1> QED
  BY <1>1, <1>2 DEF OnlyMoves, CommandsOK, TaskOK
-----------------------------------------------------------------------------
(* Steps that leave a component alone *)

\* No command of O moves, and the commands of O keep their order before the write lock.
Aside(O) ==
    /\ up' = up
    /\ \A u \in Tasks : task[u].op \in O \/ task'[u].op \in O => task'[u] = task[u]
    /\ \A u, v \in Tasks :
         task[u].op \in O /\ task[v].op \in O /\ Before(wq, u, v) => Before(wq', u, v)

LEMMA MovesAside ==
  ASSUME NEW t \in Tasks, OnlyMoves(t), up' = up, NEW O, task[t].op \notin O, task'[t].op \notin O
  PROVE  Aside(O)
BY DEF Aside, OnlyMoves

LEMMA KillAside ==
  ASSUME KillInv, UNCHANGED killVars, Aside(KillOps)
  PROVE  KillInv'
<1>1. ASSUME NEW u \in Tasks
      PROVE  /\ task[u].op \in KillOps <=> task'[u].op \in KillOps
             /\ task'[u].op \in KillOps => task'[u] = task[u]
  BY DEF Aside
<1>2. ASSUME NEW u \in Tasks, task[u].op \in KillOps
      PROVE  /\ task'[u] = task[u] /\ Todo(u)' = Todo(u) /\ Target(u)' = Target(u)
             /\ \A a : Writes(u, a)' <=> Writes(u, a)
  BY <1>1, <1>2 DEF Todo, Target, Writes
<1>3. \A u \in Tasks : \A a : (Writes(u, a) => task[u].op \in KillOps) /\ (Writes(u, a)' => task'[u].op \in KillOps)
  BY DEF Writes
<1>4. KillTypeOK'
  BY DEF KillInv, KillTypeOK, killVars
<1>5. KillTasks'
  BY <1>1, <1>2 DEF KillInv, KillTasks, Aside
<1>6. NoClear'
  BY <1>1 DEF KillInv, NoClear, killVars, KillOps, ClearOps
<1>7. CalmDone'
  BY <1>2 DEF KillInv, CalmDone, KillTypeOK, killVars, KillOps, HaltOps
<1>8. LastWins'
  <2> SUFFICES ASSUME NEW u \in Tasks, NEW a \in AccountIds, Writes(u, a)'
               PROVE  (Target(u) = status[a])' \/ \E v \in Tasks : (Writes(v, a) /\ Target(v) = status[a] /\ Before(wq, u, v))'
    BY DEF LastWins
  <2>1. Writes(u, a) /\ Target(u)' = Target(u) /\ task[u].op \in KillOps
    BY <1>1, <1>2, <1>3
  <2>2. CASE Target(u) = status[a]
    BY <2>1, <2>2 DEF killVars
  <2>3. CASE \E v \in Tasks : Writes(v, a) /\ Target(v) = status[a] /\ Before(wq, u, v)
    <3>1. PICK v \in Tasks : Writes(v, a) /\ Target(v) = status[a] /\ Before(wq, u, v)
      BY <2>3
    <3>2. Writes(v, a)' /\ Target(v)' = Target(v) /\ Before(wq', u, v)
      BY <3>1, <2>1, <1>2, <1>3 DEF Aside
    <3> QED
      BY <3>1, <3>2 DEF killVars
  <2> QED
    BY <2>1, <2>2, <2>3 DEF KillInv, LastWins
<1>9. RowsFollow'
  BY <1>2, <1>3 DEF KillInv, RowsFollow, killVars, Aside
<1>10. HaltStays'
  BY DEF KillInv, HaltStays, killVars, Aside
<1> QED
  BY <1>4, <1>5, <1>6, <1>7, <1>8, <1>9, <1>10 DEF KillInv

LEMMA MemberAside ==
  ASSUME MemberInv, UNCHANGED memberVars, Aside(MemberOps)
  PROVE  MemberInv'
BY DEF MemberInv, MemberTypeOK, RevokedFirst, memberVars, Aside, MemberOps, StatusOps

LEMMA ApprovalAside ==
  ASSUME ApprovalInv, UNCHANGED approvalVars, Aside(ApprovalOps)
  PROVE  ApprovalInv'
<1>1. ApprovalTypeOK'
  BY DEF ApprovalInv, ApprovalTypeOK, approvalVars, Aside
<1>2. Executing' = Executing
  BY DEF Executing, Aside
<1>3. ApprovedOrCut'
  BY <1>2 DEF ApprovalInv, ApprovedOrCut, approvalVars, Aside
<1> QED
  BY <1>1, <1>3 DEF ApprovalInv

LEMMA RuleAside ==
  ASSUME RuleInv, UNCHANGED ruleVars, Aside({"rule"})
  PROVE  RuleInv'
<1>1. \A u \in Tasks : At(u, "rule", "history")' <=> At(u, "rule", "history")
  BY DEF At, Aside
<1>2. \A u \in Tasks : At(u, "rule", "history") => task'[u] = task[u]
  BY DEF At, Aside
<1>3. \A u, v \in Tasks : At(u, "rule", "history") /\ At(v, "rule", "history") /\ Before(wq, u, v) => Before(wq', u, v)
  BY DEF At, Aside
<1>4. RuleTypeOK'
  BY DEF RuleInv, RuleTypeOK, ruleVars, Aside
<1>5. EngineFollows'
  BY <1>1, <1>2, <1>3 DEF RuleInv, EngineFollows, ruleVars, Aside, StoredOr
<1> QED
  BY <1>4, <1>5 DEF RuleInv

-----------------------------------------------------------------------------
(* The kill switch *)

LEMMA HeadTail ==
  ASSUME NEW S, NEW q \in Seq(S), q # <<>>
  PROVE  /\ Head(q) \in S /\ Tail(q) \in Seq(S)
         /\ \A a : Queued(q, a) <=> a = Head(q) \/ Queued(Tail(q), a)
<1>1. Len(q) \in Nat \ {0} /\ DOMAIN q = 1..Len(q) /\ Head(q) = q[1]
  OBVIOUS
<1>2. Head(q) \in S /\ Tail(q) \in Seq(S)
  OBVIOUS
<1>3. DOMAIN Tail(q) = 1..(Len(q) - 1) /\ \A i \in 1..(Len(q) - 1) : Tail(q)[i] = q[i + 1]
  BY <1>1
<1>4. ASSUME NEW a, Queued(q, a)
      PROVE  a = Head(q) \/ Queued(Tail(q), a)
  <2>1. PICK i \in DOMAIN q : q[i] = a
    BY <1>4 DEF Queued
  <2>2. CASE i # 1
    <3>1. i - 1 \in DOMAIN Tail(q) /\ Tail(q)[i - 1] = a
      BY <2>1, <2>2, <1>1, <1>3
    <3> QED
      BY <3>1 DEF Queued
  <2> QED
    BY <1>1, <2>1, <2>2
<1>5. ASSUME NEW a, a = Head(q) \/ Queued(Tail(q), a)
      PROVE  Queued(q, a)
  BY <1>1, <1>3, <1>5 DEF Queued
<1> QED
  BY <1>2, <1>4, <1>5

\* What the step of another task leaves of a command of the kill switch.
LEMMA KillOthers ==
  ASSUME NEW t \in Tasks, OnlyMoves(t), NEW u \in Tasks, u # t
  PROVE  /\ task'[u] = task[u] /\ Todo(u)' = Todo(u) /\ Target(u)' = Target(u)
         /\ \A a : Writes(u, a)' <=> Writes(u, a)
BY DEF OnlyMoves, Todo, Target, Writes

\* A command of the kill switch begins.
LEMMA KillGiven ==
  ASSUME KillInv, CommandsOK, NEW t \in Tasks, OnlyMoves(t), task[t] = NoTask, up, up' = up,
         NEW op \in KillOps, KillBegins(t, op), task'[t].op = op, task'[t].pc = "go",
         op \notin {"halt", "clear"} => task'[t].arg \in AccountIds
  PROVE  KillInv'
<1>1. \A u \in Tasks : u # t => /\ task'[u] = task[u] /\ Todo(u)' = Todo(u) /\ Target(u)' = Target(u)
                                /\ \A a : Writes(u, a)' <=> Writes(u, a)
  BY KillOthers
<1>2. \A a : ~Writes(t, a) /\ ~Writes(t, a)'
  BY DEF Writes, NoTask
<1>3. /\ status' = status /\ rows' = rows /\ unsaved' = unsaved
      /\ halted' = (halted /\ op \notin ClearOps)
      /\ calm' = IF op \in ClearOps THEN {}
                 ELSE calm \cup {u \in {t} : op = "halt" /\ \A v \in Tasks : task[v].op \notin ClearOps}
  BY DEF KillBegins
<1>4. /\ Todo(t)' \in Seq(AccountIds)
      /\ op = "halt" => Todo(t)' = AccountSeq
  BY AccountSeqAssumption DEF Todo, KillOps, HaltOps, ClearOps
<1>5. KillTypeOK'
  BY <1>3 DEF KillInv, KillTypeOK
<1>6. KillTasks'
  BY <1>1, <1>4 DEF KillInv, KillTasks
<1>7. NoClear'
  BY <1>1, <1>3 DEF KillInv, NoClear
<1>8. CalmDone'
  <2>1. \A a \in AccountIds : Queued(AccountSeq, a)
    BY DEF Queued, AccountIds
  <2>2. ASSUME NEW u \in calm', u # t
        PROVE  (task[u].op = "halt" /\ \A a \in AccountIds : status[a] = "suspended" \/ Queued(Todo(u), a))'
    BY <1>1, <1>3, <2>2 DEF KillInv, CalmDone, KillTypeOK
  <2>3. ASSUME t \in calm'
        PROVE  (task[t].op = "halt" /\ \A a \in AccountIds : status[a] = "suspended" \/ Queued(Todo(t), a))'
    <3>1. t \notin calm
      BY DEF KillInv, CalmDone, NoTask
    <3>2. op = "halt"
      BY <3>1, <2>3, <1>3
    <3> QED
      BY <3>2, <1>4, <2>1
  <2> QED
    BY <2>2, <2>3 DEF CalmDone
<1>9. LastWins'
  BY <1>1, <1>2, <1>3 DEF KillInv, LastWins, OnlyMoves
<1>10. RowsFollow'
  BY <1>1, <1>2, <1>3 DEF KillInv, RowsFollow
<1>11. HaltStays'
  BY <1>3 DEF KillInv, HaltStays
<1> QED
  BY <1>5, <1>6, <1>7, <1>8, <1>9, <1>10, <1>11 DEF KillInv

\* A command of the kill switch has looked at every account, and returns.
LEMMA KillReturns ==
  ASSUME KillInv, CommandsOK, NEW t \in Tasks, OnlyMoves(t), task'[t] = NoTask, up' = up,
         task[t].op \in KillOps, task[t].pc # "write", Todo(t) = <<>>,
         UNCHANGED <<status, rows, unsaved>>, halted' = (halted \/ t \in calm), calm' = calm \ {t}
  PROVE  KillInv'
<1>1. \A u \in Tasks : u # t => /\ task'[u] = task[u] /\ Todo(u)' = Todo(u) /\ Target(u)' = Target(u)
                                /\ \A a : Writes(u, a)' <=> Writes(u, a)
  BY KillOthers
<1>2. (\A a : ~Writes(t, a) /\ ~Writes(t, a)') /\ task'[t].op = "none"
  BY DEF Writes, NoTask
<1>3. KillTypeOK'
  BY DEF KillInv, KillTypeOK
<1>4. KillTasks'
  BY <1>1, <1>2 DEF KillInv, KillTasks, KillOps, HaltOps, ClearOps
<1>5. NoClear'
  BY <1>1, <1>2 DEF KillInv, NoClear, ClearOps
<1>6. CalmDone'
  BY <1>1 DEF KillInv, CalmDone, KillTypeOK
<1>7. LastWins'
  BY <1>1, <1>2 DEF KillInv, LastWins, OnlyMoves
<1>8. RowsFollow'
  BY <1>1, <1>2 DEF KillInv, RowsFollow
<1>9. HaltStays'
  <2>1. up
    BY DEF KillInv, KillTasks
  <2>2. CASE t \in calm
    <3>1. \A a \in AccountIds : ~Queued(Todo(t), a)
      BY DEF Queued
    <3>2. \A a \in AccountIds : status[a] = "suspended"
      BY <3>1, <2>2 DEF KillInv, CalmDone
    <3> QED
      BY <3>2, <2>1 DEF HaltStays
  <2> QED
    BY <2>2 DEF KillInv, HaltStays
<1> QED
  BY <1>3, <1>4, <1>5, <1>6, <1>7, <1>8, <1>9 DEF KillInv

\* A command of the kill switch passes over an account that has the status already.
LEMMA KillPasses ==
  ASSUME KillInv, CommandsOK, NEW t \in Tasks, OnlyMoves(t), up' = up, UNCHANGED killVars,
         task[t].op \in KillOps, task[t].pc # "write", Todo(t) # <<>>, status[Head(Todo(t))] = Target(t),
         task'[t].op = task[t].op, task'[t].pc = "next", task'[t].seen = Tail(Todo(t))
  PROVE  KillInv'
<1>1. \A u \in Tasks : u # t => /\ task'[u] = task[u] /\ Todo(u)' = Todo(u) /\ Target(u)' = Target(u)
                                /\ \A a : Writes(u, a)' <=> Writes(u, a)
  BY KillOthers
<1>2. \A a : ~Writes(t, a) /\ ~Writes(t, a)'
  BY DEF Writes
<1>3. Todo(t) \in Seq(AccountIds)
  BY DEF KillInv, KillTasks
<1>4. /\ Todo(t)' \in Seq(AccountIds)
      /\ \A a : Queued(Todo(t), a) <=> a = Head(Todo(t)) \/ Queued(Todo(t)', a)
  <2>1. Todo(t)' = Tail(Todo(t))
    BY DEF Todo
  <2> QED
    BY <1>3, <2>1, HeadTail
<1>5. KillTypeOK'
  BY DEF KillInv, KillTypeOK, killVars
<1>6. KillTasks'
  BY <1>1, <1>4 DEF KillInv, KillTasks
<1>7. NoClear'
  BY <1>1 DEF KillInv, NoClear, killVars
<1>8. CalmDone'
  <2>1. ASSUME NEW u \in calm, u # t
        PROVE  (task[u].op = "halt" /\ \A a \in AccountIds : status[a] = "suspended" \/ Queued(Todo(u), a))'
    BY <1>1, <2>1 DEF KillInv, CalmDone, KillTypeOK, killVars
  <2>2. ASSUME t \in calm
        PROVE  (task[t].op = "halt" /\ \A a \in AccountIds : status[a] = "suspended" \/ Queued(Todo(t), a))'
    BY <1>4, <2>2 DEF KillInv, CalmDone, killVars, Target, HaltOps
  <2> QED
    BY <2>1, <2>2 DEF CalmDone, killVars
<1>9. LastWins'
  BY <1>1, <1>2 DEF KillInv, LastWins, OnlyMoves, killVars
<1>10. RowsFollow'
  BY <1>1, <1>2 DEF KillInv, RowsFollow, killVars
<1>11. HaltStays'
  BY DEF KillInv, HaltStays, killVars
<1> QED
  BY <1>5, <1>6, <1>7, <1>8, <1>9, <1>10, <1>11 DEF KillInv

\* A command of the kill switch changes the memory and asks for the write lock, behind all
\* those who are to write the row of the account.
LEMMA KillSets ==
  ASSUME KillInv, CommandsOK, NEW t \in Tasks, OnlyMoves(t), up' = up,
         UNCHANGED <<rows, calm, halted, unsaved>>,
         task[t].op \in KillOps, task[t].pc # "write", Todo(t) # <<>>,
         status' = [status EXCEPT ![Head(Todo(t))] = Target(t)],
         task'[t].op = task[t].op, task'[t].pc = "write", task'[t].seen = Todo(t),
         \A u \in Tasks : Queued(wq, u) /\ u # t => Before(wq', u, t)
  PROVE  KillInv'
<1> DEFINE b == Head(Todo(t))
<1>1. \A u \in Tasks : u # t => /\ task'[u] = task[u] /\ Todo(u)' = Todo(u) /\ Target(u)' = Target(u)
                                /\ \A a : Writes(u, a)' <=> Writes(u, a)
  BY KillOthers
<1>2. /\ Todo(t) \in Seq(AccountIds) /\ b \in AccountIds /\ Todo(t)' = Todo(t) /\ up
      /\ Target(t)' = Target(t) /\ Target(t) \in Statuses
  BY HeadTail DEF KillInv, KillTasks, Todo, Target, Statuses
<1>3. \A a : ~Writes(t, a) /\ (Writes(t, a)' <=> a = b)
  BY DEF Writes
<1>4. status'[b] = Target(t) /\ \A a \in AccountIds : a # b => status'[a] = status[a]
  BY <1>2 DEF KillInv, KillTypeOK
<1> HIDE DEF b
<1>5. KillTypeOK'
  BY <1>2 DEF KillInv, KillTypeOK, b
<1>6. KillTasks'
  BY <1>1, <1>2 DEF KillInv, KillTasks
<1>7. NoClear'
  BY <1>1 DEF KillInv, NoClear
<1>8. CalmDone'
  <2>1. calm # {} => Target(t) = "suspended"
    BY DEF KillInv, NoClear, Target, KillOps
  <2>2. \A u \in calm : task'[u].op = task[u].op /\ Todo(u)' = Todo(u)
    BY <1>1, <1>2 DEF KillInv, KillTypeOK
  <2> QED
    BY <1>4, <2>1, <2>2 DEF KillInv, CalmDone
<1>9. LastWins'
  <2> SUFFICES ASSUME NEW u \in Tasks, NEW a \in AccountIds, Writes(u, a)'
               PROVE  (Target(u) = status[a])' \/ \E v \in Tasks : (Writes(v, a) /\ Target(v) = status[a] /\ Before(wq, u, v))'
    BY DEF LastWins
  <2>1. CASE u = t
    BY <2>1, <1>2, <1>3, <1>4
  <2>2. CASE u # t /\ a = b
    <3>1. Queued(wq, u)
      BY <2>2, <1>1 DEF CommandsOK, QueueOK, Writes, Waiting
    <3> QED
      BY <3>1, <2>2, <1>2, <1>3, <1>4
  <2>3. CASE u # t /\ a # b
    <3>1. Writes(u, a) /\ Target(u)' = Target(u) /\ status'[a] = status[a]
      BY <2>3, <1>1, <1>4
    <3>2. CASE \E v \in Tasks : Writes(v, a) /\ Target(v) = status[a] /\ Before(wq, u, v)
      <4>1. PICK v \in Tasks : Writes(v, a) /\ Target(v) = status[a] /\ Before(wq, u, v)
        BY <3>2
      <4> QED
        BY <4>1, <3>1, <2>3, <1>1, <1>3 DEF OnlyMoves
    <3> QED
      BY <3>1, <3>2 DEF KillInv, LastWins
  <2> QED
    BY <2>1, <2>2, <2>3
<1>10. RowsFollow'
  BY <1>1, <1>2, <1>3, <1>4 DEF KillInv, RowsFollow
<1>11. HaltStays'
  <2>1. halted => Target(t) = "suspended"
    BY DEF KillInv, NoClear, Target, KillOps
  <2> QED
    BY <2>1, <1>2, <1>4 DEF KillInv, HaltStays
<1> QED
  BY <1>5, <1>6, <1>7, <1>8, <1>9, <1>10, <1>11 DEF KillInv

\* Who leaves the head of the queue is nobody's last writer.
LEMMA LastWinsStays ==
  ASSUME KillInv, CommandsOK, NEW t \in Tasks, OnlyMoves(t), HasLock(t), up, status' = status,
         \A a : ~Writes(t, a)'
  PROVE  LastWins'
<1> SUFFICES ASSUME NEW u \in Tasks, NEW a \in AccountIds, Writes(u, a)'
             PROVE  (Target(u) = status[a])' \/ \E v \in Tasks : (Writes(v, a) /\ Target(v) = status[a] /\ Before(wq, u, v))'
  BY DEF LastWins
<1>1. u # t /\ Writes(u, a) /\ Target(u)' = Target(u)
  BY KillOthers
<1>2. CASE \E v \in Tasks : Writes(v, a) /\ Target(v) = status[a] /\ Before(wq, u, v)
  <2>1. PICK v \in Tasks : Writes(v, a) /\ Target(v) = status[a] /\ Before(wq, u, v)
    BY <1>2
  <2>2. v # t
    BY <2>1, LockFirst DEF CommandsOK
  <2>3. Writes(v, a)' /\ Target(v)' = Target(v) /\ Before(wq', u, v)
    BY <2>1, <2>2, <1>1, KillOthers DEF OnlyMoves
  <2> QED
    BY <2>1, <2>3
<1> QED
  BY <1>1, <1>2 DEF KillInv, LastWins

\* The row is written.
LEMMA KillRowWritten ==
  ASSUME KillInv, CommandsOK, NEW t \in Tasks, OnlyMoves(t), up' = up, HasLock(t),
         task[t].op \in KillOps, task[t].pc = "write", NEW a, a = Head(task[t].seen),
         rows' = [rows EXCEPT ![a] = Target(t)], unsaved' = unsaved \ {a},
         UNCHANGED <<status, calm, halted>>,
         task'[t].op = task[t].op, task'[t].pc = "next", task'[t].seen = Tail(task[t].seen)
  PROVE  KillInv'
<1>1. \A u \in Tasks : u # t => /\ task'[u] = task[u] /\ Todo(u)' = Todo(u) /\ Target(u)' = Target(u)
                                /\ \A c : Writes(u, c)' <=> Writes(u, c)
  BY KillOthers
<1>2. /\ Todo(t) = task[t].seen /\ Todo(t)' = Tail(task[t].seen)
      /\ Todo(t) \in Seq(AccountIds) /\ Todo(t) # <<>> /\ up
  BY DEF KillInv, KillTasks, Todo
<1>3. /\ a \in AccountIds /\ Todo(t)' \in Seq(AccountIds)
      /\ \A c : Queued(Todo(t), c) <=> c = a \/ Queued(Todo(t)', c)
  BY <1>2, HeadTail
<1>4. (\A c : ~Writes(t, c)') /\ (\A c : Writes(t, c) <=> c = a)
  BY DEF Writes
<1>5. Target(t) \in Statuses /\ rows'[a] = Target(t) /\ \A c \in AccountIds : c # a => rows'[c] = rows[c]
  BY <1>3 DEF KillInv, KillTypeOK, Target, Statuses
<1>6. Target(t) = status[a] \/ \E u \in Tasks : u # t /\ Writes(u, a) /\ Target(u) = status[a]
  <2>1. \A u \in Tasks : Before(wq, t, u) => u # t
    BY BeforeQueued DEF CommandsOK, QueueOK
  <2> QED
    BY <2>1, <1>3, <1>4 DEF KillInv, LastWins
<1>7. KillTypeOK'
  BY <1>3, <1>5 DEF KillInv, KillTypeOK
<1>8. KillTasks'
  BY <1>1, <1>2, <1>3 DEF KillInv, KillTasks
<1>9. NoClear'
  BY <1>1 DEF KillInv, NoClear
<1>10. (halted \/ calm # {}) => status[a] = "suspended"
  BY <1>6 DEF KillInv, NoClear, Target, Writes, KillOps
<1>11. CalmDone'
  <2>1. ASSUME NEW u \in calm, u # t
        PROVE  (task[u].op = "halt" /\ \A c \in AccountIds : status[c] = "suspended" \/ Queued(Todo(u), c))'
    BY <1>1, <2>1 DEF KillInv, CalmDone, KillTypeOK
  <2>2. ASSUME t \in calm
        PROVE  (task[t].op = "halt" /\ \A c \in AccountIds : status[c] = "suspended" \/ Queued(Todo(t), c))'
    BY <1>3, <1>10, <2>2 DEF KillInv, CalmDone
  <2> QED
    BY <2>1, <2>2 DEF CalmDone
<1>12. LastWins'
  BY <1>2, <1>4, LastWinsStays
<1>13. RowsFollow'
  <2> SUFFICES ASSUME NEW c \in AccountIds, c \notin unsaved'
               PROVE  status'[c] = rows'[c] \/ \E u \in Tasks : Writes(u, c)'
    BY DEF RowsFollow
  <2>1. CASE c = a
    BY <2>1, <1>1, <1>5, <1>6
  <2>2. CASE c # a
    BY <2>2, <1>1, <1>2, <1>4, <1>5 DEF KillInv, RowsFollow
  <2> QED
    BY <2>1, <2>2
<1>14. HaltStays'
  BY <1>2, <1>10 DEF KillInv, HaltStays
<1> QED
  BY <1>7, <1>8, <1>9, <1>11, <1>12, <1>13, <1>14 DEF KillInv

\* The write of the row fails.
LEMMA KillRowFails ==
  ASSUME KillInv, CommandsOK, NEW t \in Tasks, OnlyMoves(t), task'[t] = NoTask, up' = up, HasLock(t),
         task[t].op \in KillOps, task[t].pc = "write",
         unsaved' = unsaved \cup {Head(task[t].seen)}, calm' = calm \ {t},
         UNCHANGED <<status, rows, halted>>
  PROVE  KillInv'
<1>1. \A u \in Tasks : u # t => /\ task'[u] = task[u] /\ Todo(u)' = Todo(u) /\ Target(u)' = Target(u)
                                /\ \A c : Writes(u, c)' <=> Writes(u, c)
  BY KillOthers
<1>2. up /\ Head(task[t].seen) \in AccountIds
  <2>1. Todo(t) = task[t].seen /\ Todo(t) \in Seq(AccountIds) /\ Todo(t) # <<>> /\ up
    BY DEF KillInv, KillTasks, Todo
  <2> QED
    BY <2>1, HeadTail
<1>3. (\A c : ~Writes(t, c)') /\ (\A c : Writes(t, c) => c = Head(task[t].seen)) /\ task'[t].op = "none"
  BY DEF Writes, NoTask
<1>4. KillTypeOK'
  BY <1>2 DEF KillInv, KillTypeOK
<1>5. KillTasks'
  BY <1>1, <1>3 DEF KillInv, KillTasks, KillOps, HaltOps, ClearOps
<1>6. NoClear'
  BY <1>1, <1>3 DEF KillInv, NoClear, ClearOps
<1>7. CalmDone'
  BY <1>1 DEF KillInv, CalmDone, KillTypeOK
<1>8. LastWins'
  BY <1>2, <1>3, LastWinsStays
<1>9. RowsFollow'
  BY <1>1, <1>2, <1>3 DEF KillInv, RowsFollow
<1>10. HaltStays'
  BY DEF KillInv, HaltStays
<1> QED
  BY <1>4, <1>5, <1>6, <1>7, <1>8, <1>9, <1>10 DEF KillInv

\* The steps of the kill switch.
LEMMA KillStepInv ==
  ASSUME CommandsOK, KillInv, expire' = expire, NEW t \in Tasks, KillStep(t)
  PROVE  KillInv' /\ OnlyMoves(t) /\ up' = up /\ task[t].op \in KillOps /\ task'[t].op \in KillOps \cup {"none"}
<1>1. CASE KillNext(t)
  <2> DEFINE todo == Todo(t)
  <2>1. /\ task[t].op \in KillOps /\ task[t].pc \in {"go", "next"} /\ up' = up
        /\ UNCHANGED <<rows, unsaved>>
    BY <1>1 DEF KillNext
  <2>2. todo \in Seq(AccountIds)
    BY <2>1 DEF KillInv, KillTasks
  <2>3. CASE todo = <<>> /\ Ends(t) /\ halted' = (halted \/ t \in calm) /\ calm' = calm \ {t} /\ UNCHANGED status
    <3>1. OnlyMoves(t) /\ task'[t] = NoTask
      BY <2>3, EndsMoves
    <3> QED
      BY <2>1, <2>3, <3>1, KillReturns DEF NoTask
  <2>4. CASE /\ todo # <<>> /\ status[Head(todo)] = Target(t)
             /\ Goes(t, "next", Tail(todo)) /\ UNCHANGED <<status, halted, calm>>
    <3>1. Tail(todo) \in Findings
      BY <2>2, <2>4, HeadTail DEF Findings
    <3>2. OnlyMoves(t) /\ task'[t].op = task[t].op /\ task'[t].pc = "next" /\ task'[t].seen = Tail(todo)
      BY <2>4, <3>1, GoesMoves DEF Pcs, Waiting
    <3>3. UNCHANGED killVars
      BY <2>1, <2>4 DEF killVars
    <3> QED
      BY <2>1, <2>4, <3>2, <3>3, KillPasses
  <2>5. CASE /\ todo # <<>> /\ status[Head(todo)] # Target(t)
             /\ status' = [status EXCEPT ![Head(todo)] = Target(t)]
             /\ Requests(t, "write", todo) /\ UNCHANGED <<halted, calm>>
    <3>1. /\ OnlyMoves(t) /\ task'[t].op = task[t].op /\ task'[t].pc = "write" /\ task'[t].seen = todo
          /\ \A u \in Tasks : Queued(wq, u) /\ u # t => Before(wq', u, t)
      BY <2>2, <2>5, RequestsMoves DEF Waiting, Findings
    <3> QED
      BY <2>1, <2>5, <3>1, KillSets
  <2> QED
    BY <1>1, <2>3, <2>4, <2>5 DEF KillNext
<1>2. CASE KillWrite(t)
  <2> DEFINE a == Head(task[t].seen)
  <2>1. /\ task[t].op \in KillOps /\ task[t].pc = "write" /\ HasLock(t) /\ up' = up
        /\ rows' = [rows EXCEPT ![a] = Target(t)] /\ unsaved' = unsaved \ {a}
        /\ Goes(t, "next", Tail(task[t].seen))
        /\ UNCHANGED <<status, calm, halted>>
    BY <1>2 DEF KillWrite
  <2>2. Tail(task[t].seen) \in Findings
    <3>1. task[t].seen \in Seq(AccountIds) /\ task[t].seen # <<>>
      BY <2>1 DEF KillInv, KillTasks, Todo
    <3> QED
      BY <3>1, HeadTail DEF Findings
  <2>3. OnlyMoves(t) /\ task'[t].op = task[t].op /\ task'[t].pc = "next" /\ task'[t].seen = Tail(task[t].seen)
    BY <2>1, <2>2, GoesMoves DEF Pcs, Waiting
  <2>4. KillInv'
    BY <2>1, <2>3, KillRowWritten
  <2> QED
    BY <2>1, <2>3, <2>4
<1>3. CASE KillFails(t)
  <2>1. /\ task[t].op \in KillOps /\ task[t].pc = "write" /\ HasLock(t) /\ up' = up
        /\ unsaved' = unsaved \cup {Head(task[t].seen)} /\ calm' = calm \ {t}
        /\ Ends(t) /\ UNCHANGED <<status, rows, halted>>
    BY <1>3 DEF KillFails
  <2>2. OnlyMoves(t) /\ task'[t] = NoTask
    BY <2>1, EndsMoves
  <2>3. KillInv'
    BY <2>1, <2>2, KillRowFails
  <2> QED
    BY <2>1, <2>2, <2>3 DEF NoTask
<1> QED
  BY <1>1, <1>2, <1>3 DEF KillStep

-----------------------------------------------------------------------------
(* Members *)

LEMMA NextTokenNat ==
  ASSUME MemberTypeOK
  PROVE  NextToken \in Nat
<1>1. UNION {issued[m] : m \in MemberIds} = issued["master"] \cup issued["agent"]
  BY DEF MemberIds
<1>2. IsFiniteSet(issued["master"]) /\ IsFiniteSet(issued["agent"])
  BY DEF MemberTypeOK, MemberIds
<1>3. IsFiniteSet(UNION {issued[m] : m \in MemberIds})
  BY <1>1, <1>2, FS_Union
<1>4. Cardinality(UNION {issued[m] : m \in MemberIds}) \in Nat
  BY <1>3, FS_CardinalityType
<1> QED
  BY <1>4 DEF NextToken

\* What a write leaves in the rows.
LEMMA MemberRows ==
  ASSUME MemberTypeOK, NEW op \in MemberOps, MemberWrites(op), gone' \in BOOLEAN
  PROVE  /\ MemberTypeOK'
         /\ row["agent"].status = "revoked" /\ op \notin StatusOps => row'["agent"].status = "revoked"
         /\ op = "m_revoke" => row'["agent"].status = "revoked"
<1>1. NextToken \in Nat
  BY NextTokenNat
<1> DEFINE S == issued["agent"] \cup {NextToken}
<1>2. IsFiniteSet(S) /\ S \subseteq Nat
  <2>1. IsFiniteSet(issued["agent"]) /\ issued["agent"] \subseteq Nat
    BY DEF MemberTypeOK, MemberIds
  <2>2. IsFiniteSet({NextToken})
    BY FS_Singleton
  <2> QED
    BY <1>1, <2>1, <2>2, FS_Union
<1> HIDE DEF S
<1>3. /\ op = "register" => Register
      /\ op = "m_suspend" => Suspend
      /\ op = "m_reactivate" => Reactivate
      /\ op = "m_revoke" => Revoke
      /\ op = "m_rotate" => RotateToken
      /\ op = "m_scopes" => UpdateScopes
      /\ op \in {"reset", "regenerate"} => UNCHANGED <<row, issued>>
  BY DEF MemberWrites, MemberOps
<1> DEFINE Rows == [MemberIds -> [status : {"none", "active", "suspended", "revoked"}, token : Nat,
                                  expired : BOOLEAN, scoped : BOOLEAN]]
<1>4. ASSUME UNCHANGED <<row, issued>>, op # "m_revoke"
      PROVE  /\ MemberTypeOK'
             /\ row["agent"].status = "revoked" /\ op \notin StatusOps => row'["agent"].status = "revoked"
             /\ op = "m_revoke" => row'["agent"].status = "revoked"
  BY <1>4 DEF MemberTypeOK
<1>5. CASE op = "m_suspend" \/ op = "m_reactivate"
  <2>1. PICK s \in {"active", "suspended"} : row' = [row EXCEPT !["agent"].status = s]
    BY <1>3, <1>5 DEF Suspend, Reactivate
  <2>2. row' \in Rows
    BY <2>1 DEF MemberTypeOK, MemberIds
  <2> QED
    BY <1>3, <1>5, <2>2 DEF MemberTypeOK, Suspend, Reactivate, StatusOps
<1>6. CASE op = "m_revoke"
  <2>1. row' \in Rows /\ row'["agent"].status = "revoked"
    BY <1>3, <1>6 DEF Revoke, MemberTypeOK, MemberIds, NoToken
  <2> QED
    BY <1>3, <1>6, <2>1 DEF MemberTypeOK, Revoke
<1>7. CASE op = "m_scopes"
  <2> DEFINE b == ~row["agent"].scoped
  <2>0. b \in BOOLEAN /\ row' = [row EXCEPT !["agent"].scoped = b]
    BY <1>3, <1>7, Zenon DEF UpdateScopes
  <2> HIDE DEF b
  <2>1. row' \in Rows /\ row'["agent"].status = row["agent"].status
    BY <2>0 DEF MemberTypeOK, MemberIds
  <2> QED
    BY <1>3, <1>7, <2>1 DEF MemberTypeOK, UpdateScopes
<1>8. ASSUME issued' = [issued EXCEPT !["agent"] = S]
      PROVE  issued' \in [MemberIds -> SUBSET Nat] /\ \A m \in MemberIds : IsFiniteSet(issued'[m])
  BY <1>2, <1>8 DEF MemberTypeOK
<1>9. CASE op = "m_rotate"
  <2>1. issued' = [issued EXCEPT !["agent"] = S]
    BY <1>3, <1>9 DEF RotateToken, S
  <2>2. row' \in Rows /\ row'["agent"].status = row["agent"].status
    BY <1>1, <1>3, <1>9 DEF RotateToken, MemberTypeOK, MemberIds
  <2> QED
    BY <1>8, <1>9, <2>1, <2>2 DEF MemberTypeOK
<1>10. CASE op = "register"
  <2>1. CASE row["agent"].status # "none"
    BY <1>3, <1>4, <1>10, <2>1 DEF Register
  <2>2. CASE row["agent"].status = "none"
    <3>1. issued' = [issued EXCEPT !["agent"] = S]
      BY <1>3, <1>10, <2>2 DEF Register, S
    <3>2. row' \in Rows
      BY <1>1, <1>3, <1>10, <2>2 DEF Register, MemberTypeOK, MemberIds
    <3> QED
      BY <1>8, <1>10, <2>2, <3>1, <3>2 DEF MemberTypeOK
  <2> QED
    BY <2>1, <2>2
<1>11. CASE op \in {"reset", "regenerate"}
  BY <1>3, <1>4, <1>11
<1> QED
  BY <1>5, <1>6, <1>7, <1>9, <1>10, <1>11 DEF MemberOps

\* The steps of the members.
LEMMA MemberStepInv ==
  ASSUME CommandsOK, MemberInv, expire' = expire, NEW t \in Tasks, MemberStep(t)
  PROVE  MemberInv' /\ OnlyMoves(t) /\ up' = up /\ task[t].op \in MemberOps /\ task'[t].op \in MemberOps \cup {"none"}
<1>0. "-" \in Findings
  BY DEF Findings
<1>1. CASE MemberRead(t)
  <2>1. /\ task[t].op \in MemberOps /\ task[t].pc = "go" /\ up' = up /\ UNCHANGED memberVars
        /\ \/ MayChange(task[t].op) /\ Requests(t, "write", "-")
           \/ Ends(t)
    BY <1>1 DEF MemberRead
  <2>2. /\ OnlyMoves(t)
        /\ \/ MayChange(task[t].op) /\ task'[t].op = task[t].op
           \/ task'[t].op = "none"
    BY <1>0, <2>1, RequestsMoves, EndsMoves DEF Waiting, NoTask
  <2>3. gone /\ task[t].op \in StatusOps => task'[t].op = "none"
    BY <2>2 DEF MemberInv, RevokedFirst, MayChange, MaySuspend, MayReactivate, StatusOps
  <2>4. RevokedFirst'
    BY <2>1, <2>2, <2>3 DEF MemberInv, RevokedFirst, memberVars, OnlyMoves, StatusOps
  <2>5. MemberTypeOK'
    BY <2>1 DEF MemberInv, MemberTypeOK, memberVars
  <2> QED
    BY <2>1, <2>2, <2>4, <2>5 DEF MemberInv
<1>2. CASE MemberWrite(t)
  <2>1. /\ task[t].op \in MemberOps /\ task[t].pc = "write" /\ up' = up /\ MemberWrites(task[t].op)
        /\ (task[t].op = "reset" /\ Requests(t, "token", "-")) \/ Ends(t)
        /\ gone' = (gone \/ (task[t].op = "m_revoke" /\ \A u \in Tasks : task[u].op \notin StatusOps))
    BY <1>2 DEF MemberWrite
  <2>2. OnlyMoves(t) /\ ((task'[t].op = "reset" /\ task[t].op = "reset") \/ task'[t].op = "none")
    BY <1>0, <2>1, RequestsMoves, EndsMoves DEF Waiting, NoTask
  <2>3. /\ MemberTypeOK'
        /\ row["agent"].status = "revoked" /\ task[t].op \notin StatusOps => row'["agent"].status = "revoked"
        /\ task[t].op = "m_revoke" => row'["agent"].status = "revoked"
    BY <2>1, MemberRows DEF MemberInv, MemberTypeOK
  <2>4. RevokedFirst'
    BY <2>1, <2>2, <2>3 DEF MemberInv, RevokedFirst, OnlyMoves, StatusOps
  <2> QED
    BY <2>1, <2>2, <2>3, <2>4 DEF MemberInv
<1>3. CASE InvalidateToken(t)
  <2>1. /\ task[t].op \in MemberOps /\ up' = up /\ Ends(t) /\ UNCHANGED <<issued, gone>>
        /\ row' = [row EXCEPT !["master"].token = NoToken, !["master"].expired = FALSE]
    BY <1>3 DEF InvalidateToken, At, MemberOps
  <2>2. OnlyMoves(t) /\ task'[t].op = "none"
    BY <2>1, EndsMoves DEF NoTask
  <2>3. MemberTypeOK' /\ row'["agent"].status = row["agent"].status
    BY <2>1 DEF MemberInv, MemberTypeOK, MemberIds, NoToken
  <2>4. RevokedFirst'
    BY <2>1, <2>2, <2>3 DEF MemberInv, RevokedFirst, OnlyMoves, StatusOps
  <2> QED
    BY <2>1, <2>2, <2>3, <2>4 DEF MemberInv
<1>4. CASE MemberFails(t)
  <2>1. task[t].op \in MemberOps /\ up' = up /\ Ends(t) /\ UNCHANGED memberVars
    BY <1>4 DEF MemberFails
  <2>2. OnlyMoves(t) /\ task'[t].op = "none"
    BY <2>1, EndsMoves DEF NoTask
  <2>3. MemberInv'
    BY <2>1, <2>2 DEF MemberInv, MemberTypeOK, RevokedFirst, OnlyMoves, StatusOps, memberVars
  <2> QED
    BY <2>1, <2>2, <2>3
<1> QED
  BY <1>1, <1>2, <1>3, <1>4 DEF MemberStep

-----------------------------------------------------------------------------
(* Approvals *)

\* The steps of the approvals.
LEMMA ApprovalStepInv ==
  ASSUME CommandsOK, ApprovalInv, NEW t \in Tasks, ApprovalStep(t)
  PROVE  ApprovalInv' /\ OnlyMoves(t) /\ up' = up /\ task[t].op \in ApprovalOps /\ task'[t].op \in ApprovalOps \cup {"none"}
<1>1. task[t].op \in ApprovalOps /\ up' = up /\ expire' = expire /\ UNCHANGED ops
  BY DEF ApprovalStep, ApprovalRead, ApprovalWrite, ExecutorEnds, ExecutorRaises, OutcomeWritten,
         ApprovalFails, approvalVars
<1>2. "-" \in Findings /\ Resolutions \subseteq Findings
  BY DEF Findings
<1>3. task[t].pc \in {"go", "write", "exec", "history", "failed"} /\ "none" \notin ApprovalOps
  BY <1>1 DEF ApprovalInv, ApprovalTypeOK, ApprovalOps, RequestOps, ReviewOps
\* The tasks that execute, but for t, are the same.
<1>4. ASSUME OnlyMoves(t)
      PROVE  \A u \in Tasks : u # t => (u \in Executing' <=> u \in Executing)
  BY <1>4 DEF OnlyMoves, Executing
<1>5. CASE ApprovalRead(t)
  <2>1. task[t].pc = "go" /\ UNCHANGED approvalVars
    BY <1>5 DEF ApprovalRead
  <2>2. (\E r \in Resolutions : Requests(t, "write", r)) \/ Ends(t)
    BY <1>1, <1>5 DEF ApprovalRead, AutoApproves, ValidatorRefuses, Resolution, Resolutions, ApprovalOps,
                      RequestOps, ReviewOps
  <2>3. /\ OnlyMoves(t)
        /\ \/ task'[t].op = task[t].op /\ task'[t].pc = "write" /\ task'[t].seen \in Resolutions
           \/ task'[t].op = "none"
    BY <1>1, <1>2, <2>2, RequestsMoves, EndsMoves DEF Waiting, NoTask
  <2>4. ApprovalTypeOK'
    BY <1>3, <2>1, <2>3 DEF ApprovalInv, ApprovalTypeOK, approvalVars, OnlyMoves
  <2>5. Executing' = Executing
    BY <1>3, <1>4, <2>1, <2>3 DEF Executing
  <2>6. ApprovedOrCut'
    BY <1>3, <2>1, <2>3, <2>5 DEF ApprovalInv, ApprovedOrCut, approvalVars, OnlyMoves
  <2> QED
    BY <1>1, <2>3, <2>4, <2>6 DEF ApprovalInv
<1>6. CASE ApprovalWrite(t)
  <2>1. /\ task[t].pc = "write" /\ UNCHANGED <<executed, cut, expire>>
        /\ req' = [req EXCEPT !.status = task[t].seen]
        /\ IF task[t].seen = "approved" THEN Goes(t, "exec", "-") ELSE Ends(t)
    BY <1>6 DEF ApprovalWrite
  <2>2. /\ OnlyMoves(t)
        /\ \/ task[t].seen = "approved" /\ task'[t].op = task[t].op /\ task'[t].pc = "exec"
           \/ task[t].seen # "approved" /\ task'[t].op = "none"
    BY <1>1, <1>2, <2>1, GoesMoves, EndsMoves DEF Waiting, Pcs, NoTask
  <2>3. req'.status = task[t].seen /\ task[t].seen \in Resolutions
    BY <1>1, <2>1 DEF ApprovalInv, ApprovalTypeOK
  <2>4. ApprovalTypeOK'
    BY <1>3, <2>1, <2>2, <2>3 DEF ApprovalInv, ApprovalTypeOK, OnlyMoves
  <2>5. req'.status = "approved" => t \in Executing'
    BY <1>1, <2>2, <2>3 DEF Executing
  <2>6. ApprovedOrCut'
    BY <1>3, <2>1, <2>2, <2>5 DEF ApprovalInv, ApprovedOrCut, OnlyMoves
  <2> QED
    BY <1>1, <2>2, <2>4, <2>6 DEF ApprovalInv
<1>7. CASE ExecutorEnds(t) \/ ExecutorRaises(t)
  <2>1. /\ task[t].pc = "exec" /\ UNCHANGED <<req, cut, expire>>
        /\ \/ executed' = TRUE /\ Requests(t, "history", "-")
           \/ executed' = executed /\ Requests(t, "failed", "-")
    BY <1>7 DEF ExecutorEnds, ExecutorRaises, approvalVars
  <2>2. /\ OnlyMoves(t) /\ task'[t].op = task[t].op
        /\ \/ executed' = TRUE /\ task'[t].pc = "history"
           \/ executed' = executed /\ task'[t].pc = "failed"
    BY <1>1, <1>2, <2>1, RequestsMoves DEF Waiting
  <2>3. ApprovalTypeOK'
    BY <1>3, <2>1, <2>2 DEF ApprovalInv, ApprovalTypeOK, OnlyMoves
  <2>4. t \in Executing'
    BY <1>1, <2>2 DEF Executing
  <2>5. ApprovedOrCut'
    BY <2>1, <2>2, <2>4 DEF ApprovalInv, ApprovedOrCut, OnlyMoves
  <2> QED
    BY <1>1, <2>2, <2>3, <2>5 DEF ApprovalInv
<1>8. CASE OutcomeWritten(t)
  <2>1. /\ task[t].pc \in {"history", "failed"} /\ UNCHANGED <<executed, cut, expire>> /\ Ends(t)
        /\ req' = IF task[t].pc = "failed" THEN [req EXCEPT !.status = "execution_failed"] ELSE req
    BY <1>8 DEF OutcomeWritten
  <2>2. OnlyMoves(t) /\ task'[t].op = "none"
    BY <1>1, <2>1, EndsMoves DEF NoTask
  <2>3. ApprovalTypeOK'
    BY <1>3, <2>1, <2>2 DEF ApprovalInv, ApprovalTypeOK, OnlyMoves
  <2>4. req'.status = "approved" => executed
    BY <1>1, <2>1 DEF ApprovalInv, ApprovalTypeOK, ApprovedOrCut
  <2>5. ApprovedOrCut'
    BY <1>3, <2>1, <2>2, <2>4 DEF ApprovalInv, ApprovedOrCut, OnlyMoves
  <2> QED
    BY <1>1, <2>2, <2>3, <2>5 DEF ApprovalInv
<1>9. CASE ApprovalFails(t)
  <2>1. /\ HasLock(t) /\ UNCHANGED <<req, executed, expire>>
        /\ IF task[t].pc = "history" THEN Requests(t, "failed", "-") ELSE Ends(t)
        /\ cut' = (cut \/ task[t].pc = "failed")
    BY <1>9 DEF ApprovalFails
  <2>2. task[t].pc \in {"write", "history", "failed"}
    BY <1>3, <2>1 DEF HasLock, CommandsOK, QueueOK, Waiting
  <2>3. /\ OnlyMoves(t)
        /\ \/ task[t].pc = "history" /\ task'[t].op = task[t].op /\ task'[t].pc = "failed"
           \/ task[t].pc # "history" /\ task'[t].op = "none"
    BY <1>1, <1>2, <2>1, RequestsMoves, EndsMoves DEF Waiting, NoTask
  <2>4. ApprovalTypeOK'
    BY <1>3, <2>1, <2>3 DEF ApprovalInv, ApprovalTypeOK, OnlyMoves
  <2>5. ~cut' => Executing \subseteq Executing'
    <3>1. ~cut' /\ t \in Executing => t \in Executing'
      BY <1>1, <2>1, <2>2, <2>3 DEF Executing
    <3> QED
      BY <3>1, <1>4, <2>3 DEF Executing
  <2>6. ~cut' => ~cut
    BY <2>1
  <2>7. ApprovedOrCut'
    BY <1>3, <2>1, <2>3, <2>5, <2>6 DEF ApprovalInv, ApprovedOrCut, OnlyMoves
  <2> QED
    BY <1>1, <2>3, <2>4, <2>7 DEF ApprovalInv
<1> QED
  BY <1>5, <1>6, <1>7, <1>8, <1>9 DEF ApprovalStep

-----------------------------------------------------------------------------
(* Rules *)

\* A step that publishes nothing and leaves the store and the engine alone.
LEMMA RuleQuiet ==
  ASSUME EngineFollows, NEW t \in Tasks, OnlyMoves(t), up' = up, UNCHANGED <<stored, engine>>,
         missed \subseteq missed', ~At(t, "rule", "history"), ~At(t, "rule", "history")'
  PROVE  EngineFollows'
<1>1. \A u \in Tasks : u # t => task'[u] = task[u] /\ (At(u, "rule", "history")' <=> At(u, "rule", "history"))
  BY DEF OnlyMoves, At
<1>2. \A u, v \in Tasks : At(u, "rule", "history") /\ At(v, "rule", "history") /\ Before(wq, u, v) => Before(wq', u, v)
  BY DEF OnlyMoves
<1> QED
  BY <1>1, <1>2 DEF EngineFollows, StoredOr

\* Who leaves the head of the queue is not the last to publish, unless he is the only one.
LEMMA PublisherLeaves ==
  ASSUME CommandsOK, EngineFollows, NEW t \in Tasks, OnlyMoves(t), HasLock(t), up,       stored' = stored,
         "bypassed" \in missed => "bypassed" \in missed',
         At(t, "rule", "history"), ~At(t, "rule", "history")'
  PROVE  /\ \A u \in Tasks : At(u, "rule", "history")' =>
              \/ stored' = task'[u].seen
              \/ \E v \in Tasks : At(v, "rule", "history")' /\ stored' = task'[v].seen /\ Before(wq', u, v)
              \/ "bypassed" \in missed'
         /\ \/ stored = task[t].seen
            \/ \E u \in Tasks : At(u, "rule", "history")'
            \/ "bypassed" \in missed
<1>1. \A u \in Tasks : u # t => task'[u] = task[u] /\ (At(u, "rule", "history")' <=> At(u, "rule", "history"))
  BY DEF OnlyMoves, At
<1>2. \A u : ~Before(wq, u, t)
  BY LockFirst DEF CommandsOK
<1>3. \A u, v \in Tasks : Before(wq, u, v) /\ u # t => v # t /\ Before(wq', u, v)
  BY <1>2 DEF OnlyMoves
<1>4. ASSUME NEW u \in Tasks, At(u, "rule", "history")'
      PROVE  \/ stored' = task'[u].seen
             \/ \E v \in Tasks : At(v, "rule", "history")' /\ stored' = task'[v].seen /\ Before(wq', u, v)
             \/ "bypassed" \in missed'
  BY <1>1, <1>3, <1>4 DEF EngineFollows
<1>5. stored = task[t].seen \/ (\E u \in Tasks : At(u, "rule", "history")') \/ "bypassed" \in missed
  <2>1. \A u \in Tasks : Before(wq, t, u) => u # t
    BY <1>2
  <2> QED
    BY <1>1, <2>1 DEF EngineFollows
<1> QED
  BY <1>4, <1>5

\* The steps of the rules and of the other configuration.
LEMMA RuleStepInv ==
  ASSUME CommandsOK, RuleInv, expire' = expire, NEW t \in Tasks, RuleStep(t)
  PROVE  /\ RuleInv' /\ OnlyMoves(t) /\ up' = up
         /\ task[t].op \in {"rule", "config", "config_rules"}
         /\ task'[t].op \in {"rule", "config", "config_rules", "none"}
<1>1. "-" \in Findings /\ Configs \subseteq Findings
  BY DEF Findings
<1>2. CASE RuleRead(t)
  <2>1. /\ task[t].op = "rule" /\ task[t].pc = "go" /\ up' = up /\ UNCHANGED ruleVars
        /\ \E default \in {Empty, Seed} : \E list \in {default, StoredOr(default)} : Goes(t, "set", list)
    BY <1>2 DEF RuleRead, At
  <2>2. Empty \in Configs /\ Seed \in Configs
    BY RulesAssumption DEF Empty, Configs, Absent
  <2>3. PICK list \in Configs : Goes(t, "set", list)
    BY <2>1, <2>2 DEF StoredOr, RuleInv, RuleTypeOK
  <2>4. /\ OnlyMoves(t) /\ task'[t].op = "rule" /\ task'[t].arg = task[t].arg /\ task'[t].pc = "set"
        /\ task'[t].seen \in Configs
    BY <1>1, <2>1, <2>3, GoesMoves DEF Pcs, Waiting
  <2>5. RuleTypeOK'
    BY <2>1, <2>4 DEF RuleInv, RuleTypeOK, ruleVars, OnlyMoves
  <2>6. EngineFollows'
    BY <2>1, <2>4, RuleQuiet DEF RuleInv, ruleVars, At
  <2> QED
    BY <2>1, <2>4, <2>5, <2>6 DEF RuleInv
<1>3. CASE RuleSet(t)
  <2> DEFINE new == [task[t].seen EXCEPT ![task[t].arg.type] = task[t].arg.limit]
  <2>1. /\ task[t].op = "rule" /\ task[t].pc = "set" /\ up' = up /\ UNCHANGED ruleVars
        /\ Requests(t, "write", new)
    BY <1>3 DEF RuleSet, At
  <2>2. new \in Configs
    BY <2>1, RulesAssumption DEF RuleInv, RuleTypeOK, Configs
  <2>3. /\ OnlyMoves(t) /\ task'[t].op = "rule" /\ task'[t].arg = task[t].arg /\ task'[t].pc = "write"
        /\ task'[t].seen \in Configs
    BY <1>1, <2>1, <2>2, RequestsMoves DEF Waiting
  <2>4. RuleTypeOK'
    BY <2>1, <2>3 DEF RuleInv, RuleTypeOK, ruleVars, OnlyMoves
  <2>5. EngineFollows'
    BY <2>1, <2>3, RuleQuiet DEF RuleInv, ruleVars, At
  <2> QED
    BY <2>1, <2>3, <2>4, <2>5 DEF RuleInv
<1>4. CASE RuleWrite(t)
  <2>1. /\ task[t].op = "rule" /\ task[t].pc = "write" /\ up' = up /\ engine' = engine
        /\ missed' = missed \ {"bypassed"} /\ stored' = task[t].seen /\ Requests(t, "history", task[t].seen)
    BY <1>4 DEF RuleWrite, At
  <2>2. task[t].seen \in Configs
    BY <2>1 DEF RuleInv, RuleTypeOK
  <2>3. /\ OnlyMoves(t) /\ task'[t].op = "rule" /\ task'[t].arg = task[t].arg /\ task'[t].pc = "history"
        /\ task'[t].seen = task[t].seen
        /\ \A u \in Tasks : Queued(wq, u) /\ u # t => Before(wq', u, t)
    BY <1>1, <2>1, <2>2, RequestsMoves DEF Waiting
  <2>4. RuleTypeOK'
    BY <2>1, <2>2, <2>3 DEF RuleInv, RuleTypeOK, OnlyMoves
  <2>5. EngineFollows'
    <3>1. At(t, "rule", "history")' /\ stored' = task'[t].seen
      BY <2>1, <2>3 DEF At
    <3>2. \A u \in Tasks : u # t /\ At(u, "rule", "history")' => Before(wq', u, t)
      BY <2>3 DEF OnlyMoves, CommandsOK, QueueOK, At, Waiting
    <3> QED
      BY <3>1, <3>2 DEF EngineFollows
  <2> QED
    BY <2>1, <2>3, <2>4, <2>5 DEF RuleInv
<1>5. CASE RulePublish(t)
  <2>1. /\ task[t].op = "rule" /\ task[t].pc = "history" /\ HasLock(t) /\ up' = up /\ UNCHANGED stored
        /\ engine' = (IF up THEN EffectiveRules(task[t].seen) ELSE engine)
        /\ missed' = (IF up THEN missed \ {"unsent", "unread"} ELSE missed) /\ Ends(t)
    BY <1>5 DEF RulePublish, At
  <2>2. OnlyMoves(t) /\ task'[t].op = "none"
    BY <2>1, EndsMoves DEF NoTask
  <2>3. task[t].seen \in Configs /\ task[t].seen # NoList
    <3>1. task[t].seen \in Configs
      BY <2>1 DEF RuleInv, RuleTypeOK
    <3>2. DOMAIN task[t].seen = RuleTypes /\ DOMAIN NoList = {}
      BY <3>1 DEF Configs, NoList
    <3> QED
      BY <3>1, <3>2, RulesAssumption
  <2>4. EffectiveRules(task[t].seen) \in Configs
    BY <2>3, RulesAssumption DEF EffectiveRules, Configs
  <2>5. RuleTypeOK'
    BY <2>1, <2>2, <2>4 DEF RuleInv, RuleTypeOK, OnlyMoves
  <2>6. ASSUME up
        PROVE  EngineFollows'
    <3>1. At(t, "rule", "history") /\ ~At(t, "rule", "history")'
      BY <2>1, <2>2 DEF At
    <3>2. /\ \A u \in Tasks : At(u, "rule", "history")' =>
              \/ stored' = task'[u].seen
              \/ \E v \in Tasks : At(v, "rule", "history")' /\ stored' = task'[v].seen /\ Before(wq', u, v)
              \/ "bypassed" \in missed'
          /\ \/ stored = task[t].seen
             \/ \E u \in Tasks : At(u, "rule", "history")'
             \/ "bypassed" \in missed
      BY <2>1, <2>2, <2>6, <3>1, PublisherLeaves DEF RuleInv
    <3>3. (missed' = {} /\ ~\E u \in Tasks : At(u, "rule", "history")') => engine' = EffectiveRules(StoredOr(Seed)')
      BY <2>1, <2>3, <2>6, <3>2 DEF StoredOr
    <3>4. EffectiveRules(StoredOr(Seed)') = EffectiveRules(StoredOr(Seed))'
      BY DEF EffectiveRules
    <3> QED
      BY <3>2, <3>3, <3>4 DEF EngineFollows
  <2>7. ASSUME ~up
        PROVE  EngineFollows'
    BY <2>1, <2>7 DEF EngineFollows
  <2> QED
    BY <2>1, <2>2, <2>5, <2>6, <2>7 DEF RuleInv
<1>6. CASE SetFails(t)
  <2>1. /\ task[t].op \in {"rule", "config", "config_rules"} /\ task[t].pc \in {"write", "history"} /\ HasLock(t)
        /\ up' = up /\ UNCHANGED <<stored, engine>> /\ missed \subseteq missed'
        /\ At(t, "rule", "history") => "unsent" \in missed'
        /\ Ends(t)
    BY <1>6 DEF SetFails, RuleOps, ConfigOps
  <2>2. OnlyMoves(t) /\ task'[t].op = "none" /\ ~At(t, "rule", "history")'
    BY <2>1, EndsMoves DEF NoTask, At
  <2>3. RuleTypeOK'
    BY <2>1, <2>2 DEF RuleInv, RuleTypeOK, OnlyMoves
  <2>4. ASSUME ~At(t, "rule", "history")
        PROVE  EngineFollows'
    BY <2>1, <2>2, <2>4, RuleQuiet DEF RuleInv, At
  <2>5. ASSUME At(t, "rule", "history"), up
        PROVE  EngineFollows'
    <3>1. missed' # {}
      BY <2>1, <2>5
    <3>2. \A u \in Tasks : At(u, "rule", "history")' =>
              \/ stored' = task'[u].seen
              \/ \E v \in Tasks : At(v, "rule", "history")' /\ stored' = task'[v].seen /\ Before(wq', u, v)
              \/ "bypassed" \in missed'
      BY <2>1, <2>2, <2>5, PublisherLeaves DEF RuleInv
    <3> QED
      BY <3>1, <3>2 DEF EngineFollows
  <2>6. ASSUME ~up
        PROVE  EngineFollows'
    BY <2>1, <2>6 DEF EngineFollows
  <2>7. EngineFollows' => RuleInv'
    BY <2>3 DEF RuleInv
  <2>8. EngineFollows'
    BY <2>1, <2>4, <2>5, <2>6 DEF RuleInv
  <2> QED
    BY <2>1, <2>2, <2>7, <2>8
<1>7. CASE ConfigStep(t)
  <2>1. /\ task[t].op \in ConfigOps /\ up' = up /\ UNCHANGED engine
        /\ Requests(t, "write", "-") \/ Requests(t, "history", "-") \/ Ends(t)
        /\ \/ stored' \in ConfigLists /\ missed' = missed \cup {"bypassed"}
           \/ UNCHANGED <<stored, missed>>
    BY <1>7 DEF ConfigStep, ruleVars
  <2>2. OnlyMoves(t) /\ task'[t].op \in ConfigOps \cup {"none"}
    BY <1>1, <2>1, RequestsMoves, EndsMoves DEF Waiting, NoTask, ConfigOps
  <2>3. /\ task[t].op \in {"config", "config_rules"} /\ task'[t].op \in {"config", "config_rules", "none"}
        /\ ~At(t, "rule", "history") /\ ~At(t, "rule", "history")'
    BY <2>1, <2>2 DEF ConfigOps, At
  <2>4. stored' \in Configs \cup {NoList}
    <3>1. Limits \cup {Absent, Off} \subseteq Int
      BY RulesAssumption DEF Absent, Off
    <3>2. [RuleTypes -> Limits \cup {Absent, Off}] \subseteq Configs
      BY <3>1 DEF Configs
    <3> QED
      BY <2>1, <3>2 DEF ConfigLists, RuleInv, RuleTypeOK
  <2>5. RuleTypeOK'
    BY <2>1, <2>2, <2>3, <2>4 DEF RuleInv, RuleTypeOK, OnlyMoves
  <2>6. CASE UNCHANGED <<stored, missed>>
    <3>1. EngineFollows'
      BY <2>1, <2>2, <2>3, <2>6, RuleQuiet DEF RuleInv
    <3> QED
      BY <2>1, <2>2, <2>3, <2>5, <3>1 DEF RuleInv
  <2>7. CASE missed' = missed \cup {"bypassed"}
    <3>1. EngineFollows'
      BY <2>7 DEF EngineFollows
    <3> QED
      BY <2>1, <2>2, <2>3, <2>5, <3>1 DEF RuleInv
  <2> QED
    BY <2>1, <2>6, <2>7
<1> QED
  BY <1>2, <1>3, <1>4, <1>5, <1>6, <1>7 DEF RuleStep

-----------------------------------------------------------------------------
(* The other steps *)

\* A command that is given is at its start: it disturbs no component but the kill switch.
LEMMA GivenKeeps ==
  ASSUME MemberInv, ApprovalInv, RuleInv, UNCHANGED <<memberVars, approvalVars, ruleVars>>,
         NEW t \in Tasks, OnlyMoves(t), up' = up, task[t] = NoTask, task'[t].pc = "go",
         task'[t].op = "rule" => task'[t].arg \in [type : RuleTypes, limit : Limits]
  PROVE  MemberInv' /\ ApprovalInv' /\ RuleInv'
<1>1. MemberInv'
  BY DEF MemberInv, MemberTypeOK, RevokedFirst, memberVars, OnlyMoves
<1>2. ApprovalInv'
  <2>1. ApprovalTypeOK'
    BY DEF ApprovalInv, ApprovalTypeOK, approvalVars, OnlyMoves
  <2>2. Executing' = Executing
    BY DEF Executing, OnlyMoves, NoTask
  <2>3. ApprovedOrCut'
    BY <2>2 DEF ApprovalInv, ApprovedOrCut, approvalVars, OnlyMoves
  <2> QED
    BY <2>1, <2>3 DEF ApprovalInv
<1>3. RuleInv'
  <2>1. RuleTypeOK'
    BY DEF RuleInv, RuleTypeOK, ruleVars, OnlyMoves
  <2>2. ~At(t, "rule", "history") /\ ~At(t, "rule", "history")'
    BY DEF At, NoTask
  <2>3. EngineFollows'
    BY <2>2, RuleQuiet DEF RuleInv, ruleVars
  <2> QED
    BY <2>1, <2>3 DEF RuleInv
<1> QED
  BY <1>1, <1>2, <1>3

\* A step that moves no command.
LEMMA NobodyMoves ==
  ASSUME CommandsOK, UNCHANGED <<up, task, wq, expire>>
  PROVE  CommandsOK' /\ \A O : Aside(O)
BY DEF CommandsOK, TaskOK, QueueOK, Aside

\* The loop that expires requests.
LEMMA ExpireInv ==
  ASSUME CommandsOK, ApprovalInv, ExpireStep
  PROVE  CommandsOK' /\ ApprovalInv' /\ \A O : Aside(O)
<1>1. task' = task /\ up' = up /\ UNCHANGED <<executed, cut>>
  BY DEF ExpireStep, ExpireRead, ExpireWrite, ExpireFails
<1>2. /\ IsQueue(wq', Seats)
      /\ \A t \in Tasks : Queued(wq', t) <=> Queued(wq, t)
      /\ Queued(wq', Expirer) <=> expire' = "write"
      /\ \A u, v \in Tasks : Before(wq, u, v) => Before(wq', u, v)
  <2>1. CASE ExpireRead
    <3>1. ~Queued(wq, Expirer) /\ wq' = Append(wq, Expirer) /\ expire' = "write" /\ Expirer \in Seats
      BY <2>1 DEF ExpireRead, CommandsOK, QueueOK, Seats
    <3>2. /\ IsQueue(wq', Seats)
          /\ \A u : Queued(wq', u) <=> Queued(wq, u) \/ u = Expirer
          /\ \A u, v : Before(wq, u, v) => Before(wq', u, v)
      BY <3>1, AppendQueue DEF CommandsOK, QueueOK
    <3> QED
      BY <3>1, <3>2, ExpirerAssumption
  <2>2. CASE ExpireWrite \/ ExpireFails
    <3>1. wq' = Without(wq, Expirer) /\ expire' = "sleep"
      BY <2>2 DEF ExpireWrite, ExpireFails
    <3>2. /\ IsQueue(wq', Seats)
          /\ \A u : Queued(wq', u) <=> Queued(wq, u) /\ u # Expirer
          /\ \A u, v : Before(wq, u, v) /\ u # Expirer /\ v # Expirer => Before(wq', u, v)
      BY <3>1, WithoutQueue DEF CommandsOK, QueueOK
    <3> QED
      BY <3>1, <3>2, ExpirerAssumption
  <2> QED
    BY <2>1, <2>2 DEF ExpireStep
<1>3. CommandsOK'
  BY <1>1, <1>2 DEF CommandsOK, TaskOK, QueueOK
<1>4. \A O : Aside(O)
  BY <1>1, <1>2 DEF Aside
<1>5. ApprovalTypeOK'
  BY <1>1 DEF ExpireStep, ExpireRead, ExpireWrite, ExpireFails, ApprovalInv, ApprovalTypeOK
<1>6. req'.status = "approved" => req.status = "approved"
  BY DEF ExpireStep, ExpireRead, ExpireWrite, ExpireFails, ApprovalInv, ApprovalTypeOK
<1>7. Executing' = Executing
  BY <1>1 DEF Executing
<1>8. ApprovedOrCut'
  BY <1>1, <1>6, <1>7 DEF ApprovalInv, ApprovedOrCut
<1> QED
  BY <1>3, <1>4, <1>5, <1>8 DEF ApprovalInv

\* The daemon dies: what is not in a row is lost, and counted as unsaved or cut.
LEMMA CrashInv ==
  ASSUME Inv, Crash
  PROVE  Inv'
<1>1. /\ up /\ up' = FALSE /\ task' = [t \in Tasks |-> NoTask] /\ wq' = <<>>
      /\ unsaved' = unsaved \cup Pending /\ calm' = {} /\ UNCHANGED <<status, rows, halted>>
      /\ cut' = (cut \/ Executing # {}) /\ expire' = "sleep" /\ UNCHANGED <<req, executed>>
      /\ confirm' = "none" /\ UNCHANGED <<memberVars, ruleVars, mix>>
  BY DEF Crash, DaemonDies, KillSwitchDies, ApprovalsDie
<1>2. \A t \in Tasks : task'[t] = NoTask /\ task'[t].op = "none" /\ task'[t].pc = "-"
  BY <1>1 DEF NoTask
<1>3. TaskOK'
  BY <1>1 DEF TaskOK, NoTask, Pcs, Arguments, Findings
<1>4. QueueOK'
  <2>1. IsQueue(<<>>, Seats) /\ \A u : ~Queued(<<>>, u)
    BY DEF IsQueue, Queued
  <2> QED
    BY <1>1, <1>2, <2>1 DEF QueueOK, Waiting
<1>5. KillInv'
  <2>1. \A t \in Tasks, a \in AccountIds : Writes(t, a) => a \in Pending
    BY DEF Writes, Pending
  <2>2. Pending \subseteq AccountIds
    <3>1. ASSUME NEW t \in Tasks, task[t].op \in KillOps, task[t].pc = "write"
          PROVE  Head(task[t].seen) \in AccountIds
      <4>1. Todo(t) = task[t].seen /\ Todo(t) \in Seq(AccountIds) /\ Todo(t) # <<>>
        BY <3>1 DEF Inv, KillInv, KillTasks, Todo
      <4> QED
        BY <4>1, HeadTail
    <3> QED
      BY <3>1 DEF Pending
  <2>3. KillTypeOK'
    BY <1>1, <2>2 DEF Inv, KillInv, KillTypeOK
  <2>4. KillTasks' /\ NoClear' /\ LastWins'
    BY <1>2 DEF KillTasks, NoClear, LastWins, Writes, KillOps, HaltOps, ClearOps
  <2>5. CalmDone' /\ RowsFollow'
    BY <1>1 DEF CalmDone, RowsFollow
  <2>6. HaltStays'
    BY <1>1, <2>1 DEF Inv, KillInv, HaltStays, RowsFollow
  <2> QED
    BY <2>3, <2>4, <2>5, <2>6 DEF KillInv
<1>6. MemberInv'
  BY <1>1, <1>2 DEF Inv, MemberInv, MemberTypeOK, RevokedFirst, memberVars, StatusOps
<1>7. ApprovalInv'
  <2>1. ApprovalTypeOK'
    BY <1>1, <1>2 DEF Inv, ApprovalInv, ApprovalTypeOK, ApprovalOps, RequestOps, ReviewOps
  <2>2. ApprovedOrCut'
    BY <1>1, <1>2 DEF Inv, ApprovalInv, ApprovedOrCut
  <2> QED
    BY <2>1, <2>2 DEF ApprovalInv
<1>8. RuleInv'
  BY <1>1, <1>2 DEF Inv, RuleInv, RuleTypeOK, EngineFollows, ruleVars
<1> QED
  BY <1>1, <1>3, <1>4, <1>5, <1>6, <1>7, <1>8 DEF Inv

\* The daemon starts from the rows and from the store.
LEMMA RestartInv ==
  ASSUME Inv, Restart
  PROVE  Inv'
<1>1. /\ ~up /\ up' = TRUE /\ (\A t \in Tasks : task[t] = NoTask) /\ task' = task /\ wq' = wq
      /\ status' = rows /\ UNCHANGED <<rows, calm, halted, unsaved>>
      /\ stored' = stored
      /\ \/ engine' = EffectiveRules(StoredOr(Seed)) /\ missed' = {}
         \/ engine' = EffectiveRules(Seed) /\ missed' = {"unread"}
      /\ UNCHANGED <<memberVars, approvalVars, confirm, mix>>
  BY DEF Restart, DaemonStarts, KillSwitchStarts, InitializeAll
<1>2. \A t \in Tasks : task'[t].op = "none" /\ task'[t].pc = "-" /\ task[t].op = "none"
  BY <1>1 DEF NoTask
<1>3. TaskOK' /\ QueueOK'
  BY <1>1 DEF Inv, TaskOK, QueueOK, approvalVars
<1>4. KillInv'
  <2>1. calm = {}
    BY <1>2 DEF Inv, KillInv, CalmDone, KillTypeOK
  <2>2. KillTypeOK' /\ HaltStays'
    BY <1>1 DEF Inv, KillInv, KillTypeOK, HaltStays
  <2>3. KillTasks' /\ NoClear' /\ LastWins'
    BY <1>2 DEF KillTasks, NoClear, LastWins, Writes, KillOps, HaltOps, ClearOps
  <2>4. CalmDone' /\ RowsFollow'
    BY <1>1, <2>1 DEF CalmDone, RowsFollow
  <2> QED
    BY <2>2, <2>3, <2>4 DEF KillInv
<1>5. MemberInv'
  BY <1>1 DEF Inv, MemberInv, MemberTypeOK, RevokedFirst, memberVars
<1>6. ApprovalInv'
  <2>1. Executing' = Executing
    BY <1>1 DEF Executing
  <2> QED
    BY <1>1, <2>1 DEF Inv, ApprovalInv, ApprovalTypeOK, ApprovedOrCut, approvalVars
<1>7. RuleInv'
  <2>1. StoredOr(Seed) \in Configs /\ EffectiveRules(StoredOr(Seed)) \in Configs
        /\ EffectiveRules(Seed) \in Configs
    BY RulesAssumption DEF StoredOr, EffectiveRules, Configs, Inv, RuleInv, RuleTypeOK
  <2>2. RuleTypeOK'
    BY <1>1, <2>1 DEF Inv, RuleInv, RuleTypeOK
  <2>3. EngineFollows'
    BY <1>1, <1>2 DEF EngineFollows, At, StoredOr
  <2> QED
    BY <2>2, <2>3 DEF RuleInv
<1> QED
  BY <1>1, <1>3, <1>4, <1>5, <1>6, <1>7 DEF Inv

-----------------------------------------------------------------------------
(* The theorems *)

LEMMA InitInv == Init => Inv
<1> SUFFICES ASSUME Init
             PROVE  Inv
  OBVIOUS
<1>1. /\ up = TRUE /\ task = [t \in Tasks |-> NoTask] /\ wq = <<>> /\ confirm = "none" /\ mix \in Mixes
      /\ InitKillSwitch /\ InitMembers /\ InitApprovals /\ InitRules
  BY DEF Init, InitCommands
<1>2. \A t \in Tasks : task[t].op = "none" /\ task[t].pc = "-"
  BY <1>1 DEF NoTask
<1>3. TaskOK
  BY <1>1 DEF TaskOK, NoTask, Pcs, Arguments, Findings
<1>4. QueueOK
  <2>1. IsQueue(<<>>, Seats) /\ \A u : ~Queued(<<>>, u)
    BY DEF IsQueue, Queued
  <2> QED
    BY <1>1, <1>2, <2>1 DEF QueueOK, Waiting, InitApprovals
<1>5. KillInv
  <2>1. KillTasks /\ NoClear /\ LastWins
    BY <1>2 DEF KillTasks, NoClear, LastWins, Writes, KillOps, HaltOps, ClearOps
  <2>2. KillTypeOK /\ CalmDone /\ RowsFollow /\ HaltStays
    BY <1>1 DEF InitKillSwitch, KillTypeOK, CalmDone, RowsFollow, HaltStays, Statuses
  <2> QED
    BY <2>1, <2>2 DEF KillInv
<1>6. MemberInv
  <2>1. PICK s \in {"active", "none"} :
          row = [m \in MemberIds |->
                  [status |-> IF m = "agent" THEN s ELSE "active",
                   token |-> CASE m = "master" -> 1 [] s = "active" -> 2 [] OTHER -> NoToken,
                   expired |-> FALSE, scoped |-> TRUE]]
    BY <1>1 DEF InitMembers
  <2>2. issued = [m \in MemberIds |-> {row[m].token} \ {NoToken}] /\ gone = FALSE
    BY <1>1 DEF InitMembers
  <2>3. row \in [MemberIds -> [status : {"none", "active", "suspended", "revoked"}, token : Nat,
                              expired : BOOLEAN, scoped : BOOLEAN]]
    BY <2>1 DEF MemberIds, NoToken
  <2>4. ASSUME NEW m \in MemberIds
        PROVE  issued[m] \subseteq Nat /\ IsFiniteSet(issued[m])
    <3>1. issued[m] \subseteq {row[m].token} /\ row[m].token \in Nat
      BY <2>2, <2>3
    <3>2. IsFiniteSet({row[m].token})
      BY FS_Singleton
    <3> QED
      BY <3>1, <3>2, FS_Subset
  <2> QED
    BY <2>2, <2>3, <2>4 DEF MemberInv, MemberTypeOK, RevokedFirst
<1>7. ApprovalInv
  <2>1. req \in [status : {"none", "pending"}, type : {"rule_change", "legacy"}, late : BOOLEAN]
    BY <1>1 DEF InitApprovals
  <2>2. ApprovalTypeOK
    BY <1>1, <1>2, <2>1 DEF InitApprovals, ApprovalTypeOK, Resolutions, ApprovalOps, RequestOps, ReviewOps
  <2>3. ApprovedOrCut
    BY <1>2, <2>1 DEF ApprovedOrCut
  <2> QED
    BY <2>2, <2>3 DEF ApprovalInv
<1>8. RuleInv
  <2>1. stored \in Configs \cup {NoList}
    BY <1>1, RulesAssumption DEF InitRules, Configs, Empty, Absent
  <2>2. EffectiveRules(StoredOr(Seed)) \in Configs
    BY <2>1, RulesAssumption DEF StoredOr, EffectiveRules, Configs
  <2> QED
    BY <1>1, <1>2, <2>1, <2>2 DEF InitRules, RuleInv, RuleTypeOK, EngineFollows, At
<1> QED
  BY <1>1, <1>3, <1>4, <1>5, <1>6, <1>7, <1>8 DEF Inv

LEMMA NextInv == Inv /\ [Next]_vars => Inv'
<1> SUFFICES ASSUME Inv, [Next]_vars
             PROVE  Inv'
  OBVIOUS
<1>1. CommandsOK /\ KillInv /\ MemberInv /\ ApprovalInv /\ RuleInv
  BY DEF Inv, CommandsOK
<1> DEFINE Rest == confirm' \in {"none", "halt", "clear"} /\ mix' \in Mixes
<1>2. ASSUME CommandsOK', KillInv', MemberInv', ApprovalInv', RuleInv', Rest
      PROVE  Inv'
  BY <1>2 DEF Inv, CommandsOK
\* The operations of two components are not the same, and none is "none".
<1>3. /\ KillOps \cap MemberOps = {} /\ KillOps \cap ApprovalOps = {} /\ KillOps \cap {"rule", "config", "config_rules"} = {}
      /\ MemberOps \cap ApprovalOps = {} /\ MemberOps \cap {"rule", "config", "config_rules"} = {}
      /\ ApprovalOps \cap {"rule", "config", "config_rules"} = {}
      /\ "none" \notin KillOps \cup MemberOps \cup ApprovalOps
  BY DEF KillOps, HaltOps, ClearOps, MemberOps, ApprovalOps, RequestOps, ReviewOps
<1>4. ASSUME NEW t \in Tasks, GiveKill(t)
      PROVE  Inv'
  <2>1. PICK op \in mix \cap KillOps : KillBegins(t, op) /\ \E arg \in Args(op) : Given(t, op, arg, FALSE)
    BY <1>4 DEF GiveKill
  <2>2. PICK arg \in Args(op) : Given(t, op, arg, FALSE)
    BY <2>1
  <2>3. /\ op \in Ops /\ op \notin ColdOps /\ op # "rule" /\ arg \in Arguments
        /\ op \notin {"halt", "clear"} => arg \in AccountIds
    BY <2>1, <2>2 DEF KillOps, HaltOps, ClearOps, Ops, HotOps, SystemOps, AccountOps, ColdOps, RuleOps, MasterOps,
                      RegisterOps, LifecycleOps, TokenOps, ScopeOps, ExemptOps, Args, Arguments
  <2>4. up
    BY <2>2, <2>3 DEF Given
  <2>5. /\ up' = up /\ wq' = wq /\ UNCHANGED <<memberVars, approvalVars, ruleVars, confirm, mix>> /\ expire' = expire
    BY <1>4 DEF GiveKill, approvalVars
  <2>6. /\ OnlyMoves(t) /\ task[t] = NoTask
        /\ task'[t].op = op /\ task'[t].arg = arg /\ task'[t].pc = "go"
    BY <1>1, <2>2, <2>3, <2>5, GivenMoves
  <2>7. KillInv'
    BY <1>1, <2>1, <2>3, <2>4, <2>5, <2>6, KillGiven
  <2>8. MemberInv' /\ ApprovalInv' /\ RuleInv'
    BY <1>1, <2>3, <2>5, <2>6, GivenKeeps
  <2> QED
    BY <1>2, <2>5, <2>6, <2>7, <2>8 DEF OnlyMoves, Inv
\* Any other command is given.
<1>5. ASSUME NEW t \in Tasks, NEW op \in Ops \ KillOps, NEW arg \in Arguments, NEW tg \in BOOLEAN, Given(t, op, arg, tg),
             op = "rule" => arg \in [type : RuleTypes, limit : Limits],
             UNCHANGED <<up, wq, killVars, memberVars, approvalVars, ruleVars, confirm, mix>>
      PROVE  Inv'
  <2>1. expire' = expire
    BY <1>5 DEF approvalVars
  <2>2. /\ OnlyMoves(t) /\ task[t] = NoTask
        /\ task'[t].op = op /\ task'[t].arg = arg /\ task'[t].pc = "go"
    BY <1>1, <1>5, <2>1, GivenMoves
  <2>3. Aside(KillOps)
    BY <1>3, <1>5, <2>2, MovesAside DEF NoTask
  <2>4. KillInv'
    BY <1>1, <1>5, <2>3, KillAside
  <2>5. MemberInv' /\ ApprovalInv' /\ RuleInv'
    BY <1>1, <1>5, <2>2, GivenKeeps
  <2> QED
    BY <1>2, <1>5, <2>2, <2>4, <2>5 DEF OnlyMoves, Inv
<1>6. ASSUME NEW t \in Tasks, GiveCommand(t)
      PROVE  Inv'
  <2>1. PICK op \in mix \ KillOps : \E arg \in Args(op) : Given(t, op, arg, FALSE)
    BY <1>6 DEF GiveCommand
  <2>2. PICK arg \in Args(op) : Given(t, op, arg, FALSE)
    BY <2>1
  <2>3. op \in Ops
    BY <2>1, MixesAssumption DEF Inv, Ops
  <2>4. arg \in Arguments /\ (op = "rule" => arg \in [type : RuleTypes, limit : Limits])
    BY <2>2 DEF Args, Arguments
  <2> QED
    BY <1>5, <1>6, <2>1, <2>2, <2>3, <2>4 DEF GiveCommand
<1>7. ASSUME NEW t \in Tasks, KillSwitchRuns(t)
      PROVE  Inv'
  <2>1. KillStep(t) /\ UNCHANGED <<memberVars, approvalVars, ruleVars, confirm, mix>> /\ expire' = expire
    BY <1>7 DEF KillSwitchRuns, approvalVars
  <2>2. KillInv' /\ OnlyMoves(t) /\ up' = up /\ task[t].op \in KillOps /\ task'[t].op \in KillOps \cup {"none"}
    BY <1>1, <2>1, KillStepInv
  <2>3. Aside(MemberOps) /\ Aside(ApprovalOps) /\ Aside({"rule"})
    BY <1>3, <2>2, MovesAside
  <2> QED
    BY <1>1, <1>2, <2>1, <2>2, <2>3, MemberAside, ApprovalAside, RuleAside DEF OnlyMoves, Inv
<1>8. ASSUME NEW t \in Tasks, MembersRun(t)
      PROVE  Inv'
  <2>1. MemberStep(t) /\ UNCHANGED <<killVars, approvalVars, ruleVars, confirm, mix>> /\ expire' = expire
    BY <1>8 DEF MembersRun, approvalVars
  <2>2. MemberInv' /\ OnlyMoves(t) /\ up' = up /\ task[t].op \in MemberOps /\ task'[t].op \in MemberOps \cup {"none"}
    BY <1>1, <2>1, MemberStepInv
  <2>3. Aside(KillOps) /\ Aside(ApprovalOps) /\ Aside({"rule"})
    BY <1>3, <2>2, MovesAside
  <2> QED
    BY <1>1, <1>2, <2>1, <2>2, <2>3, KillAside, ApprovalAside, RuleAside DEF OnlyMoves, Inv
<1>9. ASSUME NEW t \in Tasks, ApprovalsRun(t)
      PROVE  Inv'
  <2>1. ApprovalStep(t) /\ UNCHANGED <<killVars, memberVars, ruleVars, confirm, mix>>
    BY <1>9 DEF ApprovalsRun
  <2>2. ApprovalInv' /\ OnlyMoves(t) /\ up' = up /\ task[t].op \in ApprovalOps /\ task'[t].op \in ApprovalOps \cup {"none"}
    BY <1>1, <2>1, ApprovalStepInv
  <2>3. Aside(KillOps) /\ Aside(MemberOps) /\ Aside({"rule"})
    BY <1>3, <2>2, MovesAside
  <2> QED
    BY <1>1, <1>2, <2>1, <2>2, <2>3, KillAside, MemberAside, RuleAside DEF OnlyMoves, Inv
<1>10. ASSUME NEW t \in Tasks, RulesRun(t)
       PROVE  Inv'
  <2>1. RuleStep(t) /\ UNCHANGED <<killVars, memberVars, approvalVars, confirm, mix>> /\ expire' = expire
    BY <1>10 DEF RulesRun, approvalVars
  <2>2. /\ RuleInv' /\ OnlyMoves(t) /\ up' = up
        /\ task[t].op \in {"rule", "config", "config_rules"}
        /\ task'[t].op \in {"rule", "config", "config_rules", "none"}
    BY <1>1, <2>1, RuleStepInv
  <2>3. Aside(KillOps) /\ Aside(MemberOps) /\ Aside(ApprovalOps)
    BY <1>3, <2>2, MovesAside
  <2> QED
    BY <1>1, <1>2, <2>1, <2>2, <2>3, KillAside, MemberAside, ApprovalAside DEF OnlyMoves, Inv
\* A step that moves no command and changes no component but the members.
<1>11. ASSUME UNCHANGED <<up, task, wq, killVars, approvalVars, ruleVars>>, MemberInv', Rest
       PROVE  Inv'
  <2>1. CommandsOK' /\ \A O : Aside(O)
    BY <1>1, <1>11, NobodyMoves DEF approvalVars
  <2> QED
    BY <1>1, <1>2, <1>11, <2>1, KillAside, ApprovalAside, RuleAside
<1>12. ASSUME UNCHANGED <<up, task, wq, killVars, memberVars, approvalVars, ruleVars>>, Rest
       PROVE  Inv'
  <2>1. CommandsOK' /\ \A O : Aside(O)
    BY <1>1, <1>12, NobodyMoves DEF approvalVars
  <2> QED
    BY <1>1, <1>11, <1>12, <2>1, MemberAside
<1>13. ASSUME NEW t \in Tasks, TelegramConfirms(t)
       PROVE  Inv'
  <2>1. /\ confirm # "none" /\ confirm' = "none" /\ up
        /\ UNCHANGED <<up, wq, memberVars, approvalVars, ruleVars, mix>> /\ expire' = expire
    BY <1>13 DEF TelegramConfirms, TelegramFree, approvalVars
  <2>2. CASE UNCHANGED <<task, ops, killVars>>
    BY <1>12, <2>1, <2>2 DEF Inv
  <2>3. CASE Given(t, confirm, "-", TRUE) /\ KillBegins(t, confirm)
    <3>1. confirm \in {"halt", "clear"}
      BY <2>1 DEF Inv
    <3>2. confirm \in KillOps /\ confirm \in Ops /\ "-" \in Arguments
      BY <3>1 DEF KillOps, HaltOps, ClearOps, Ops, HotOps, SystemOps, Arguments
    <3>3. OnlyMoves(t) /\ task[t] = NoTask /\ task'[t].op = confirm /\ task'[t].pc = "go"
      BY <1>1, <2>1, <2>3, <3>2, GivenMoves
    <3>4. KillInv'
      BY <1>1, <2>1, <2>3, <3>1, <3>2, <3>3, KillGiven
    <3>5. MemberInv' /\ ApprovalInv' /\ RuleInv'
      BY <1>1, <2>1, <3>1, <3>3, GivenKeeps
    <3> QED
      BY <1>2, <2>1, <3>3, <3>4, <3>5 DEF OnlyMoves, Inv
  <2> QED
    BY <1>13, <2>2, <2>3 DEF TelegramConfirms
<1>14. ASSUME NEW t \in Tasks, TelegramButton(t)
       PROVE  Inv'
  <2>1. PICK op \in {"approve", "reject"} : Given(t, op, "-", TRUE)
    BY <1>14 DEF TelegramButton
  <2>2. op \in Ops \ KillOps /\ op # "rule" /\ "-" \in Arguments
    BY DEF Ops, HotOps, ReviewOps, KillOps, HaltOps, ClearOps, Arguments
  <2> QED
    BY <1>5, <1>14, <2>1, <2>2 DEF TelegramButton
<1>15. CASE TelegramAsks
  BY <1>12, <1>15 DEF TelegramAsks, commandVars, Inv
<1>16. CASE ConfirmTooLate
  BY <1>12, <1>16 DEF ConfirmTooLate, commandVars, Inv
<1>17. CASE Expires
  <2>1. ExpireStep /\ UNCHANGED <<killVars, memberVars, ruleVars, confirm, mix>>
    BY <1>17 DEF Expires
  <2>2. CommandsOK' /\ ApprovalInv' /\ \A O : Aside(O)
    BY <1>1, <2>1, ExpireInv
  <2> QED
    BY <1>1, <1>2, <2>1, <2>2, KillAside, MemberAside, RuleAside DEF Inv
<1>18. CASE Deadline
  <2>1. /\ req' = [req EXCEPT !.late = TRUE] /\ UNCHANGED <<executed, cut, expire, up, task, wq>>
        /\ UNCHANGED <<killVars, memberVars, ruleVars, confirm, mix>>
    BY <1>18 DEF Deadline, DeadlinePasses, commandVars
  <2>2. CommandsOK' /\ \A O : Aside(O)
    BY <1>1, <2>1, NobodyMoves
  <2>3. ApprovalTypeOK' /\ req'.status = req.status
    BY <1>1, <2>1 DEF ApprovalInv, ApprovalTypeOK
  <2>4. Executing' = Executing
    BY <2>1 DEF Executing
  <2>5. ApprovalInv'
    BY <1>1, <2>1, <2>3, <2>4 DEF ApprovalInv, ApprovedOrCut
  <2> QED
    BY <1>1, <1>2, <2>1, <2>2, <2>5, KillAside, MemberAside, RuleAside DEF Inv
<1>19. CASE TokenOver
  <2>1. PICK m \in MemberIds : row' = [row EXCEPT ![m].expired = TRUE]
    BY <1>19 DEF TokenOver, TokenExpires
  <2>2. UNCHANGED <<issued, gone, up, task, wq, killVars, approvalVars, ruleVars, confirm, mix>>
    BY <1>19 DEF TokenOver, TokenExpires
  <2>3. /\ row' \in [MemberIds -> [status : {"none", "active", "suspended", "revoked"}, token : Nat,
                                   expired : BOOLEAN, scoped : BOOLEAN]]
        /\ row'["agent"].status = row["agent"].status
    BY <1>1, <2>1 DEF MemberInv, MemberTypeOK, MemberIds
  <2>4. MemberInv'
    BY <1>1, <2>2, <2>3 DEF MemberInv, MemberTypeOK, RevokedFirst
  <2> QED
    BY <1>11, <2>2, <2>4 DEF Inv
<1>20. CASE Crash
  BY <1>20, CrashInv
<1>21. CASE Restart
  BY <1>21, RestartInv
<1>22. CASE UNCHANGED vars
  BY <1>12, <1>22 DEF vars, commandVars, Inv
<1> QED
  BY <1>4, <1>6, <1>7, <1>8, <1>9, <1>10, <1>13, <1>14, <1>15, <1>16, <1>17, <1>18, <1>19, <1>20, <1>21, <1>22
     DEF Next, TaskStep

(* The inductive invariant: who is to write waits in the queue of the write lock, and the
   last who waits writes what the memory says. *)
THEOREM ControlInvariant == Spec => []Inv
BY InitInv, NextInv, PTL DEF Spec

(* Once a halt has returned, and until an activation begins, every account is suspended in
   the memory, and in its row or on the way there, for any number of accounts, of overlapping
   halts and suspensions and of crashes (suspend, suspend_all, initialize). *)
THEOREM HaltHoldsAlways == Spec => []HaltHolds
<1>1. Inv => HaltHolds
  <2> SUFFICES ASSUME Inv, halted, NEW a \in AccountIds \ unsaved
               PROVE  (up => status[a] = "suspended") /\ (rows[a] = "suspended" \/ a \in Pending)
    BY DEF HaltHolds
  <2>1. \A t \in Tasks : Writes(t, a) => a \in Pending
    BY DEF Writes, Pending
  <2> QED
    BY <2>1 DEF Inv, KillInv, HaltStays, RowsFollow
<1> QED
  BY <1>1, ControlInvariant, PTL

(* A member whose revocation has returned never authenticates again, with any token it was
   ever issued, whatever rotations were in flight (revoke, rotate_token, authenticate). *)
THEOREM RevokedNeverActs == Spec => []RevokedStaysOut
<1>1. Inv => RevokedStaysOut
  BY DEF Inv, MemberInv, RevokedFirst, RevokedStaysOut, Authenticates
<1> QED
  BY <1>1, ControlInvariant, PTL

(* A request whose row says approved, and that nobody executes, has been executed, whatever
   decisions, expiries and failures overlapped (_execute_approved). *)
THEOREM NoSilentSuccess == Spec => []ApprovedIsExecuted
<1>1. Inv => ApprovedIsExecuted
  BY DEF Inv, ApprovalInv, ApprovedOrCut, ApprovedIsExecuted
<1> QED
  BY <1>1, ControlInvariant, PTL

(* An order that the engine lets pass violates no limit of the store, for any rules and
   limits, after any overlap of updates and of config set and after any crash, unless the
   engine misses what the store has for one of the three reasons LimitsBind names
   (DynamicConfigService.set, _handle_config_set, _on_config_changed, initialize_all). *)
THEOREM LimitsBindAlways == Spec => []LimitsBind
<1>1. Inv => LimitsBind
  BY DEF Inv, RuleInv, EngineFollows, LimitsBind
<1> QED
  BY <1>1, ControlInvariant, PTL

=============================================================================
