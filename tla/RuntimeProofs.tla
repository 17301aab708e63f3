--------------------------- MODULE RuntimeProofs ----------------------------
(***************************************************************************)
(* Accounts: OneTokenAtATime and NoSessionPastDb hold for any number of    *)
(* accounts, calls, retries and faults.  What makes them inductive: a task *)
(* that requests a token is the head of the queue of the app key, a task   *)
(* that connects an account is in the queue of the account, and the        *)
(* shutdown, which asks for the lock of an account last, is behind the     *)
(* client that connects it.                                                *)
(*                                                                         *)
(* Daemon: the guard of the cold path sees a daemon that has the database  *)
(* open, the sessions of a bot stay within their bounds, and a session     *)
(* sends every fill it marks.  The invariant has four parts: what is true  *)
(* of a connection by itself (ConnOK), of two (OneSession), of the files,  *)
(* server and database in a stage of main() (StageOK), and of the sessions *)
(* from the sweep of the shutdown on (SweptOK).  A step of a connection's  *)
(* task, or of a command that closes sessions, is described by Follows:    *)
(* what it may make of a session.                                          *)
(*                                                                         *)
(* Bots: the saved row shows the strategy of the bot (SavedConfig), and    *)
(* no money is lost or made (BudgetConserved), for any number of bots,     *)
(* objects, commands and restarts.  The first needs that an object         *)
(* registered for a bot is that bot's and that a command suspended at an   *)
(* await still holds an object of its bot (Registry, OpsOK); the second    *)
(* that no two deletions of a bot are under way (OneDelete), that what is  *)
(* above the memory, in the table or in line for it, has a DELETE behind   *)
(* it (RowsLead, SavesLead), and that a deletion that reads the row finds  *)
(* none (ReadsEmpty).                                                      *)
(***************************************************************************)
EXTENDS Accounts, Daemon, Bots, Sums, SequenceTheorems

-----------------------------------------------------------------------------
(* Accounts *)

-----------------------------------------------------------------------------
(* The inductive invariant *)

\* The queues of two tasks.
Lines == {<<>>, <<"main">>, <<"ipc">>, <<"main", "ipc">>, <<"ipc", "main">>}

Ending == {"ok", "limit", "fail"}
Calls == [pc : {"none", "lock", "wait", "issue"} \cup Ending, acct : AccountIds \cup {Nobody}, api : BOOLEAN]
ShutdownPcs == {"stopping", "disconnect", "closed"}

TypeOK ==
    /\ fresh \in BOOLEAN /\ cooldown \in BOOLEAN
    /\ tokenq \in Lines /\ lockq \in [AccountIds -> Lines]
    /\ brokers \in [AccountIds -> {"none", "up", "closed"}]
    /\ call \in [Tasks -> Calls]
    /\ \A t \in Tasks : call[t].pc # "none" => call[t].acct \in AccountIds
    /\ main = [pc |-> main.pc, todo |-> main.todo, acct |-> main.acct, tries |-> main.tries,
               regs |-> main.regs, rebound |-> main.rebound]

\* Those who await or request a token are in the queue of the app key; who requests one is
\* its head, and has looked.
TokenOK ==
    \A t \in Tasks :
        /\ Queued(tokenq, t) <=> call[t].pc \in {"wait", "issue"}
        /\ call[t].pc = "issue" => Head(tokenq) = t /\ ~fresh /\ ~cooldown

\* t connects, or is to connect, the account a.
Connects(t, a) == call[t].pc \in {"lock", "wait", "issue"} /\ ~call[t].api /\ call[t].acct = a

\* Those in the queue of an account connect it, or disconnect it at shutdown.
LocksOK ==
    \A a \in AccountIds :
        /\ Queued(lockq[a], "ipc") <=> Connects("ipc", a)
        /\ Queued(lockq[a], "main") <=> Connects("main", a) \/ (main.pc = "disconnect" /\ main.acct = a)

\* The shutdown calls no broker.  It is behind the client in the queue of an account, and
\* the accounts it is done with have neither a session nor a client that connects them.
ShutdownOK ==
    /\ main.pc \in ShutdownPcs => call["main"] = NoCall
    /\ main.pc = "stopping" => main.acct = Nobody
    /\ main.pc = "disconnect" =>
         /\ main.todo \subseteq AccountIds /\ main.acct \in main.todo \cup {Nobody}
         /\ \A a \in AccountIds : main.acct = a /\ Queued(lockq[a], "ipc") => Head(lockq[a]) = "ipc"
         /\ \A a \in AccountIds \ main.todo : brokers[a] # "up" /\ ~Connects("ipc", a)
    /\ main.pc = "closed" => \A a \in AccountIds : brokers[a] # "up" /\ ~Connects("ipc", a)

Inv == TypeOK /\ TokenOK /\ LocksOK /\ ShutdownOK

-----------------------------------------------------------------------------
(* Queues of two tasks *)

LEMMA LineHead ==
  /\ \A t : ~Queued(<<>>, t)
  /\ \A t : Queued(<<"main">>, t) <=> t = "main"
  /\ \A t : Queued(<<"ipc">>, t) <=> t = "ipc"
  /\ \A t : Queued(<<"main", "ipc">>, t) <=> t \in Tasks
  /\ \A t : Queued(<<"ipc", "main">>, t) <=> t \in Tasks
<1>1. \A t : ~Queued(<<>>, t)
  BY DEF Queued
<1>2. \A x, t : Queued(<<x>>, t) <=> t = x
  BY DEF Queued
<1>3. ASSUME NEW x, NEW y, NEW t
      PROVE  Queued(<<x, y>>, t) <=> t = x \/ t = y
  <2>1. DOMAIN <<x, y>> = {1, 2} /\ <<x, y>>[1] = x /\ <<x, y>>[2] = y
    OBVIOUS
  <2> QED
    BY <2>1 DEF Queued
<1> QED
  BY <1>1, <1>2, <1>3 DEF Tasks

\* Who leaves a queue is out of it, and the other one is its head.
LEMMA LineWithout ==
  ASSUME NEW q \in Lines, NEW t \in Tasks
  PROVE  /\ Without(q, t) \in Lines /\ ~Queued(Without(q, t), t)
         /\ \A u \in Tasks : u # t => /\ Queued(Without(q, t), u) <=> Queued(q, u)
                                      /\ Queued(q, u) => Head(Without(q, t)) = u
<1> DEFINE w == Without(q, t)
<1>1. CASE ~Queued(q, t)
  <2>1. w = q
    BY <1>1 DEF Without
  <2>2. \A u \in Tasks : u # t /\ Queued(q, u) => Head(q) = u
    BY <1>1, LineHead DEF Lines, Tasks
  <2> QED
    BY <1>1, <2>1, <2>2
<1>2. CASE Queued(q, t)
  <2> DEFINE k == CHOOSE i \in DOMAIN q : q[i] = t
  <2>1. k \in DOMAIN q /\ q[k] = t
    BY <1>2 DEF Queued
  <2>2. w = [i \in 1..(Len(q) - 1) |-> q[IF i < k THEN i ELSE i + 1]]
    BY <1>2 DEF Without
  <2> HIDE DEF w, k
  <2>3. CASE q = <<t>>
    <3>1. w = <<>>
      BY <2>2, <2>3
    <3> QED
      BY <2>3, <3>1, LineHead DEF Lines, w, Tasks
  <2>4. ASSUME NEW u \in Tasks, u # t, q = <<t, u>> \/ q = <<u, t>>
        PROVE  w = <<u>>
    <3>1. Len(q) = 2 /\ DOMAIN q = {1, 2}
      BY <2>4
    <3>2. CASE q = <<t, u>>
      <4>1. k = 1
        BY <2>1, <2>4, <3>1, <3>2
      <4> QED
        BY <2>2, <3>1, <3>2, <4>1
    <3>3. CASE q = <<u, t>>
      <4>1. k = 2
        BY <2>1, <2>4, <3>1, <3>3
      <4> QED
        BY <2>2, <3>1, <3>3, <4>1
    <3> QED
      BY <2>4, <3>2, <3>3
  <2>5. ASSUME NEW u \in Tasks, u # t, q = <<t, u>> \/ q = <<u, t>>
        PROVE  /\ Without(q, t) \in Lines /\ ~Queued(Without(q, t), t)
               /\ \A v \in Tasks : v # t => /\ Queued(Without(q, t), v) <=> Queued(q, v)
                                            /\ Queued(q, v) => Head(Without(q, t)) = v
    BY <2>4, <2>5, LineHead DEF Lines, w, Tasks
  <2>6. q = <<t>> \/ \E u \in Tasks : u # t /\ (q = <<t, u>> \/ q = <<u, t>>)
    BY <1>2, LineHead DEF Lines, Tasks
  <2> QED
    BY <2>3, <2>5, <2>6
<1> QED
  BY <1>1, <1>2

\* Who joins a queue is in it, and the other one, if it was there, is its head.
LEMMA LineAppend ==
  ASSUME NEW q \in Lines, NEW t \in Tasks, ~Queued(q, t)
  PROVE  /\ Append(q, t) \in Lines /\ Queued(Append(q, t), t)
         /\ \A u \in Tasks : u # t => /\ Queued(Append(q, t), u) <=> Queued(q, u)
                                      /\ Queued(q, u) => Head(Append(q, t)) = u
<1>1. q = <<>> \/ \E u \in Tasks : u # t /\ q = <<u>>
  BY LineHead DEF Lines, Tasks
<1>2. CASE q = <<>>
  <2>1. Append(q, t) = <<t>>
    BY <1>2
  <2> QED
    BY <1>2, <2>1, LineHead DEF Lines, Tasks
<1>3. ASSUME NEW u \in Tasks, u # t, q = <<u>>
      PROVE  /\ Append(q, t) \in Lines /\ Queued(Append(q, t), t)
             /\ \A v \in Tasks : v # t => /\ Queued(Append(q, t), v) <=> Queued(q, v)
                                          /\ Queued(q, v) => Head(Append(q, t)) = v
  <2>1. Append(q, t) = <<u, t>>
    <3>1. q \in Seq(Tasks)
      BY <1>3
    <3> DEFINE w == Append(q, t)
    <3>2. /\ w \in Seq(Tasks) /\ Len(w) = Len(q) + 1
          /\ \A i \in 1..Len(q) : w[i] = q[i]
          /\ w[Len(q) + 1] = t
      BY ONLY <3>1, t \in Tasks, AppendProperties
    <3> HIDE DEF w
    <3>3. Len(w) = 2 /\ w[1] = u /\ w[2] = t
      BY <1>3, <3>2
    <3>4. w = [i \in 1..2 |-> w[i]]
      <4>1. w \in Seq(Tasks) /\ Len(w) = 2
        BY <3>2, <3>3
      <4> QED
        BY ONLY <4>1
    <3>5. w = <<u, t>>
      BY <3>3, <3>4
    <3> QED
      BY <3>5 DEF w
  <2>2. (t = "main" /\ u = "ipc") \/ (t = "ipc" /\ u = "main")
    BY <1>3 DEF Tasks
  <2>3. Append(q, t) \in Lines /\ \A v : Queued(Append(q, t), v) <=> v \in Tasks
    BY <2>1, <2>2, LineHead DEF Lines
  <2>4. Head(Append(q, t)) = u
    BY <2>1
  <2>5. \A v \in Tasks : v # t => v = u /\ Queued(q, v)
    BY <1>3, <2>2, LineHead DEF Tasks
  <2> QED
    BY <2>3, <2>4, <2>5
<1> QED
  BY <1>1, <1>2, <1>3

-----------------------------------------------------------------------------
(* Calls *)

\* The steps that take the place of main between its calls; the shutdown does not.
MainMoves ==
    /\ main' = [pc |-> main'.pc, todo |-> main'.todo, acct |-> main'.acct, tries |-> main'.tries,
                regs |-> main'.regs, rebound |-> main'.rebound]
    /\ main.pc \notin ShutdownPcs /\ main'.pc \notin ShutdownPcs

\* What the shutdown is about does not change under a step of a call.
LEMMA ShutdownStays ==
  ASSUME Inv, main' = main,
         main.pc \in ShutdownPcs =>
           /\ call'["main"] = call["main"]
           /\ \A a \in AccountIds : Connects("ipc", a)' => Connects("ipc", a)
           /\ \A a \in AccountIds : brokers'[a] = "up" => brokers[a] = "up" \/ Connects("ipc", a)
           /\ \A a \in AccountIds : Queued(lockq'[a], "ipc") => Queued(lockq[a], "ipc")
           /\ \A a \in AccountIds : Queued(lockq'[a], "ipc") => lockq'[a] = lockq[a]
  PROVE  ShutdownOK'
BY DEF Inv, ShutdownOK, ShutdownPcs, TypeOK

LEMMA EndsInv ==
  ASSUME Inv, NEW t \in Tasks, call[t].pc \in {"lock", "wait", "issue"}, NEW r \in Ending, Ends(t, r),
         main' = main, fresh' \in BOOLEAN, cooldown' \in BOOLEAN,
         \A u \in Tasks : u # t /\ call[u].pc = "issue" => ~fresh' /\ ~cooldown'
  PROVE  Inv'
<1> DEFINE a == call[t].acct
<1>1. a \in AccountIds
  BY DEF Inv, TypeOK
<1>2. /\ call' = [call EXCEPT ![t].pc = r]
      /\ lockq' = [lockq EXCEPT ![a] = Without(lockq[a], t)]
      /\ tokenq' = Without(tokenq, t)
      /\ brokers' = [brokers EXCEPT ![a] = IF r = "ok" /\ ~call[t].api /\ brokers[a] = "none" THEN "up" ELSE brokers[a]]
  BY DEF Ends
<1>3. /\ call'[t].pc = r /\ call'[t].acct = a /\ (\A u \in Tasks : u # t => call'[u] = call[u])
      /\ call' \in [Tasks -> Calls]
  BY <1>2 DEF Inv, TypeOK, Calls
<1>4. /\ tokenq' \in Lines /\ ~Queued(tokenq', t)
      /\ \A u \in Tasks : u # t => /\ Queued(tokenq', u) <=> Queued(tokenq, u)
                                   /\ Queued(tokenq, u) => Head(tokenq') = u
  BY <1>2, LineWithout DEF Inv, TypeOK
<1>5. /\ lockq' \in [AccountIds -> Lines]
      /\ ~Queued(lockq'[a], t) /\ (\A u \in Tasks : u # t => (Queued(lockq'[a], u) <=> Queued(lockq[a], u)))
      /\ \A b \in AccountIds : b # a => lockq'[b] = lockq[b]
  <2>1. lockq[a] \in Lines
    BY <1>1 DEF Inv, TypeOK
  <2>2. /\ Without(lockq[a], t) \in Lines /\ ~Queued(Without(lockq[a], t), t)
        /\ \A u \in Tasks : u # t => (Queued(Without(lockq[a], t), u) <=> Queued(lockq[a], u))
    BY <2>1, LineWithout
  <2> QED
    BY <1>1, <1>2, <2>2 DEF Inv, TypeOK
<1> HIDE DEF a
<1>6. TypeOK'
  <2>1. brokers' \in [AccountIds -> {"none", "up", "closed"}]
    BY <1>1, <1>2 DEF Inv, TypeOK
  <2>2. \A u \in Tasks : call'[u].pc # "none" => call'[u].acct \in AccountIds
    BY <1>1, <1>3 DEF Inv, TypeOK
  <2> QED
    BY <1>3, <1>4, <1>5, <2>1, <2>2 DEF Inv, TypeOK
<1>7. TokenOK'
  BY <1>3, <1>4 DEF Inv, TokenOK, Ending
<1>8. \A u \in Tasks : \A b : Connects(u, b)' <=> Connects(u, b) /\ u # t
  BY <1>3 DEF Connects, Ending
<1>9. \A b : Connects(t, b) => b = a
  BY DEF Connects, a
<1>10. LocksOK'
  <2> SUFFICES ASSUME NEW b \in AccountIds
               PROVE  /\ Queued(lockq'[b], "ipc") <=> Connects("ipc", b)'
                      /\ Queued(lockq'[b], "main") <=> Connects("main", b)' \/ (main'.pc = "disconnect" /\ main'.acct = b)
    BY DEF LocksOK
  <2>1. t = "main" => main.pc \notin ShutdownPcs
    BY DEF Inv, ShutdownOK, NoCall
  <2>2. \A u \in Tasks : Queued(lockq'[b], u) <=> Queued(lockq[b], u) /\ (u # t \/ b # a)
    BY <1>5
  <2> QED
    BY <1>8, <1>9, <2>1, <2>2 DEF Inv, LocksOK, Tasks, ShutdownPcs
<1>11. ShutdownOK'
  <2> SUFFICES ASSUME main.pc \in ShutdownPcs
               PROVE  /\ call'["main"] = call["main"]
                      /\ \A b \in AccountIds : Connects("ipc", b)' => Connects("ipc", b)
                      /\ \A b \in AccountIds : brokers'[b] = "up" => brokers[b] = "up" \/ Connects("ipc", b)
                      /\ \A b \in AccountIds : Queued(lockq'[b], "ipc") => Queued(lockq[b], "ipc")
                      /\ \A b \in AccountIds : Queued(lockq'[b], "ipc") => lockq'[b] = lockq[b]
    BY ShutdownStays
  <2>1. t = "ipc" /\ call'["main"] = call["main"]
    BY <1>3 DEF Inv, ShutdownOK, NoCall, Tasks
  <2>2. \A b \in AccountIds : brokers'[b] = "up" => brokers[b] = "up" \/ Connects("ipc", b)
    BY <1>1, <1>2, <2>1 DEF Inv, TypeOK, Connects, a
  <2>3. \A b \in AccountIds : Queued(lockq'[b], "ipc") => lockq'[b] = lockq[b]
    BY <1>5, <2>1
  <2> QED
    BY <1>8, <2>1, <2>2, <2>3 DEF Tasks
<1> QED
  BY <1>6, <1>7, <1>10, <1>11 DEF Inv

\* A task asks for the broker of an account.
LEMMA GetBrokerInv ==
  ASSUME Inv, NEW t \in Tasks, NEW a \in AccountIds, GetBroker(t, a),
         \/ MainMoves
         \/ t = "ipc" /\ main' = main /\ main.pc \notin {"disconnect", "closed"}
  PROVE  Inv'
<1> DEFINE c == [pc |-> IF brokers[a] # "none" THEN "ok" ELSE "lock", acct |-> a, api |-> FALSE]
<1>1. /\ call[t].pc = "none" /\ call' = [call EXCEPT ![t] = c] /\ UNCHANGED <<fresh, cooldown, tokenq, brokers>>
      /\ lockq' = IF brokers[a] # "none" THEN lockq ELSE [lockq EXCEPT ![a] = Append(lockq[a], t)]
  BY DEF GetBroker, tokenVars
<1>2. /\ call'[t] = c /\ (\A u \in Tasks : u # t => call'[u] = call[u])
      /\ call' \in [Tasks -> Calls]
  BY <1>1 DEF Inv, TypeOK, Calls, Ending
<1>3. /\ main' = [pc |-> main'.pc, todo |-> main'.todo, acct |-> main'.acct, tries |-> main'.tries,
                  regs |-> main'.regs, rebound |-> main'.rebound]
      /\ main.pc \notin {"disconnect", "closed"} /\ main'.pc \notin {"disconnect", "closed"}
      /\ main'.pc = "stopping" => main' = main /\ t = "ipc"
  BY DEF MainMoves, Inv, TypeOK, ShutdownPcs
<1>4. ~Queued(lockq[a], t)
  BY <1>1, <1>3 DEF Inv, LocksOK, Connects, Tasks
<1>5. /\ lockq' \in [AccountIds -> Lines]
      /\ \A u \in Tasks : Queued(lockq'[a], u) <=> Queued(lockq[a], u) \/ (u = t /\ brokers[a] = "none")
      /\ \A b \in AccountIds : b # a => lockq'[b] = lockq[b]
  <2>1. lockq[a] \in Lines
    BY DEF Inv, TypeOK
  <2>2. /\ Append(lockq[a], t) \in Lines /\ Queued(Append(lockq[a], t), t)
        /\ \A u \in Tasks : u # t => (Queued(Append(lockq[a], t), u) <=> Queued(lockq[a], u))
    BY <1>4, <2>1, LineAppend
  <2> QED
    BY <1>1, <1>4, <2>2 DEF Inv, TypeOK
<1>6. TypeOK'
  BY <1>1, <1>2, <1>3, <1>5 DEF Inv, TypeOK
<1>7. TokenOK'
  BY <1>1, <1>2 DEF Inv, TokenOK
<1>8. \A u \in Tasks : \A b \in AccountIds :
        Connects(u, b)' <=> Connects(u, b) \/ (u = t /\ b = a /\ brokers[a] = "none")
  BY <1>1, <1>2 DEF Connects
<1>9. LocksOK'
  BY <1>3, <1>5, <1>8 DEF Inv, LocksOK, Tasks
<1>10. ShutdownOK'
  BY <1>2, <1>3 DEF Inv, ShutdownOK, ShutdownPcs, Tasks
<1> QED
  BY <1>6, <1>7, <1>9, <1>10 DEF Inv

\* A task asks for the lock of the app key.
LEMMA WaitInv ==
  ASSUME Inv, NEW t \in Tasks, call[t].pc \in {"lock", "ok"}, call' \in [Tasks -> Calls],
         call'[t].pc = "wait", call'[t].acct = call[t].acct,
         call'[t].api <=> call[t].api \/ call[t].pc = "ok",
         \A u \in Tasks : u # t => call'[u] = call[u],
         tokenq' = Append(tokenq, t), UNCHANGED <<fresh, cooldown, lockq, brokers, main>>
  PROVE  Inv'
<1>1. call[t].acct \in AccountIds /\ ~Queued(tokenq, t)
  BY DEF Inv, TypeOK, TokenOK
<1>3. /\ tokenq' \in Lines /\ Queued(tokenq', t)
      /\ \A u \in Tasks : u # t => /\ Queued(tokenq', u) <=> Queued(tokenq, u)
                                   /\ Queued(tokenq, u) => Head(tokenq') = u
  BY <1>1, LineAppend DEF Inv, TypeOK
<1>4. TypeOK'
  BY <1>1, <1>3 DEF Inv, TypeOK
<1>5. TokenOK'
  BY <1>3 DEF Inv, TokenOK
<1>6. \A u \in Tasks : \A b : Connects(u, b)' <=> Connects(u, b)
  BY DEF Connects
<1>7. LocksOK'
  BY <1>6 DEF Inv, LocksOK, Tasks
<1>8. ShutdownOK'
  <2>1. main.pc \in ShutdownPcs => t # "main"
    BY DEF Inv, ShutdownOK, NoCall
  <2> QED
    BY <1>6, <2>1, ShutdownStays DEF Tasks
<1> QED
  BY <1>4, <1>5, <1>7, <1>8 DEF Inv

\* A task takes the end of its call.
LEMMA TakenInv ==
  ASSUME Inv, NEW t \in Tasks, call[t].pc \in Ending, call' \in [Tasks -> Calls],
         call'[t].pc \in {"none", "limit"}, call'[t].pc # "none" => call'[t].acct = call[t].acct,
         \A u \in Tasks : u # t => call'[u] = call[u],
         UNCHANGED <<fresh, cooldown, tokenq, lockq, brokers>>,
         MainMoves \/ (t = "ipc" /\ main' = main)
  PROVE  Inv'
<1>1. call[t].acct \in AccountIds
  BY DEF Inv, TypeOK, Ending
<1>3. TypeOK'
  BY <1>1 DEF Inv, TypeOK, MainMoves
<1>4. TokenOK'
  BY DEF Inv, TokenOK, Ending
<1>5. \A u \in Tasks : \A b : Connects(u, b)' <=> Connects(u, b)
  BY DEF Connects, Ending
<1>6. LocksOK'
  BY <1>5 DEF Inv, LocksOK, Tasks, MainMoves, ShutdownPcs
<1>7. ShutdownOK'
  <2>1. CASE MainMoves
    BY <2>1 DEF MainMoves, ShutdownOK, ShutdownPcs
  <2>2. CASE t = "ipc" /\ main' = main
    BY <1>5, <2>2, ShutdownStays DEF Tasks
  <2> QED
    BY <2>1, <2>2
<1> QED
  BY <1>3, <1>4, <1>6, <1>7 DEF Inv

\* A task forgets its call.
LEMMA NoCallInv ==
  ASSUME Inv, NEW t \in Tasks, call[t].pc \in Ending, call' = [call EXCEPT ![t] = NoCall],
         UNCHANGED <<fresh, cooldown, tokenq, lockq, brokers>>,
         MainMoves \/ (t = "ipc" /\ main' = main)
  PROVE  Inv'
<1>1. NoCall \in Calls /\ NoCall.pc = "none"
  BY DEF NoCall, Nobody, Calls
<1>2. call' \in [Tasks -> Calls] /\ call'[t].pc = "none" /\ \A u \in Tasks : u # t => call'[u] = call[u]
  BY <1>1 DEF Inv, TypeOK
<1> QED
  BY <1>2, TakenInv

\* A step of main that calls nothing.
LEMMA MainInv ==
  ASSUME Inv, UNCHANGED callVars, MainMoves
  PROVE  Inv'
<1>1. UNCHANGED <<fresh, cooldown, tokenq, lockq, brokers, call>>
  BY DEF callVars, tokenVars
<1>2. TypeOK' /\ TokenOK'
  BY <1>1 DEF Inv, TypeOK, TokenOK, MainMoves
<1>3. LocksOK'
  BY <1>1 DEF Inv, LocksOK, Connects, MainMoves, ShutdownPcs
<1>4. ShutdownOK'
  BY DEF MainMoves, ShutdownOK, ShutdownPcs
<1> QED
  BY <1>2, <1>3, <1>4 DEF Inv

\* The steps of a call.
LEMMA CallInv ==
  ASSUME Inv, NEW t \in Tasks, CallStep(t)
  PROVE  Inv'
<1>0. fresh \in BOOLEAN /\ cooldown \in BOOLEAN /\ \A u \in Tasks : call[u].pc = "issue" => ~fresh /\ ~cooldown /\ Head(tokenq) = u
  BY DEF Inv, TypeOK, TokenOK
<1>1. ASSUME NEW r \in Ending, Ends(t, r), call[t].pc \in {"lock", "wait", "issue"},
             UNCHANGED <<fresh, cooldown, main>>
      PROVE  Inv'
  BY <1>0, <1>1, EndsInv
<1>2. CASE AccountLocked(t)
  <2>1. call[t].pc = "lock" /\ UNCHANGED <<fresh, cooldown, main>>
    BY <1>2 DEF AccountLocked
  <2>2. CASE Ends(t, "ok") \/ Ends(t, "limit")
    BY <1>1, <2>1, <2>2 DEF Ending
  <2>3. CASE call' = [call EXCEPT ![t].pc = "wait"] /\ tokenq' = Append(tokenq, t) /\ UNCHANGED <<lockq, brokers>>
    <3>1. /\ call'[t].pc = "wait" /\ call'[t].acct = call[t].acct /\ (call'[t].api <=> call[t].api)
          /\ call' \in [Tasks -> Calls] /\ \A u \in Tasks : u # t => call'[u] = call[u]
      BY <2>3 DEF Inv, TypeOK, Calls
    <3> QED
      BY <2>1, <2>3, <3>1, WaitInv
  <2> QED
    BY <1>2, <2>2, <2>3 DEF AccountLocked, Authenticate
<1>3. CASE TokenLocked(t)
  <2>1. call[t].pc = "wait" /\ Head(tokenq) = t /\ UNCHANGED <<fresh, cooldown, main>>
    BY <1>3 DEF TokenLocked
  <2>2. CASE Ends(t, "ok") \/ Ends(t, "limit")
    BY <1>1, <2>1, <2>2 DEF Ending
  <2>3. CASE ~fresh /\ ~cooldown /\ call' = [call EXCEPT ![t].pc = "issue"] /\ UNCHANGED <<tokenq, lockq, brokers>>
    <3>1. /\ call'[t].pc = "issue" /\ call'[t].acct = call[t].acct /\ call'[t].api = call[t].api
          /\ (\A u \in Tasks : u # t => call'[u] = call[u])
          /\ call' \in [Tasks -> Calls]
      BY <2>3 DEF Inv, TypeOK, Calls
    <3>2. TypeOK'
      BY <2>1, <2>3, <3>1 DEF Inv, TypeOK
    <3>3. TokenOK'
      BY <2>1, <2>3, <3>1 DEF Inv, TokenOK
    <3>4. \A u \in Tasks : \A b : Connects(u, b)' <=> Connects(u, b)
      BY <2>1, <3>1 DEF Connects
    <3>5. LocksOK'
      BY <2>1, <2>3, <3>4 DEF Inv, LocksOK, Tasks
    <3>6. ShutdownOK'
      <4>1. main.pc \in ShutdownPcs => t # "main"
        BY <2>1 DEF Inv, ShutdownOK, NoCall
      <4> QED
        BY <2>1, <2>3, <3>1, <3>4, <4>1, ShutdownStays DEF Tasks
    <3> QED
      BY <3>2, <3>3, <3>5, <3>6 DEF Inv
  <2> QED
    BY <1>3, <2>2, <2>3 DEF TokenLocked
<1>4. CASE IssueOk(t) \/ IssueLimited(t)
  <2>1. /\ call[t].pc = "issue" /\ main' = main /\ fresh' \in BOOLEAN /\ cooldown' \in BOOLEAN
        /\ \E r \in Ending : Ends(t, r)
    BY <1>0, <1>4 DEF IssueOk, IssueLimited, Ending
  <2>2. \A u \in Tasks : u # t => call[u].pc # "issue"
    BY <1>0, <2>1
  <2> QED
    BY <2>1, <2>2, EndsInv
<1>5. CASE IssueFails(t)
  BY <1>1, <1>5 DEF IssueFails, Ending
<1> QED
  BY <1>2, <1>3, <1>4, <1>5 DEF CallStep

\* The steps of a client.
LEMMA IpcInv ==
  ASSUME Inv, IpcRequest \/ IpcEnds \/ \E a \in AccountIds : IpcCall(a)
  PROVE  Inv'
<1>0. "ipc" \in Tasks
  BY DEF Tasks
<1>1. ASSUME NEW a \in AccountIds, IpcCall(a)
      PROVE  Inv'
  <2>1. GetBroker("ipc", a) /\ main' = main /\ main.pc \notin {"disconnect", "closed"}
    BY <1>1 DEF IpcCall, Serving
  <2> QED
    BY <1>0, <2>1, GetBrokerInv
<1>2. CASE IpcRequest
  <2> DEFINE c == call["ipc"]
  <2>1. c.pc = "ok" /\ ~c.api /\ UNCHANGED <<fresh, cooldown, lockq, brokers, main>>
    BY <1>2 DEF IpcRequest
  <2>2. CASE call' = [call EXCEPT !["ipc"] = NoCall] /\ tokenq' = tokenq
    <3>1. call["ipc"].pc \in Ending /\ UNCHANGED <<fresh, cooldown, tokenq, lockq, brokers>>
      BY <2>1, <2>2 DEF Ending
    <3> QED
      BY <1>0, <2>1, <2>2, <3>1, NoCallInv
  <2>3. CASE call' = [call EXCEPT !["ipc"] = [c EXCEPT !.pc = "limit", !.api = TRUE]] /\ tokenq' = tokenq
    <3>1. call["ipc"].pc \in Ending /\ UNCHANGED <<fresh, cooldown, tokenq, lockq, brokers>>
      BY <2>1, <2>3 DEF Ending
    <3>2. /\ call'["ipc"].pc = "limit" /\ call'["ipc"].acct = c.acct
          /\ call' \in [Tasks -> Calls] /\ \A u \in Tasks : u # "ipc" => call'[u] = call[u]
      BY <1>0, <2>3 DEF Inv, TypeOK, Calls, Ending
    <3> QED
      BY <1>0, <2>1, <3>1, <3>2, TakenInv
  <2>4. CASE call' = [call EXCEPT !["ipc"] = [c EXCEPT !.pc = "wait", !.api = TRUE]] /\ tokenq' = Append(tokenq, "ipc")
    <3>1. /\ call'["ipc"].pc = "wait" /\ call'["ipc"].acct = c.acct /\ call'["ipc"].api
          /\ call' \in [Tasks -> Calls] /\ \A u \in Tasks : u # "ipc" => call'[u] = call[u]
      BY <1>0, <2>4 DEF Inv, TypeOK, Calls
    <3> QED
      BY <1>0, <2>1, <2>4, <3>1, WaitInv
  <2> QED
    BY <1>2, <2>2, <2>3, <2>4 DEF IpcRequest
<1>3. CASE IpcEnds
  <2>1. /\ call["ipc"].pc \in Ending /\ call' = [call EXCEPT !["ipc"] = NoCall]
        /\ UNCHANGED <<fresh, cooldown, tokenq, lockq, brokers, main>>
    BY <1>3 DEF IpcEnds, Ending, tokenVars
  <2> QED
    BY <1>0, <2>1, NoCallInv
<1> QED
  BY <1>1, <1>2, <1>3

\* The start-up.
LEMMA BootInv ==
  ASSUME Inv, BootStep
  PROVE  Inv'
<1>0. "main" \in Tasks /\ Live \subseteq AccountIds
  BY DEF Tasks, Live
<1>1. ASSUME NEW x, main' = [main EXCEPT !.acct = x], main.pc \notin ShutdownPcs
      PROVE  MainMoves
  BY <1>1 DEF MainMoves, Inv, TypeOK
<1>2. ASSUME NEW a \in Live, BootConnect(a)
      PROVE  Inv'
  <2>1. GetBroker("main", a) /\ MainMoves
    BY <1>1, <1>2 DEF BootConnect, ShutdownPcs
  <2> QED
    BY <1>0, <2>1, GetBrokerInv
<1>3. CASE BootConnected \/ BootFails \/ BootRetry
  <2>1. /\ call["main"].pc \in Ending /\ call' = [call EXCEPT !["main"] = NoCall]
        /\ UNCHANGED <<fresh, cooldown, tokenq, lockq, brokers>>
    BY <1>3 DEF BootConnected, BootFails, BootRetry, BootNext, tokenVars, Ending
  <2>2. MainMoves
    BY <1>3 DEF BootConnected, BootFails, BootRetry, BootNext, MainMoves, Inv, TypeOK, ShutdownPcs
  <2> QED
    BY <1>0, <2>1, <2>2, NoCallInv
<1>4. CASE BootRegister \/ BootRegistered \/ BootEnds
  <2>1. UNCHANGED callVars
    BY <1>4 DEF BootRegister, BootRegistered, BootEnds
  <2>2. MainMoves
    <3>1. main = [pc |-> main.pc, todo |-> main.todo, acct |-> main.acct, tries |-> main.tries,
                  regs |-> main.regs, rebound |-> main.rebound]
      BY DEF Inv, TypeOK
    <3>2. CASE BootRegister
      <4>1. PICK todo : main' = [main EXCEPT !.pc = "register", !.todo = todo]
        BY <3>2, Zenon DEF BootRegister
      <4>2. main.pc = "connect"
        BY <3>2 DEF BootRegister
      <4> QED
        BY <3>1, <4>1, <4>2 DEF MainMoves, ShutdownPcs
    <3>3. CASE BootRegistered
      <4>1. PICK r \in main.todo : main' = [main EXCEPT !.todo = main.todo \ {r}]
        BY <3>3 DEF BootRegistered
      <4>2. main.pc = "register"
        BY <3>3 DEF BootRegistered
      <4> QED
        BY <3>1, <4>1, <4>2 DEF MainMoves, ShutdownPcs
    <3>4. CASE BootEnds
      BY <3>1, <3>4 DEF BootEnds, MainMoves, ShutdownPcs
    <3> QED
      BY <1>4, <3>2, <3>3, <3>4
  <2> QED
    BY <2>1, <2>2, MainInv
<1> QED
  BY <1>2, <1>3, <1>4 DEF BootStep

\* The self-healing loop.
LEMMA HealInv ==
  ASSUME Inv, HealStep
  PROVE  Inv'
<1>0. "main" \in Tasks /\ Live \subseteq AccountIds
  BY DEF Tasks, Live
<1>1. main = [pc |-> main.pc, todo |-> main.todo, acct |-> main.acct, tries |-> main.tries,
              regs |-> main.regs, rebound |-> main.rebound]
  BY DEF Inv, TypeOK
<1>2. ASSUME main.pc \notin ShutdownPcs, LeaveAccount \/ NextAttempt
      PROVE  MainMoves
  BY <1>1, <1>2 DEF LeaveAccount, NextAttempt, MainMoves, ShutdownPcs
<1>3. CASE BurstStarts \/ BurstNext
  <2>1. UNCHANGED callVars
    BY <1>3 DEF BurstStarts, BurstNext
  <2>2. MainMoves
    BY <1>1, <1>3 DEF BurstStarts, BurstNext, MainMoves, ShutdownPcs
  <2> QED
    BY <2>1, <2>2, MainInv
<1>4. CASE Attempt
  <2>1. MainMoves
    BY <1>1, <1>4 DEF Attempt, MainMoves, ShutdownPcs
  <2>2. (main.acct \in Live /\ GetBroker("main", main.acct)) \/ UNCHANGED callVars
    BY <1>4 DEF Attempt
  <2> QED
    BY <1>0, <2>1, <2>2, GetBrokerInv, MainInv
<1>5. CASE AttemptConnected \/ AttemptFails
  <2>1. /\ call["main"].pc \in Ending /\ call' = [call EXCEPT !["main"] = NoCall]
        /\ UNCHANGED <<fresh, cooldown, tokenq, lockq, brokers>> /\ main.pc = "connecting"
    BY <1>5 DEF AttemptConnected, AttemptFails, tokenVars, Ending
  <2>2. MainMoves
    <3>1. CASE AttemptConnected
      BY <1>1, <3>1 DEF AttemptConnected, MainMoves, ShutdownPcs
    <3>2. CASE AttemptFails
      BY <1>2, <2>1, <3>2 DEF AttemptFails, ShutdownPcs
    <3> QED
      BY <1>5, <3>1, <3>2
  <2> QED
    BY <1>0, <2>1, <2>2, NoCallInv
<1>6. CASE Registered(TRUE) \/ Registered(FALSE)
  <2>1. UNCHANGED callVars /\ main.pc = "rebind" /\ main' = [main EXCEPT !.regs = Tail(main.regs)]
    BY <1>6 DEF Registered
  <2>2. MainMoves
    BY <1>1, <2>1 DEF MainMoves, ShutdownPcs
  <2> QED
    BY <2>1, <2>2, MainInv
<1>7. CASE RebindRaises \/ RebindEnds
  <2>1. UNCHANGED callVars /\ main.pc = "rebind" /\ (LeaveAccount \/ NextAttempt)
    BY <1>7 DEF RebindRaises, RebindEnds
  <2>2. MainMoves
    BY <1>2, <2>1 DEF ShutdownPcs
  <2> QED
    BY <2>1, <2>2, MainInv
<1> QED
  BY <1>3, <1>4, <1>5, <1>6, <1>7 DEF HealStep

\* The loop is cancelled.
LEMMA CancelInv ==
  ASSUME Inv, CancelHealing
  PROVE  Inv'
<1>0. "main" \in Tasks /\ "ipc" \in Tasks /\ "ipc" # "main"
  BY DEF Tasks
<1>1. /\ main' = [main EXCEPT !.pc = "stopping", !.todo = {}, !.acct = Nobody, !.tries = 0,
                              !.regs = <<>>, !.rebound = FALSE]
      /\ call' = [call EXCEPT !["main"] = NoCall]
      /\ lockq' = [a \in AccountIds |-> Without(lockq[a], "main")]
      /\ tokenq' = Without(tokenq, "main")
      /\ UNCHANGED <<fresh, cooldown, brokers>> /\ main.pc \notin ShutdownPcs
  BY DEF CancelHealing, ShutdownPcs
<1>2. call'["main"] = NoCall /\ call'["ipc"] = call["ipc"] /\ NoCall.pc = "none" /\ call' \in [Tasks -> Calls]
  <2>1. NoCall \in Calls /\ NoCall.pc = "none"
    BY DEF NoCall, Nobody, Calls
  <2> QED
    BY <1>0, <1>1, <2>1 DEF Inv, TypeOK
<1>3. /\ tokenq' \in Lines /\ ~Queued(tokenq', "main") /\ (Queued(tokenq', "ipc") <=> Queued(tokenq, "ipc"))
      /\ Queued(tokenq, "ipc") => Head(tokenq') = "ipc"
  BY <1>0, <1>1, LineWithout DEF Inv, TypeOK
<1>4. \A a \in AccountIds : /\ lockq'[a] \in Lines /\ ~Queued(lockq'[a], "main")
                            /\ Queued(lockq'[a], "ipc") <=> Queued(lockq[a], "ipc")
  BY <1>0, <1>1, LineWithout DEF Inv, TypeOK
<1>5. /\ main' = [pc |-> main'.pc, todo |-> main'.todo, acct |-> main'.acct, tries |-> main'.tries,
                  regs |-> main'.regs, rebound |-> main'.rebound]
      /\ main'.pc = "stopping" /\ main'.acct = Nobody
  BY <1>1 DEF Inv, TypeOK
<1>6. TypeOK'
  <2>1. lockq' \in [AccountIds -> Lines]
    BY <1>1, <1>4
  <2> QED
    BY <1>1, <1>2, <1>3, <1>5, <2>1 DEF Inv, TypeOK, Tasks
<1>7. TokenOK'
  BY <1>1, <1>2, <1>3 DEF Inv, TokenOK, Tasks
<1>8. \A a \in AccountIds : ~Connects("main", a)' /\ (Connects("ipc", a)' <=> Connects("ipc", a))
  BY <1>2 DEF Connects
<1>9. LocksOK'
  BY <1>4, <1>5, <1>8 DEF Inv, LocksOK
<1>10. ShutdownOK'
  BY <1>2, <1>5 DEF ShutdownOK
<1> QED
  BY <1>6, <1>7, <1>9, <1>10 DEF Inv

\* The disconnection of the brokers.
LEMMA ShutdownInv ==
  ASSUME Inv, ShutdownStep
  PROVE  Inv'
<1>0. "main" \in Tasks /\ "ipc" \in Tasks /\ "ipc" # "main" /\ Nobody \notin AccountIds
  BY AccountsAssumption DEF Tasks, Nobody
<1>1. main = [pc |-> main.pc, todo |-> main.todo, acct |-> main.acct, tries |-> main.tries,
              regs |-> main.regs, rebound |-> main.rebound]
  BY DEF Inv, TypeOK
<1>2. ASSUME UNCHANGED <<tokenq, fresh, cooldown, call>>
      PROVE  TokenOK' /\ \A t : \A a : Connects(t, a)' <=> Connects(t, a)
  BY <1>2 DEF Inv, TokenOK, Connects
<1>3. CASE StopDispatching
  <2>1. /\ main.pc = "stopping" /\ main' = [main EXCEPT !.pc = "disconnect", !.todo = AccountIds]
        /\ UNCHANGED <<fresh, cooldown, tokenq, lockq, brokers, call>>
    BY <1>3 DEF StopDispatching, callVars, tokenVars
  <2>2. main'.pc = "disconnect" /\ main'.todo = AccountIds /\ main'.acct = main.acct /\ main.acct = Nobody
    BY <1>1, <2>1 DEF Inv, ShutdownOK
  <2>3. TypeOK'
    BY <1>1, <2>1 DEF Inv, TypeOK
  <2>4. LocksOK'
    BY <1>0, <1>2, <2>1, <2>2 DEF Inv, LocksOK
  <2>5. ShutdownOK'
    BY <1>0, <2>1, <2>2 DEF Inv, ShutdownOK, ShutdownPcs
  <2> QED
    BY <1>2, <2>1, <2>3, <2>4, <2>5 DEF Inv
<1>4. ASSUME NEW a \in AccountIds, GetCachedBroker(a)
      PROVE  Inv'
  <2>1. /\ main.pc = "disconnect" /\ main.acct = Nobody /\ a \in main.todo
        /\ main' = [main EXCEPT !.acct = a] /\ lockq' = [lockq EXCEPT ![a] = Append(lockq[a], "main")]
        /\ UNCHANGED <<fresh, cooldown, tokenq, brokers, call>>
    BY <1>4 DEF GetCachedBroker, tokenVars
  <2>2. main'.pc = "disconnect" /\ main'.todo = main.todo /\ main'.acct = a
    BY <1>1, <2>1
  <2>3. \A b \in AccountIds : ~Connects("main", b)
    BY <2>1 DEF Inv, ShutdownOK, ShutdownPcs, Connects, NoCall
  <2>4. ~Queued(lockq[a], "main") /\ lockq[a] \in Lines
    BY <1>0, <2>1, <2>3 DEF Inv, LocksOK, TypeOK
  <2>5. /\ Append(lockq[a], "main") \in Lines /\ Queued(Append(lockq[a], "main"), "main")
        /\ Queued(Append(lockq[a], "main"), "ipc") <=> Queued(lockq[a], "ipc")
        /\ Queued(lockq[a], "ipc") => Head(Append(lockq[a], "main")) = "ipc"
    BY <1>0, <2>4, LineAppend
  <2>6. lockq'[a] = Append(lockq[a], "main") /\ (\A b \in AccountIds : b # a => lockq'[b] = lockq[b])
        /\ lockq' \in [AccountIds -> Lines]
    BY <2>1, <2>5 DEF Inv, TypeOK
  <2>7. TypeOK'
    BY <1>1, <2>1, <2>6 DEF Inv, TypeOK
  <2>8. LocksOK'
    BY <1>0, <1>2, <2>1, <2>2, <2>3, <2>5, <2>6 DEF Inv, LocksOK
  <2>9. ShutdownOK'
    BY <1>2, <2>1, <2>2, <2>5, <2>6 DEF Inv, ShutdownOK, ShutdownPcs
  <2> QED
    BY <1>2, <2>1, <2>7, <2>8, <2>9 DEF Inv
<1>5. CASE Disconnect
  <2> DEFINE a == main.acct
  <2>1. /\ main.pc = "disconnect" /\ a # Nobody /\ Head(lockq[a]) = "main"
        /\ main' = [main EXCEPT !.acct = Nobody, !.todo = main.todo \ {a}]
        /\ lockq' = [lockq EXCEPT ![a] = Tail(lockq[a])]
        /\ brokers' = [brokers EXCEPT ![a] = IF brokers[a] = "up" THEN "closed" ELSE brokers[a]]
        /\ UNCHANGED <<fresh, cooldown, tokenq, call>>
    BY <1>5 DEF Disconnect, tokenVars
  <2>2. main'.pc = "disconnect" /\ main'.todo = main.todo \ {a} /\ main'.acct = Nobody
    BY <1>1, <2>1
  <2>3. a \in main.todo /\ a \in AccountIds /\ main.todo \subseteq AccountIds
    BY <2>1 DEF Inv, ShutdownOK
  <2>4. ~Queued(lockq[a], "ipc") /\ Queued(lockq[a], "main") /\ lockq[a] \in Lines
    BY <1>0, <2>1, <2>3 DEF Inv, ShutdownOK, LocksOK, TypeOK
  <2>5. lockq[a] = <<"main">>
    BY <2>4, LineHead DEF Lines, Tasks
  <2>6. Tail(lockq[a]) = <<>>
    BY <2>5
  <2> HIDE DEF a
  <2>7. lockq'[a] = <<>> /\ (\A b \in AccountIds : b # a => lockq'[b] = lockq[b]) /\ lockq' \in [AccountIds -> Lines]
    BY <2>1, <2>3, <2>6 DEF Inv, TypeOK, Lines
  <2>8. /\ brokers' \in [AccountIds -> {"none", "up", "closed"}]
        /\ brokers'[a] # "up" /\ \A b \in AccountIds : b # a => brokers'[b] = brokers[b]
    BY <2>1, <2>3 DEF Inv, TypeOK
  <2>9. TypeOK'
    BY <1>1, <2>1, <2>7, <2>8 DEF Inv, TypeOK
  <2>10. \A b \in AccountIds : ~Connects("main", b)
    BY <2>1 DEF Inv, ShutdownOK, ShutdownPcs, Connects, NoCall
  <2>11. ~Connects("ipc", a)
    BY <2>3, <2>4 DEF Inv, LocksOK
  <2>12. LocksOK'
    <3>1. ~Queued(<<>>, "ipc") /\ ~Queued(<<>>, "main")
      BY LineHead
    <3>2. ASSUME NEW b \in AccountIds
          PROVE  /\ Queued(lockq'[b], "ipc") <=> Connects("ipc", b)'
                 /\ Queued(lockq'[b], "main") <=> Connects("main", b)' \/ (main'.pc = "disconnect" /\ main'.acct = b)
      <4>1. CASE b = a
        BY <1>0, <1>2, <2>1, <2>2, <2>7, <2>10, <2>11, <3>1, <4>1
      <4>2. CASE b # a
        BY <1>0, <1>2, <2>1, <2>2, <2>7, <2>10, <4>2 DEF Inv, LocksOK, a
      <4> QED
        BY <4>1, <4>2
    <3> QED
      BY <3>2 DEF LocksOK
  <2>13. ShutdownOK'
    BY <1>0, <1>2, <2>1, <2>2, <2>3, <2>8, <2>11 DEF Inv, ShutdownOK, ShutdownPcs
  <2> QED
    BY <1>2, <2>1, <2>9, <2>12, <2>13 DEF Inv
<1>6. CASE CloseDb
  <2>1. /\ main.pc = "disconnect" /\ main.todo = {} /\ main.acct = Nobody /\ main' = [main EXCEPT !.pc = "closed"]
        /\ UNCHANGED <<fresh, cooldown, tokenq, lockq, brokers, call>>
    BY <1>6 DEF CloseDb, callVars, tokenVars
  <2>2. main'.pc = "closed"
    BY <1>1, <2>1
  <2>3. TypeOK'
    BY <1>1, <2>1 DEF Inv, TypeOK
  <2>4. LocksOK'
    BY <1>0, <1>2, <2>1, <2>2 DEF Inv, LocksOK
  <2>5. ShutdownOK'
    BY <1>2, <2>1, <2>2 DEF Inv, ShutdownOK, ShutdownPcs
  <2> QED
    BY <1>2, <2>1, <2>3, <2>4, <2>5 DEF Inv
<1> QED
  BY <1>3, <1>4, <1>5, <1>6 DEF ShutdownStep

-----------------------------------------------------------------------------
(* The theorems *)

LEMMA InitInv == Init => Inv
<1> SUFFICES ASSUME Init
             PROVE  Inv
  OBVIOUS
<1>1. NoCall \in Calls /\ NoCall.pc = "none"
  BY DEF NoCall, Nobody, Calls
<1>2. TypeOK
  BY <1>1 DEF Init, TypeOK, Lines
<1>3. TokenOK
  BY <1>1, LineHead DEF Init, TokenOK
<1>4. LocksOK
  BY <1>1, LineHead DEF Init, LocksOK, Connects, Tasks
<1>5. ShutdownOK
  BY DEF Init, ShutdownOK, ShutdownPcs
<1> QED
  BY <1>2, <1>3, <1>4, <1>5 DEF Inv

LEMMA NextInv == Inv /\ [Next]_vars => Inv'
<1> SUFFICES ASSUME Inv, [Next]_vars
             PROVE  Inv'
  OBVIOUS
<1>1. ASSUME UNCHANGED <<tokenq, lockq, brokers, call, main>>, fresh' \in BOOLEAN, cooldown' \in BOOLEAN,
             fresh' => fresh, cooldown' => cooldown
      PROVE  Inv'
  <2>1. TypeOK' /\ TokenOK'
    BY <1>1 DEF Inv, TypeOK, TokenOK
  <2>2. \A t : \A a : Connects(t, a)' <=> Connects(t, a)
    BY <1>1 DEF Connects
  <2>3. LocksOK' /\ ShutdownOK'
    BY <1>1, <2>2 DEF Inv, LocksOK, ShutdownOK
  <2> QED
    BY <2>1, <2>3 DEF Inv
<1>2. fresh \in BOOLEAN /\ cooldown \in BOOLEAN
  BY DEF Inv, TypeOK
<1>3. CASE TokenExpires
  <2>1. fresh' = FALSE /\ UNCHANGED <<cooldown, tokenq, lockq, brokers, call, main>>
    BY <1>3 DEF TokenExpires
  <2> QED
    BY <1>1, <1>2, <2>1
<1>4. CASE CooldownEnds
  <2>1. cooldown' = FALSE /\ UNCHANGED <<fresh, tokenq, lockq, brokers, call, main>>
    BY <1>4 DEF CooldownEnds
  <2> QED
    BY <1>1, <1>2, <2>1
<1>5. CASE UNCHANGED vars
  <2>1. UNCHANGED <<fresh, cooldown, tokenq, lockq, brokers, call, main>>
    BY <1>5 DEF vars, callVars, tokenVars
  <2> QED
    BY <1>1, <1>2, <2>1
<1> QED
  BY <1>3, <1>4, <1>5, BootInv, HealInv, CancelInv, ShutdownInv, CallInv, IpcInv DEF Next

(* The inductive invariant: who requests a token is the head of the queue of the app key, who
   connects an account is in its queue, and the shutdown is behind the client there. *)
THEOREM AccountsInvariant == Spec => []Inv
BY InitInv, NextInv, PTL DEF Spec

(* One token is requested at a time for an app key, and none while the cache has a fresh one
   or the key is in its cool-down, for any number of accounts and failures (_authenticate). *)
THEOREM TokenOnceAtATime == Spec => []OneTokenAtATime
<1>1. Inv => OneTokenAtATime
  BY DEF Inv, TokenOK, OneTokenAtATime
<1> QED
  BY <1>1, AccountsInvariant, PTL

(* When the database closes no broker is connected and none is connecting, for any number of
   accounts and whatever command was under way (get_cached_broker, _shutdown). *)
THEOREM SessionsClosedFirst == Spec => []NoSessionPastDb
<1>1. Inv => NoSessionPastDb
  <2> SUFFICES ASSUME Inv, main.pc = "closed"
               PROVE  /\ \A a \in AccountIds : brokers[a] # "up"
                      /\ ~\E t \in Tasks : call[t].pc \in {"lock", "wait", "issue"} /\ ~call[t].api
    BY DEF NoSessionPastDb
  <2>1. call["main"].pc = "none"
    BY DEF Inv, ShutdownOK, ShutdownPcs, NoCall
  <2>2. \A a \in AccountIds : brokers[a] # "up" /\ ~Connects("ipc", a)
    BY DEF Inv, ShutdownOK
  <2>3. call["ipc"].pc # "none" => call["ipc"].acct \in AccountIds
    BY DEF Inv, TypeOK, Tasks
  <2> QED
    BY <2>1, <2>2, <2>3 DEF Connects, Tasks
<1> QED
  BY <1>1, AccountsInvariant, PTL

-----------------------------------------------------------------------------
(* Start-up, shutdown and sessions *)

Pcs == {"idle", "validated", "audit", "ack", "stream", "closing", "selfclose"}

Frames == Fills \cup {"closed", "other"}

Session ==
    [pc : Pcs, key : Nat, gen : Nat, reg : BOOLEAN, reason : Reasons, shut : BOOLEAN,
     queue : Seq(Frames), seen : SUBSET Fills, sent : SUBSET Fills,
     inflight : {"none", "publish", "data", "over"}]

\* The fills a session marks are on the wire or in its queue, once.
Marked(h) ==
    LET q == h.queue
        queued == {q[i] : i \in DOMAIN q} \cap Fills
    IN
    h.pc = "stream" /\ ~h.shut =>
        /\ \A i, j \in DOMAIN q : q[i] = q[j] /\ q[i] \in Fills => i = j
        /\ queued \cap h.sent = {}
        /\ queued \cup h.sent = h.seen

\* What is true of a connection by itself: it is registered from the acknowledgement to its
\* end, and has queued, marked and sent nothing before the stream.
SessionOK(h) ==
    /\ h \in Session
    /\ h.reg <=> h.pc \in {"ack", "stream", "closing", "selfclose"}
    /\ Len(h.queue) <= QueueMax
    /\ h.pc \notin {"stream", "closing"} => h.queue = <<>> /\ h.seen = {} /\ h.sent = {}
    /\ Marked(h)

ConnOK == conn \in [Conns -> Session] /\ \A c \in Conns : SessionOK(conn[c])

OneSession == \A c, d \in Conns : conn[c].reg /\ conn[d].reg => c = d

\* Where the files, the server and the database are while main() is in a stage.
StageOK ==
    /\ stage \in Stages
    /\ ipc \in {"stopped", "running", "shutting_down", "draining"}
    /\ stage \in {"off", "marker", "pid", "core"} =>
         ipc = "stopped" /\ \A c \in Conns : conn[c] = NoConn
    /\ stage # "exiting" => (db <=> stage \notin {"off", "marker", "pid", "drain", "unlink"})
    /\ stage \in {"marker", "pid", "core", "ipc"} => marker = "live"
    /\ stage \in (Boot \ {"marker"}) \cup Down => pidFile = "live"
    /\ stage \in {"ipc", "up"} \cup (Down \ {"unlink"}) => socket
    /\ stage = "exiting" => cut

\* From the sweep on nobody registers, what is registered is told to close, and the streams
\* that are left are those the shutdown waits for.
SweptOK ==
    /\ stage \in Down \ {"gate"} =>
         /\ frozen
         /\ \A c \in Conns : conn[c].reg => conn[c].reason # "open"
         /\ \A c \in Conns : Streaming(c) => c \in swept
    /\ stage \in Down \ {"gate", "sweep"} => swept = {}

\* A rotation has its key before it has its generation.
KeyOK ==
    /\ key \in 0..MaxKey /\ gen \in Nat
    /\ gen + (IF cmd = "rotate" THEN 1 ELSE 0) < (IF key = 0 THEN MaxKey ELSE key)

RestOK ==
    /\ pidFile \in Refs /\ marker \in Refs /\ socket \in BOOLEAN
    /\ db \in BOOLEAN /\ cut \in BOOLEAN /\ frozen \in BOOLEAN
    /\ bot \in {"running", "stopping", "stopped", "gone"}
    /\ cmd \in {"none", "rotate", "stop", "delete"}
    /\ swept \subseteq Conns

DaemonInv == ConnOK /\ OneSession /\ StageOK /\ SweptOK /\ KeyOK /\ RestOK
\* What a step that registers nobody makes of a session h.
Follows(h, g) ==
    /\ SessionOK(g)
    /\ g.reg => h.reg
    /\ h.reason # "open" /\ g.reg => g.reason # "open"
    /\ g.pc \in {"stream", "closing"} =>
         h.pc \in {"stream", "closing"} \/ (h.reg /\ h.reason = "open")
    /\ h = NoConn => g = NoConn \/ ipc # "stopped"

-----------------------------------------------------------------------------
(* The operators on sessions *)

LEMMA FollowsSelf ==
    ASSUME NEW h, SessionOK(h)
    PROVE  Follows(h, h)
BY DEF Follows, SessionOK

LEMMA NoConnOK == SessionOK(NoConn)
BY DaemonAssumption DEF SessionOK, NoConn, Session, Pcs, Reasons, Marked, Frames

LEMMA FollowsNoConn ==
    ASSUME NEW h
    PROVE  Follows(h, NoConn)
BY NoConnOK DEF Follows, NoConn

\* The closed frame always has room.
LEMMA ForcedType ==
    ASSUME NEW q \in Seq(Frames), Len(q) <= QueueMax
    PROVE  Forced(q, "closed") \in Seq(Frames) /\ Len(Forced(q, "closed")) <= QueueMax
<1>1. "closed" \in Frames
  BY DEF Frames
<1>2. CASE Len(q) = QueueMax
  <2>1. q # <<>> /\ Tail(q) \in Seq(Frames) /\ Len(Tail(q)) = Len(q) - 1
    BY <1>2, DaemonAssumption, HeadTailProperties, EmptySeq
  <2> QED BY <1>1, <1>2, <2>1, AppendProperties DEF Forced
<1>3. CASE Len(q) # QueueMax
  <2>1. Len(q) \in Nat
    BY LenProperties
  <2> QED BY <1>1, <1>3, <2>1, AppendProperties, DaemonAssumption DEF Forced
<1> QED BY <1>2, <1>3

LEMMA LaggedFollows ==
    ASSUME NEW h, SessionOK(h), h.pc \in {"stream", "closing"}
    PROVE  Follows(h, Lagged(h))
<1> DEFINE g == Lagged(h)
<1>1. h \in Session /\ h.queue \in Seq(Frames) /\ Len(h.queue) <= QueueMax
  BY DEF SessionOK, Session
<1>2. /\ g \in Session
      /\ g.pc = h.pc /\ g.reg = h.reg /\ g.reason = h.reason /\ g.shut
      /\ g.queue = Forced(h.queue, "closed")
  BY <1>1, ForcedType DEF Session, Lagged
<1>3. Len(g.queue) <= QueueMax
  BY <1>1, <1>2, ForcedType
<1>4. SessionOK(g)
  BY <1>2, <1>3 DEF SessionOK, Marked
<1> HIDE DEF g
<1>5. Follows(h, g)
  BY <1>2, <1>4 DEF Follows, NoConn
<1> QED BY <1>5 DEF g

LEMMA ClosedFollows ==
    ASSUME NEW h, SessionOK(h), h.reg, NEW r \in Reasons \ {"open"}
    PROVE  /\ Follows(h, Closed(h, r))
           /\ Closed(h, r).reason # "open"
           /\ Closed(h, r).pc = h.pc /\ Closed(h, r).reg = h.reg
<1> DEFINE g == Closed(h, r)
<1>1. h \in Session /\ h.queue \in Seq(Frames) /\ Len(h.queue) <= QueueMax
  BY DEF SessionOK, Session
<1>2. CASE h.reason # "open"
  BY <1>2, FollowsSelf DEF Closed
<1>3. CASE h.reason = "open" /\ h.pc \in {"stream", "closing"}
  <2>1. /\ g \in Session
        /\ g.pc = h.pc /\ g.reg = h.reg /\ g.reason = r /\ g.shut
        /\ g.queue = Forced(h.queue, "closed")
    BY <1>1, <1>3, ForcedType DEF Session, Closed
  <2>2. Len(g.queue) <= QueueMax
    BY <1>1, <2>1, ForcedType
  <2>3. SessionOK(g)
    BY <2>1, <2>2, <1>3 DEF SessionOK, Marked
  <2> HIDE DEF g
  <2>4. Follows(h, g)
    BY <1>3, <2>1, <2>3 DEF Follows, NoConn
  <2> QED BY <2>1, <2>4 DEF g
<1>4. CASE h.reason = "open" /\ h.pc \notin {"stream", "closing"}
  <2>1. /\ g \in Session
        /\ g.pc = h.pc /\ g.reg = h.reg /\ g.reason = r
        /\ g.queue = h.queue /\ g.seen = h.seen /\ g.sent = h.sent
    BY <1>1, <1>4 DEF Session, Closed
  <2>3. SessionOK(g)
    BY <2>1, <1>4 DEF SessionOK, Marked
  <2> HIDE DEF g
  <2>4. Follows(h, g)
    BY <1>4, <2>1, <2>3 DEF Follows, NoConn
  <2> QED BY <2>1, <2>4 DEF g
<1> QED BY <1>2, <1>3, <1>4
\* A frame that is no fill leaves the marks as they are.
LEMMA OtherMarked ==
    ASSUME NEW h, SessionOK(h), Len(h.queue) < QueueMax,
           NEW g, g = [h EXCEPT !.queue = Append(@, "other")],
           h.pc \in {"stream", "closing"}
    PROVE  SessionOK(g)
<1> DEFINE q == h.queue
           p == Append(q, "other")
<1>1. h \in Session /\ q \in Seq(Frames) /\ Len(q) \in Nat
  BY LenProperties DEF SessionOK, Session
<1>2. "other" \in Frames /\ "other" \notin Fills
  BY DaemonAssumption DEF Frames
<1>3. /\ p \in Seq(Frames) /\ Len(p) = Len(q) + 1
      /\ DOMAIN p = 1..(Len(q) + 1) /\ DOMAIN q = 1..Len(q)
      /\ \A i \in 1..Len(q) : p[i] = q[i]
      /\ p[Len(q) + 1] = "other"
  BY <1>1, <1>2, AppendProperties, LenProperties
<1>4. /\ g \in Session /\ g.queue = p /\ g.pc = h.pc /\ g.reg = h.reg /\ g.shut = h.shut
      /\ g.seen = h.seen /\ g.sent = h.sent
  BY <1>1, <1>3 DEF Session
<1> HIDE DEF p, q
<1>5. {p[i] : i \in DOMAIN p} \cap Fills = {q[i] : i \in DOMAIN q} \cap Fills
  BY <1>1, <1>2, <1>3
<1>6. ASSUME h.pc = "stream", ~h.shut
      PROVE  \A i, j \in DOMAIN p : p[i] = p[j] /\ p[i] \in Fills => i = j
  BY <1>1, <1>2, <1>3, <1>6 DEF SessionOK, Marked, q
<1>7. Marked(g)
  BY <1>4, <1>5, <1>6 DEF SessionOK, Marked, q
<1> QED BY <1>1, <1>3, <1>4, <1>7, DaemonAssumption DEF SessionOK, q

LEMMA EmittedFollows ==
    ASSUME NEW h, SessionOK(h), h.pc \in {"stream", "closing"}
    PROVE  Follows(h, Emitted(h))
<1>1. CASE Len(h.queue) < QueueMax
  <2> DEFINE g == [h EXCEPT !.queue = Append(@, "other")]
  <2>1. SessionOK(g)
    BY <1>1, OtherMarked
  <2>2. g.pc = h.pc /\ g.reg = h.reg /\ g.reason = h.reason /\ Emitted(h) = g
    BY <1>1 DEF Emitted, SessionOK, Session
  <2> HIDE DEF g
  <2>3. Follows(h, g)
    BY <2>1, <2>2 DEF Follows, NoConn
  <2> QED BY <2>2, <2>3
<1>2. CASE ~(Len(h.queue) < QueueMax)
  BY <1>2, LaggedFollows, FollowsSelf DEF Emitted
<1> QED BY <1>1, <1>2

\* A fill the queue takes is marked, and was neither queued nor sent before.
LEMMA OnFillFollows ==
    ASSUME NEW h, SessionOK(h), h.pc \in {"stream", "closing"}, NEW f \in Fills
    PROVE  Follows(h, OnFill(h, f))
<1> DEFINE q == h.queue
           p == Append(q, f)
           g == [h EXCEPT !.queue = Append(@, f), !.seen = @ \cup {f}]
<1>1. h \in Session /\ q \in Seq(Frames) /\ Len(q) \in Nat /\ Len(q) <= QueueMax /\ f \in Frames
  BY LenProperties DEF SessionOK, Session, Frames
<1>2. CASE h.shut \/ f \in h.seen \/ Len(q) = QueueMax
  BY <1>2, LaggedFollows, FollowsSelf DEF OnFill
<1>3. CASE ~h.shut /\ f \notin h.seen /\ Len(q) # QueueMax
  <2>1. OnFill(h, f) = g
    BY <1>3 DEF OnFill
  <2>2. /\ p \in Seq(Frames) /\ Len(p) = Len(q) + 1
        /\ DOMAIN p = 1..(Len(q) + 1) /\ DOMAIN q = 1..Len(q)
        /\ \A i \in 1..Len(q) : p[i] = q[i]
        /\ p[Len(q) + 1] = f
    BY <1>1, AppendProperties, LenProperties
  <2>3. /\ g \in Session /\ g.queue = p /\ g.pc = h.pc /\ g.reg = h.reg /\ g.shut = h.shut
        /\ g.seen = h.seen \cup {f} /\ g.sent = h.sent /\ g.reason = h.reason
    BY <1>1, <2>2 DEF Session
  <2> HIDE DEF p, q, g
  <2>4. {p[i] : i \in DOMAIN p} \cap Fills = ({q[i] : i \in DOMAIN q} \cap Fills) \cup {f}
    BY <1>1, <2>2
  <2>5. ASSUME h.pc = "stream"
        PROVE  /\ \A i, j \in DOMAIN q : q[i] = q[j] /\ q[i] \in Fills => i = j
               /\ ({q[i] : i \in DOMAIN q} \cap Fills) \cap h.sent = {}
               /\ ({q[i] : i \in DOMAIN q} \cap Fills) \cup h.sent = h.seen
    BY <1>3, <2>5 DEF SessionOK, Marked, q
  <2>6. ASSUME h.pc = "stream"
        PROVE  \A i \in DOMAIN q : q[i] # f
    BY <2>5, <2>6, <1>3
  <2>7. ASSUME h.pc = "stream"
        PROVE  \A i, j \in DOMAIN p : p[i] = p[j] /\ p[i] \in Fills => i = j
    BY <1>1, <2>2, <2>5, <2>6, <2>7
  <2>8. Marked(g)
    BY <1>3, <2>3, <2>4, <2>5, <2>6, <2>7 DEF Marked
  <2>9. SessionOK(g)
    BY <1>1, <1>3, <2>2, <2>3, <2>8, DaemonAssumption DEF SessionOK, q
  <2>10. Follows(h, g)
    BY <2>3, <2>9 DEF Follows, NoConn
  <2> QED BY <2>1, <2>10 DEF g
<1> QED BY <1>2, <1>3
\* What Send makes of a session.
Sent(h) ==
    [h EXCEPT !.queue = IF Head(h.queue) = "closed" THEN <<>> ELSE Tail(@),
              !.sent = IF Head(h.queue) \in Fills THEN @ \cup {Head(h.queue)} ELSE @,
              !.pc = IF Head(h.queue) = "closed" THEN "closing" ELSE @]

\* The frame that leaves the queue is on the wire; the others move up.
LEMMA SentFollows ==
    ASSUME NEW h, SessionOK(h), h.pc \in {"stream", "closing"}, h.queue # <<>>
    PROVE  Follows(h, Sent(h))
<1> DEFINE q == h.queue
           p == Tail(q)
           g == Sent(h)
<1>1. h \in Session /\ q \in Seq(Frames) /\ Len(q) \in Nat /\ Len(q) <= QueueMax
  BY LenProperties DEF SessionOK, Session
<1>2. /\ Len(q) >= 1 /\ Head(q) = q[1] /\ q[1] \in Frames
      /\ p \in Seq(Frames) /\ Len(p) = Len(q) - 1
      /\ DOMAIN q = 1..Len(q) /\ DOMAIN p = 1..(Len(q) - 1)
      /\ \A i \in DOMAIN p : p[i] = q[i + 1]
  BY <1>1, HeadTailProperties, LenProperties, EmptySeq
<1>3. "closed" \notin Fills
  BY DaemonAssumption
<1>4. CASE q[1] = "closed"
  <2>a. g = [h EXCEPT !.queue = <<>>, !.pc = "closing"]
    BY <1>1, <1>2, <1>3, <1>4 DEF Session, Sent
  <2>b. <<>> \in Seq(Frames)
    BY EmptySeq
  <2>1. /\ g \in Session /\ g.queue = <<>> /\ g.pc = "closing" /\ g.reg = h.reg
        /\ g.reason = h.reason
    BY <1>1, <2>a, <2>b DEF Session, Pcs
  <2>2. SessionOK(g)
    BY <2>1, DaemonAssumption DEF SessionOK, Marked
  <2> HIDE DEF g
  <2>3. Follows(h, g)
    BY <2>1, <2>2 DEF Follows, NoConn
  <2> QED BY <2>3 DEF g
<1>5. CASE q[1] # "closed"
  <2>1. /\ g \in Session /\ g.queue = p /\ g.pc = h.pc /\ g.reg = h.reg /\ g.shut = h.shut
        /\ g.seen = h.seen /\ g.reason = h.reason
        /\ g.sent = IF q[1] \in Fills THEN h.sent \cup {q[1]} ELSE h.sent
    BY <1>1, <1>2, <1>5 DEF Session, Sent
  <2> HIDE DEF g, p, q
  <2>2. \A i \in DOMAIN p : i + 1 \in DOMAIN q /\ p[i] = q[i + 1] /\ i \in Nat /\ i + 1 # 1
    BY <1>1, <1>2
  <2>3. \A k \in DOMAIN q : k = 1 \/ (k - 1 \in DOMAIN p /\ p[k - 1] = q[k])
    BY <1>1, <1>2
  <2>4. {q[i] : i \in DOMAIN q} = {q[1]} \cup {p[i] : i \in DOMAIN p}
    BY <1>1, <1>2, <2>2, <2>3
  <2>5. ASSUME h.pc = "stream", ~h.shut
        PROVE  /\ \A i, j \in DOMAIN q : q[i] = q[j] /\ q[i] \in Fills => i = j
               /\ ({q[i] : i \in DOMAIN q} \cap Fills) \cap h.sent = {}
               /\ ({q[i] : i \in DOMAIN q} \cap Fills) \cup h.sent = h.seen
    BY <2>5 DEF SessionOK, Marked, q
  <2>6. ASSUME h.pc = "stream", ~h.shut
        PROVE  \A i, j \in DOMAIN p : p[i] = p[j] /\ p[i] \in Fills => i = j
    <3>1. TAKE i, j \in DOMAIN p
    <3>2. HAVE p[i] = p[j] /\ p[i] \in Fills
    <3>3. i + 1 = j + 1
      BY <2>2, <2>5, <2>6, <3>2
    <3> QED BY <2>2, <3>3
  <2>7. ASSUME h.pc = "stream", ~h.shut, q[1] \in Fills
        PROVE  \A i \in DOMAIN p : p[i] # q[1]
    <3>1. 1 \in DOMAIN q
      BY <1>1, <1>2
    <3> QED BY <2>2, <2>5, <2>7, <3>1
  <2>8. Marked(g)
    <3> SUFFICES ASSUME h.pc = "stream", ~h.shut
                 PROVE  /\ \A i, j \in DOMAIN p : p[i] = p[j] /\ p[i] \in Fills => i = j
                        /\ ({p[i] : i \in DOMAIN p} \cap Fills) \cap g.sent = {}
                        /\ ({p[i] : i \in DOMAIN p} \cap Fills) \cup g.sent = h.seen
      BY <2>1 DEF Marked
    <3> DEFINE P == {p[i] : i \in DOMAIN p}
    <3>1. /\ (({q[1]} \cup P) \cap Fills) \cap h.sent = {}
          /\ (({q[1]} \cup P) \cap Fills) \cup h.sent = h.seen
      BY <2>4, <2>5
    <3>2. q[1] \in Fills => q[1] \notin P
      BY <2>7
    <3>3. g.sent = IF q[1] \in Fills THEN h.sent \cup {q[1]} ELSE h.sent
      BY <2>1
    <3>4. \A i, j \in DOMAIN p : p[i] = p[j] /\ p[i] \in Fills => i = j
      BY <2>6
    <3> HIDE DEF P
    <3>5. (P \cap Fills) \cap g.sent = {} /\ (P \cap Fills) \cup g.sent = h.seen
      BY ONLY <3>1, <3>2, <3>3
    <3> QED BY <3>4, <3>5 DEF P
  <2>9. SessionOK(g)
    BY <1>1, <1>2, <2>1, <2>8, DaemonAssumption DEF SessionOK, q
  <2>10. Follows(h, g)
    BY <2>1, <2>9 DEF Follows, NoConn
  <2> QED BY <2>10 DEF g
<1> QED BY <1>4, <1>5

-----------------------------------------------------------------------------
(* A step of sessions *)

\* The task of one connection goes on.
LEMMA OneConn ==
    ASSUME ConnOK, NEW c \in Conns, NEW g, Follows(conn[c], g),
           conn' = [conn EXCEPT ![c] = g]
    PROVE  conn' \in [Conns -> Session] /\ \A d \in Conns : Follows(conn[d], conn'[d])
<1>1. g \in Session
  BY DEF Follows, SessionOK
<1>2. \A d \in Conns : Follows(conn[d], conn[d])
  BY FollowsSelf DEF ConnOK
<1> QED BY <1>1, <1>2 DEF ConnOK

\* Sessions are told to close.
LEMMA SessionsClose ==
    ASSUME ConnOK, NEW r \in Reasons \ {"open"}, conn' = CloseSessions(r)
    PROVE  /\ conn' \in [Conns -> Session] /\ \A d \in Conns : Follows(conn[d], conn'[d])
           /\ \A d \in Conns : conn'[d].reg => conn'[d].reason # "open"
           /\ \A d \in Conns : conn'[d].pc = conn[d].pc
<1> SUFFICES ASSUME NEW d \in Conns
             PROVE  /\ conn'[d] \in Session /\ Follows(conn[d], conn'[d])
                    /\ conn'[d].reg => conn'[d].reason # "open"
                    /\ conn'[d].pc = conn[d].pc
  BY DEF CloseSessions
<1>1. conn'[d] = IF conn[d].reg THEN Closed(conn[d], r) ELSE conn[d]
  BY DEF CloseSessions
<1>2. SessionOK(conn[d])
  BY DEF ConnOK
<1>3. /\ Follows(conn[d], conn'[d])
      /\ conn'[d].reg => conn'[d].reason # "open"
      /\ conn'[d].pc = conn[d].pc
  BY <1>1, <1>2, ClosedFollows, FollowsSelf
<1> QED BY <1>3 DEF Follows, SessionOK

\* The steps of sessions, whoever takes them, while main() stays where it is.
LEMMA ConnStep ==
    ASSUME DaemonInv, UNCHANGED <<life, frozen>>, conn' \in [Conns -> Session],
           \A d \in Conns : Follows(conn[d], conn'[d]),
           swept' \subseteq swept, \A d \in swept \ swept' : conn'[d] = NoConn
    PROVE  ConnOK' /\ OneSession' /\ StageOK' /\ SweptOK'
<1>1. ConnOK'
  BY DEF ConnOK, Follows, SessionOK, Session, Marked
<1>2. OneSession'
  BY DEF DaemonInv, OneSession, Follows
<1>3. StageOK'
  BY DEF DaemonInv, StageOK, Follows, life, files
<1>4. SweptOK'
  BY DEF DaemonInv, SweptOK, Follows, life, files, Streaming, NoConn
<1> QED BY <1>1, <1>2, <1>3, <1>4
\* A step of a connection's task keeps the invariant.
LEMMA TaskStep ==
    ASSUME DaemonInv, UNCHANGED <<life, botVars, frozen>>, conn' \in [Conns -> Session],
           \A d \in Conns : Follows(conn[d], conn'[d]),
           swept' \subseteq swept, \A d \in swept \ swept' : conn'[d] = NoConn
    PROVE  DaemonInv'
<1>1. ConnOK' /\ OneSession' /\ StageOK' /\ SweptOK'
  BY ConnStep
<1>2. KeyOK'
  BY DEF DaemonInv, KeyOK, botVars
<1>3. RestOK'
  BY DEF DaemonInv, RestOK, life, files, botVars
<1> QED BY <1>1, <1>2, <1>3 DEF DaemonInv

\* The same when it is a step of one connection that nobody waits for.
LEMMA OneTask ==
    ASSUME DaemonInv, NEW c \in Conns, NEW g, Follows(conn[c], g), conn' = [conn EXCEPT ![c] = g],
           UNCHANGED <<life, botVars, frozen, swept>>
    PROVE  DaemonInv'
<1>1. ConnOK
  BY DEF DaemonInv
<1> QED BY <1>1, OneConn, TaskStep

LEMMA ConnectKeeps == ASSUME DaemonInv, NEW c \in Conns, Connect(c) PROVE DaemonInv'
<1> DEFINE g == [NoConn EXCEPT !.pc = "validated", !.key = key]
<1>a. NoConn \in Session /\ key \in Nat
  BY NoConnOK, DaemonAssumption DEF DaemonInv, KeyOK, SessionOK
<1>b. g \in Session
  BY <1>a DEF Session, Pcs
<1>1. /\ g \in Session /\ g.pc = "validated" /\ ~g.reg
      /\ g.queue = <<>> /\ g.seen = {} /\ g.sent = {}
  BY <1>b DEF NoConn
<1>2. SessionOK(g)
  BY <1>1, DaemonAssumption DEF SessionOK, Marked
<1>3. conn' = [conn EXCEPT ![c] = g] /\ ipc # "stopped"
  BY DEF Connect
<1>4. UNCHANGED <<life, botVars, frozen, swept>>
  BY DEF Connect
<1> HIDE DEF g
<1>5. Follows(conn[c], g)
  BY <1>1, <1>2, <1>3 DEF Follows
<1> QED BY <1>3, <1>4, <1>5, OneTask

LEMMA GatesKeeps == ASSUME DaemonInv, NEW c \in Conns, Gates(c) PROVE DaemonInv'
<1> DEFINE h == conn[c]
           g == [h EXCEPT !.pc = "audit"]
<1>1. SessionOK(h) /\ h.pc = "validated"
  BY DEF DaemonInv, ConnOK, Gates
<1>2. /\ g \in Session /\ g.pc = "audit" /\ g.reg = h.reg
      /\ g.queue = h.queue /\ g.seen = h.seen /\ g.sent = h.sent
  BY <1>1 DEF SessionOK, Session, Pcs
<1>3. SessionOK(g) /\ ~h.reg
  BY <1>1, <1>2 DEF SessionOK, Marked
<1>4. conn' = [conn EXCEPT ![c] = IF bot = "running" THEN g ELSE NoConn]
  BY DEF Gates
<1>5. UNCHANGED <<life, botVars, frozen, swept>>
  BY DEF Gates
<1> HIDE DEF g, h
<1>6. Follows(h, g)
  BY <1>1, <1>2, <1>3 DEF Follows, NoConn
<1>7. Follows(h, IF bot = "running" THEN g ELSE NoConn)
  BY <1>6, FollowsNoConn
<1> QED BY <1>4, <1>5, <1>7, OneTask DEF h

LEMMA AckFailsKeeps == ASSUME DaemonInv, NEW c \in Conns, AckFails(c) PROVE DaemonInv'
<1>1. conn' = [conn EXCEPT ![c] = NoConn] /\ UNCHANGED <<life, botVars, frozen, swept>>
  BY DEF AckFails
<1> QED BY <1>1, FollowsNoConn, OneTask

LEMMA AdoptKeeps == ASSUME DaemonInv, NEW c \in Conns, Adopt(c) PROVE DaemonInv'
<1> DEFINE h == conn[c]
           g == [h EXCEPT !.pc = "selfclose", !.shut = TRUE,
                          !.reason = IF @ = "open" THEN "rotated" ELSE @]
           s == [h EXCEPT !.pc = "stream"]
           new == IF bot = "gone" THEN NoConn
                  ELSE IF h.gen # gen \/ h.reason # "open" THEN g ELSE s
<1>1. SessionOK(h) /\ h \in Session /\ h.pc = "ack"
  BY DEF DaemonInv, ConnOK, Adopt, SessionOK
<1>2. /\ g \in Session /\ g.pc = "selfclose" /\ g.reg = h.reg /\ g.reason # "open"
      /\ g.queue = h.queue /\ g.seen = h.seen /\ g.sent = h.sent
  BY <1>1 DEF Session, Pcs, Reasons
<1>3. /\ s \in Session /\ s.pc = "stream" /\ s.reg = h.reg /\ s.reason = h.reason
      /\ s.queue = h.queue /\ s.seen = h.seen /\ s.sent = h.sent
  BY <1>1 DEF Session, Pcs
<1>4. conn' = [conn EXCEPT ![c] = new]
  BY DEF Adopt
<1>5. UNCHANGED <<life, botVars, frozen, swept>>
  BY DEF Adopt
<1> HIDE DEF g, h, s
<1>6. SessionOK(g) /\ SessionOK(s)
  BY <1>1, <1>2, <1>3 DEF SessionOK, Marked
<1>7. Follows(h, g)
  BY <1>1, <1>2, <1>6 DEF Follows, NoConn
<1>8. h.reason = "open" => Follows(h, s)
  BY <1>1, <1>3, <1>6 DEF Follows, NoConn, SessionOK
<1>9. Follows(h, new)
  BY <1>7, <1>8, FollowsNoConn
<1> HIDE DEF new
<1> QED BY <1>4, <1>5, <1>9, OneTask DEF h

\* register finds nobody, and the registry is not frozen.
LEMMA RegisterKeeps == ASSUME DaemonInv, NEW c \in Conns, Register(c) PROVE DaemonInv'
<1> DEFINE h == conn[c]
           g == [h EXCEPT !.pc = "ack", !.reg = TRUE, !.gen = gen]
<1>1. SessionOK(h) /\ h \in Session /\ h.pc = "audit" /\ ConnOK
  BY DEF DaemonInv, ConnOK, Register, SessionOK
<1>2. UNCHANGED <<life, botVars, frozen, swept>>
  BY DEF Register
<1>3. CASE frozen \/ Sessions # {}
  BY <1>2, <1>3, FollowsNoConn, OneTask DEF Register
<1>4. CASE ~frozen /\ Sessions = {}
  <2>1. conn' = [conn EXCEPT ![c] = g]
    BY <1>4 DEF Register
  <2>2. /\ g \in Session /\ g.pc = "ack" /\ g.reg
        /\ g.queue = h.queue /\ g.seen = h.seen /\ g.sent = h.sent
    BY <1>1 DEF DaemonInv, KeyOK, Session, Pcs
  <2> HIDE DEF g
  <2>3. SessionOK(g)
    BY <1>1, <2>2 DEF SessionOK, Marked
  <2>4. ConnOK'
    BY <1>1, <2>1, <2>3, <2>2 DEF ConnOK
  <2>5. conn'[c] = g /\ \A d \in Conns \ {c} : conn'[d] = conn[d] /\ ~conn[d].reg
    BY <1>1, <1>4, <2>1 DEF ConnOK, Sessions
  <2>6. OneSession'
    BY <2>5 DEF OneSession
  <2>7. StageOK'
    BY <1>1, <1>2, <2>5 DEF DaemonInv, StageOK, NoConn, life, files
  <2>8. SweptOK'
    BY <1>2, <1>4 DEF DaemonInv, SweptOK, StageOK, life, files, Down
  <2>9. KeyOK' /\ RestOK'
    BY <1>2 DEF DaemonInv, KeyOK, RestOK, life, files, botVars
  <2> QED BY <2>4, <2>6, <2>7, <2>8, <2>9 DEF DaemonInv
<1> QED BY <1>3, <1>4
\* A step that moves only pc, shut or inflight of a session that streams.
LEMMA MovedOK ==
    ASSUME NEW h, SessionOK(h), NEW g \in Session,
           h.pc \in {"stream", "closing"}, g.pc \in {h.pc, "closing"}, h.shut => g.shut,
           g.reg = h.reg, g.reason = h.reason, g.queue = h.queue, g.seen = h.seen, g.sent = h.sent
    PROVE  Follows(h, g)
<1>1. Marked(g)
  BY DEF SessionOK, Marked
<1>2. SessionOK(g)
  BY <1>1 DEF SessionOK
<1> QED BY <1>2 DEF Follows, NoConn

\* The signal in flight says nothing of the session, which may have begun to close.
LEMMA InflightFollows ==
    ASSUME NEW h, SessionOK(h), NEW s \in {"none", "publish", "data", "over"}, h # NoConn
    PROVE  SessionOK([h EXCEPT !.inflight = s]) /\ Follows(h, [h EXCEPT !.inflight = s])
<1> DEFINE g == [h EXCEPT !.inflight = s]
<1>1. /\ g \in Session /\ g.pc = h.pc /\ g.reg = h.reg /\ g.reason = h.reason /\ g.shut = h.shut
      /\ g.queue = h.queue /\ g.seen = h.seen /\ g.sent = h.sent
  BY DEF SessionOK, Session
<1> HIDE DEF g
<1>2. Marked(g)
  BY <1>1 DEF SessionOK, Marked
<1>3. SessionOK(g)
  BY <1>1, <1>2 DEF SessionOK
<1>4. Follows(h, g)
  BY <1>1, <1>3 DEF Follows
<1> QED BY <1>3, <1>4 DEF g

LEMMA FillKeeps == ASSUME DaemonInv, NEW f \in Fills, Fill(f) PROVE DaemonInv'
<1>1. conn' = [c \in Conns |-> IF Streaming(c) THEN OnFill(conn[c], f) ELSE conn[c]]
  BY DEF Fill
<1>2. UNCHANGED <<life, botVars, frozen, swept>>
  BY DEF Fill
<1>3. \A d \in Conns : SessionOK(conn[d])
  BY DEF DaemonInv, ConnOK
<1>4. ASSUME NEW d \in Conns
      PROVE  Follows(conn[d], conn'[d])
  BY <1>1, <1>3, OnFillFollows, FollowsSelf DEF Streaming
<1>5. conn' \in [Conns -> Session]
  BY <1>1, <1>4 DEF Follows, SessionOK
<1> QED BY <1>2, <1>4, <1>5, TaskStep

LEMMA OrderUpdateKeeps == ASSUME DaemonInv, OrderUpdate PROVE DaemonInv'
<1>1. conn' = [c \in Conns |-> IF Streaming(c) /\ ~conn[c].shut
                               THEN IF Len(conn[c].queue) = QueueMax
                                    THEN Lagged(conn[c]) ELSE Emitted(conn[c])
                               ELSE conn[c]]
  BY DEF OrderUpdate
<1>2. UNCHANGED <<life, botVars, frozen, swept>>
  BY DEF OrderUpdate
<1>3. \A d \in Conns : SessionOK(conn[d])
  BY DEF DaemonInv, ConnOK
<1>4. ASSUME NEW d \in Conns
      PROVE  Follows(conn[d], conn'[d])
  BY <1>1, <1>3, LaggedFollows, EmittedFollows, FollowsSelf DEF Streaming
<1>5. conn' \in [Conns -> Session]
  BY <1>1, <1>4 DEF Follows, SessionOK
<1> QED BY <1>2, <1>4, <1>5, TaskStep

LEMMA MessageKeeps == ASSUME DaemonInv, NEW c \in Conns, Message(c) PROVE DaemonInv'
<1> DEFINE h == conn[c]
           g == IF h.shut THEN Emitted(h) ELSE [h EXCEPT !.inflight = "publish"]
<1>1. SessionOK(h) /\ h.pc = "stream" /\ h # NoConn
  BY DEF DaemonInv, ConnOK, Message, NoConn
<1>2. conn' = [conn EXCEPT ![c] = g] /\ UNCHANGED <<life, botVars, frozen, swept>>
  BY DEF Message
<1>3. Follows(h, g)
  BY <1>1, EmittedFollows, InflightFollows
<1> HIDE DEF g
<1> QED BY <1>2, <1>3, OneTask DEF h

LEMMA QueryKeeps == ASSUME DaemonInv, NEW c \in Conns, Query(c) PROVE DaemonInv'
<1>1. SessionOK(conn[c]) /\ conn[c].pc = "stream"
  BY DEF DaemonInv, ConnOK, Query
<1>2. conn' = [conn EXCEPT ![c] = Emitted(conn[c])] /\ UNCHANGED <<life, botVars, frozen, swept>>
  BY DEF Query
<1> QED BY <1>1, <1>2, EmittedFollows, OneTask

LEMMA OnExternalSignalKeeps == ASSUME DaemonInv, NEW c \in Conns, OnExternalSignal(c) PROVE DaemonInv'
<1> DEFINE s == IF bot = "running" THEN "data" ELSE "over"
           g == [conn[c] EXCEPT !.inflight = s]
<1>1. SessionOK(conn[c]) /\ conn[c] # NoConn /\ s \in {"none", "publish", "data", "over"}
  BY DEF DaemonInv, ConnOK, OnExternalSignal, NoConn
<1>2. conn' = [conn EXCEPT ![c] = g] /\ UNCHANGED <<life, botVars, frozen, swept>>
  BY DEF OnExternalSignal
<1> HIDE DEF s
<1>3. Follows(conn[c], g)
  BY <1>1, InflightFollows
<1> HIDE DEF g
<1> QED BY <1>2, <1>3, OneTask

LEMMA OnDataKeeps == ASSUME DaemonInv, NEW c \in Conns, OnData(c) PROVE DaemonInv'
<1> DEFINE g == [conn[c] EXCEPT !.inflight = "over"]
<1>1. SessionOK(conn[c]) /\ conn[c] # NoConn
  BY DEF DaemonInv, ConnOK, OnData, NoConn
<1>2. conn' = [conn EXCEPT ![c] = g] /\ UNCHANGED <<life, botVars, frozen, swept>>
  BY DEF OnData
<1>3. Follows(conn[c], g)
  BY <1>1, InflightFollows
<1> HIDE DEF g
<1> QED BY <1>2, <1>3, OneTask

LEMMA SignalAckKeeps == ASSUME DaemonInv, NEW c \in Conns, SignalAck(c) PROVE DaemonInv'
<1> DEFINE h == conn[c]
           k == [h EXCEPT !.inflight = "none"]
           g == IF k.pc = "stream" THEN Emitted(k) ELSE k
<1>1. SessionOK(h) /\ h # NoConn
  BY DEF DaemonInv, ConnOK, SignalAck, NoConn
<1>2. SessionOK(k) /\ Follows(h, k)
  BY <1>1, InflightFollows
<1>3. conn' = [conn EXCEPT ![c] = g] /\ UNCHANGED <<life, botVars, frozen, swept>>
  BY DEF SignalAck
<1> HIDE DEF k
<1>4. k.pc = "stream" => Follows(k, Emitted(k))
  BY <1>2, EmittedFollows
<1>5. Follows(h, g)
  BY <1>1, <1>2, <1>4 DEF Follows
<1> HIDE DEF g
<1> QED BY <1>3, <1>5, OneTask DEF h

LEMMA SendKeeps == ASSUME DaemonInv, NEW c \in Conns, Send(c) PROVE DaemonInv'
<1>1. SessionOK(conn[c]) /\ conn[c].pc \in {"stream", "closing"} /\ conn[c].queue # <<>>
  BY DEF DaemonInv, ConnOK, Send, Streaming
<1>2. conn' = [conn EXCEPT ![c] = Sent(conn[c])] /\ UNCHANGED <<life, botVars, frozen, swept>>
  BY DEF Send, Sent
<1> QED BY <1>1, <1>2, SentFollows, OneTask

LEMMA CloseBeginsKeeps == ASSUME DaemonInv, NEW c \in Conns, CloseBegins(c) PROVE DaemonInv'
<1> DEFINE h == conn[c]
           g == [h EXCEPT !.pc = "closing", !.shut = TRUE]
<1>1. SessionOK(h) /\ h.pc = "stream"
  BY DEF DaemonInv, ConnOK, CloseBegins
<1>2. conn' = [conn EXCEPT ![c] = g] /\ UNCHANGED <<life, botVars, frozen, swept>>
  BY DEF CloseBegins, DaemonInv, ConnOK
<1>3. /\ g \in Session /\ g.pc = "closing" /\ g.shut /\ g.reg = h.reg /\ g.reason = h.reason
      /\ g.queue = h.queue /\ g.seen = h.seen /\ g.sent = h.sent
  BY <1>1 DEF SessionOK, Session, Pcs
<1> HIDE DEF g
<1>4. Follows(h, g)
  BY <1>1, <1>3, MovedOK
<1> QED BY <1>2, <1>4, OneTask DEF h

LEMMA CloseEndsKeeps == ASSUME DaemonInv, NEW c \in Conns, CloseEnds(c) PROVE DaemonInv'
<1>1. conn' = [conn EXCEPT ![c] = NoConn] /\ UNCHANGED <<life, botVars, frozen>> /\ swept' = swept \ {c}
  BY DEF CloseEnds
<1>2. conn' \in [Conns -> Session] /\ \A d \in Conns : Follows(conn[d], conn'[d])
  BY <1>1, FollowsNoConn, OneConn DEF DaemonInv
<1>3. \A d \in swept \ swept' : conn'[d] = NoConn
  BY <1>1 DEF DaemonInv, ConnOK
<1> QED BY <1>1, <1>2, <1>3, TaskStep
-----------------------------------------------------------------------------
(* Commands that end sessions *)

\* What a command does to sessions: nothing, or it tells them to close.
LEMMA CommandStep ==
    ASSUME DaemonInv, UNCHANGED <<life, frozen, swept>>, NEW r \in Reasons \ {"open"},
           conn' = conn \/ conn' = CloseSessions(r)
    PROVE  ConnOK' /\ OneSession' /\ StageOK' /\ SweptOK'
<1>1. conn' \in [Conns -> Session] /\ \A d \in Conns : Follows(conn[d], conn'[d])
  BY SessionsClose, FollowsSelf DEF DaemonInv, ConnOK
<1> QED BY <1>1, ConnStep

LEMMA RotateCommitKeeps == ASSUME DaemonInv, RotateCommit PROVE DaemonInv'
<1>1. ConnOK' /\ OneSession' /\ StageOK' /\ SweptOK'
  BY CommandStep DEF RotateCommit, Reasons
<1>2. KeyOK'
  BY DaemonAssumption DEF DaemonInv, KeyOK, RotateCommit, Command
<1>3. RestOK'
  BY DEF DaemonInv, RestOK, RotateCommit, Command, life, files
<1> QED BY <1>1, <1>2, <1>3 DEF DaemonInv

LEMMA RotateCloseKeeps == ASSUME DaemonInv, RotateClose PROVE DaemonInv'
<1>1. ConnOK' /\ OneSession' /\ StageOK' /\ SweptOK'
  BY CommandStep DEF RotateClose, Reasons
<1>2. KeyOK'
  BY DaemonAssumption DEF DaemonInv, KeyOK, RotateClose
<1>3. RestOK'
  BY DEF DaemonInv, RestOK, RotateClose, life, files
<1> QED BY <1>1, <1>2, <1>3 DEF DaemonInv

LEMMA StopBotKeeps == ASSUME DaemonInv, StopBot PROVE DaemonInv'
<1>1. ConnOK' /\ OneSession' /\ StageOK' /\ SweptOK'
  BY CommandStep DEF StopBot, Reasons
<1>2. KeyOK'
  BY DaemonAssumption DEF DaemonInv, KeyOK, StopBot, Command
<1>3. RestOK'
  BY DEF DaemonInv, RestOK, StopBot, Command, life, files
<1> QED BY <1>1, <1>2, <1>3 DEF DaemonInv

LEMMA DeleteBotKeeps == ASSUME DaemonInv, DeleteBot PROVE DaemonInv'
<1>1. ConnOK' /\ OneSession' /\ StageOK' /\ SweptOK'
  BY CommandStep DEF DeleteBot, Reasons
<1>2. KeyOK'
  BY DaemonAssumption DEF DaemonInv, KeyOK, DeleteBot, Command
<1>3. RestOK'
  BY DEF DaemonInv, RestOK, DeleteBot, Command, life, files
<1> QED BY <1>1, <1>2, <1>3 DEF DaemonInv

LEMMA BotStoppedKeeps == ASSUME DaemonInv, BotStopped PROVE DaemonInv'
<1>1. ConnOK' /\ OneSession' /\ StageOK' /\ SweptOK'
  BY CommandStep DEF BotStopped, Reasons
<1>2. KeyOK'
  BY DaemonAssumption DEF DaemonInv, KeyOK, BotStopped
<1>3. RestOK'
  BY DEF DaemonInv, RestOK, BotStopped, life, files
<1> QED BY <1>1, <1>2, <1>3 DEF DaemonInv

LEMMA DeleteEndsKeeps == ASSUME DaemonInv, DeleteEnds PROVE DaemonInv'
<1>1. ConnOK' /\ OneSession' /\ StageOK' /\ SweptOK'
  BY CommandStep DEF DeleteEnds, Reasons
<1>2. KeyOK'
  BY DaemonAssumption DEF DaemonInv, KeyOK, DeleteEnds
<1>3. RestOK'
  BY DEF DaemonInv, RestOK, DeleteEnds, life, files
<1> QED BY <1>1, <1>2, <1>3 DEF DaemonInv

LEMMA StartBotKeeps == ASSUME DaemonInv, StartBot PROVE DaemonInv'
<1>1. ConnOK' /\ OneSession' /\ StageOK' /\ SweptOK'
  BY CommandStep DEF StartBot, Reasons
<1>2. KeyOK'
  BY DaemonAssumption DEF DaemonInv, KeyOK, StartBot
<1>3. RestOK'
  BY DEF DaemonInv, RestOK, StartBot, life, files
<1> QED BY <1>1, <1>2, <1>3 DEF DaemonInv

-----------------------------------------------------------------------------
(* The stages of main() *)

\* A step of main() that leaves the sessions alone.
LEMMA MainStep ==
    ASSUME DaemonInv, UNCHANGED <<key, cmd, conn>>, gen' \in {0, gen}
    PROVE  ConnOK' /\ OneSession' /\ KeyOK'
<1>1. ConnOK' /\ OneSession'
  BY DEF DaemonInv, ConnOK, OneSession
<1>2. CASE gen' = gen
  BY <1>1, <1>2 DEF DaemonInv, KeyOK
<1>3. CASE gen' = 0
  <2>1. KeyOK'
    BY <1>3, DaemonAssumption DEF DaemonInv, KeyOK
  <2> QED BY <1>1, <2>1
<1> QED BY <1>2, <1>3

LEMMA WriteMarkerKeeps == ASSUME DaemonInv, WriteMarker PROVE DaemonInv'
<1>2. ConnOK' /\ OneSession' /\ KeyOK'
  BY MainStep DEF WriteMarker
<1>3. StageOK' /\ SweptOK'
  BY DEF DaemonInv, StageOK, SweptOK, WriteMarker, Stages, Boot, Down
<1>4. RestOK'
  BY DEF DaemonInv, RestOK, WriteMarker, Refs
<1> QED BY <1>2, <1>3, <1>4 DEF DaemonInv

LEMMA BootKeeps ==
    ASSUME DaemonInv, WritePid \/ InitCore \/ InitIpc \/ RemoveMarker
    PROVE  DaemonInv'
<1>1. ConnOK' /\ OneSession' /\ KeyOK'
  BY MainStep DEF WritePid, InitCore, InitIpc, RemoveMarker, botVars
<1>2. StageOK' /\ SweptOK'
  <2>1. CASE WritePid
    BY <2>1 DEF DaemonInv, StageOK, SweptOK, WritePid, BootTo, Stages, Boot, Down
  <2>2. CASE InitCore
    BY <2>2 DEF DaemonInv, StageOK, SweptOK, InitCore, BootTo, Stages, Boot, Down, files
  <2>3. CASE InitIpc
    BY <2>3 DEF DaemonInv, StageOK, SweptOK, InitIpc, BootTo, Stages, Boot, Down
  <2>4. CASE RemoveMarker
    BY <2>4 DEF DaemonInv, StageOK, SweptOK, RemoveMarker, BootTo, Stages, Boot, Down
  <2> QED BY <2>1, <2>2, <2>3, <2>4
<1>3. RestOK'
  BY DEF DaemonInv, RestOK, WritePid, InitCore, InitIpc, RemoveMarker, files, botVars, Refs
<1> QED BY <1>1, <1>2, <1>3 DEF DaemonInv

LEMMA CutShortKeeps == ASSUME DaemonInv, CutShort PROVE DaemonInv'
<1>1. ConnOK' /\ OneSession' /\ KeyOK'
  BY MainStep DEF CutShort, botVars
<1>2. StageOK' /\ SweptOK'
  BY DEF DaemonInv, StageOK, SweptOK, CutShort, Stages, Boot, Down
<1>3. RestOK'
  BY DEF DaemonInv, RestOK, CutShort, botVars, Refs
<1> QED BY <1>1, <1>2, <1>3 DEF DaemonInv

\* The process ends, in whatever way.
LEMMA ExitedKeeps == ASSUME DaemonInv, ProcessEnds \/ Crash \/ Exit PROVE DaemonInv'
<1>1. Exited /\ UNCHANGED <<key, gen, cut, frozen>>
  BY DEF ProcessEnds, Crash, Exit
<1>2. ConnOK' /\ OneSession'
  BY <1>1, NoConnOK DEF Exited, ConnOK, OneSession, NoConn, SessionOK
<1>3. StageOK' /\ SweptOK'
  BY <1>1 DEF Exited, StageOK, SweptOK, Stages, Boot, Down
<1>4. KeyOK'
  BY <1>1, DaemonAssumption DEF DaemonInv, KeyOK, Exited
<1>5. RestOK'
  BY <1>1 DEF DaemonInv, RestOK, Exited, ProcessEnds, Crash, Exit, files, Refs
<1> QED BY <1>2, <1>3, <1>4, <1>5 DEF DaemonInv

\* close_all finds every session, and the registry takes no other.
LEMMA SweepKeeps == ASSUME DaemonInv, Sweep PROVE DaemonInv'
<1>1. /\ conn' \in [Conns -> Session] /\ \A d \in Conns : Follows(conn[d], conn'[d])
      /\ \A d \in Conns : conn'[d].reg => conn'[d].reason # "open"
      /\ \A d \in Conns : conn'[d].pc = conn[d].pc
  BY SessionsClose DEF DaemonInv, Sweep, Reasons
<1>2. ConnOK' /\ OneSession'
  BY <1>1 DEF DaemonInv, ConnOK, OneSession, Follows
<1>3. StageOK'
  BY DEF DaemonInv, StageOK, Sweep, Stages, Boot, Down, files
<1>4. SweptOK'
  <2>1. \A d \in Conns : conn'[d].pc \in {"stream", "closing"} => d \in swept'
    BY <1>1 DEF DaemonInv, ConnOK, SessionOK, Sweep, Sessions, Streaming
  <2> QED BY <1>1, <2>1 DEF SweptOK, Sweep, Streaming, Down
<1>5. KeyOK' /\ RestOK'
  BY DEF DaemonInv, KeyOK, RestOK, Sweep, Sessions, files, botVars
<1> QED BY <1>2, <1>3, <1>4, <1>5 DEF DaemonInv

LEMMA StopBotsKeeps == ASSUME DaemonInv, StopBots PROVE DaemonInv'
<1>1. /\ conn' \in [Conns -> Session] /\ \A d \in Conns : Follows(conn[d], conn'[d])
      /\ \A d \in Conns : conn'[d].pc = conn[d].pc
  BY SessionsClose, FollowsSelf DEF DaemonInv, ConnOK, StopBots, Reasons
<1>2. ConnOK' /\ OneSession'
  BY <1>1 DEF DaemonInv, ConnOK, OneSession, Follows
<1>3. StageOK'
  BY DEF DaemonInv, StageOK, StopBots, Stages, Boot, Down, files
<1>4. SweptOK'
  BY <1>1 DEF DaemonInv, SweptOK, StopBots, Streaming, Follows, Down
<1>5. KeyOK' /\ RestOK'
  BY DEF DaemonInv, KeyOK, RestOK, StopBots, files
<1> QED BY <1>2, <1>3, <1>4, <1>5 DEF DaemonInv

\* The other steps of the shutdown.
LEMMA DownKeeps ==
    ASSUME DaemonInv, StopAccepting \/ SweepEnds \/ DaemonStopDispatching \/ DaemonCloseDb \/ Unlink
    PROVE  DaemonInv'
<1>1. ConnOK' /\ OneSession' /\ KeyOK'
  BY MainStep DEF StopAccepting, SweepEnds, DaemonStopDispatching, DaemonCloseDb, Unlink, botVars
<1>2. StageOK' /\ SweptOK'
  <2>1. CASE StopAccepting
    BY <2>1 DEF DaemonInv, StageOK, SweptOK, StopAccepting, Stages, Boot, Down, files
  <2>2. CASE SweepEnds
    BY <2>2 DEF DaemonInv, StageOK, SweptOK, SweepEnds, Streaming, Stages, Boot, Down, files
  <2>3. CASE DaemonStopDispatching
    BY <2>3 DEF DaemonInv, StageOK, SweptOK, DaemonStopDispatching, Streaming, Stages, Boot, Down, files
  <2>4. CASE DaemonCloseDb
    BY <2>4 DEF DaemonInv, StageOK, SweptOK, DaemonCloseDb, Streaming, Stages, Boot, Down, files
  <2>5. CASE Unlink
    BY <2>5 DEF DaemonInv, StageOK, SweptOK, Unlink, Streaming, Stages, Boot, Down
  <2> QED BY <2>1, <2>2, <2>3, <2>4, <2>5
<1>3. RestOK'
  BY DEF DaemonInv, RestOK, StopAccepting, SweepEnds, DaemonStopDispatching, DaemonCloseDb, Unlink, files, botVars
<1> QED BY <1>1, <1>2, <1>3 DEF DaemonInv
-----------------------------------------------------------------------------
(* The theorems *)

LEMMA DaemonInitInv == ASSUME DaemonInit PROVE DaemonInv
<1>1. ConnOK /\ OneSession
  BY NoConnOK DEF DaemonInit, ConnOK, OneSession, NoConn, SessionOK
<1>2. StageOK /\ SweptOK
  BY DEF DaemonInit, StageOK, SweptOK, Stages, Boot, Down
<1>3. KeyOK
  <2>1. cmd = "none" /\ key = 1 /\ gen = 0
    BY DEF DaemonInit
  <2> QED BY <2>1, DaemonAssumption DEF KeyOK
<1>4. RestOK
  BY DEF DaemonInit, RestOK, Refs
<1> QED BY <1>1, <1>2, <1>3, <1>4 DEF DaemonInv

LEMMA StutterKeeps == ASSUME DaemonInv, UNCHANGED daemonVars PROVE DaemonInv'
BY DEF DaemonInv, ConnOK, OneSession, StageOK, SweptOK, KeyOK, RestOK, Streaming, daemonVars, life, files, botVars

LEMMA NextKeeps == ASSUME DaemonInv, DaemonNext PROVE DaemonInv'
<1>1. CASE WriteMarker \/ WritePid \/ InitCore \/ InitIpc \/ RemoveMarker
  BY <1>1, WriteMarkerKeeps, BootKeeps
<1>2. CASE InitFails \/ ShutdownTimesOut
  BY <1>2, CutShortKeeps DEF InitFails, ShutdownTimesOut
<1>3. CASE Crash \/ StopAccepting \/ DaemonShutdownStep
  BY <1>3, ExitedKeeps, DownKeeps, SweepKeeps, StopBotsKeeps DEF DaemonShutdownStep
<1>4. CASE RotateCommit \/ RotateClose \/ StopBot \/ DeleteBot \/ BotStopped \/ DeleteEnds \/ StartBot
  BY <1>4, RotateCommitKeeps, RotateCloseKeeps, StopBotKeeps, DeleteBotKeeps, BotStoppedKeeps,
     DeleteEndsKeeps, StartBotKeeps
<1>5. CASE (\E f \in Fills : Fill(f)) \/ OrderUpdate
  BY <1>5, FillKeeps, OrderUpdateKeeps
<1>6. ASSUME NEW c \in Conns,
             Connect(c) \/ StreamStep(c) \/ Message(c) \/ Query(c) \/ CloseBegins(c)
      PROVE  DaemonInv'
  BY <1>6, ConnectKeeps, GatesKeeps, RegisterKeeps, AckFailsKeeps, AdoptKeeps,
     OnExternalSignalKeeps, OnDataKeeps, SignalAckKeeps, SendKeeps, CloseEndsKeeps,
     CloseBeginsKeeps, MessageKeeps, QueryKeeps DEF StreamStep
<1> QED BY <1>1, <1>2, <1>3, <1>4, <1>5, <1>6 DEF DaemonNext

\* The inductive invariant of the process, its sessions and its files, whatever the number
\* of connections, the fills and the length of the queue.
THEOREM DaemonInvariant == DaemonSpec => []DaemonInv
BY DaemonInitInv, NextKeeps, StutterKeeps, PTL DEF DaemonSpec

LEMMA InvTypeOK == ASSUME DaemonInv PROVE DaemonTypeOK
<1>1. stage \in Stages /\ ipc \in {"stopped", "running", "shutting_down", "draining"}
  BY DEF DaemonInv, StageOK
<1>2. key \in 0..MaxKey /\ gen \in 0..MaxKey
  BY DaemonAssumption DEF DaemonInv, KeyOK
<1>3. ASSUME NEW c \in Conns
      PROVE  /\ conn[c].pc \in {"idle", "validated", "audit", "ack", "stream", "closing", "selfclose"}
             /\ conn[c].reason \in Reasons
             /\ Len(conn[c].queue) <= QueueMax
             /\ conn[c].seen \subseteq Fills /\ conn[c].sent \subseteq Fills
  BY DEF DaemonInv, ConnOK, SessionOK, Session, Pcs
<1> QED BY <1>1, <1>2, <1>3 DEF DaemonInv, RestOK, DaemonTypeOK

\* Every variable keeps its type: the queue of a session never outgrows SIGNAL_OUT_QUEUE_MAX
\* although a closed frame is forced into a full one, and no more generations are counted
\* than keys are issued (signal_channel_registry.py:106-122, bot/manager.py, rotate_signal_key).
THEOREM DaemonTypes == DaemonSpec => []DaemonTypeOK
BY DaemonInvariant, InvTypeOK, PTL

LEMMA InvGuard == ASSUME DaemonInv PROVE GuardSeesRuntime
BY DEF DaemonInv, StageOK, GuardSeesRuntime, IsActiveRuntime, Stages, Boot, Down

\* While the daemon has the database open the guard of the cold path says so
\* (cold_path.py:17-56, main.py:2743-2979, server.py:127-250).
THEOREM GuardNeverBlind == DaemonSpec => []GuardSeesRuntime
BY DaemonInvariant, InvGuard, PTL

LEMMA InvSessions == ASSUME DaemonInv PROVE SessionsContained
<1> DEFINE S == {c \in Conns : Streaming(c)}
<1>1. \A c, d \in S : c = d
  BY DEF DaemonInv, ConnOK, SessionOK, OneSession, Streaming
<1>2. Cardinality(S) <= 1
  <2>1. CASE S = {}
    BY <2>1, FS_EmptySet
  <2>2. CASE S # {}
    <3>1. PICK c \in S : TRUE
      BY <2>2
    <3>2. S = {c}
      BY <1>1, <3>1
    <3> HIDE DEF S
    <3>3. Cardinality(S) = 1
      BY <3>2, FS_Singleton
    <3> QED BY <3>3
  <2> QED BY <2>1, <2>2
<1>3. ASSUME Alive, ~db, ~cut, NEW c \in Conns
      PROVE  conn[c].pc # "stream"
  <2>1. stage \in {"marker", "pid", "drain", "unlink"}
    BY <1>3 DEF DaemonInv, StageOK, Stages, Boot, Down, Alive
  <2>2. CASE stage \in {"marker", "pid"}
    BY <2>2 DEF DaemonInv, StageOK, NoConn
  <2>3. CASE stage \in {"drain", "unlink"}
    BY <2>3 DEF DaemonInv, SweptOK, Streaming, Down
  <2> QED BY <2>1, <2>2, <2>3
<1> QED BY <1>2, <1>3 DEF SessionsContained

\* The sessions of a bot stay within bounds however handshakes, rotations, stops and the
\* shutdown overlap (signal_channel_registry.py:186-203, main.py:2842-2852).
THEOREM SessionsStayContained == DaemonSpec => []SessionsContained
BY DaemonInvariant, InvSessions, PTL

LEMMA InvMarked == ASSUME DaemonInv PROVE MarkedFillsAreSent
BY DEF DaemonInv, ConnOK, SessionOK, Marked, MarkedFillsAreSent

\* A session that is not closing has every fill it marks on the wire or in its queue, once
\* (signal_channel.py:386-420).
THEOREM MarkedFillsReachTheClient == DaemonSpec => []MarkedFillsAreSent
BY DaemonInvariant, InvMarked, PTL

-----------------------------------------------------------------------------
(* Bots *)

Kinds == {"none", "create", "stop", "assign", "update", "delete", "suspend"}
OpPcs == {"done", "account", "stopping", "rules", "swap", "restart", "validate", "budget",
          "save", "release", "fetch", "found", "again", "last", "clear", "unregister", "scan"}
BotRec == [bot : Nat, status : Statuses, strategy : Strategies, task : Loops, orphan : Loops, fails : Nat]
OpRec == [kind : Kinds, bot : Nat, obj : Nat, pc : OpPcs, arg : Strategies, old : Strategies, todo : SUBSET Nat,
          got : Nat]

\* The states in which a command of each kind waits.
Waits(op) ==
    \/ op.kind = "none" /\ op.pc = "done"
    \/ op.kind = "create" /\ op.pc = "account"
    \/ op.kind = "stop" /\ op.pc \in {"stopping", "rules"}
    \/ op.kind = "assign" /\ op.pc \in {"stopping", "swap", "restart"}
    \/ op.kind = "update" /\ op.pc \in {"validate", "budget", "save"}
    \/ op.kind = "delete" /\ op.pc \in {"stopping", "release", "fetch", "found", "again", "last", "clear",
                                       "unregister"}
    \/ op.kind = "suspend" /\ op.pc \in {"scan", "stopping"}

\* A command that fetched an object holds one of its bot.
Holds(op) ==
    /\ op.kind \in {"create", "stop", "assign", "update", "delete"} => op.bot \in Bots
    /\ op.kind \in {"stop", "assign", "update", "delete"} => op.obj \in 1..made /\ obj[op.obj].bot = op.bot

ObjsOK ==
    /\ obj \in [Objs -> BotRec] /\ made \in Nat /\ NBots <= made /\ made <= MaxObjs
    /\ \A o \in 1..made : obj[o].bot \in Bots
    /\ \A b \in Bots : obj[b].bot = b

\* Once a bot has been created anew, its first object is not registered any more.
Registry ==
    /\ bots \in [Bots -> Nat]
    /\ \A b \in Bots : bots[b] <= made /\ (bots[b] # 0 => obj[bots[b]].bot = b)
    /\ \A o \in 1..made : obj[o].bot # o => bots[obj[o].bot] # obj[o].bot

OpsOK ==
    /\ ops \in [Cmds -> OpRec] /\ issued \in Nat /\ issued <= MaxOps
    /\ \A k \in Cmds : Waits(ops[k]) /\ Holds(ops[k])
    /\ \A k \in Cmds : k > issued => ops[k] = NoOp

RowsKept ==
    /\ row \in [Bots -> [status : {"created", "deleted"}, strategy : Strategies]]
    /\ \A b \in Bots : bots[b] = b => row[b].strategy = obj[b].strategy

ConfigInv == ObjsOK /\ Registry /\ OpsOK /\ RowsKept

\* The bounds are numbers, and the first objects are numbered like the bots.
LEMMA BotsFacts ==
    /\ NBots \in Nat /\ NBots > 0 /\ MaxObjs \in Nat /\ NBots <= MaxObjs /\ MaxOps \in Nat
    /\ First \in Strategies /\ Funds \in Nat
    /\ \A b \in Bots : b \in Nat /\ b > 0 /\ b <= NBots /\ b \in Objs
    /\ \A n \in Nat : n > 0 /\ n <= NBots => n \in Bots
    /\ \A o \in Objs : o \in Nat
    BY BotsAssumption DEF Bots, Objs

\* A command slot that is not used.
LEMMA NoOpOK ==
    /\ NoOp \in OpRec /\ Waits(NoOp) /\ NoOp.kind = "none" /\ NoOp.pc = "done"
    BY BotsFacts DEF NoOp, OpRec, Waits, Kinds, OpPcs

\* A Bot object starts out as its own bot's.
LEMMA NewBotOK ==
    ASSUME NEW b \in Nat, NEW s \in Strategies
    PROVE  NewBot(b, s) \in BotRec /\ NewBot(b, s).bot = b /\ NewBot(b, s).strategy = s
    BY DEF NewBot, BotRec, Statuses, Loops

\* Only status, loops and failures of the objects change.
Frame ==
    /\ obj' \in [Objs -> BotRec]
    /\ \A o \in Objs : obj'[o].bot = obj[o].bot /\ obj'[o].strategy = obj[o].strategy

\* No object changes.
LEMMA FrameSame ==
    ASSUME ObjsOK, UNCHANGED obj
    PROVE  Frame
    BY DEF ObjsOK, Frame

\* Bot.start changes status, loop and failures.
LEMMA StartedFrame ==
    ASSUME ObjsOK, NEW o, obj' = Started(o)
    PROVE  Frame
<1>1. obj \in [Objs -> BotRec]
    BY DEF ObjsOK
<1>2. CASE o \in Objs
  <2>1. obj[o] \in BotRec /\ obj[o].task \in Loops /\ obj[o].orphan \in Loops
    BY <1>1, <1>2 DEF BotRec
  <2> DEFINE r == [obj[o] EXCEPT !.status = "running", !.task = "sleep",
                                 !.orphan = IF obj[o].task # "none" THEN obj[o].task ELSE @]
  <2>2. r \in BotRec /\ r.bot = obj[o].bot /\ r.strategy = obj[o].strategy
    BY <2>1 DEF BotRec, Statuses, Loops
  <2>3. \A p \in Objs : obj'[p] = IF p = o THEN r ELSE obj[p]
    BY <1>1, <1>2 DEF Started
  <2>4. obj' \in [Objs -> BotRec]
    BY <1>1, <1>2, <2>2, <2>3 DEF Started
  <2> QED
    BY <2>2, <2>3, <2>4 DEF Frame
<1>3. CASE o \notin Objs
    BY <1>1, <1>3 DEF Frame, Started
<1> QED
    BY <1>2, <1>3

\* Bot.stop of several objects changes status and loops.
LEMMA StoppingFrame ==
    ASSUME ObjsOK, NEW os, obj' = Stopping(os)
    PROVE  Frame
<1>1. obj \in [Objs -> BotRec]
    BY DEF ObjsOK
<1>2. ASSUME NEW o \in Objs
      PROVE  obj'[o] \in BotRec /\ obj'[o].bot = obj[o].bot /\ obj'[o].strategy = obj[o].strategy
  <2>1. obj[o] \in BotRec
    BY <1>1
  <2>2. obj'[o] = obj[o] \/ obj'[o] = [obj[o] EXCEPT !.status = "stopping", !.task = "none"]
    BY DEF Stopping
  <2> QED
    BY <2>1, <2>2 DEF BotRec, Statuses, Loops
<1>3. DOMAIN obj' = Objs /\ obj' = [o \in Objs |-> obj'[o]]
    BY DEF Stopping
<1> QED
    BY <1>2, <1>3 DEF Frame

\* A change of status alone.
LEMMA StatusFrame ==
    ASSUME ObjsOK, NEW o, NEW s \in Statuses, obj' = [obj EXCEPT ![o].status = s]
    PROVE  Frame
<1>1. obj \in [Objs -> BotRec]
    BY DEF ObjsOK
<1>2. CASE o \in Objs
  <2>1. obj[o] \in BotRec
    BY <1>1, <1>2
  <2> QED
    BY <1>1, <1>2, <2>1 DEF Frame, BotRec
<1>3. CASE o \notin Objs
    BY <1>1, <1>3 DEF Frame
<1> QED
    BY <1>2, <1>3

\* The loops touch neither.
LEMMA LoopFrame ==
    ASSUME ObjsOK, NEW o \in Objs, NEW slot \in Slots,
           LoopTurn(o, slot) \/ StepStarts(o, slot) \/ Step(o, slot), MaxFails \in Nat
    PROVE  Frame
<1>1. obj \in [Objs -> BotRec] /\ obj[o] \in BotRec
    BY DEF ObjsOK
<1>2. slot = "task" \/ slot = "orphan"
    BY DEF Slots
<1>3. CASE LoopTurn(o, slot)
  <2>1. PICK x \in Loops : obj' = [obj EXCEPT ![o][slot] = x]
    BY <1>3 DEF LoopTurn, Loops
  <2>2. CASE slot = "task"
    BY <1>1, <2>1, <2>2 DEF Frame, BotRec
  <2>3. CASE slot = "orphan"
    BY <1>1, <2>1, <2>3 DEF Frame, BotRec
  <2> QED
    BY <1>2, <2>2, <2>3
<1>4. CASE StepStarts(o, slot)
  <2>1. PICK x \in Loops : obj' = [obj EXCEPT ![o][slot] = x]
    BY <1>4 DEF StepStarts, Loops
  <2>2. CASE slot = "task"
    BY <1>1, <2>1, <2>2 DEF Frame, BotRec
  <2>3. CASE slot = "orphan"
    BY <1>1, <2>1, <2>3 DEF Frame, BotRec
  <2> QED
    BY <1>2, <2>2, <2>3
<1>5. CASE StepOk(o, slot)
  <2>1. PICK x \in Loops, n \in Nat : obj' = [obj EXCEPT ![o][slot] = x, ![o].fails = n]
    BY <1>5 DEF StepOk, Loops
  <2>2. CASE slot = "task"
    BY <1>1, <2>1, <2>2 DEF Frame, BotRec
  <2>3. CASE slot = "orphan"
    BY <1>1, <2>1, <2>3 DEF Frame, BotRec
  <2> QED
    BY <1>2, <2>2, <2>3
<1>6. CASE StepTimeout(o, slot)
  <2>1. CASE obj' = [obj EXCEPT ![o][slot] = "none", ![o].fails = MaxFails, ![o].status = "error"]
    <3>1. PICK x \in Loops, n \in Nat, s \in Statuses :
            obj' = [obj EXCEPT ![o][slot] = x, ![o].fails = n, ![o].status = s]
      BY <2>1 DEF Loops, Statuses
    <3>2. CASE slot = "task"
      BY <1>1, <3>1, <3>2 DEF Frame, BotRec
    <3>3. CASE slot = "orphan"
      BY <1>1, <3>1, <3>3 DEF Frame, BotRec
    <3> QED
      BY <1>2, <3>2, <3>3
  <2>2. CASE obj' = [obj EXCEPT ![o][slot] = "sleep", ![o].fails = @ + 1]
    <3>1. obj[o].fails + 1 \in Nat
      BY <1>1 DEF BotRec
    <3>2. CASE slot = "task"
      <4>1. obj' = [obj EXCEPT ![o].task = "sleep", ![o].fails = obj[o].fails + 1]
        BY <1>1, <2>2, <3>2 DEF BotRec
      <4>2. PICK x \in Loops, n \in Nat : obj' = [obj EXCEPT ![o].task = x, ![o].fails = n]
        BY <3>1, <4>1 DEF Loops
      <4> QED
        BY <1>1, <4>2 DEF Frame, BotRec
    <3>3. CASE slot = "orphan"
      <4>1. obj' = [obj EXCEPT ![o].orphan = "sleep", ![o].fails = obj[o].fails + 1]
        BY <1>1, <2>2, <3>3 DEF BotRec
      <4>2. PICK x \in Loops, n \in Nat : obj' = [obj EXCEPT ![o].orphan = x, ![o].fails = n]
        BY <3>1, <4>1 DEF Loops
      <4> QED
        BY <1>1, <4>2 DEF Frame, BotRec
    <3> QED
      BY <1>2, <3>2, <3>3
  <2> QED
    BY <1>6, <2>1, <2>2 DEF StepTimeout
<1>7. CASE StepOverflow(o, slot)
  <2>1. PICK n \in Nat, s \in Statuses, x, y \in Loops :
          obj' = [obj EXCEPT ![o].fails = n, ![o].status = s, ![o].task = x, ![o].orphan = y]
    <3>1. /\ obj[o].fails \in Nat /\ obj[o].fails + 1 \in Nat /\ obj[o].status \in Statuses
          /\ obj[o].task \in Loops /\ obj[o].orphan \in Loops
          /\ "stopped" \in Statuses /\ "none" \in Loops /\ "sleep" \in Loops
      BY <1>1 DEF BotRec, Statuses, Loops
    <3> DEFINE last == obj[o].fails + 1 >= MaxFails
               stops == last /\ obj[o].status \in {"running", "error"}
               n == IF last THEN MaxFails ELSE obj[o].fails + 1
               s == IF stops THEN "stopped" ELSE obj[o].status
               x == IF stops \/ (slot = "task" /\ last) THEN "none"
                    ELSE IF slot = "task" THEN "sleep" ELSE obj[o].task
               y == IF slot = "task" THEN obj[o].orphan ELSE IF last THEN "none" ELSE "sleep"
    <3>2. n \in Nat /\ s \in Statuses /\ x \in Loops /\ y \in Loops
      BY <3>1
    <3>3. obj' = [obj EXCEPT ![o].fails = n, ![o].status = s, ![o].task = x, ![o].orphan = y]
      BY <1>1, <1>7 DEF StepOverflow, BotRec
    <3> HIDE DEF n, s, x, y
    <3> QED
      BY <3>2, <3>3
  <2> QED
    BY <1>1, <2>1 DEF Frame, BotRec
<1>8. CASE StepRaises(o, slot)
  <2>1. obj' = [obj EXCEPT ![o][slot] = "none", ![o].status = "error"]
    BY <1>8 DEF StepRaises
  <2>2. CASE slot = "task"
    BY <1>1, <2>1, <2>2 DEF Frame, BotRec, Loops, Statuses
  <2>3. CASE slot = "orphan"
    BY <1>1, <2>1, <2>3 DEF Frame, BotRec, Loops, Statuses
  <2> QED
    BY <1>2, <2>2, <2>3
<1> QED
    BY <1>3, <1>4, <1>5, <1>6, <1>7, <1>8 DEF Step

\* The shutdown stops every registered object.
LEMMA StopAllFrame ==
    ASSUME ObjsOK, StopAll
    PROVE  Frame
<1>1. obj \in [Objs -> BotRec]
    BY DEF ObjsOK
<1>2. ASSUME NEW o \in Objs
      PROVE  obj'[o] \in BotRec /\ obj'[o].bot = obj[o].bot /\ obj'[o].strategy = obj[o].strategy
  <2>1. obj[o] \in BotRec
    BY <1>1
  <2>2. obj'[o] = obj[o] \/ obj'[o] = [obj[o] EXCEPT !.status = "stopped", !.task = "none"]
    BY DEF StopAll
  <2> QED
    BY <2>1, <2>2 DEF BotRec, Statuses, Loops
<1>3. obj' = [o \in Objs |-> obj'[o]]
    BY DEF StopAll
<1> QED
    BY <1>2, <1>3 DEF Frame

\* Such a step keeps the owner of every object.
LEMMA FrameObjs ==
    ASSUME ObjsOK, Frame, UNCHANGED made
    PROVE  /\ ObjsOK'
           /\ \A o \in Objs : obj'[o].bot = obj[o].bot
           /\ \A o \in 1..made : o \in Objs
<1>1. /\ obj' \in [Objs -> BotRec] /\ \A o \in Objs : obj'[o].bot = obj[o].bot
    BY DEF Frame
<1>2. \A o \in 1..made : o \in Objs
    BY BotsFacts DEF ObjsOK, Objs
<1>3. \A b \in Bots : b \in Objs
    BY BotsFacts
<1> QED
    BY <1>1, <1>2, <1>3 DEF ObjsOK

\* Such a step keeps all parts of the invariant but the commands'.
LEMMA FrameConfig ==
    ASSUME ConfigInv, Frame, UNCHANGED <<made, bots, row>>
    PROVE  ObjsOK' /\ Registry' /\ RowsKept' /\ \A op : Holds(op) => Holds(op)'
<1>1. ObjsOK' /\ (\A o \in 1..made : o \in Objs) /\ \A b \in Bots : b \in Objs
    BY FrameObjs, BotsFacts DEF ConfigInv
<1>2. \A o \in Objs : obj'[o].bot = obj[o].bot /\ obj'[o].strategy = obj[o].strategy
    BY DEF Frame
<1>3. Registry'
  <2>1. \A b \in Bots : bots[b] # 0 => bots[b] \in Objs
    BY BotsFacts DEF ConfigInv, Registry, ObjsOK, Objs
  <2> QED
    BY <1>1, <1>2, <2>1 DEF ConfigInv, Registry
<1>4. RowsKept'
    BY <1>1, <1>2 DEF ConfigInv, RowsKept
<1>5. ASSUME NEW op, Holds(op) PROVE Holds(op)'
    BY <1>1, <1>2, <1>5 DEF Holds
<1> QED
    BY <1>1, <1>3, <1>4, <1>5

HoldsOn == \A op : Holds(op) => Holds(op)'

\* A command enters.
LEMMA IssueOps ==
    ASSUME OpsOK, NEW op \in OpRec, Waits(op), Holds(op)', Issue(op), HoldsOn
    PROVE  OpsOK'
<1>1. issued < MaxOps /\ issued' = issued + 1 /\ ops' = [ops EXCEPT ![issued + 1] = op]
    BY DEF Issue
<1>2. issued + 1 \in Cmds /\ issued' \in Nat /\ issued' <= MaxOps
    BY <1>1, BotsFacts DEF OpsOK, Cmds
<1>3. ops' \in [Cmds -> OpRec] /\ \A k \in Cmds : ops'[k] = IF k = issued + 1 THEN op ELSE ops[k]
    BY <1>1, <1>2 DEF OpsOK
<1>4. ASSUME NEW k \in Cmds PROVE (Waits(ops[k]) /\ Holds(ops[k]))' /\ (k > issued' => ops'[k] = NoOp)
  <2>1. CASE k = issued + 1
    BY <1>1, <1>2, <1>3, <2>1
  <2>2. CASE k # issued + 1
    <3>1. ops'[k] = ops[k] /\ Waits(ops[k]) /\ Holds(ops[k])
      BY <1>3, <2>2 DEF OpsOK
    <3>2. k > issued' => ops'[k] = NoOp
      BY <1>1, <3>1 DEF OpsOK, Cmds
    <3>3. PICK x : x = ops[k]
      OBVIOUS
    <3>4. Holds(x)'
      BY <3>1, <3>3 DEF HoldsOn
    <3> QED
      BY <3>1, <3>2, <3>3, <3>4
  <2> QED
    BY <2>1, <2>2
<1> QED
    BY <1>2, <1>3, <1>4 DEF OpsOK

\* A command changes to this record.
LEMMA OpMoves ==
    ASSUME OpsOK, NEW k \in Cmds, NEW x \in OpRec, ops' = [ops EXCEPT ![k] = x],
           Waits(x), Holds(x)', x = NoOp \/ ops[k].kind # "none", UNCHANGED issued, HoldsOn
    PROVE  OpsOK'
<1>1. ops' \in [Cmds -> OpRec] /\ \A j \in Cmds : ops'[j] = IF j = k THEN x ELSE ops[j]
    BY DEF OpsOK
<1>2. k > issued => x = NoOp
    BY NoOpOK DEF OpsOK
<1>3. ASSUME NEW j \in Cmds PROVE (Waits(ops[j]) /\ Holds(ops[j]))' /\ (j > issued' => ops'[j] = NoOp)
  <2>1. CASE j = k
    BY <1>1, <1>2, <2>1
  <2>2. CASE j # k
    <3>1. ops'[j] = ops[j] /\ Waits(ops[j]) /\ Holds(ops[j]) /\ (j > issued' => ops'[j] = NoOp)
      BY <1>1, <2>2 DEF OpsOK
    <3>2. PICK y : y = ops[j]
      OBVIOUS
    <3>3. Holds(y)'
      BY <3>1, <3>2 DEF HoldsOn
    <3> QED
      BY <3>1, <3>2, <3>3
  <2> QED
    BY <2>1, <2>2
<1> QED
    BY <1>1, <1>3 DEF OpsOK

\* It ends.
LEMMA OpDone ==
    ASSUME OpsOK, NEW k \in Cmds, Goto(k, "done"), UNCHANGED issued, HoldsOn
    PROVE  OpsOK'
<1>1. PICK x : x = NoOp
    OBVIOUS
<1>2. x \in OpRec /\ Waits(x) /\ Holds(x)' /\ ops' = [ops EXCEPT ![k] = x]
    BY <1>1, NoOpOK DEF Holds, Goto
<1> QED
    BY <1>1, <1>2, OpMoves

\* It waits somewhere else.
LEMMA OpWaits ==
    ASSUME OpsOK, NEW k \in Cmds, NEW pc \in OpPcs, pc # "done", Goto(k, pc), UNCHANGED issued, HoldsOn,
           ops[k].kind # "none", Waits([ops[k] EXCEPT !.pc = pc])
    PROVE  OpsOK'
<1>1. PICK y, x : y = ops[k] /\ x = [ops[k] EXCEPT !.pc = pc]
    OBVIOUS
<1>2. y \in OpRec /\ Holds(y) /\ x = [y EXCEPT !.pc = pc]
    BY <1>1 DEF OpsOK
<1>3. x \in OpRec /\ x.kind = y.kind /\ x.bot = y.bot /\ x.obj = y.obj
    BY <1>2 DEF OpRec
<1>4. Holds(y)'
    BY <1>2 DEF HoldsOn
<1>5. Holds(x)'
    BY <1>3, <1>4 DEF Holds
<1>6. ops' = [ops EXCEPT ![k] = x]
    BY <1>1 DEF Goto, OpsOK
<1> QED
    BY <1>1, <1>3, <1>5, <1>6, OpMoves

\* A strategy is written to an object, and to its row unless the object is not registered.
LEMMA StrategyWritten ==
    ASSUME ConfigInv, NEW o \in 1..made, NEW s \in Strategies, obj' = [obj EXCEPT ![o].strategy = s],
           row' = Saved(o, s) \/ (row' = row /\ bots[obj[o].bot] # o), UNCHANGED <<made, bots>>
    PROVE  ObjsOK' /\ Registry' /\ RowsKept' /\ HoldsOn
<1>1. (\A p \in 1..made : p \in Objs) /\ \A b \in Bots : b \in Objs
    BY BotsFacts DEF ConfigInv, ObjsOK, Objs
<1>2. obj \in [Objs -> BotRec] /\ o \in Objs /\ obj[o].bot \in Bots
    BY <1>1 DEF ConfigInv, ObjsOK
<1>3. /\ obj' \in [Objs -> BotRec]
      /\ \A p \in Objs : obj'[p].bot = obj[p].bot /\ obj'[p].strategy = IF p = o THEN s ELSE obj[p].strategy
    BY <1>2 DEF BotRec
<1>4. ObjsOK'
    BY <1>1, <1>3 DEF ConfigInv, ObjsOK
<1>5. Registry'
  <2>1. \A b \in Bots : bots[b] # 0 => bots[b] \in Objs
    BY BotsFacts DEF ConfigInv, Registry, ObjsOK, Objs
  <2> QED
    BY <1>1, <1>3, <2>1 DEF ConfigInv, Registry
<1>6. PICK c \in Bots : c = obj[o].bot
    BY <1>2
<1>7. /\ row' \in [Bots -> [status : {"created", "deleted"}, strategy : Strategies]]
      /\ \A b \in Bots : b # c => row'[b].strategy = row[b].strategy
      /\ row'[c].strategy = s \/ (row' = row /\ bots[c] # o)
  <2>1. CASE row' = Saved(o, s)
    <3>1. row' = [row EXCEPT ![c].strategy = s]
      BY <1>6, <2>1 DEF Saved
    <3> QED
      BY <3>1 DEF ConfigInv, RowsKept
  <2>2. CASE row' = row /\ bots[obj[o].bot] # o
    BY <1>6, <2>2 DEF ConfigInv, RowsKept
  <2> QED
    BY <2>1, <2>2
<1>8. ASSUME NEW b \in Bots, bots[b] = b PROVE row'[b].strategy = obj'[b].strategy
  <2>1. b \in Objs /\ obj[b].bot = b /\ row[b].strategy = obj[b].strategy
    BY <1>1, <1>8 DEF ConfigInv, ObjsOK, RowsKept
  <2>2. CASE b = c
    <3>1. o = c
      BY <1>6, <1>8, <2>2 DEF ConfigInv, Registry
    <3> QED
      BY <1>3, <1>7, <1>8, <2>1, <2>2, <3>1
  <2>3. CASE b # c
    <3>1. b # o
      BY <1>6, <2>1, <2>3
    <3> QED
      BY <1>3, <1>7, <2>1, <2>3, <3>1
  <2> QED
    BY <2>2, <2>3
<1>9. RowsKept'
    BY <1>7, <1>8 DEF RowsKept
<1>10. ASSUME NEW op, Holds(op) PROVE Holds(op)'
    BY <1>1, <1>3, <1>10 DEF Holds
<1> QED
    BY <1>4, <1>5, <1>9, <1>10 DEF HoldsOn

\* A registered object is one of its bot.
LEMMA KnownObj ==
    ASSUME ConfigInv, NEW b \in Bots, Known(b)
    PROVE  bots[b] \in 1..made /\ bots[b] \in Objs /\ obj[bots[b]].bot = b /\ obj[bots[b]] \in BotRec
<1>1. bots[b] \in Nat /\ bots[b] # 0 /\ bots[b] <= made /\ made \in Nat /\ made <= MaxObjs
    BY DEF ConfigInv, Registry, ObjsOK, Known
<1>2. bots[b] \in 1..made /\ bots[b] \in Objs
    BY <1>1, BotsFacts DEF Objs
<1> QED
    BY <1>1, <1>2 DEF ConfigInv, Registry, ObjsOK

\* A step that leaves bots and rows alone, with a command entering.
LEMMA IssueConfig ==
    ASSUME ConfigInv, Frame, UNCHANGED <<made, bots, row>>, NEW op \in OpRec, Issue(op), Waits(op), Holds(op)
    PROVE  ConfigInv'
<1>1. ObjsOK' /\ Registry' /\ RowsKept' /\ HoldsOn
    BY FrameConfig DEF HoldsOn
<1>2. Holds(op)'
    BY <1>1 DEF HoldsOn
<1>3. OpsOK'
    BY <1>1, <1>2, IssueOps DEF ConfigInv
<1> QED
    BY <1>1, <1>3 DEF ConfigInv

\* A command that ends without waiting.
LEMMA AtomicConfig ==
    ASSUME ConfigInv, Frame, UNCHANGED <<made, bots, row>>, IssueAtomic
    PROVE  ConfigInv'
<1>1. PICK op : op = NoOp
    OBVIOUS
<1>2. op \in OpRec /\ Waits(op) /\ Holds(op) /\ Issue(op)
    BY <1>1, NoOpOK DEF Holds, IssueAtomic
<1> QED
    BY <1>2, IssueConfig

\* create_bot.
LEMMA CreateConfig ==
    ASSUME ConfigInv, NEW b \in Bots, NEW s \in Strategies, Create(b, s)
    PROVE  ConfigInv'
<1>1. PICK op : op = [NoOp EXCEPT !.kind = "create", !.bot = b, !.pc = "account", !.arg = s]
    OBVIOUS
<1>2. op = [kind |-> "create", bot |-> b, obj |-> 0, pc |-> "account", arg |-> s, old |-> First, todo |-> {},
            got |-> 0]
    BY <1>1 DEF NoOp
<1>3. op \in OpRec
    BY <1>2, BotsFacts DEF OpRec, Kinds, OpPcs
<1>4. Waits(op) /\ Holds(op)
    BY <1>2 DEF Waits, Holds
<1>5. Issue(op) /\ UNCHANGED <<obj, made, bots, row>>
    BY <1>1 DEF Create
<1>6. Frame
    BY <1>5, FrameSame DEF ConfigInv
<1> QED
    BY <1>3, <1>4, <1>5, <1>6, IssueConfig

\* start_bot and resume_bot.
LEMMA StartConfig ==
    ASSUME ConfigInv, NEW b \in Bots, Start(b) \/ Resume(b)
    PROVE  ConfigInv'
<1>1. IssueAtomic /\ obj' = Started(bots[b]) /\ UNCHANGED <<made, bots, row>>
    BY DEF Start, Resume
<1>2. PICK o : o = bots[b]
    OBVIOUS
<1>3. Frame
    BY <1>1, <1>2, StartedFrame DEF ConfigInv
<1> QED
    BY <1>1, <1>3, AtomicConfig

\* A command that has fetched the bot's object.
LEMMA FetchedConfig ==
    ASSUME ConfigInv, NEW b \in Bots, Known(b), Frame, UNCHANGED <<made, bots, row>>,
           NEW kind \in {"stop", "assign", "update", "delete"}, NEW pc \in OpPcs,
           NEW a \in Strategies, NEW op, Issue(op),
           op = [kind |-> kind, bot |-> b, obj |-> bots[b], pc |-> pc, arg |-> a, old |-> First, todo |-> {},
                 got |-> 0],
           kind = "stop" => pc = "stopping", kind = "assign" => pc = "stopping",
           kind = "update" => pc = "validate", kind = "delete" => pc \in {"stopping", "release"}
    PROVE  ConfigInv'
<1>1. PICK o : o = bots[b]
    OBVIOUS
<1>2. o \in 1..made /\ o \in Nat /\ obj[o].bot = b /\ b \in Nat
    BY <1>1, KnownObj, BotsFacts
<1>3. op = [kind |-> kind, bot |-> b, obj |-> o, pc |-> pc, arg |-> a, old |-> First, todo |-> {}, got |-> 0]
    BY <1>1
<1>4. op \in OpRec
    BY <1>2, <1>3, BotsFacts DEF OpRec, Kinds
<1>5. op.kind = kind /\ op.pc = pc /\ op.bot = b /\ op.obj = o
    BY <1>3
<1>6. Waits(op)
    BY <1>5 DEF Waits
<1>7. Holds(op)
    BY <1>2, <1>5 DEF Holds
<1> QED
    BY <1>4, <1>6, <1>7, IssueConfig

\* stop_bot begins.
LEMMA StopConfig ==
    ASSUME ConfigInv, NEW b \in Bots, Stop(b)
    PROVE  ConfigInv'
<1>1. /\ Known(b) /\ UNCHANGED <<made, bots, row>> /\ obj' = Stopping({bots[b]})
      /\ Issue([NoOp EXCEPT !.kind = "stop", !.bot = b, !.obj = bots[b], !.pc = "stopping"])
    BY DEF Stop
<1>2. PICK os : os = {bots[b]}
    OBVIOUS
<1>3. Frame
    BY <1>1, <1>2, StoppingFrame DEF ConfigInv
<1>4. PICK op : op = [NoOp EXCEPT !.kind = "stop", !.bot = b, !.obj = bots[b], !.pc = "stopping"]
    OBVIOUS
<1>6. op = [kind |-> "stop", bot |-> b, obj |-> bots[b], pc |-> "stopping", arg |-> First, old |-> First,
            todo |-> {}, got |-> 0]
    BY <1>4 DEF NoOp
<1>7. Issue(op)
    BY <1>1, <1>4
<1>5. First \in Strategies /\ "stopping" \in OpPcs
    BY BotsFacts DEF OpPcs
<1> QED
    BY <1>1, <1>3, <1>5, <1>6, <1>7, FetchedConfig

\* delete_bot begins.
LEMMA DeleteConfig ==
    ASSUME ConfigInv, NEW b \in Bots, Delete(b)
    PROVE  ConfigInv'
<1>1. PICK pc \in {"stopping", "release"} : pc = IF Bot(b).status = "running" THEN "stopping" ELSE "release"
    OBVIOUS
<1>2. /\ Known(b) /\ UNCHANGED <<made, bots, row>>
      /\ obj' = obj \/ obj' = Stopping({bots[b]})
      /\ Issue([NoOp EXCEPT !.kind = "delete", !.bot = b, !.obj = bots[b], !.pc = pc])
    BY <1>1 DEF Delete
<1>3. PICK os : os = {bots[b]}
    OBVIOUS
<1>4. Frame
    BY <1>2, <1>3, StoppingFrame, FrameSame DEF ConfigInv
<1>5. PICK op : op = [NoOp EXCEPT !.kind = "delete", !.bot = b, !.obj = bots[b], !.pc = pc]
    OBVIOUS
<1>7. op = [kind |-> "delete", bot |-> b, obj |-> bots[b], pc |-> pc, arg |-> First, old |-> First,
            todo |-> {}, got |-> 0]
    BY <1>5 DEF NoOp
<1>8. Issue(op)
    BY <1>2, <1>5
<1>6. First \in Strategies /\ pc \in OpPcs
    BY BotsFacts DEF OpPcs
<1> QED
    BY <1>1, <1>2, <1>4, <1>6, <1>7, <1>8, FetchedConfig

\* update_bot begins.
LEMMA UpdateConfig ==
    ASSUME ConfigInv, NEW b \in Bots, NEW s \in Strategies, Update(b, s)
    PROVE  ConfigInv'
<1>1. /\ Known(b) /\ UNCHANGED <<obj, made, bots, row>>
      /\ Issue([NoOp EXCEPT !.kind = "update", !.bot = b, !.obj = bots[b], !.pc = "validate",
                            !.arg = s])
    BY DEF Update
<1>3. Frame
    BY <1>1, FrameSame DEF ConfigInv
<1>4. PICK op : op = [NoOp EXCEPT !.kind = "update", !.bot = b, !.obj = bots[b], !.pc = "validate",
                                  !.arg = s]
    OBVIOUS
<1>6. op = [kind |-> "update", bot |-> b, obj |-> bots[b], pc |-> "validate", arg |-> s, old |-> First,
            todo |-> {}, got |-> 0]
    BY <1>4 DEF NoOp
<1>7. Issue(op)
    BY <1>1, <1>4
<1>5. "validate" \in OpPcs
    BY DEF OpPcs
<1> QED
    BY <1>1, <1>3, <1>5, <1>6, <1>7, FetchedConfig

\* A strategy written at once.
LEMMA WrittenConfig ==
    ASSUME ConfigInv, NEW o \in 1..made, NEW s \in Strategies, obj' = [obj EXCEPT ![o].strategy = s],
           row' = Saved(o, s), UNCHANGED <<made, bots>>, IssueAtomic
    PROVE  ConfigInv'
<1>1. ObjsOK' /\ Registry' /\ RowsKept' /\ HoldsOn
    BY StrategyWritten
<1>2. PICK op : op = NoOp
    OBVIOUS
<1>3. op \in OpRec /\ Waits(op) /\ Holds(op)' /\ Issue(op)
    BY <1>2, NoOpOK DEF Holds, IssueAtomic
<1>4. OpsOK'
    BY <1>1, <1>3, IssueOps DEF ConfigInv
<1> QED
    BY <1>1, <1>4 DEF ConfigInv

\* assign_strategy and change_strategy begin.
LEMMA AssignConfig ==
    ASSUME ConfigInv, NEW b \in Bots, NEW s \in Strategies, Assign(b, s) \/ ChangeStrategy(b, s)
    PROVE  ConfigInv'
<1>1. Known(b) /\ UNCHANGED <<made, bots>>
    BY DEF Assign, ChangeStrategy
<1>2. PICK o : o = bots[b]
    OBVIOUS
<1>3. o \in 1..made
    BY <1>1, <1>2, KnownObj
<1>4. CASE obj' = [obj EXCEPT ![bots[b]].strategy = s] /\ row' = Saved(bots[b], s) /\ IssueAtomic
    BY <1>1, <1>2, <1>3, <1>4, WrittenConfig
<1>5. CASE /\ Issue([NoOp EXCEPT !.kind = "assign", !.bot = b, !.obj = bots[b], !.pc = "stopping", !.arg = s])
           /\ obj' = Stopping({bots[b]}) /\ UNCHANGED row
  <2>1. PICK os : os = {bots[b]}
    OBVIOUS
  <2>2. Frame
    BY <1>5, <2>1, StoppingFrame DEF ConfigInv
  <2>3. PICK op : op = [NoOp EXCEPT !.kind = "assign", !.bot = b, !.obj = bots[b], !.pc = "stopping", !.arg = s]
    OBVIOUS
  <2>5. op = [kind |-> "assign", bot |-> b, obj |-> bots[b], pc |-> "stopping", arg |-> s, old |-> First,
              todo |-> {}, got |-> 0]
    BY <2>3 DEF NoOp
  <2>6. Issue(op)
    BY <1>5, <2>3
  <2>4. First \in Strategies /\ "stopping" \in OpPcs
    BY BotsFacts DEF OpPcs
  <2> QED
    BY <1>1, <1>5, <2>2, <2>4, <2>5, <2>6, FetchedConfig
<1> QED
    BY <1>4, <1>5 DEF Assign, ChangeStrategy

\* The account is suspended or activated, or everything is stopped.
LEMMA SuspendConfig ==
    ASSUME ConfigInv, Suspend \/ Activate \/ StopAll
    PROVE  ConfigInv'
<1>1. CASE Suspend
  <2>1. PICK todo : todo = {bots[b] : b \in {c \in Bots : Known(c)}}
    OBVIOUS
  <2>2. todo \subseteq Nat
    BY <2>1 DEF ConfigInv, Registry
  <2>7. PICK op : op = [NoOp EXCEPT !.kind = "suspend", !.pc = "scan", !.todo = todo]
    OBVIOUS
  <2>3. op = [kind |-> "suspend", bot |-> 0, obj |-> 0, pc |-> "scan", arg |-> First, old |-> First,
              todo |-> todo, got |-> 0]
    BY <2>7 DEF NoOp
  <2>4. Issue(op) /\ UNCHANGED <<obj, made, bots, row>>
    BY <1>1, <2>1, <2>7 DEF Suspend
  <2>5. op \in OpRec /\ Waits(op) /\ Holds(op)
    BY <2>2, <2>3, BotsFacts DEF OpRec, Kinds, OpPcs, Waits, Holds
  <2>6. Frame
    BY <2>4, FrameSame DEF ConfigInv
  <2> QED
    BY <2>4, <2>5, <2>6, IssueConfig
<1>2. CASE Activate
    BY <1>2, FrameSame, AtomicConfig DEF Activate, ConfigInv
<1>3. CASE StopAll
  <2>1. Frame /\ UNCHANGED <<made, bots, row, ops, issued>>
    BY <1>3, StopAllFrame DEF ConfigInv, StopAll
  <2>2. ObjsOK' /\ Registry' /\ RowsKept' /\ HoldsOn
    BY <2>1, FrameConfig DEF HoldsOn
  <2> QED
    BY <2>1, <2>2 DEF ConfigInv, OpsOK, HoldsOn
<1> QED
    BY <1>1, <1>2, <1>3

\* A command that is not over holds its object.
LEMMA OpFacts ==
    ASSUME ConfigInv, NEW k \in Cmds
    PROVE  /\ ops[k] \in OpRec /\ Waits(ops[k])
           /\ ops[k].kind \in {"create", "stop", "assign", "update", "delete"} => ops[k].bot \in Bots
           /\ ops[k].kind \in {"stop", "assign", "update", "delete"} =>
                ops[k].obj \in 1..made /\ obj[ops[k].obj].bot = ops[k].bot
    BY DEF ConfigInv, OpsOK, Holds

\* A command ends.
LEMMA DoneConfig ==
    ASSUME ConfigInv, Frame, UNCHANGED <<made, bots, row, issued>>, NEW k \in Cmds, Goto(k, "done")
    PROVE  ConfigInv'
<1>1. ObjsOK' /\ Registry' /\ RowsKept' /\ HoldsOn
    BY FrameConfig DEF HoldsOn
<1> QED
    BY <1>1, OpDone DEF ConfigInv

\* A command goes on to a later await.
LEMMA WaitsConfig ==
    ASSUME ConfigInv, Frame, UNCHANGED <<made, bots, row, issued>>, NEW k \in Cmds, NEW pc \in OpPcs, pc # "done",
           Goto(k, pc), ops[k].kind # "none", Waits([ops[k] EXCEPT !.pc = pc])
    PROVE  ConfigInv'
<1>1. ObjsOK' /\ Registry' /\ RowsKept' /\ HoldsOn
    BY FrameConfig DEF HoldsOn
<1> QED
    BY <1>1, OpWaits DEF ConfigInv

\* Where a command may go.
LEMMA WaitsNext ==
    ASSUME NEW op \in OpRec, NEW pc \in OpPcs,
           \/ op.kind = "stop" /\ pc = "rules"
           \/ op.kind = "assign" /\ pc \in {"swap", "restart"}
           \/ op.kind = "update" /\ pc \in {"budget", "save"}
           \/ op.kind = "delete" /\ pc \in {"release", "fetch", "found", "again", "last", "clear", "unregister"}
           \/ op.kind = "suspend" /\ pc = "scan"
    PROVE  Waits([op EXCEPT !.pc = pc])
<1>1. PICK x : x = [op EXCEPT !.pc = pc]
    OBVIOUS
<1>2. x.kind = op.kind /\ x.pc = pc
    BY <1>1 DEF OpRec
<1>3. Waits(x)
    BY <1>2 DEF Waits
<1> QED
    BY <1>1, <1>3

\* CreateInsert: an object more.
LEMMA InsertConfig ==
    ASSUME ConfigInv, NEW k \in Cmds, CreateInsert(k)
    PROVE  ConfigInv'
<1> DEFINE op == ops[k]
<1>1. op.kind = "create" /\ Goto(k, "done") /\ UNCHANGED issued
    BY DEF CreateInsert
<1>2. PICK b \in Bots, s \in Strategies : b = op.bot /\ s = op.arg
    BY <1>1, OpFacts DEF OpRec
<1>3. CASE UNCHANGED <<obj, made, bots, row>>
    BY <1>1, <1>3, FrameSame, DoneConfig DEF ConfigInv
<1>4. CASE /\ made # MaxObjs /\ made' = made + 1
           /\ obj' = [obj EXCEPT ![made + 1] = NewBot(op.bot, op.arg)]
           /\ bots' = [bots EXCEPT ![op.bot] = made + 1]
           /\ row' = [row EXCEPT ![op.bot].strategy = op.arg]
  <2>1. PICK r, m : r = NewBot(b, s) /\ m = made + 1
    OBVIOUS
  <2>2. r \in BotRec /\ r.bot = b
    BY <2>1, NewBotOK, BotsFacts
  <2>3. /\ made \in Nat /\ NBots <= made /\ made <= MaxObjs /\ m \in Nat /\ m = made + 1 /\ m <= MaxObjs
        /\ m \in Objs /\ m \notin Bots
    BY <1>4, <2>1, BotsFacts DEF ConfigInv, ObjsOK, Objs, Bots
  <2>4. obj' = [obj EXCEPT ![m] = r] /\ bots' = [bots EXCEPT ![b] = m] /\ row' = [row EXCEPT ![b].strategy = s]
    BY <1>2, <1>4, <2>1
  <2>5. obj' \in [Objs -> BotRec] /\ \A o \in Objs : obj'[o] = IF o = m THEN r ELSE obj[o]
    BY <2>2, <2>3, <2>4 DEF ConfigInv, ObjsOK
  <2>6. bots' \in [Bots -> Nat] /\ \A c \in Bots : bots'[c] = IF c = b THEN m ELSE bots[c]
    BY <2>3, <2>4 DEF ConfigInv, Registry
  <2>7. \A o \in 1..made' : o \in Objs /\ (o # m => o \in 1..made)
    BY <1>4, <2>3, BotsFacts DEF Objs
  <2>8. \A c \in Bots : c \in Objs /\ c # m
    BY <2>3, BotsFacts
  <2>9. ObjsOK'
    <3>1. ASSUME NEW o \in 1..made' PROVE obj'[o].bot \in Bots
      <4>1. CASE o = m
        BY <2>2, <2>3, <2>5, <4>1
      <4>2. CASE o # m
        BY <2>5, <2>7, <4>2 DEF ConfigInv, ObjsOK
      <4> QED
        BY <4>1, <4>2
    <3>2. \A c \in Bots : obj'[c].bot = c
      BY <2>5, <2>8 DEF ConfigInv, ObjsOK
    <3>3. made' \in Nat /\ NBots <= made' /\ made' <= MaxObjs
      BY <1>4, <2>3, BotsFacts
    <3> QED
      BY <2>5, <3>1, <3>2, <3>3 DEF ObjsOK
  <2>10. Registry'
    <3>1. ASSUME NEW c \in Bots PROVE bots'[c] <= made' /\ (bots'[c] # 0 => obj'[bots'[c]].bot = c)
      <4>1. CASE c = b
        BY <1>4, <2>1, <2>2, <2>3, <2>5, <2>6, <4>1
      <4>2. CASE c # b
        <5>1. bots'[c] = bots[c] /\ bots[c] <= made /\ bots[c] \in Nat
          BY <2>6, <4>2 DEF ConfigInv, Registry
        <5>2. bots[c] # 0 => bots[c] \in Objs /\ bots[c] # m
          BY <2>3, <5>1, BotsFacts DEF Objs
        <5> QED
          BY <1>4, <2>3, <2>5, <5>1, <5>2 DEF ConfigInv, Registry
      <4> QED
        BY <4>1, <4>2
    <3>2. ASSUME NEW o \in 1..made', obj'[o].bot # o PROVE bots'[obj'[o].bot] # obj'[o].bot
      <4>1. CASE o = m
        BY <2>2, <2>3, <2>5, <2>6, <4>1
      <4>2. CASE o # m
        <5>1. o \in 1..made /\ obj'[o] = obj[o] /\ obj[o].bot \in Bots
          BY <2>5, <2>7, <4>2 DEF ConfigInv, ObjsOK
        <5>2. bots[obj[o].bot] # obj[o].bot
          BY <3>2, <5>1 DEF ConfigInv, Registry
        <5> QED
          BY <2>3, <2>6, <5>1, <5>2
      <4> QED
        BY <4>1, <4>2
    <3> QED
      BY <2>6, <3>1, <3>2 DEF Registry
  <2>11. RowsKept'
    <3>1. row' \in [Bots -> [status : {"created", "deleted"}, strategy : Strategies]]
      BY <2>4 DEF ConfigInv, RowsKept
    <3>2. \A c \in Bots : c # b => row'[c] = row[c]
      BY <2>4 DEF ConfigInv, RowsKept
    <3>3. ASSUME NEW c \in Bots, bots'[c] = c PROVE row'[c].strategy = obj'[c].strategy
      <4>1. c # b
        BY <2>3, <2>6, <3>3
      <4> QED
        BY <2>5, <2>6, <2>8, <3>2, <3>3, <4>1 DEF ConfigInv, RowsKept
    <3> QED
      BY <3>1, <3>3 DEF RowsKept
  <2>12. ASSUME NEW p, Holds(p) PROVE Holds(p)'
    <3>1. p.kind \in {"stop", "assign", "update", "delete"} =>
            /\ p.obj \in 1..made /\ p.obj \in Objs /\ p.obj # m /\ p.obj \in 1..made' /\ obj[p.obj].bot = p.bot
      BY <1>4, <2>3, <2>12, BotsFacts DEF Holds, Objs
    <3> QED
      BY <2>5, <2>12, <3>1 DEF Holds
  <2>13. OpsOK'
    BY <1>1, <2>12, OpDone DEF ConfigInv, HoldsOn
  <2> QED
    BY <2>9, <2>10, <2>11, <2>13 DEF ConfigInv
<1> QED
    BY <1>3, <1>4 DEF CreateInsert

\* stop_bot ends.
LEMMA StopEndConfig ==
    ASSUME ConfigInv, NEW k \in Cmds, StopFinish(k) \/ StopRules(k)
    PROVE  ConfigInv'
<1>1. CASE StopFinish(k)
  <2>1. /\ ops[k].pc = "stopping" /\ obj' = [obj EXCEPT ![ops[k].obj].status = "stopped"]
        /\ Goto(k, AfterStop(ops[k])) /\ UNCHANGED <<made, bots, row, issued>>
    BY <1>1 DEF StopFinish
  <2>2. PICK o, p, pc : o = ops[k].obj /\ p = ops[k] /\ pc = AfterStop(ops[k])
    OBVIOUS
  <2>3. "stopped" \in Statuses
    BY DEF Statuses
  <2>4. Frame
    BY <2>1, <2>2, <2>3, StatusFrame DEF ConfigInv
  <2>5. p \in OpRec /\ p.kind \in {"stop", "assign", "delete", "suspend"}
    BY <2>1, <2>2, OpFacts DEF Waits
  <2>6. /\ (p.kind = "stop" => pc = "rules") /\ (p.kind = "assign" => pc = "swap")
        /\ (p.kind = "delete" => pc = "release") /\ (p.kind = "suspend" => pc = "scan")
    BY <2>2 DEF AfterStop
  <2>7. pc \in OpPcs /\ pc # "done" /\ ops[k].kind # "none"
    BY <2>2, <2>5, <2>6 DEF OpPcs
  <2>8. Waits([p EXCEPT !.pc = pc])
    BY <2>5, <2>6, <2>7, WaitsNext
  <2>9. Goto(k, pc) /\ Waits([ops[k] EXCEPT !.pc = pc])
    BY <2>1, <2>2, <2>8
  <2> QED
    BY <2>1, <2>4, <2>7, <2>9, WaitsConfig
<1>2. CASE StopRules(k)
    BY <1>2, FrameSame, DoneConfig DEF StopRules, ConfigInv
<1> QED
    BY <1>1, <1>2

\* A restart after the new strategy, a refused update and the end of an update.
LEMMA RestartConfig ==
    ASSUME ConfigInv, NEW k \in Cmds, AssignRestart(k) \/ UpdateInvalid(k) \/ UpdateSave(k)
    PROVE  ConfigInv'
<1>1. Goto(k, "done") /\ UNCHANGED <<made, bots, row, issued>>
    BY DEF AssignRestart, UpdateInvalid, UpdateSave
<1>2. obj' = obj \/ obj' = Started(ops[k].obj)
    BY DEF AssignRestart, UpdateInvalid, UpdateSave
<1>3. PICK o : o = ops[k].obj
    OBVIOUS
<1>4. Frame
    BY <1>2, <1>3, FrameSame, StartedFrame DEF ConfigInv
<1> QED
    BY <1>1, <1>4, DoneConfig

\* assign_strategy writes the new strategy.
LEMMA SwapConfig ==
    ASSUME ConfigInv, NEW k \in Cmds, AssignSwap(k)
    PROVE  ConfigInv'
<1>1. PICK p, o, s : p = ops[k] /\ o = ops[k].obj /\ s = ops[k].arg
    OBVIOUS
<1>2. /\ Goto(k, "restart") /\ UNCHANGED <<made, bots, issued>> /\ p.pc = "swap"
      /\ obj' = [obj EXCEPT ![o].strategy = s] /\ row' = Saved(o, s)
    BY <1>1 DEF AssignSwap
<1>3. p \in OpRec /\ s \in Strategies /\ p.kind = "assign"
    BY <1>1, <1>2, OpFacts DEF Waits, OpRec
<1>4. o \in 1..made
    BY <1>1, <1>3, OpFacts
<1>5. ObjsOK' /\ Registry' /\ RowsKept' /\ HoldsOn
    BY <1>2, <1>3, <1>4, StrategyWritten
<1>6. PICK pc \in OpPcs : pc = "restart"
    BY DEF OpPcs
<1>7. Waits([p EXCEPT !.pc = pc])
    BY <1>3, <1>6, WaitsNext
<1>8. OpsOK'
    BY <1>1, <1>2, <1>3, <1>5, <1>6, <1>7, OpWaits DEF ConfigInv
<1> QED
    BY <1>5, <1>8 DEF ConfigInv

\* update_bot writes it and remembers the one it replaces.
LEMMA CommitConfig ==
    ASSUME ConfigInv, NEW k \in Cmds, UpdateCommit(k)
    PROVE  ConfigInv'
<1>1. PICK p, o, s, old : p = ops[k] /\ o = ops[k].obj /\ s = ops[k].arg /\ old = obj[o].strategy
    OBVIOUS
<1>2. PICK x : x = [p EXCEPT !.pc = "budget", !.old = old]
    OBVIOUS
<1>3. /\ ops' = [ops EXCEPT ![k] = x] /\ UNCHANGED <<made, bots, issued>> /\ p.pc = "validate"
      /\ obj' = [obj EXCEPT ![o].strategy = s] /\ row' = Saved(o, s)
    BY <1>1, <1>2 DEF UpdateCommit
<1>4. p \in OpRec /\ s \in Strategies /\ p.kind = "update"
    BY <1>1, <1>3, OpFacts DEF Waits, OpRec
<1>5. o \in 1..made
    BY <1>1, <1>4, OpFacts
<1>6. ObjsOK' /\ Registry' /\ RowsKept' /\ HoldsOn
    BY <1>3, <1>4, <1>5, StrategyWritten
<1>7. old \in Strategies
  <2>1. o \in Objs
    BY <1>5, BotsFacts DEF ConfigInv, ObjsOK, Objs
  <2> QED
    BY <1>1, <2>1 DEF ConfigInv, ObjsOK, BotRec
<1>8. x \in OpRec /\ x.kind = p.kind /\ x.pc = "budget" /\ x.bot = p.bot /\ x.obj = p.obj
    BY <1>2, <1>4, <1>7 DEF OpRec, OpPcs
<1>9. Holds(p)'
    BY <1>1, <1>6 DEF HoldsOn, ConfigInv, OpsOK
<1>10. Waits(x) /\ Holds(x)'
    BY <1>4, <1>8, <1>9 DEF Waits, Holds
<1>11. OpsOK'
    BY <1>1, <1>3, <1>4, <1>6, <1>8, <1>10, OpMoves DEF ConfigInv
<1> QED
    BY <1>6, <1>11 DEF ConfigInv

\* An update that fails restores the configuration it found.
LEMMA RollbackConfig ==
    ASSUME ConfigInv, NEW k \in Cmds, UpdateRollback(k)
    PROVE  ConfigInv'
<1>1. PICK p, o, s : p = ops[k] /\ o = ops[k].obj /\ s = ops[k].old
    OBVIOUS
<1>2. Goto(k, "done") /\ UNCHANGED <<made, bots, issued>> /\ p.pc = "budget"
    BY <1>1 DEF UpdateRollback
<1>3. p \in OpRec /\ s \in Strategies /\ p.kind = "update"
    BY <1>1, <1>2, OpFacts DEF Waits, OpRec
<1>4. o \in 1..made /\ obj[o].bot = p.bot
    BY <1>1, <1>3, OpFacts
<1>5. CASE obj[o].strategy = p.arg
  <2>1. obj' = [obj EXCEPT ![o].strategy = s] /\ row' = IF bots[p.bot] = o THEN Saved(o, s) ELSE row
    BY <1>1, <1>5 DEF UpdateRollback
  <2>2. row' = Saved(o, s) \/ (row' = row /\ bots[obj[o].bot] # o)
    BY <1>4, <2>1
  <2>3. ObjsOK' /\ Registry' /\ RowsKept' /\ HoldsOn
    BY <1>2, <1>3, <1>4, <2>1, <2>2, StrategyWritten
  <2> QED
    BY <1>2, <2>3, OpDone DEF ConfigInv
<1>6. CASE obj[o].strategy # p.arg
  <2>1. UNCHANGED <<obj, row>>
    BY <1>1, <1>6 DEF UpdateRollback
  <2> QED
    BY <1>2, <2>1, FrameSame, DoneConfig DEF ConfigInv
<1> QED
    BY <1>5, <1>6

\* A deletion goes on to a later await.
LEMMA DeletionMoves ==
    ASSUME ConfigInv, NEW k \in Cmds, NEW pc \in {"fetch", "again", "clear", "unregister"},
           ops[k].kind = "delete", Goto(k, pc), UNCHANGED <<obj, made, bots, row, issued>>
    PROVE  ConfigInv'
<1>1. PICK p : p = ops[k]
    OBVIOUS
<1>2. p \in OpRec /\ pc \in OpPcs /\ pc # "done"
    BY <1>1, OpFacts DEF OpPcs
<1>3. Waits([p EXCEPT !.pc = pc])
    BY <1>1, <1>2, WaitsNext
<1>4. Frame
    BY FrameSame DEF ConfigInv
<1> QED
    BY <1>1, <1>2, <1>3, <1>4, WaitsConfig

\* A deletion releases the budget and deletes its row.
LEMMA ReleaseConfig ==
    ASSUME ConfigInv, NEW k \in Cmds, DeleteRelease(k) \/ DeleteCredit(k) \/ DeleteClear(k)
    PROVE  ConfigInv'
<1>1. /\ UNCHANGED <<obj, made, bots, row, issued>>
      /\ ops[k].pc \in {"release", "found", "last", "clear"}
    BY DEF DeleteRelease, DeleteCredit, DeleteClear
<1>2. PICK pc \in {"fetch", "again", "clear", "unregister"} : Goto(k, pc)
    <2>1. CASE DeleteRelease(k)
      BY <2>1 DEF DeleteRelease, TakeBudget, Credit
    <2>2. CASE DeleteClear(k)
      BY <2>2 DEF DeleteClear
    <2>3. CASE DeleteCredit(k)
      BY <2>3 DEF DeleteCredit, TakeBudget, Credit
    <2> QED
      BY <2>1, <2>2, <2>3
<1>3. ops[k].kind = "delete"
    BY <1>1, OpFacts DEF Waits
<1> QED
    BY <1>1, <1>2, <1>3, DeletionMoves

\* It has read the row.
LEMMA ReadConfig ==
    ASSUME ConfigInv, NEW k \in Cmds, DeleteRead(k), budgetRow \in [Bots -> Nat]
    PROVE  ConfigInv'
<1>1. PICK p : p = ops[k]
    OBVIOUS
<1>2. UNCHANGED <<obj, made, bots, row, issued>> /\ p.pc \in {"fetch", "again"}
    BY <1>1 DEF DeleteRead
<1>3. p \in OpRec /\ p.kind = "delete" /\ p.bot \in Bots
    BY <1>1, <1>2, OpFacts DEF Waits
<1>4. PICK pc \in {"found", "last"}, n \in Nat :
        pc = (IF p.pc = "fetch" THEN "found" ELSE "last") /\ n = budgetRow[p.bot]
    BY <1>3
<1>5. PICK x : x = [p EXCEPT !.pc = pc, !.got = n]
    OBVIOUS
<1>6. ops' = [ops EXCEPT ![k] = x]
    BY <1>1, <1>4, <1>5 DEF DeleteRead
<1>7. x \in OpRec /\ x.kind = "delete" /\ x.pc = pc /\ x.bot = p.bot /\ x.obj = p.obj
    BY <1>3, <1>5 DEF OpRec, OpPcs
<1>8. ObjsOK' /\ Registry' /\ RowsKept' /\ HoldsOn
    BY <1>2, FrameSame, FrameConfig DEF HoldsOn, ConfigInv
<1>9. Holds(p)'
    BY <1>1, <1>8 DEF HoldsOn, ConfigInv, OpsOK
<1>10. Waits(x) /\ Holds(x)'
    BY <1>3, <1>7, <1>9 DEF Waits, Holds
<1>11. OpsOK'
    BY <1>1, <1>2, <1>3, <1>6, <1>7, <1>8, <1>10, OpMoves DEF ConfigInv
<1> QED
    BY <1>8, <1>11 DEF ConfigInv

\* The budget of an update.
LEMMA BudgetConfig ==
    ASSUME ConfigInv, NEW k \in Cmds, UpdateBudget(k)
    PROVE  ConfigInv'
<1>1. PICK p : p = ops[k]
    OBVIOUS
<1>2. UNCHANGED <<obj, made, bots, row, issued>> /\ p.pc = "budget" /\ Goto(k, "save")
    BY <1>1 DEF UpdateBudget
<1>3. p \in OpRec /\ p.kind = "update"
    BY <1>1, <1>2, OpFacts DEF Waits
<1>4. PICK pc \in OpPcs : pc = "save"
    BY DEF OpPcs
<1>5. Waits([p EXCEPT !.pc = pc])
    BY <1>3, <1>4, WaitsNext
<1>6. Frame
    BY <1>2, FrameSame DEF ConfigInv
<1> QED
    BY <1>1, <1>2, <1>3, <1>4, <1>5, <1>6, WaitsConfig

\* A deletion unregisters the bot.
LEMMA FinishConfig ==
    ASSUME ConfigInv, NEW k \in Cmds, DeleteFinish(k)
    PROVE  ConfigInv'
<1>1. PICK o : o = ops[k].obj
    OBVIOUS
<1>2. /\ ops[k].pc = "unregister" /\ obj' = [obj EXCEPT ![o].status = "deleted"]
      /\ Goto(k, "done") /\ UNCHANGED <<made, issued>>
    BY <1>1 DEF DeleteFinish
<1>3. PICK b \in Bots : b = ops[k].bot
    BY <1>2, OpFacts DEF Waits
<1>4. bots' = [bots EXCEPT ![b] = 0] /\ row' = IF Known(b) THEN [row EXCEPT ![b].status = "deleted"] ELSE row
    BY <1>3 DEF DeleteFinish
<1>5. Frame
    BY <1>2, StatusFrame DEF ConfigInv, Statuses
<1>6. ObjsOK' /\ (\A p \in 1..made : p \in Objs) /\ \A c \in Bots : c \in Objs /\ c # 0
    BY <1>2, <1>5, FrameObjs, BotsFacts DEF ConfigInv
<1>7. \A p \in Objs : obj'[p].bot = obj[p].bot /\ obj'[p].strategy = obj[p].strategy
    BY <1>5 DEF Frame
<1>8. bots' \in [Bots -> Nat] /\ \A c \in Bots : bots'[c] = IF c = b THEN 0 ELSE bots[c]
    BY <1>4 DEF ConfigInv, Registry
<1>9. Registry'
  <2>1. \A c \in Bots : bots[c] # 0 => bots[c] \in Objs
    BY BotsFacts DEF ConfigInv, Registry, ObjsOK, Objs
  <2>2. \A c \in Bots : bots'[c] <= made' /\ (bots'[c] # 0 => obj'[bots'[c]].bot = c)
    BY <1>2, <1>7, <1>8, <2>1 DEF ConfigInv, Registry, ObjsOK
  <2>3. \A p \in 1..made' : obj'[p].bot # p => bots'[obj'[p].bot] # obj'[p].bot
    <3>1. SUFFICES ASSUME NEW p \in 1..made, obj[p].bot # p PROVE bots'[obj[p].bot] # obj[p].bot
      BY <1>2, <1>6, <1>7
    <3>2. obj[p].bot \in Bots /\ bots[obj[p].bot] # obj[p].bot
      BY <3>1 DEF ConfigInv, ObjsOK, Registry
    <3> QED
      BY <1>6, <1>8, <3>2
  <2> QED
    BY <1>8, <2>2, <2>3 DEF Registry
<1>10. RowsKept'
  <2>1. /\ row' \in [Bots -> [status : {"created", "deleted"}, strategy : Strategies]]
        /\ \A c \in Bots : row'[c].strategy = row[c].strategy
    BY <1>4 DEF ConfigInv, RowsKept
  <2>2. \A c \in Bots : bots'[c] = c => bots[c] = c
    BY <1>6, <1>8
  <2> QED
    BY <1>6, <1>7, <2>1, <2>2 DEF ConfigInv, RowsKept
<1>11. ASSUME NEW p, Holds(p) PROVE Holds(p)'
    BY <1>2, <1>6, <1>7, <1>11 DEF Holds
<1>12. OpsOK'
    BY <1>2, <1>11, OpDone DEF ConfigInv, HoldsOn
<1> QED
    BY <1>6, <1>9, <1>10, <1>12 DEF ConfigInv

\* A suspension stops the next bot of its list.
LEMMA ScanConfig ==
    ASSUME ConfigInv, NEW k \in Cmds, SuspendNext(k)
    PROVE  ConfigInv'
<1>1. PICK p : p = ops[k]
    OBVIOUS
<1>2. p.pc = "scan" /\ UNCHANGED <<made, bots, row, issued>>
    BY <1>1 DEF SuspendNext
<1>3. p \in OpRec /\ p.kind = "suspend" /\ ops[k].kind # "none"
    BY <1>1, <1>2, OpFacts DEF Waits
<1>4. CASE Goto(k, "done") /\ UNCHANGED obj
    BY <1>2, <1>4, FrameSame, DoneConfig DEF ConfigInv
<1>5. ASSUME NEW o \in p.todo, obj' = Stopping({o}) \/ obj' = obj,
             \/ ops' = [ops EXCEPT ![k] = [p EXCEPT !.pc = "stopping", !.obj = o, !.todo = @ \ {o}]]
             \/ ops' = [ops EXCEPT ![k].todo = @ \ {o}]
      PROVE  ConfigInv'
  <2>1. Frame
    BY <1>5, FrameSame, StoppingFrame DEF ConfigInv
  <2>2. ObjsOK' /\ Registry' /\ RowsKept' /\ HoldsOn
    BY <1>2, <2>1, FrameConfig DEF HoldsOn
  <2>3. o \in Nat /\ p.todo \subseteq Nat
    BY <1>3, <1>5 DEF OpRec
  <2>4. PICK x : /\ x = [p EXCEPT !.pc = "stopping", !.obj = o, !.todo = @ \ {o}] \/ x = [p EXCEPT !.todo = @ \ {o}]
                 /\ ops' = [ops EXCEPT ![k] = x]
    BY <1>1, <1>5
  <2>5. x \in OpRec /\ x.kind = "suspend" /\ x.pc \in {"scan", "stopping"}
    BY <1>2, <1>3, <2>3, <2>4 DEF OpRec, OpPcs
  <2>6. Waits(x) /\ Holds(x)'
    BY <2>5 DEF Waits, Holds
  <2>7. OpsOK'
    BY <1>2, <1>3, <2>2, <2>4, <2>5, <2>6, OpMoves DEF ConfigInv
  <2> QED
    BY <2>2, <2>7 DEF ConfigInv
<1>6. \/ Goto(k, "done") /\ UNCHANGED obj
      \/ \E o \in p.todo : /\ obj' = Stopping({o}) \/ obj' = obj
                           /\ \/ ops' = [ops EXCEPT ![k] = [p EXCEPT !.pc = "stopping", !.obj = o, !.todo = @ \ {o}]]
                              \/ ops' = [ops EXCEPT ![k].todo = @ \ {o}]
    BY <1>1 DEF SuspendNext
<1> QED
    BY <1>4, <1>5, <1>6

\* Loops, restarts and resets.
LEMMA RunConfig ==
    ASSUME ConfigInv, Frame, UNCHANGED <<made, bots, row, ops, issued>>
    PROVE  ConfigInv'
<1>1. ObjsOK' /\ Registry' /\ RowsKept' /\ HoldsOn
    BY FrameConfig DEF HoldsOn
<1> QED
    BY <1>1 DEF ConfigInv, OpsOK, HoldsOn

\* A turn of a bot's loop.
LEMMA LoopConfig ==
    ASSUME ConfigInv, NEW o \in Objs, NEW slot \in Slots,
           LoopTurn(o, slot) \/ StepStarts(o, slot) \/ Step(o, slot)
    PROVE  ConfigInv'
<1>1. UNCHANGED <<made, bots, row, ops, issued>>
    BY DEF LoopTurn, StepStarts, Step, StepOk, StepTimeout, StepOverflow, StepRaises
<1>2. MaxFails \in Nat
    BY BotsAssumption
<1>3. Frame
    BY <1>2, LoopFrame DEF ConfigInv
<1> QED
    BY <1>1, <1>3, RunConfig

\* A restart that was due, or the reset of its counter.
LEMMA FiresConfig ==
    ASSUME ConfigInv, (\E t \in waiting : RestartFires(t)) \/ (\E b \in Bots : ResetFires(b))
    PROVE  ConfigInv'
<1>1. UNCHANGED <<made, bots, row, ops, issued>> /\ (obj' = obj \/ \E t \in waiting : obj' = Started(t.obj))
    BY DEF RestartFires, ResetFires
<1>2. Frame
  <2>1. ASSUME NEW t \in waiting, obj' = Started(t.obj) PROVE Frame
    <3>1. PICK o : o = t.obj
      OBVIOUS
    <3> QED
      BY <2>1, <3>1, StartedFrame DEF ConfigInv
  <2> QED
    BY <1>1, <2>1, FrameSame DEF ConfigInv
<1> QED
    BY <1>1, <1>2, RunConfig

\* The invariant holds initially.
LEMMA ConfigInit ==
    ASSUME BotInit
    PROVE  ConfigInv
<1>1. /\ obj = [o \in Objs |-> NewBot(IF o \in Bots THEN o ELSE 0, First)] /\ made = NBots
      /\ bots = [b \in Bots |-> b] /\ row = [b \in Bots |-> [status |-> "created", strategy |-> First]]
      /\ ops = [k \in Cmds |-> NoOp] /\ issued = 0
    BY DEF BotInit
<1>2. /\ obj \in [Objs -> BotRec]
      /\ \A o \in Objs : obj[o].bot = (IF o \in Bots THEN o ELSE 0) /\ obj[o].strategy = First
    <2>1. ASSUME NEW o \in Objs
          PROVE  /\ obj[o] \in BotRec /\ obj[o].bot = (IF o \in Bots THEN o ELSE 0)
                 /\ obj[o].strategy = First
      <3>1. PICK b \in Nat, s \in Strategies : b = (IF o \in Bots THEN o ELSE 0) /\ s = First
        BY BotsFacts
      <3> QED
        BY <1>1, <3>1, NewBotOK
    <2> QED
      BY <1>1, <2>1
<1>3. \A b \in Bots : b \in Objs /\ b \in Nat
    BY BotsFacts
<1>4. \A o \in 1..made : o \in Bots /\ o \in Objs
    BY <1>1, BotsFacts DEF Bots
<1>5. ObjsOK
    BY <1>1, <1>2, <1>3, <1>4, BotsFacts DEF ObjsOK
<1>6. Registry
    BY <1>1, <1>2, <1>3, <1>4, BotsFacts DEF Registry
<1>7. OpsOK
  <2>1. PICK n : n = NoOp
    OBVIOUS
  <2>2. n \in OpRec /\ Waits(n) /\ Holds(n)
    BY <2>1, NoOpOK DEF Holds
  <2>3. \A k \in Cmds : ops[k] = n
    BY <1>1, <2>1
  <2>4. ops \in [Cmds -> OpRec]
    BY <1>1, <2>1, <2>2
  <2> QED
    BY <1>1, <2>1, <2>2, <2>3, <2>4, BotsFacts DEF OpsOK
<1>8. RowsKept
    BY <1>1, <1>2, <1>3, BotsFacts DEF RowsKept
<1> QED
    BY <1>5, <1>6, <1>7, <1>8 DEF ConfigInv

\* Every step preserves it.
LEMMA ConfigNext ==
    ASSUME ConfigInv, budgetRow \in [Bots -> Nat], [BotNext]_botsVars
    PROVE  ConfigInv'
<1>1. CASE UNCHANGED botsVars
  <2>1. UNCHANGED <<obj, made, bots, row, ops, issued>>
    BY <1>1 DEF botsVars
  <2> QED
    BY <2>1, FrameSame, RunConfig DEF ConfigInv
<1>2. CASE \E b \in Bots : BotCommand(b)
    BY <1>2, StartConfig, StopConfig, DeleteConfig, CreateConfig, AssignConfig, UpdateConfig DEF BotCommand
<1>3. CASE Suspend \/ Activate \/ StopAll
    BY <1>3, SuspendConfig
<1>4. CASE \E k \in Cmds : Continue(k)
    BY <1>4, InsertConfig, StopEndConfig, SwapConfig, RestartConfig, RollbackConfig, ReleaseConfig,
       FinishConfig, ScanConfig, CommitConfig, ReadConfig, BudgetConfig DEF Continue
<1>5. CASE \E o \in Objs, slot \in Slots : LoopTurn(o, slot) \/ StepStarts(o, slot) \/ Step(o, slot)
    BY <1>5, LoopConfig
<1>6. CASE (\E t \in waiting : RestartFires(t)) \/ (\E b \in Bots : ResetFires(b))
    BY <1>6, FiresConfig
<1> QED
    BY <1>1, <1>2, <1>3, <1>4, <1>5, <1>6 DEF BotNext

-----------------------------------------------------------------------------
(* Budgets *)

Entry == [cmd : Cmds, bot : Bots, val : Nat]
Purse ==
    /\ budget \in [Bots -> Nat] /\ budgetRow \in [Bots -> Nat] /\ free \in Nat
    /\ line \in Seq(Entry)

\* A statement in line is that of a command that waits for it, which has no other there.
Waiting(ws, os) ==
    /\ \A i \in 1..Len(ws) : IF ws[i].val = 0
                             THEN /\ os[ws[i].cmd].kind = "delete" /\ os[ws[i].cmd].bot = ws[i].bot
                                  /\ os[ws[i].cmd].pc = "clear"
                             ELSE os[ws[i].cmd].pc = "save"
    /\ \A i, j \in 1..Len(ws) : ws[i].cmd = ws[j].cmd => i = j

\* A DELETE for b waits behind place n.
Cleared(ws, b, n) == \E i \in 1..Len(ws) : i > n /\ ws[i].bot = b /\ ws[i].val = 0

\* What is above the budget in memory, in the table or in line, is about to be deleted.
RowsLead(ws, f, r) == \A b \in Bots : r[b] > f[b] => Cleared(ws, b, 0)
SavesLead(ws, f) == \A i \in 1..Len(ws) : ws[i].val > f[ws[i].bot] => Cleared(ws, ws[i].bot, i)

DeletesAt(k, b) == ops[k].kind = "delete" /\ ops[k].bot = b
OneDelete == \A j, k \in Cmds, b \in Bots : DeletesAt(j, b) /\ DeletesAt(k, b) => j = k

\* A deletion that asks for the row has found no budget in memory, and finds none there.
Fetch == {"fetch", "again"}
Fetched == {"found", "last"}
ReadsEmpty == \A k \in Cmds : /\ ops[k].pc \in Fetch => budget[ops[k].bot] = 0
                              /\ ops[k].pc \in Fetched => ops[k].got = 0

Conserved == free + SumFunctionOnSet(budget, Bots) = Funds + NBots
MoneyOK ==
    /\ Conserved /\ OneDelete /\ ReadsEmpty
    /\ RowsLead(line, budget, budgetRow) /\ SavesLead(line, budget)
MoneyInv == ConfigInv /\ Purse /\ Waiting(line, ops) /\ (twice \cup added = {} => MoneyOK)

\* A DELETE joins the line when the budget in memory goes.
LEMMA ClearJoins ==
    ASSUME NEW ws \in Seq(Entry), NEW e \in Entry, e.val = 0, NEW f \in [Bots -> Nat], NEW r \in [Bots -> Nat],
           RowsLead(ws, f, r), SavesLead(ws, f)
    PROVE  /\ RowsLead(Append(ws, e), [f EXCEPT ![e.bot] = 0], r)
           /\ SavesLead(Append(ws, e), [f EXCEPT ![e.bot] = 0])
<1> DEFINE vs == Append(ws, e)
           g == [f EXCEPT ![e.bot] = 0]
           m == Len(ws)
<1>1. m \in Nat /\ Len(vs) = m + 1 /\ vs[m + 1] = e /\ (\A i \in 1..m : vs[i] = ws[i]) /\ \A i \in 1..m : ws[i] \in Entry
    BY AppendProperties, LenProperties, ElementOfSeq
<1>2. e.bot \in Bots /\ \A i \in 1..m : ws[i].bot \in Bots /\ ws[i].val \in Nat
    BY <1>1 DEF Entry
<1>3. \A b \in Bots : g[b] = IF b = e.bot THEN 0 ELSE f[b]
    OBVIOUS
<1> HIDE DEF vs, g, m
<1>4. \A n \in Nat : n < m + 1 => Cleared(vs, e.bot, n)
    BY <1>1 DEF Cleared
<1>5. \A b, n : Cleared(ws, b, n) => Cleared(vs, b, n)
    BY <1>1 DEF Cleared, m
<1>6. RowsLead(vs, g, r)
    BY <1>1, <1>3, <1>4, <1>5 DEF RowsLead
<1>7. ASSUME NEW i \in 1..Len(vs), vs[i].val > g[vs[i].bot] PROVE Cleared(vs, vs[i].bot, i)
  <2>1. CASE i = m + 1
    <3>1. g[e.bot] = 0
      BY <1>2, <1>3
    <3> QED
      BY <1>1, <1>7, <2>1, <3>1
  <2>2. CASE i # m + 1
    <3>1. i \in 1..m /\ i \in Nat /\ i < m + 1 /\ vs[i] = ws[i]
      BY <1>1, <2>2
    <3>2. CASE ws[i].bot = e.bot
      BY <1>4, <3>1, <3>2
    <3>3. CASE ws[i].bot # e.bot
      <4>1. ws[i].val > f[ws[i].bot]
        BY <1>2, <1>3, <1>7, <3>1, <3>3
      <4> QED
        BY <1>5, <3>1, <4>1 DEF SavesLead, m
    <3> QED
      BY <3>2, <3>3
  <2> QED
    BY <2>1, <2>2
<1>8. SavesLead(vs, g)
    BY <1>7 DEF SavesLead
<1> QED
    BY <1>6, <1>8 DEF vs, g

\* The row of a raised budget joins the line.
LEMMA SaveJoins ==
    ASSUME NEW ws \in Seq(Entry), NEW e \in Entry, NEW f \in [Bots -> Nat], NEW r \in [Bots -> Nat],
           e.val >= f[e.bot], RowsLead(ws, f, r), SavesLead(ws, f)
    PROVE  /\ RowsLead(Append(ws, e), [f EXCEPT ![e.bot] = e.val], r)
           /\ SavesLead(Append(ws, e), [f EXCEPT ![e.bot] = e.val])
<1> DEFINE vs == Append(ws, e)
           g == [f EXCEPT ![e.bot] = e.val]
           m == Len(ws)
<1>1. m \in Nat /\ Len(vs) = m + 1 /\ vs[m + 1] = e /\ (\A i \in 1..m : vs[i] = ws[i]) /\ \A i \in 1..m : ws[i] \in Entry
    BY AppendProperties, LenProperties, ElementOfSeq
<1>2. e.bot \in Bots /\ e.val \in Nat /\ \A i \in 1..m : ws[i].bot \in Bots /\ ws[i].val \in Nat
    BY <1>1 DEF Entry
<1>3. \A b \in Bots : g[b] = (IF b = e.bot THEN e.val ELSE f[b]) /\ g[b] >= f[b] /\ g[b] \in Nat /\ f[b] \in Nat
    BY <1>2
<1> HIDE DEF vs, g, m
<1>5. \A b, n : Cleared(ws, b, n) => Cleared(vs, b, n)
    BY <1>1 DEF Cleared, m
<1>6. RowsLead(vs, g, r)
    BY <1>3, <1>5 DEF RowsLead
<1>7. ASSUME NEW i \in 1..Len(vs), vs[i].val > g[vs[i].bot] PROVE Cleared(vs, vs[i].bot, i)
  <2>1. i # m + 1
    BY <1>1, <1>2, <1>3, <1>7
  <2>2. i \in 1..m /\ vs[i] = ws[i]
    BY <1>1, <2>1
  <2>3. ws[i].val > f[ws[i].bot]
    BY <1>2, <1>3, <1>7, <2>2
  <2> QED
    BY <1>5, <2>2, <2>3 DEF SavesLead, m
<1>8. SavesLead(vs, g)
    BY <1>7 DEF SavesLead
<1> QED
    BY <1>6, <1>8 DEF vs, g

\* The first statement of the line is executed.
LEMMA HeadLeaves ==
    ASSUME NEW ws \in Seq(Entry), ws # <<>>, NEW f \in [Bots -> Nat], NEW r \in [Bots -> Nat],
           RowsLead(ws, f, r), SavesLead(ws, f)
    PROVE  /\ RowsLead(Tail(ws), f, [r EXCEPT ![Head(ws).bot] = Head(ws).val])
           /\ SavesLead(Tail(ws), f)
<1> DEFINE vs == Tail(ws)
           e == Head(ws)
           q == [r EXCEPT ![e.bot] = e.val]
<1>1. /\ Len(ws) \in Nat /\ Len(ws) >= 1 /\ Len(vs) = Len(ws) - 1 /\ e = ws[1]
      /\ (\A i \in 1..Len(vs) : vs[i] = ws[i + 1]) /\ \A i \in 1..Len(ws) : ws[i] \in Entry
    BY HeadTailProperties, EmptySeq, LenProperties, ElementOfSeq
<1>2. e.bot \in Bots /\ e.val \in Nat
    BY <1>1 DEF Entry
<1>3. \A b \in Bots : q[b] = IF b = e.bot THEN e.val ELSE r[b]
    OBVIOUS
<1> HIDE DEF vs, e, q
<1>4. ASSUME NEW b, NEW n \in Nat, Cleared(ws, b, n + 1) PROVE Cleared(vs, b, n)
  <2>1. PICK i \in 1..Len(ws) : i > n + 1 /\ ws[i].bot = b /\ ws[i].val = 0
    BY <1>4 DEF Cleared
  <2>2. i - 1 \in 1..Len(vs) /\ vs[i - 1] = ws[i] /\ i - 1 > n
    BY <1>1, <2>1
  <2> QED
    BY <2>1, <2>2 DEF Cleared
<1>5. ASSUME NEW b \in Bots, q[b] > f[b] PROVE Cleared(vs, b, 0)
  <2>1. CASE b = e.bot
    <3>1. ws[1].val > f[ws[1].bot] /\ 1 \in 1..Len(ws)
      BY <1>1, <1>3, <1>5, <2>1
    <3>2. Cleared(ws, b, 0 + 1)
      BY <1>1, <2>1, <3>1 DEF SavesLead
    <3> QED
      BY <1>4, <3>2
  <2>2. CASE b # e.bot
    <3>1. Cleared(ws, b, 0)
      BY <1>3, <1>5, <2>2 DEF RowsLead
    <3>2. Cleared(ws, b, 0 + 1)
      BY <1>1, <2>2, <3>1 DEF Cleared
    <3> QED
      BY <1>4, <3>2
  <2> QED
    BY <2>1, <2>2
<1>6. ASSUME NEW i \in 1..Len(vs), vs[i].val > f[vs[i].bot] PROVE Cleared(vs, vs[i].bot, i)
  <2>1. i + 1 \in 1..Len(ws) /\ vs[i] = ws[i + 1] /\ i \in Nat
    BY <1>1
  <2>2. Cleared(ws, ws[i + 1].bot, i + 1)
    BY <1>6, <2>1 DEF SavesLead
  <2> QED
    BY <1>4, <2>1, <2>2
<1> QED
    BY <1>5, <1>6 DEF RowsLead, SavesLead, vs, e, q

\* The commands that wait in line stay there when another one joins.
LEMMA WaitingJoins ==
    ASSUME NEW ws \in Seq(Entry), NEW e \in Entry, NEW os, NEW ps, Waiting(ws, os),
           \A c \in Cmds : c # e.cmd => ps[c] = os[c],
           os[e.cmd].pc \notin {"clear", "save"},
           IF e.val = 0 THEN ps[e.cmd].kind = "delete" /\ ps[e.cmd].bot = e.bot /\ ps[e.cmd].pc = "clear"
                        ELSE ps[e.cmd].pc = "save"
    PROVE  Waiting(Append(ws, e), ps)
<1> DEFINE vs == Append(ws, e)
           m == Len(ws)
<1>1. m \in Nat /\ Len(vs) = m + 1 /\ vs[m + 1] = e /\ (\A i \in 1..m : vs[i] = ws[i]) /\ \A i \in 1..m : ws[i] \in Entry
    BY AppendProperties, LenProperties, ElementOfSeq
<1>2. \A i \in 1..m : ws[i].cmd \in Cmds /\ ws[i].cmd # e.cmd
    BY <1>1 DEF Waiting, Entry, m
<1> HIDE DEF vs, m
<1>3. \A i \in 1..Len(vs) : i = m + 1 \/ i \in 1..m
    BY <1>1
<1>4. \A i \in 1..Len(vs) : IF vs[i].val = 0
                            THEN ps[vs[i].cmd].kind = "delete" /\ ps[vs[i].cmd].bot = vs[i].bot /\ ps[vs[i].cmd].pc = "clear"
                            ELSE ps[vs[i].cmd].pc = "save"
    BY <1>1, <1>2, <1>3 DEF Waiting, m
<1>5. \A i, j \in 1..Len(vs) : vs[i].cmd = vs[j].cmd => i = j
    BY <1>1, <1>2, <1>3 DEF Waiting, m
<1> QED
    BY <1>4, <1>5 DEF Waiting, vs

\* They stay there when the first one goes.
LEMMA WaitingLeaves ==
    ASSUME NEW ws \in Seq(Entry), ws # <<>>, NEW os, NEW ps, Waiting(ws, os),
           \A c \in Cmds : c # Head(ws).cmd => ps[c] = os[c]
    PROVE  Waiting(Tail(ws), ps)
<1> DEFINE vs == Tail(ws)
<1>1. /\ Len(ws) \in Nat /\ Len(ws) >= 1 /\ Len(vs) = Len(ws) - 1 /\ Head(ws) = ws[1]
      /\ (\A i \in 1..Len(vs) : vs[i] = ws[i + 1]) /\ \A i \in 1..Len(ws) : ws[i] \in Entry
    BY HeadTailProperties, EmptySeq, LenProperties, ElementOfSeq
<1> HIDE DEF vs
<1>2. ASSUME NEW i \in 1..Len(vs)
      PROVE  /\ i + 1 \in 1..Len(ws) /\ vs[i] = ws[i + 1] /\ vs[i].cmd \in Cmds
             /\ ps[vs[i].cmd] = os[ws[i + 1].cmd]
  <2>1. i + 1 \in 1..Len(ws) /\ 1 \in 1..Len(ws) /\ i + 1 # 1 /\ vs[i] = ws[i + 1]
    BY <1>1
  <2>2. ws[i + 1].cmd \in Cmds /\ ws[i + 1].cmd # ws[1].cmd
    BY <1>1, <2>1 DEF Waiting, Entry
  <2> QED
    BY <1>1, <2>1, <2>2
<1>3. \A i \in 1..Len(vs) : IF vs[i].val = 0
                            THEN ps[vs[i].cmd].kind = "delete" /\ ps[vs[i].cmd].bot = vs[i].bot /\ ps[vs[i].cmd].pc = "clear"
                            ELSE ps[vs[i].cmd].pc = "save"
    BY <1>2 DEF Waiting
<1>4. ASSUME NEW i \in 1..Len(vs), NEW j \in 1..Len(vs), vs[i].cmd = vs[j].cmd PROVE i = j
  <2>1. i + 1 = j + 1
    BY <1>2, <1>4 DEF Waiting
  <2> QED
    BY <2>1
<1> QED
    BY <1>3, <1>4 DEF Waiting, vs

\* Initially memory and rows agree on every budget.
LEMMA MoneyInit ==
    ASSUME BotInit
    PROVE  MoneyInv
<1>1. budget \in [Bots -> {0, 1}] /\ budgetRow = budget /\ free \in 0..(Funds + NBots) /\ line = <<>>
    BY DEF BotInit
<1>2. Purse
  <2>1. line \in Seq(Entry)
    BY <1>1, EmptySeq
  <2> QED
    BY <1>1, <2>1, BotsFacts DEF Purse
<1>3. Conserved
    BY DEF BotInit, Conserved
<1>4. \A k \in Cmds : ops[k].kind = "none" /\ ops[k].pc = "done"
    BY NoOpOK DEF BotInit
<1>5. OneDelete /\ ReadsEmpty
    BY <1>4 DEF OneDelete, DeletesAt, ReadsEmpty, Fetch, Fetched
<1>6. Len(line) = 0
    BY <1>1
<1>7. RowsLead(line, budget, budgetRow) /\ SavesLead(line, budget) /\ Waiting(line, ops)
    BY <1>1, <1>6 DEF RowsLead, SavesLead, Waiting
<1> QED
    BY <1>2, <1>3, <1>5, <1>7, ConfigInit DEF MoneyInv, MoneyOK

\* No deletion begins, reads or is credited, and the commands in line stay there.
DeletesKept ==
    \A k \in Cmds : /\ ops'[k].kind = "delete" => ops[k].kind = "delete" /\ ops'[k].bot = ops[k].bot
                    /\ ops[k].pc \in {"clear", "save"} => ops'[k] = ops[k]
                    /\ ops'[k].pc \in Fetch \cup Fetched => ops'[k] = ops[k]

\* A step that moves no money and no deletion.
LEMMA MoneyQuiet ==
    ASSUME MoneyInv, ConfigInv', DeletesKept, UNCHANGED <<budget, budgetRow, free, line, past>>
    PROVE  MoneyInv'
<1>1. Purse' /\ UNCHANGED <<budget, budgetRow, free, line, twice, added>>
    BY DEF MoneyInv, Purse, past
<1>2. Waiting(line, ops)'
  <2>3. line \in Seq(Entry)
    BY DEF MoneyInv, Purse
  <2>4. \A i \in 1..Len(line) : line[i] \in Entry
    BY <2>3, ElementOfSeq
  <2>1. \A i \in 1..Len(line) : line[i].cmd \in Cmds
    BY <2>4 DEF Entry
  <2>2. \A i \in 1..Len(line) : ops'[line[i].cmd] = ops[line[i].cmd]
    BY <2>1 DEF MoneyInv, Waiting, DeletesKept
  <2> QED
    BY <1>1, <2>2 DEF MoneyInv, Waiting
<1>3. ASSUME MoneyOK PROVE MoneyOK'
  <2>1. Conserved'
    BY <1>1, <1>3 DEF MoneyOK, Conserved
  <2>2. OneDelete'
    BY <1>3 DEF MoneyOK, OneDelete, DeletesAt, DeletesKept
  <2>3. RowsLead(line, budget, budgetRow)' /\ SavesLead(line, budget)'
    BY <1>1, <1>3 DEF MoneyOK, RowsLead, SavesLead, Cleared
  <2>4. ReadsEmpty'
    BY <1>1, <1>3 DEF MoneyOK, ReadsEmpty, DeletesKept
  <2> QED
    BY <2>1, <2>2, <2>3, <2>4 DEF MoneyOK
<1> QED
    BY <1>1, <1>2, <1>3 DEF MoneyInv

\* A command that is not a deletion begins.
LEMMA IssueKeeps ==
    ASSUME OpsOK, NEW op, Issue(op), op.kind # "delete", op.pc \notin Fetch \cup Fetched
    PROVE  DeletesKept
<1>1. issued + 1 \in Cmds /\ issued + 1 > issued
    BY BotsFacts DEF OpsOK, Issue, Cmds
<1>2. ops[issued + 1] = NoOp
    BY <1>1 DEF OpsOK
<1>3. \A k \in Cmds : ops'[k] = IF k = issued + 1 THEN op ELSE ops[k]
    BY <1>1 DEF Issue, OpsOK
<1>4. ops[issued + 1].pc = "done"
    BY <1>2, NoOpOK
<1> QED
    BY <1>3, <1>4 DEF DeletesKept

\* A command that ends at once.
LEMMA AtomicKeeps ==
    ASSUME OpsOK, IssueAtomic
    PROVE  DeletesKept
<1>1. PICK op : op = NoOp
    OBVIOUS
<1>2. op.kind # "delete" /\ Issue(op) /\ op.pc = "done"
    BY <1>1, NoOpOK DEF IssueAtomic
<1> QED
    BY <1>2, IssueKeeps DEF Fetch, Fetched

\* A command becomes x.
Becomes(k, x) == \A j \in Cmds : ops'[j] = IF j = k THEN x ELSE ops[j]

\* A command that goes on and is not over keeps all but its place.
LEMMA GotoBecomes ==
    ASSUME OpsOK, NEW k \in Cmds, NEW pc, pc # "done", Goto(k, pc)
    PROVE  \E x : /\ Becomes(k, x) /\ x.pc = pc
                  /\ x.kind = ops[k].kind /\ x.bot = ops[k].bot /\ x.got = ops[k].got
<1>1. PICK y, x : y = ops[k] /\ x = [ops[k] EXCEPT !.pc = pc]
    OBVIOUS
<1>2. y \in OpRec
    BY <1>1 DEF OpsOK
<1>3. x.kind = y.kind /\ x.bot = y.bot /\ x.got = y.got /\ x.pc = pc
    BY <1>1, <1>2 DEF OpRec
<1>4. Becomes(k, x)
    BY <1>1 DEF Goto, OpsOK, Becomes
<1> QED
    BY <1>1, <1>3, <1>4

\* A command that is not in line goes on to a place where none reads.
LEMMA GotoKeeps ==
    ASSUME OpsOK, NEW k \in Cmds, NEW pc, Goto(k, pc), ops[k].pc \notin {"clear", "save"},
           pc \notin Fetch \cup Fetched
    PROVE  DeletesKept
<1>1. CASE pc = "done"
  <2>1. \A j \in Cmds : ops'[j] = IF j = k THEN NoOp ELSE ops[j]
    BY <1>1 DEF Goto, OpsOK
  <2> QED
    BY <2>1, NoOpOK DEF DeletesKept, Fetch, Fetched
<1>2. CASE pc # "done"
  <2>1. PICK x : Becomes(k, x) /\ x.pc = pc /\ x.kind = ops[k].kind /\ x.bot = ops[k].bot
    BY <1>2, GotoBecomes
  <2> QED
    BY <2>1 DEF Becomes, DeletesKept
<1> QED
    BY <1>1, <1>2

\* The steps that move no money.
LEMMA CommandMoney ==
    ASSUME MoneyInv, ConfigInv', NEW b \in Bots, BotCommand(b), ~Delete(b)
    PROVE  MoneyInv'
<1>1. UNCHANGED <<budget, budgetRow, free, line, past>>
    BY DEF BotCommand, Start, Resume, Stop, Create, ChangeStrategy, Assign, Update, money, past
<1>2. OpsOK
    BY DEF MoneyInv, ConfigInv
<1>3. CASE IssueAtomic
    BY <1>1, <1>2, <1>3, AtomicKeeps, MoneyQuiet
<1>4. CASE ~IssueAtomic
  <2>1. PICK op : Issue(op) /\ op.kind # "delete" /\ op.pc \notin Fetch \cup Fetched
    <3>1. CASE Stop(b)
      <4>1. PICK x : x = [NoOp EXCEPT !.kind = "stop", !.bot = b, !.obj = bots[b], !.pc = "stopping"]
        OBVIOUS
      <4>2. x.kind = "stop" /\ x.pc = "stopping"
        BY <4>1 DEF NoOp
      <4> QED
        BY <3>1, <4>1, <4>2 DEF Stop, Fetch, Fetched
    <3>2. ASSUME NEW s \in Strategies, Create(b, s)
          PROVE  \E op : Issue(op) /\ op.kind # "delete" /\ op.pc \notin Fetch \cup Fetched
      <4>1. PICK x : x = [NoOp EXCEPT !.kind = "create", !.bot = b, !.pc = "account", !.arg = s]
        OBVIOUS
      <4>2. x.kind = "create" /\ x.pc = "account"
        BY <4>1 DEF NoOp
      <4> QED
        BY <3>2, <4>1, <4>2 DEF Create, Fetch, Fetched
    <3>3. ASSUME NEW s \in Strategies, Assign(b, s)
          PROVE  \E op : Issue(op) /\ op.kind # "delete" /\ op.pc \notin Fetch \cup Fetched
      <4>1. PICK x : x = [NoOp EXCEPT !.kind = "assign", !.bot = b, !.obj = bots[b], !.pc = "stopping", !.arg = s]
        OBVIOUS
      <4>2. x.kind = "assign" /\ x.pc = "stopping"
        BY <4>1 DEF NoOp
      <4> QED
        BY <1>4, <3>3, <4>1, <4>2 DEF Assign, Fetch, Fetched
    <3>4. ASSUME NEW s \in Strategies, Update(b, s)
          PROVE  \E op : Issue(op) /\ op.kind # "delete" /\ op.pc \notin Fetch \cup Fetched
      <4>1. PICK x : x = [NoOp EXCEPT !.kind = "update", !.bot = b, !.obj = bots[b], !.pc = "validate", !.arg = s]
        OBVIOUS
      <4>2. x.kind = "update" /\ x.pc = "validate"
        BY <4>1 DEF NoOp
      <4> QED
        BY <3>4, <4>1, <4>2 DEF Update, Fetch, Fetched
    <3> QED
      BY <1>4, <3>1, <3>2, <3>3, <3>4 DEF BotCommand, Start, Resume, ChangeStrategy
  <2>2. DeletesKept
    BY <1>2, <2>1, IssueKeeps
  <2> QED
    BY <1>1, <2>2, MoneyQuiet
<1> QED
    BY <1>3, <1>4

\* Where every command in line stays, so does the line.
LEMMA LineKept ==
    ASSUME Purse, Waiting(line, ops), UNCHANGED line,
           \A k \in Cmds : ops[k].pc \in {"clear", "save"} => ops'[k] = ops[k]
    PROVE  Waiting(line, ops)'
<1>1. \A i \in 1..Len(line) : line[i] \in Entry
    BY ElementOfSeq DEF Purse
<1>2. \A i \in 1..Len(line) : line[i].cmd \in Cmds
    BY <1>1 DEF Entry
<1>3. \A i \in 1..Len(line) : ops'[line[i].cmd] = ops[line[i].cmd]
    BY <1>2 DEF Waiting
<1> QED
    BY <1>3 DEF Waiting

\* A second deletion of the bot shows in twice.
LEMMA DeleteMoney ==
    ASSUME MoneyInv, ConfigInv', NEW b \in Bots, Delete(b)
    PROVE  MoneyInv'
<1>1. /\ UNCHANGED <<budget, budgetRow, free, line, added>>
      /\ twice' = IF Deleting(b) THEN twice \cup {b} ELSE twice
    BY DEF Delete, money
<1>2. Purse'
    BY <1>1 DEF MoneyInv, Purse
<1>3. PICK op : op = [NoOp EXCEPT !.kind = "delete", !.bot = b, !.obj = bots[b],
                                  !.pc = IF Bot(b).status = "running" THEN "stopping" ELSE "release"]
    OBVIOUS
<1>4. Issue(op)
    BY <1>3 DEF Delete
<1>5. op.kind = "delete" /\ op.bot = b /\ op.pc \in {"stopping", "release"}
    BY <1>3 DEF NoOp
<1>6. issued + 1 \in Cmds /\ issued + 1 > issued /\ OpsOK
    BY <1>4, BotsFacts DEF MoneyInv, ConfigInv, OpsOK, Issue, Cmds
<1>7. ops[issued + 1].kind = "none" /\ ops[issued + 1].pc = "done"
    BY <1>6, NoOpOK DEF OpsOK
<1>8. \A k \in Cmds : ops'[k] = IF k = issued + 1 THEN op ELSE ops[k]
    BY <1>4, <1>6 DEF Issue, OpsOK
<1>9. Waiting(line, ops)'
    BY <1>1, <1>7, <1>8, LineKept DEF MoneyInv
<1>10. ASSUME (twice \cup added = {})' PROVE MoneyOK'
  <2>1. twice \cup added = {} /\ ~Deleting(b)
    BY <1>1, <1>10
  <2>2. MoneyOK
    BY <2>1 DEF MoneyInv
  <2>3. Conserved'
    BY <1>1, <2>2 DEF MoneyOK, Conserved
  <2>4. ASSUME NEW j \in Cmds, NEW k \in Cmds, NEW c \in Bots, DeletesAt(j, c)', DeletesAt(k, c)' PROVE j = k
    <3>1. CASE c = b
      BY <1>8, <2>1, <2>4, <3>1 DEF Deleting, DeletesAt
    <3>2. CASE c # b
      <4>1. DeletesAt(j, c) /\ DeletesAt(k, c)
        BY <1>5, <1>8, <2>4, <3>2 DEF DeletesAt
      <4> QED
        BY <2>2, <4>1 DEF MoneyOK, OneDelete
    <3> QED
      BY <3>1, <3>2
  <2>5. RowsLead(line, budget, budgetRow)' /\ SavesLead(line, budget)'
    BY <1>1, <2>2 DEF MoneyOK, RowsLead, SavesLead, Cleared
  <2>6. ReadsEmpty'
    BY <1>1, <1>5, <1>8, <2>2 DEF MoneyOK, ReadsEmpty, Fetch, Fetched
  <2> QED
    BY <2>3, <2>4, <2>5, <2>6 DEF MoneyOK, OneDelete
<1> QED
    BY <1>2, <1>9, <1>10 DEF MoneyInv

\* A sum over the bots when one budget changes.
LEMMA BudgetMoves ==
    ASSUME NEW f \in [Bots -> Nat], NEW b \in Bots, NEW n \in Nat
    PROVE  /\ SumFunctionOnSet(f, Bots) \in Int
           /\ SumFunctionOnSet([f EXCEPT ![b] = n], Bots) = SumFunctionOnSet(f, Bots) - f[b] + n
<1>1. PICK h : h = [f EXCEPT ![b] = n]
    OBVIOUS
<1>2. IsFiniteSet(Bots)
    BY BotsFacts, FS_Interval DEF Bots
<1>3. h[b] = n /\ \A c \in Bots \ {b} : h[c] = f[c]
    BY <1>1
<1>4. Numbers(f, Bots) /\ Numbers(h, Bots)
    BY <1>1 DEF Numbers
<1>5. Moves(f, Bots, h, Bots, b)
    BY <1>2, <1>3, <1>4 DEF Moves
<1>6. /\ SumFunctionOnSet(f, Bots) \in Int
      /\ SumFunctionOnSet(h, Bots) = SumFunctionOnSet(f, Bots) - f[b] + h[b]
    BY <1>5, SumMoves
<1> QED
    BY <1>1, <1>3, <1>6

\* No DELETE waits for the bot of the only deletion, unless it is its own.
LEMMA NoneCleared ==
    ASSUME MoneyInv, MoneyOK, NEW k \in Cmds, NEW b \in Bots, DeletesAt(k, b), ops[k].pc # "clear"
    PROVE  (\A n : ~Cleared(line, b, n)) /\ budgetRow[b] <= budget[b]
<1>1. ASSUME NEW i \in 1..Len(line), line[i].bot = b, line[i].val = 0 PROVE FALSE
  <2>1. line[i] \in Entry
    BY ElementOfSeq DEF MoneyInv, Purse
  <2>2. PICK c \in Cmds : c = line[i].cmd
    BY <2>1 DEF Entry
  <2>3. DeletesAt(c, b) /\ ops[c].pc = "clear"
    BY <1>1, <2>2 DEF MoneyInv, Waiting, DeletesAt
  <2> QED
    BY <2>3 DEF MoneyOK, OneDelete
<1>2. \A n : ~Cleared(line, b, n)
    BY <1>1 DEF Cleared
<1>3. ~(budgetRow[b] > budget[b])
    BY <1>2 DEF MoneyOK, RowsLead
<1> QED
    BY <1>2, <1>3 DEF MoneyInv, Purse

\* A deletion goes on without moving money.
LEMMA ReadMoney ==
    ASSUME MoneyInv, ConfigInv', NEW k \in Cmds, ops[k].kind = "delete", ops[k].pc # "clear",
           NEW x, Becomes(k, x), x.kind = "delete", x.bot = ops[k].bot,
           UNCHANGED <<budget, budgetRow, free, line, past>>,
           MoneyOK => /\ x.pc \in Fetch => budget[x.bot] = 0
                      /\ x.pc \in Fetched => x.got = 0
    PROVE  MoneyInv'
<1>1. Purse' /\ UNCHANGED <<budget, budgetRow, free, line, twice, added>>
    BY DEF MoneyInv, Purse, past
<1>2. ops[k].pc \notin {"clear", "save"}
    BY OpFacts DEF Waits, MoneyInv
<1>3. Waiting(line, ops)'
    BY <1>1, <1>2, LineKept DEF Becomes, MoneyInv
<1>4. ASSUME MoneyOK PROVE MoneyOK'
  <2>1. Conserved'
    BY <1>1, <1>4 DEF MoneyOK, Conserved
  <2>2. OneDelete'
    BY <1>4 DEF MoneyOK, OneDelete, DeletesAt, Becomes
  <2>3. RowsLead(line, budget, budgetRow)' /\ SavesLead(line, budget)'
    BY <1>1, <1>4 DEF MoneyOK, RowsLead, SavesLead, Cleared
  <2>4. ReadsEmpty'
    BY <1>1, <1>4 DEF MoneyOK, ReadsEmpty, Becomes
  <2> QED
    BY <2>1, <2>2, <2>3, <2>4 DEF MoneyOK
<1> QED
    BY <1>1, <1>3, <1>4 DEF MoneyInv

\* It reads the row, and finds none.
LEMMA FetchMoney ==
    ASSUME MoneyInv, ConfigInv', NEW k \in Cmds, DeleteRead(k)
    PROVE  MoneyInv'
<1>1. PICK p : p = ops[k]
    OBVIOUS
<1>2. p.pc \in Fetch /\ UNCHANGED <<budget, budgetRow, free, line, past>>
    BY <1>1 DEF DeleteRead, Fetch, money
<1>3. p \in OpRec /\ p.kind = "delete" /\ p.bot \in Bots
    BY <1>1, <1>2, OpFacts DEF Waits, Fetch, MoneyInv
<1>4. PICK pc \in Fetched, n \in Nat :
        pc = (IF p.pc = "fetch" THEN "found" ELSE "last") /\ n = budgetRow[p.bot]
    BY <1>3 DEF Fetched, MoneyInv, Purse
<1>5. PICK x : x = [p EXCEPT !.pc = pc, !.got = n]
    OBVIOUS
<1>6. Becomes(k, x)
    BY <1>1, <1>4, <1>5 DEF DeleteRead, Becomes, MoneyInv, ConfigInv, OpsOK
<1>7. x.kind = "delete" /\ x.pc = pc /\ x.bot = p.bot /\ x.got = n
    BY <1>3, <1>5 DEF OpRec
<1>8. ASSUME MoneyOK PROVE n = 0
  <2>1. PICK b \in Bots : b = p.bot
    BY <1>3
  <2>2. budget[b] = 0
    BY <1>1, <1>2, <1>8, <2>1 DEF MoneyOK, ReadsEmpty
  <2>3. budgetRow[b] <= budget[b]
    BY <1>1, <1>2, <1>3, <1>8, <2>1, NoneCleared DEF DeletesAt, Fetch
  <2> QED
    BY <1>4, <2>1, <2>2, <2>3
<1> QED
    BY <1>1, <1>2, <1>3, <1>6, <1>7, <1>8, ReadMoney DEF Fetch, Fetched

\* The only deletion of a bot gives back what the memory holds.
LEMMA GiveMoney ==
    ASSUME MoneyInv, ConfigInv', NEW k \in Cmds, ops[k].pc \in {"release", "found"}, NEW b \in Bots, b = ops[k].bot,
           NEW n \in Nat, n = budget[b], budget' = [budget EXCEPT ![b] = 0], Credit(k, n), UNCHANGED <<budgetRow, past>>
    PROVE  MoneyInv'
<1>1. UNCHANGED <<twice, added>> /\ free' = free + n /\ Goto(k, "clear")
    BY DEF Credit, past
<1>2. PICK e \in Entry : e = [cmd |-> k, bot |-> b, val |-> 0]
    BY DEF Entry
<1>3. e.cmd = k /\ e.bot = b /\ e.val = 0
    BY <1>2
<1>4. line' = Append(line, e)
    BY <1>2 DEF Credit, Write
<1>5. ops[k].kind = "delete" /\ OpsOK
    BY OpFacts DEF Waits, MoneyInv, ConfigInv
<1>6. PICK x : Becomes(k, x) /\ x.pc = "clear" /\ x.kind = "delete" /\ x.bot = b
  <2>1. PICK pc : pc = "clear"
    OBVIOUS
  <2> QED
    BY <1>1, <1>5, <2>1, GotoBecomes
<1>7. /\ budget \in [Bots -> Nat] /\ budgetRow \in [Bots -> Nat] /\ free \in Nat /\ line \in Seq(Entry)
    BY DEF MoneyInv, Purse
<1>8. Purse'
    BY <1>1, <1>4, <1>7, AppendProperties DEF Purse
<1>9. Waiting(line, ops)'
  <2>1. PICK ws, os, ps : ws = line /\ os = ops /\ ps = ops'
    BY <1>7
  <2>2. /\ ws \in Seq(Entry) /\ Waiting(ws, os) /\ os[e.cmd].pc \notin {"clear", "save"}
        /\ \A c \in Cmds : c # e.cmd => ps[c] = os[c]
    BY <1>3, <1>6, <1>7, <2>1 DEF Becomes, MoneyInv
  <2>3. ps[e.cmd].kind = "delete" /\ ps[e.cmd].bot = e.bot /\ ps[e.cmd].pc = "clear"
    BY <1>3, <1>6, <2>1 DEF Becomes
  <2>4. Waiting(Append(ws, e), ps)
    BY ONLY <1>3, <2>2, <2>3, WaitingJoins
  <2> QED
    BY <1>4, <2>1, <2>4
<1>10. ASSUME MoneyOK PROVE MoneyOK'
  <2>1. Conserved'
    <3>1. PICK f : f = budget
      OBVIOUS
    <3>2. /\ SumFunctionOnSet(f, Bots) \in Int
          /\ SumFunctionOnSet([f EXCEPT ![b] = 0], Bots) = SumFunctionOnSet(f, Bots) - f[b] + 0
      BY <1>7, <3>1, BudgetMoves
    <3>3. budget' = [f EXCEPT ![b] = 0] /\ f[b] = n
      BY <3>1
    <3>4. free + SumFunctionOnSet(f, Bots) = Funds + NBots
      BY <1>10, <3>1 DEF MoneyOK, Conserved
    <3>5. PICK s, u, total : /\ s = SumFunctionOnSet(f, Bots) /\ total = Funds + NBots
                            /\ u = SumFunctionOnSet([f EXCEPT ![b] = 0], Bots)
      OBVIOUS
    <3>6. s \in Int /\ u = s - n + 0 /\ free + s = total
      BY <3>2, <3>3, <3>4, <3>5
    <3>7. free + n + u = total
      BY <1>7, <3>6
    <3> QED
      BY <1>1, <3>3, <3>5, <3>7 DEF Conserved
  <2>2. OneDelete'
    BY <1>5, <1>6, <1>10 DEF MoneyOK, OneDelete, DeletesAt, Becomes
  <2>3. ReadsEmpty'
    <3>1. \A c \in Bots : budget'[c] = IF c = b THEN 0 ELSE budget[c]
      BY <1>7
    <3>2. ASSUME NEW j \in Cmds, ops'[j].pc \in Fetch PROVE budget'[ops'[j].bot] = 0
      <4>1. j # k /\ ops'[j] = ops[j]
        BY <1>6, <3>2 DEF Becomes, Fetch
      <4>2. ops[j].bot \in Bots
        BY <3>2, <4>1, OpFacts DEF Waits, Fetch, MoneyInv
      <4> QED
        BY <1>10, <3>1, <3>2, <4>1, <4>2 DEF MoneyOK, ReadsEmpty
    <3>3. ASSUME NEW j \in Cmds, ops'[j].pc \in Fetched PROVE ops'[j].got = 0
      BY <1>6, <1>10, <3>3 DEF Becomes, Fetched, MoneyOK, ReadsEmpty
    <3> QED
      BY <3>2, <3>3 DEF ReadsEmpty
  <2>4. RowsLead(line, budget, budgetRow)' /\ SavesLead(line, budget)'
    <3>1. /\ RowsLead(Append(line, e), [budget EXCEPT ![b] = 0], budgetRow)
          /\ SavesLead(Append(line, e), [budget EXCEPT ![b] = 0])
      BY <1>3, <1>7, <1>10, ClearJoins DEF MoneyOK
    <3> QED
      BY <1>4, <3>1
  <2> QED
    BY <2>1, <2>2, <2>3, <2>4 DEF MoneyOK
<1> QED
    BY <1>1, <1>8, <1>9, <1>10 DEF MoneyInv

\* A budget in memory is given back; without one the deletion goes on.
LEMMA TakeMoney ==
    ASSUME MoneyInv, ConfigInv', NEW k \in Cmds, NEW pc \in Fetch, ops[k].pc \in {"release", "found"},
           TakeBudget(k, pc), UNCHANGED <<budgetRow, past>>
    PROVE  MoneyInv'
<1>1. ops[k].kind = "delete" /\ ops[k].bot \in Bots /\ OpsOK
    BY OpFacts DEF Waits, MoneyInv, ConfigInv
<1>2. PICK b \in Bots, n \in Nat : b = ops[k].bot /\ n = budget[b]
    BY <1>1 DEF MoneyInv, Purse
<1>3. CASE n > 0
  <2>1. budget' = [budget EXCEPT ![b] = 0] /\ Credit(k, n)
    BY <1>2, <1>3 DEF TakeBudget
  <2> QED
    BY <1>2, <2>1, GiveMoney
<1>4. CASE ~(n > 0)
  <2>1. Goto(k, pc) /\ UNCHANGED <<budget, budgetRow, free, line, past>> /\ budget[b] = 0
    BY <1>2, <1>4 DEF TakeBudget
  <2>2. PICK x : Becomes(k, x) /\ x.pc = pc /\ x.kind = "delete" /\ x.bot = b
    BY <1>1, <1>2, <2>1, GotoBecomes DEF Fetch
  <2>3. x.pc \notin Fetched
    BY <2>2 DEF Fetch, Fetched
  <2> QED
    BY <1>1, <1>2, <2>1, <2>2, <2>3, ReadMoney
<1> QED
    BY <1>3, <1>4

\* A deletion that found a row gives it back: only after one of the two exceptions.
LEMMA RowMoney ==
    ASSUME MoneyInv, ConfigInv', NEW k \in Cmds, ops[k].pc \in Fetched, ops[k].got > 0,
           Credit(k, ops[k].got), UNCHANGED <<budget, budgetRow, past>>
    PROVE  MoneyInv'
<1>1. ~MoneyOK
    BY DEF MoneyOK, ReadsEmpty
<1>2. ops[k].kind = "delete" /\ ops[k].bot \in Bots /\ OpsOK /\ ops[k].got \in Nat
    BY OpFacts DEF Waits, MoneyInv, ConfigInv, Fetched, OpRec
<1>3. PICK b \in Bots, n \in Nat : b = ops[k].bot /\ n = ops[k].got
    BY <1>2
<1>4. UNCHANGED <<twice, added>> /\ free' = free + n /\ Goto(k, "clear")
    BY <1>3 DEF Credit, past
<1>5. PICK e \in Entry : e = [cmd |-> k, bot |-> b, val |-> 0]
    BY DEF Entry
<1>6. e.cmd = k /\ e.bot = b /\ e.val = 0 /\ line' = Append(line, e)
    BY <1>3, <1>5 DEF Credit, Write
<1>7. PICK x : Becomes(k, x) /\ x.pc = "clear" /\ x.kind = "delete" /\ x.bot = b
  <2>1. PICK pc : pc = "clear"
    OBVIOUS
  <2> QED
    BY <1>2, <1>3, <1>4, <2>1, GotoBecomes
<1>8. Purse' /\ line \in Seq(Entry)
    BY <1>4, <1>6, AppendProperties DEF MoneyInv, Purse
<1>9. Waiting(line, ops)'
  <2>1. PICK ws, os, ps : ws = line /\ os = ops /\ ps = ops'
    BY <1>8
  <2>2. /\ ws \in Seq(Entry) /\ Waiting(ws, os) /\ os[e.cmd].pc \notin {"clear", "save"}
        /\ \A c \in Cmds : c # e.cmd => ps[c] = os[c]
    BY <1>6, <1>7, <1>8, <2>1 DEF Becomes, MoneyInv, Fetched
  <2>3. ps[e.cmd].kind = "delete" /\ ps[e.cmd].bot = e.bot /\ ps[e.cmd].pc = "clear"
    BY <1>6, <1>7, <2>1 DEF Becomes
  <2>4. Waiting(Append(ws, e), ps)
    BY ONLY <1>6, <2>2, <2>3, WaitingJoins
  <2> QED
    BY <1>6, <2>1, <2>4
<1> QED
    BY <1>1, <1>4, <1>8, <1>9 DEF MoneyInv

\* A deletion releases the budget.
LEMMA ReleaseMoney ==
    ASSUME MoneyInv, ConfigInv', NEW k \in Cmds, DeleteRelease(k) \/ DeleteCredit(k)
    PROVE  MoneyInv'
<1>1. CASE DeleteRelease(k)
  <2>1. PICK pc \in Fetch : pc = "fetch"
    BY DEF Fetch
  <2> QED
    BY <1>1, <2>1, TakeMoney DEF DeleteRelease
<1>2. CASE DeleteCredit(k)
  <2>1. ops[k].pc \in {"found", "last"} /\ UNCHANGED <<budgetRow, past>>
    BY <1>2 DEF DeleteCredit
  <2>2. CASE ops[k].got > 0 /\ Credit(k, ops[k].got) /\ UNCHANGED budget
    BY <2>1, <2>2, RowMoney DEF Fetched
  <2>3. CASE ops[k].pc = "found" /\ TakeBudget(k, "again")
    <3>1. PICK pc \in Fetch : pc = "again"
      BY DEF Fetch
    <3> QED
      BY <2>1, <2>3, <3>1, TakeMoney
  <2>4. CASE Goto(k, "unregister") /\ UNCHANGED <<budget, free, line>>
    <3>1. ops[k].kind = "delete" /\ OpsOK
      BY <2>1, OpFacts DEF Waits, MoneyInv, ConfigInv
    <3>2. PICK pc : pc = "unregister"
      OBVIOUS
    <3>3. PICK x : Becomes(k, x) /\ x.pc = pc /\ x.kind = "delete" /\ x.bot = ops[k].bot
      BY <2>4, <3>1, <3>2, GotoBecomes
    <3>4. x.pc \notin Fetch /\ x.pc \notin Fetched
      BY <3>2, <3>3 DEF Fetch, Fetched
    <3> QED
      BY <2>1, <2>4, <3>1, <3>3, <3>4, ReadMoney
  <2> QED
    BY <1>2, <2>2, <2>3, <2>4 DEF DeleteCredit
<1> QED
    BY <1>1, <1>2

\* The first statement of the line is executed, and its command goes on.
LEMMA WrittenMoney ==
    ASSUME MoneyInv, ConfigInv', NEW k \in Cmds, Written(k), UNCHANGED <<budget, free, past>>,
           NEW x, Becomes(k, x), x.pc \notin Fetch \cup Fetched,
           x.kind = "delete" => ops[k].kind = "delete" /\ x.bot = ops[k].bot
    PROVE  MoneyInv'
<1>1. UNCHANGED <<twice, added>>
    BY DEF past
<1>2. line \in Seq(Entry) /\ budget \in [Bots -> Nat] /\ budgetRow \in [Bots -> Nat] /\ free \in Nat
    BY DEF MoneyInv, Purse
<1>3. PICK ws, e, f, r : ws \in Seq(Entry) /\ ws = line /\ e = Head(line) /\ f = budget /\ r = budgetRow
    BY <1>2
<1>4. e = Head(ws) /\ e \in Entry /\ ws # <<>> /\ e.cmd = k
    BY <1>3, HeadTailProperties DEF Written
<1>5. budgetRow' = [r EXCEPT ![e.bot] = e.val] /\ line' = Tail(ws) /\ budget' = f
    BY <1>3 DEF Written
<1>6. e.bot \in Bots /\ e.val \in Nat /\ Tail(ws) \in Seq(Entry)
    BY <1>3, <1>4, HeadTailProperties DEF Entry
<1>7. Purse'
    BY <1>2, <1>3, <1>5, <1>6 DEF Purse
<1>8. Waiting(line, ops)'
  <2>1. PICK os, ps : os = ops /\ ps = ops'
    OBVIOUS
  <2>2. ws \in Seq(Entry) /\ Waiting(ws, os) /\ \A c \in Cmds : c # Head(ws).cmd => ps[c] = os[c]
    BY <1>3, <1>4, <2>1 DEF Becomes, MoneyInv
  <2>3. Waiting(Tail(ws), ps)
    BY ONLY <1>4, <2>2, WaitingLeaves
  <2> QED
    BY <1>5, <2>1, <2>3
<1>9. ASSUME MoneyOK PROVE MoneyOK'
  <2>1. Conserved'
    BY <1>9 DEF MoneyOK, Conserved
  <2>2. OneDelete'
    BY <1>9 DEF MoneyOK, OneDelete, DeletesAt, Becomes
  <2>3. ReadsEmpty'
    BY <1>9 DEF MoneyOK, ReadsEmpty, Becomes
  <2>4. ws \in Seq(Entry) /\ f \in [Bots -> Nat] /\ r \in [Bots -> Nat] /\ RowsLead(ws, f, r) /\ SavesLead(ws, f)
    BY <1>2, <1>3, <1>9 DEF MoneyOK
  <2>5. RowsLead(Tail(ws), f, [r EXCEPT ![e.bot] = e.val]) /\ SavesLead(Tail(ws), f)
    BY ONLY <1>4, <2>4, HeadLeaves
  <2>6. RowsLead(line, budget, budgetRow)' /\ SavesLead(line, budget)'
    BY <1>5, <2>5
  <2> QED
    BY <2>1, <2>2, <2>3, <2>6 DEF MoneyOK
<1> QED
    BY <1>1, <1>7, <1>8, <1>9 DEF MoneyInv

\* The row of a released budget is deleted, or that of a raised one saved.
LEMMA ClearMoney ==
    ASSUME MoneyInv, ConfigInv', NEW k \in Cmds, DeleteClear(k) \/ UpdateSave(k)
    PROVE  MoneyInv'
<1>1. Written(k) /\ UNCHANGED <<budget, free, past>> /\ OpsOK
    BY DEF DeleteClear, UpdateSave, MoneyInv, ConfigInv
<1>2. CASE DeleteClear(k)
  <2>1. ops[k].kind = "delete" /\ Goto(k, "unregister")
    BY <1>2, OpFacts DEF DeleteClear, Waits, MoneyInv
  <2>2. PICK pc : pc = "unregister"
    OBVIOUS
  <2>3. PICK x : Becomes(k, x) /\ x.pc = pc /\ x.kind = "delete" /\ x.bot = ops[k].bot
    BY <1>1, <2>1, <2>2, GotoBecomes
  <2>4. x.pc \notin Fetch \cup Fetched
    BY <2>2, <2>3 DEF Fetch, Fetched
  <2> QED
    BY <1>1, <2>1, <2>3, <2>4, WrittenMoney
<1>3. CASE UpdateSave(k)
  <2>1. PICK x : x = NoOp
    OBVIOUS
  <2>2. Becomes(k, x) /\ x.kind = "none" /\ x.pc = "done"
    BY <1>1, <1>3, <2>1, NoOpOK DEF UpdateSave, Goto, Becomes, OpsOK
  <2> QED
    BY <1>1, <2>2, WrittenMoney DEF Fetch, Fetched
<1> QED
    BY <1>2, <1>3

\* An update moves a unit of free money into the budget.
LEMMA BudgetMoney ==
    ASSUME MoneyInv, ConfigInv', NEW k \in Cmds, UpdateBudget(k)
    PROVE  MoneyInv'
<1>1. ops[k].pc = "budget" /\ free > 0 /\ free' = free - 1 /\ Goto(k, "save") /\ UNCHANGED <<budgetRow, twice>>
    BY DEF UpdateBudget
<1>2. ops[k].kind = "update" /\ ops[k].bot \in Bots /\ OpsOK
    BY <1>1, OpFacts DEF Waits, MoneyInv, ConfigInv
<1>3. PICK b \in Bots : b = ops[k].bot
    BY <1>2
<1>4. /\ budget[b] \in Nat /\ free \in Nat /\ budget \in [Bots -> Nat] /\ budgetRow \in [Bots -> Nat]
      /\ line \in Seq(Entry)
    BY DEF MoneyInv, Purse
<1>5. PICK n \in Nat : n = budget[b] + 1
    BY <1>4
<1>6. PICK e \in Entry : e = [cmd |-> k, bot |-> b, val |-> n]
    BY DEF Entry
<1>7. e.cmd = k /\ e.bot = b /\ e.val = n /\ n > 0
    BY <1>4, <1>5, <1>6
<1>8. /\ budget' = [budget EXCEPT ![b] = n] /\ line' = Append(line, e)
      /\ added' = IF Fetching(b) THEN added \cup {b} ELSE added
    BY <1>3, <1>4, <1>5, <1>6 DEF UpdateBudget, Write
<1>9. PICK x : Becomes(k, x) /\ x.pc = "save" /\ x.kind = "update"
  <2>1. PICK pc : pc = "save"
    OBVIOUS
  <2> QED
    BY <1>1, <1>2, <2>1, GotoBecomes
<1>10. Purse'
    BY <1>1, <1>4, <1>8, AppendProperties DEF Purse
<1>11. Waiting(line, ops)'
  <2>1. PICK ws, os, ps : ws = line /\ os = ops /\ ps = ops'
    BY <1>4
  <2>2. /\ ws \in Seq(Entry) /\ Waiting(ws, os) /\ os[e.cmd].pc \notin {"clear", "save"}
        /\ \A c \in Cmds : c # e.cmd => ps[c] = os[c]
    BY <1>1, <1>4, <1>7, <1>9, <2>1 DEF Becomes, MoneyInv
  <2>3. ps[e.cmd].pc = "save" /\ e.val # 0
    BY <1>7, <1>9, <2>1 DEF Becomes
  <2>4. Waiting(Append(ws, e), ps)
    BY ONLY <2>2, <2>3, WaitingJoins
  <2> QED
    BY <1>8, <2>1, <2>4
<1>12. ASSUME (twice \cup added = {})' PROVE MoneyOK'
  <2>1. twice \cup added = {} /\ ~Fetching(b)
    BY <1>1, <1>8, <1>12
  <2>2. MoneyOK
    BY <2>1 DEF MoneyInv
  <2>3. Conserved'
    <3>1. PICK f : f = budget
      OBVIOUS
    <3>2. /\ SumFunctionOnSet(f, Bots) \in Int
          /\ SumFunctionOnSet([f EXCEPT ![b] = n], Bots) = SumFunctionOnSet(f, Bots) - f[b] + n
      BY <1>4, <3>1, BudgetMoves
    <3>3. budget' = [f EXCEPT ![b] = n] /\ n = f[b] + 1 /\ f[b] \in Nat
      BY <1>4, <1>5, <1>8, <3>1
    <3>4. free + SumFunctionOnSet(f, Bots) = Funds + NBots
      BY <2>2, <3>1 DEF MoneyOK, Conserved
    <3>5. free' + SumFunctionOnSet(budget', Bots) = Funds + NBots
      BY <1>1, <1>4, <3>2, <3>3, <3>4
    <3> QED
      BY <3>5 DEF Conserved
  <2>4. OneDelete'
    BY <1>9, <2>2 DEF MoneyOK, OneDelete, DeletesAt, Becomes
  <2>5. ReadsEmpty'
    <3>1. \A c \in Bots : c # b => budget'[c] = budget[c]
      BY <1>4, <1>8
    <3>2. ASSUME NEW j \in Cmds, ops'[j].pc \in Fetch PROVE budget'[ops'[j].bot] = 0
      <4>1. ops'[j] = ops[j]
        BY <1>9, <3>2 DEF Becomes, Fetch
      <4>2. ops[j].bot \in Bots /\ ops[j].bot # b
        BY <2>1, <3>2, <4>1, OpFacts DEF Waits, Fetch, Fetching, MoneyInv
      <4> QED
        BY <2>2, <3>1, <3>2, <4>1, <4>2 DEF MoneyOK, ReadsEmpty
    <3>3. ASSUME NEW j \in Cmds, ops'[j].pc \in Fetched PROVE ops'[j].got = 0
      BY <1>9, <2>2, <3>3 DEF Becomes, Fetched, MoneyOK, ReadsEmpty
    <3> QED
      BY <3>2, <3>3 DEF ReadsEmpty
  <2>6. RowsLead(line, budget, budgetRow)' /\ SavesLead(line, budget)'
    <3>1. PICK f \in [Bots -> Nat], r \in [Bots -> Nat], ws \in Seq(Entry) : f = budget /\ r = budgetRow /\ ws = line
      BY <1>4
    <3>2. e.val >= f[e.bot] /\ RowsLead(ws, f, r) /\ SavesLead(ws, f)
      BY <1>4, <1>5, <1>7, <2>2, <3>1 DEF MoneyOK
    <3>3. /\ RowsLead(Append(ws, e), [f EXCEPT ![e.bot] = e.val], r)
          /\ SavesLead(Append(ws, e), [f EXCEPT ![e.bot] = e.val])
      BY ONLY <3>2, SaveJoins
    <3> QED
      BY <1>1, <1>7, <1>8, <3>1, <3>3
  <2> QED
    BY <2>3, <2>4, <2>5, <2>6 DEF MoneyOK
<1> QED
    BY <1>10, <1>11, <1>12 DEF MoneyInv

\* The other continuations touch no budget.
LEMMA ContinueMoney ==
    ASSUME MoneyInv, ConfigInv', NEW k \in Cmds, Continue(k),
           ~DeleteRelease(k), ~DeleteRead(k), ~DeleteCredit(k), ~DeleteClear(k), ~UpdateBudget(k), ~UpdateSave(k)
    PROVE  MoneyInv'
<1>1. UNCHANGED <<budget, budgetRow, free, line, past>>
    BY DEF Continue, CreateInsert, StopFinish, StopRules, AssignSwap, AssignRestart, UpdateCommit, UpdateInvalid,
       UpdateRollback, DeleteFinish, SuspendNext, money
<1>2. OpsOK
    BY DEF MoneyInv, ConfigInv
<1>3. DeletesKept
  <2>1. CASE SuspendNext(k) /\ ~Goto(k, "done")
    <3>1. PICK p : p = ops[k]
      OBVIOUS
    <3>2. p \in OpRec /\ p.pc = "scan" /\ p.kind = "suspend"
      BY <2>1, <3>1, OpFacts DEF SuspendNext, Waits, MoneyInv
    <3>3. PICK o : \/ ops' = [ops EXCEPT ![k] = [p EXCEPT !.pc = "stopping", !.obj = o, !.todo = @ \ {o}]]
                   \/ ops' = [ops EXCEPT ![k].todo = @ \ {o}]
      BY <2>1, <3>1 DEF SuspendNext
    <3>4. PICK x : /\ x = [p EXCEPT !.pc = "stopping", !.obj = o, !.todo = @ \ {o}] \/ x = [p EXCEPT !.todo = @ \ {o}]
                   /\ ops' = [ops EXCEPT ![k] = x]
      BY <3>1, <3>3
    <3>5. x.kind = "suspend" /\ x.pc \in {"scan", "stopping"}
      BY <3>2, <3>4 DEF OpRec
    <3>6. \A j \in Cmds : ops'[j] = IF j = k THEN x ELSE ops[j]
      BY <1>2, <3>4 DEF OpsOK
    <3> QED
      BY <3>1, <3>2, <3>5, <3>6 DEF DeletesKept, Fetch, Fetched
  <2>2. CASE UpdateCommit(k)
    <3>1. PICK p, old : p = ops[k] /\ old = obj[ops[k].obj].strategy
      OBVIOUS
    <3>2. PICK x : x = [p EXCEPT !.pc = "budget", !.old = old]
      OBVIOUS
    <3>3. p \in OpRec /\ p.pc = "validate" /\ p.kind = "update" /\ ops' = [ops EXCEPT ![k] = x]
      BY <2>2, <3>1, <3>2, OpFacts DEF UpdateCommit, Waits, MoneyInv
    <3>4. x.kind = "update" /\ x.pc = "budget"
      BY <3>2, <3>3 DEF OpRec
    <3>5. \A j \in Cmds : ops'[j] = IF j = k THEN x ELSE ops[j]
      BY <1>2, <3>3 DEF OpsOK
    <3> QED
      BY <3>1, <3>3, <3>4, <3>5 DEF DeletesKept, Fetch, Fetched
  <2>3. CASE Goto(k, "done")
    <3>1. ops[k].pc \notin {"clear", "save"}
      BY OpFacts DEF Continue, CreateInsert, StopFinish, StopRules, AssignSwap, AssignRestart, UpdateCommit,
         UpdateInvalid, UpdateRollback, DeleteFinish, SuspendNext
    <3>2. PICK pc : pc = "done"
      OBVIOUS
    <3> QED
      BY <1>2, <2>3, <3>1, <3>2, GotoKeeps DEF Fetch, Fetched
  <2>4. CASE ~SuspendNext(k) /\ ~UpdateCommit(k) /\ ~Goto(k, "done")
    <3>1. PICK pc \in {"rules", "swap", "release", "scan", "restart"} : Goto(k, pc)
      <4>1. CASE StopFinish(k)
        <5>1. PICK p : p = ops[k]
          OBVIOUS
        <5>2. p.kind \in {"stop", "assign", "delete", "suspend"}
          BY <4>1, <5>1, OpFacts DEF StopFinish, Waits, MoneyInv
        <5>3. AfterStop(p) \in {"rules", "swap", "release", "scan"}
          BY <5>2 DEF AfterStop
        <5> QED
          BY <4>1, <5>1, <5>3 DEF StopFinish
      <4>2. CASE AssignSwap(k)
        BY <4>2 DEF AssignSwap
      <4> QED
        BY <2>4, <4>1, <4>2 DEF Continue, CreateInsert, StopRules, AssignRestart, UpdateInvalid, UpdateRollback,
           DeleteFinish
    <3>2. ops[k].pc \notin {"clear", "save"}
      BY <2>4 DEF Continue, CreateInsert, StopFinish, StopRules, AssignSwap, AssignRestart, UpdateInvalid,
         UpdateRollback, DeleteFinish
    <3> QED
      BY <1>2, <3>1, <3>2, GotoKeeps DEF Fetch, Fetched
  <2> QED
    BY <2>1, <2>2, <2>3, <2>4
<1> QED
    BY <1>1, <1>3, MoneyQuiet

\* Every step preserves the invariant of the money.
LEMMA MoneyNext ==
    ASSUME MoneyInv, [BotNext]_botsVars
    PROVE  MoneyInv'
<1>1. ConfigInv' /\ OpsOK
    BY ConfigNext DEF MoneyInv, ConfigInv, Purse
<1>2. CASE \E b \in Bots : BotCommand(b)
    BY <1>1, <1>2, CommandMoney, DeleteMoney
<1>3. CASE \E k \in Cmds : Continue(k)
    BY <1>1, <1>3, ContinueMoney, ReleaseMoney, FetchMoney, ClearMoney, BudgetMoney
<1>4. CASE Suspend
  <2>1. PICK op : op = [NoOp EXCEPT !.kind = "suspend", !.pc = "scan",
                                    !.todo = {bots[b] : b \in {c \in Bots : Known(c)}}]
    OBVIOUS
  <2>2. Issue(op) /\ UNCHANGED <<budget, budgetRow, free, line, past>>
    BY <1>4, <2>1 DEF Suspend, money
  <2>3. op.kind = "suspend" /\ op.pc = "scan"
    <3>1. PICK todo : todo = {bots[b] : b \in {c \in Bots : Known(c)}}
      OBVIOUS
    <3> QED
      BY <2>1, <3>1 DEF NoOp
  <2>4. DeletesKept
    BY <1>1, <2>2, <2>3, IssueKeeps DEF Fetch, Fetched
  <2> QED
    BY <1>1, <2>2, <2>4, MoneyQuiet
<1>5. CASE Activate
    BY <1>1, <1>5, AtomicKeeps, MoneyQuiet DEF Activate, money
<1>6. CASE ~(\E b \in Bots : BotCommand(b)) /\ ~(\E k \in Cmds : Continue(k)) /\ ~Suspend /\ ~Activate
  <2>1. UNCHANGED <<budget, budgetRow, free, line, past, ops>>
    <3>1. CASE UNCHANGED botsVars
      BY <3>1 DEF botsVars, money
    <3>2. CASE StopAll
      BY <3>2 DEF StopAll, money
    <3>3. CASE \E o \in Objs, slot \in Slots :
                 LoopTurn(o, slot) \/ StepStarts(o, slot) \/ Step(o, slot)
      <4>1. PICK o \in Objs, slot \in Slots :
                   LoopTurn(o, slot) \/ StepStarts(o, slot) \/ Step(o, slot)
        BY <3>3
      <4> QED
        BY <4>1 DEF LoopTurn, StepStarts, Step, StepOk, StepTimeout, StepOverflow, StepRaises, money
    <3>4. CASE \E t \in waiting : RestartFires(t)
      BY <3>4 DEF RestartFires, money
    <3>5. CASE \E b \in Bots : ResetFires(b)
      BY <3>5 DEF ResetFires, money
    <3> QED
      BY <1>6, <3>1, <3>2, <3>3, <3>4, <3>5 DEF BotNext
  <2>2. DeletesKept
    BY <2>1 DEF DeletesKept
  <2> QED
    BY <1>1, <2>1, <2>2, MoneyQuiet
<1> QED
    BY <1>2, <1>3, <1>4, <1>5, <1>6

\* Commands, objects and money stay consistent through every step of the bots (bot/manager.py,
\* treasury.py:482-608): the invariant that the two results below follow from.
THEOREM MoneyInvariant == BotSpec => []MoneyInv
<1>1. BotInit => MoneyInv
    BY MoneyInit
<1>2. MoneyInv /\ [BotNext]_botsVars => MoneyInv'
    BY MoneyNext
<1> QED
    BY <1>1, <1>2, PTL DEF BotSpec

\* The row of a bot that was never created anew shows its strategy, whatever change_strategy,
\* assign_strategy and a rolled-back update_bot did (bot/manager.py:640-722).
THEOREM SavedConfigHolds == BotSpec => []SavedConfig
<1>1. MoneyInv => SavedConfig
    BY DEF MoneyInv, ConfigInv, RowsKept, SavedConfig
<1> QED
    BY <1>1, MoneyInvariant, PTL

\* Budgets and unallocated money keep their sum through deletions and updates whose statements
\* wait for the lock, unless two deletions of one bot overlapped or an update came between the
\* pop and the read of a deletion (treasury.py:546-608, release_budget and update_budget).
THEOREM BudgetConservedHolds == BotSpec => []BudgetConserved
<1>1. MoneyInv => BudgetConserved
    BY DEF MoneyInv, MoneyOK, Conserved, BudgetConserved
<1> QED
    BY <1>1, MoneyInvariant, PTL

=============================================================================
