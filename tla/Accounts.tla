------------------------------ MODULE Accounts ------------------------------
(***************************************************************************)
(* The broker adapters of the accounts (account/service.py get_broker,     *)
(* get_cached_broker; broker/kis.py connect, _authenticate) and the runtime *)
(* readiness built on them: start-up, the self-healing loop and the        *)
(* disconnection at shutdown (main.py, account/readiness.py).              *)
(*                                                                         *)
(* The accounts share one app key, hence one token cache, one cool-down    *)
(* and one lock.  Two tasks ask for brokers: main (the start-up, then the  *)
(* self-healing loop, then the shutdown, never two of them at once) and a  *)
(* client of the IPC server.  An asyncio lock is the queue of those who    *)
(* hold (its head) or await it.  Every step ends at an await.  Sleeps may  *)
(* take any time, except the retry of the start-up, which sleeps until the *)
(* cool-down it was told of is over.                                       *)
(***************************************************************************)
EXTENDS Naturals, Sequences, FiniteSets, Queues

CONSTANTS
    AccountIds,
    Virtual,      \* the accounts that trade virtually
    MaxRetries,   \* DEFAULT_MAX_RETRIES_AUTH
    MaxBurst,     \* readiness.self_healing_max_attempts_per_burst
    MaxCalls,     \* bound: calls of clients and expiries of the token
    MaxFaults     \* bound: requests, registrations and attempts that fail

ASSUME AccountsAssumption ==
    /\ Virtual \subseteq AccountIds /\ "-" \notin AccountIds
    /\ MaxRetries \in Nat /\ MaxBurst \in Nat \ {0} /\ MaxCalls \in Nat /\ MaxFaults \in Nat

VARIABLES
    fresh,     \* _token_cache holds a token that is not near its expiry
    cooldown,  \* the app key is in its cool-down
    tokenq,    \* the lock of the app key
    lockq,     \* the locks of the accounts
    brokers,   \* _brokers: none, up (connected) or closed
    call,      \* what each task awaits of get_broker or of a request
    ready,     \* RuntimeReadinessRegistry: flags that are ready
    main,      \* the main task
    calls, faults

tokenVars == <<fresh, cooldown, tokenq>>
callVars == <<tokenVars, lockq, brokers, call>>
vars == <<callVars, ready, main, calls, faults>>

-----------------------------------------------------------------------------

Tasks == {"main", "ipc"}
Flags == {"broker", "treasury", "fill", "reconcile"}

\* is_flag_exempt
Required(a) == IF a \in Virtual THEN {"treasury"} ELSE Flags
Live == AccountIds \ Virtual

ActiveTradingReady(a) == Required(a) \subseteq ready[a]

NoCall == [pc |-> "none", acct |-> "-", api |-> FALSE]
Nobody == "-"

\* The registrations of an account in the order of _self_healing_recover_account.
Registrations == <<"fill", "reconcile", "treasury">>

Init ==
    /\ fresh = FALSE /\ cooldown = FALSE /\ tokenq = <<>>
    /\ lockq = [a \in AccountIds |-> <<>>]
    /\ brokers = [a \in AccountIds |-> "none"]
    /\ call = [t \in Tasks |-> NoCall]
    /\ ready = [a \in AccountIds |-> IF a \in Virtual THEN Flags \ {"treasury"} ELSE {}]
    /\ main = [pc |-> "connect", todo |-> Live, acct |-> Nobody, tries |-> 0,
               regs |-> <<>>, rebound |-> FALSE]
    /\ calls = 0 /\ faults = 0

-----------------------------------------------------------------------------
(* get_broker, connect, _authenticate *)

\* Something outside the program fails.
Fault == faults < MaxFaults /\ faults' = faults + 1

\* The call of t ends with r; the locks it holds are released, and a broker that has
\* connected is cached.
Ends(t, r) ==
    LET c == call[t] IN
    /\ call' = [call EXCEPT ![t].pc = r]
    /\ lockq' = [lockq EXCEPT ![c.acct] = Without(@, t)]
    /\ tokenq' = Without(tokenq, t)
    /\ brokers' = [brokers EXCEPT ![c.acct] = IF r = "ok" /\ ~c.api /\ @ = "none" THEN "up" ELSE @]

\* A cached broker is returned at once; a miss waits for the lock of the account.
GetBroker(t, a) ==
    /\ call[t].pc = "none"
    /\ IF brokers[a] # "none"
       THEN /\ call' = [call EXCEPT ![t] = [pc |-> "ok", acct |-> a, api |-> FALSE]]
            /\ UNCHANGED lockq
       ELSE /\ call' = [call EXCEPT ![t] = [pc |-> "lock", acct |-> a, api |-> FALSE]]
            /\ lockq' = [lockq EXCEPT ![a] = Append(@, t)]
    /\ UNCHANGED <<tokenVars, brokers>>

\* Before the lock of the app key: the cached token, then the cool-down.
Authenticate(t) ==
    IF fresh THEN Ends(t, "ok")
    ELSE IF cooldown THEN Ends(t, "limit")
    ELSE /\ call' = [call EXCEPT ![t].pc = "wait"]
         /\ tokenq' = Append(tokenq, t)
         /\ UNCHANGED <<lockq, brokers>>

\* The lock of the account is had: the cache is looked at again, an adapter is built and
\* connected.
AccountLocked(t) ==
    /\ call[t].pc = "lock" /\ Head(lockq[call[t].acct]) = t
    /\ IF brokers[call[t].acct] # "none" THEN Ends(t, "ok") ELSE Authenticate(t)
    /\ UNCHANGED <<fresh, cooldown, ready, main, calls, faults>>

\* Mutant: the lock is had and the token is requested without a second look.
TokenLockedUnchecked(t) ==
    /\ call[t].pc = "wait" /\ Head(tokenq) = t
    /\ call' = [call EXCEPT ![t].pc = "issue"] /\ UNCHANGED <<tokenq, lockq, brokers>>
    /\ UNCHANGED <<fresh, cooldown, ready, main, calls, faults>>

\* The lock of the app key is had: both are looked at again.
TokenLocked(t) ==
    /\ call[t].pc = "wait" /\ Head(tokenq) = t
    /\ \/ fresh /\ Ends(t, "ok")
       \/ ~fresh /\ cooldown /\ Ends(t, "limit")
       \/ ~fresh /\ ~cooldown
          /\ call' = [call EXCEPT ![t].pc = "issue"] /\ UNCHANGED <<tokenq, lockq, brokers>>
    /\ UNCHANGED <<fresh, cooldown, ready, main, calls, faults>>

IssueOk(t) ==
    /\ call[t].pc = "issue"
    /\ fresh' = TRUE
    /\ Ends(t, "ok")
    /\ UNCHANGED <<cooldown, ready, main, calls, faults>>

\* EGW00133: the cool-down is recorded before the error is raised.
IssueLimited(t) ==
    /\ call[t].pc = "issue" /\ Fault
    /\ cooldown' = TRUE
    /\ Ends(t, "limit")
    /\ UNCHANGED <<fresh, ready, main, calls>>

\* Any other answer, or none: connect closes its session and nothing is cached.
IssueFails(t) ==
    /\ call[t].pc = "issue" /\ Fault
    /\ Ends(t, "fail")
    /\ UNCHANGED <<fresh, cooldown, ready, main, calls>>

CallStep(t) == AccountLocked(t) \/ TokenLocked(t) \/ IssueOk(t) \/ IssueLimited(t) \/ IssueFails(t)

TokenExpires ==
    /\ fresh /\ calls < MaxCalls
    /\ fresh' = FALSE
    /\ calls' = calls + 1
    /\ UNCHANGED <<cooldown, tokenq, lockq, brokers, call, ready, main, faults>>

CooldownEnds ==
    /\ cooldown
    /\ cooldown' = FALSE
    /\ UNCHANGED <<fresh, tokenq, lockq, brokers, call, ready, main, calls, faults>>

-----------------------------------------------------------------------------
(* Clients: the broker commands of the IPC server *)

\* The server listens from the end of the start-up until stop_dispatching.
Serving == main.pc \in {"sleep", "burst", "attempt", "connecting", "rebind", "stopping"}

IpcCall(a) ==
    /\ Serving /\ calls < MaxCalls
    /\ GetBroker("ipc", a)
    /\ calls' = calls + 1
    /\ UNCHANGED <<ready, main, faults>>

\* The command goes on to a request of the broker, which authenticates anew when the token
\* is near its expiry (_ensure_authenticated).
IpcRequest ==
    LET c == call["ipc"] IN
    /\ c.pc = "ok" /\ ~c.api /\ brokers[c.acct] = "up"
    /\ IF fresh
       THEN /\ call' = [call EXCEPT !["ipc"] = NoCall]
            /\ UNCHANGED <<tokenq, lockq, brokers>>
       ELSE IF cooldown
       THEN /\ call' = [call EXCEPT !["ipc"] = [c EXCEPT !.pc = "limit", !.api = TRUE]]
            /\ UNCHANGED <<tokenq, lockq, brokers>>
       ELSE /\ call' = [call EXCEPT !["ipc"] = [c EXCEPT !.pc = "wait", !.api = TRUE]]
            /\ tokenq' = Append(tokenq, "ipc")
            /\ UNCHANGED <<lockq, brokers>>
    /\ UNCHANGED <<fresh, cooldown, ready, main, calls, faults>>

\* The answer is sent.
IpcEnds ==
    LET c == call["ipc"] IN
    /\ c.pc \in {"ok", "limit", "fail"}
    /\ c.pc = "ok" /\ ~c.api => brokers[c.acct] # "up"
    /\ call' = [call EXCEPT !["ipc"] = NoCall]
    /\ UNCHANGED <<tokenVars, lockq, brokers, ready, main, calls, faults>>

-----------------------------------------------------------------------------
(* _init_gateway *)

Mark(a, f) == ready' = [ready EXCEPT ![a] = @ \cup {f}]
Unmark(a, f) == ready' = [ready EXCEPT ![a] = @ \ {f}]

BootConnect(a) ==
    /\ main.pc = "connect" /\ main.acct = Nobody /\ a \in main.todo
    /\ GetBroker("main", a)
    /\ main' = [main EXCEPT !.acct = a]
    /\ UNCHANGED <<ready, calls, faults>>

\* The account is done with, connected or not.
BootNext(marked) ==
    /\ main' = [main EXCEPT !.todo = @ \ {main.acct}, !.acct = Nobody, !.tries = 0]
    /\ call' = [call EXCEPT !["main"] = NoCall]
    /\ IF marked THEN Mark(main.acct, "broker") ELSE Unmark(main.acct, "broker")
    /\ UNCHANGED <<tokenVars, lockq, brokers, calls, faults>>

BootConnected ==
    /\ main.pc = "connect" /\ call["main"].pc = "ok"
    /\ BootNext(TRUE)

BootFails ==
    /\ main.pc = "connect"
    /\ \/ call["main"].pc = "fail"
       \/ call["main"].pc = "limit" /\ main.tries = MaxRetries
    /\ BootNext(FALSE)

\* _get_broker_with_auth_retry has slept for the rest of the cool-down.
BootRetry ==
    /\ main.pc = "connect" /\ call["main"].pc = "limit"
    /\ main.tries < MaxRetries /\ ~cooldown
    /\ main' = [main EXCEPT !.tries = @ + 1, !.acct = Nobody]
    /\ call' = [call EXCEPT !["main"] = NoCall]
    /\ UNCHANGED <<tokenVars, lockq, brokers, ready, calls, faults>>

\* _broker_ready_init_accounts: a live account that is not connected is left to the loop.
BootRegister ==
    /\ main.pc = "connect" /\ main.todo = {}
    /\ main' = [main EXCEPT !.pc = "register",
                  !.todo = {r \in AccountIds \X (Flags \ {"broker"}) :
                              r[2] \in Required(r[1]) /\ (r[1] \in Live => "broker" \in ready[r[1]])}]
    /\ UNCHANGED <<callVars, ready, calls, faults>>

\* A scheduler or the treasury's sync is started, or it is not.
BootRegistered ==
    /\ main.pc = "register"
    /\ \E r \in main.todo :
        /\ main' = [main EXCEPT !.todo = @ \ {r}]
        /\ \/ Mark(r[1], r[2]) /\ UNCHANGED faults
           \/ Unmark(r[1], r[2]) /\ Fault
    /\ UNCHANGED <<callVars, calls>>

\* _start_readiness_self_healing; the IPC server follows.
BootEnds ==
    /\ main.pc = "register" /\ main.todo = {}
    /\ main' = [main EXCEPT !.pc = "sleep"]
    /\ UNCHANGED <<callVars, ready, calls, faults>>

BootStep ==
    \/ \E a \in Live : BootConnect(a)
    \/ BootConnected \/ BootFails \/ BootRetry \/ BootRegister \/ BootRegistered \/ BootEnds

-----------------------------------------------------------------------------
(* _readiness_self_healing_loop, _self_healing_recover_account *)

BurstStarts ==
    LET pending == {a \in AccountIds : ~ActiveTradingReady(a)} IN
    /\ main.pc = "sleep" /\ pending # {}
    /\ main' = [main EXCEPT !.pc = "burst", !.todo = pending]
    /\ UNCHANGED <<callVars, ready, calls, faults>>

BurstNext ==
    /\ main.pc = "burst"
    /\ main' = IF main.todo = {} THEN [main EXCEPT !.pc = "sleep"]
               ELSE [main EXCEPT !.pc = "attempt", !.tries = 0,
                                 !.acct = CHOOSE a \in main.todo : TRUE]
    /\ UNCHANGED <<callVars, ready, calls, faults>>

\* The account is left, recovered or until the next burst.
LeaveAccount == main' = [main EXCEPT !.pc = "burst", !.todo = @ \ {main.acct}, !.acct = Nobody,
                                     !.tries = 0, !.regs = <<>>, !.rebound = FALSE]

\* The account is tried again after a back-off while the burst lasts.
NextAttempt ==
    IF main.tries + 1 < MaxBurst
    THEN main' = [main EXCEPT !.pc = "attempt", !.tries = @ + 1, !.regs = <<>>, !.rebound = FALSE]
    ELSE LeaveAccount

\* What has to be registered again: what is not ready, and everything after a reconnection.
NeedsRegistration(a, rebound) ==
    SelectSeq(Registrations, LAMBDA f : f \in Required(a) /\ (rebound \/ f \notin ready[a]))

Attempt ==
    LET a == main.acct IN
    /\ main.pc = "attempt"
    /\ IF a \in Live /\ "broker" \notin ready[a]
       THEN /\ GetBroker("main", a)
            /\ main' = [main EXCEPT !.pc = "connecting"]
       ELSE /\ main' = [main EXCEPT !.pc = "rebind", !.regs = NeedsRegistration(a, FALSE)]
            /\ UNCHANGED callVars
    /\ UNCHANGED <<ready, calls, faults>>

AttemptConnected ==
    /\ main.pc = "connecting" /\ call["main"].pc = "ok"
    /\ main' = [main EXCEPT !.pc = "rebind", !.rebound = TRUE,
                            !.regs = NeedsRegistration(main.acct, TRUE)]
    /\ call' = [call EXCEPT !["main"] = NoCall]
    /\ UNCHANGED <<tokenVars, lockq, brokers, ready, calls, faults>>

\* EGW00133 ends the burst of the account, another error the attempt.
AttemptFails ==
    /\ main.pc = "connecting" /\ call["main"].pc \in {"limit", "fail"}
    /\ IF call["main"].pc = "limit" THEN LeaveAccount ELSE NextAttempt
    /\ call' = [call EXCEPT !["main"] = NoCall]
    /\ Unmark(main.acct, "broker")
    /\ UNCHANGED <<tokenVars, lockq, brokers, calls, faults>>

Registered(marked) ==
    /\ main.pc = "rebind" /\ main.regs # <<>>
    /\ main' = [main EXCEPT !.regs = Tail(@)]
    /\ IF marked THEN Mark(main.acct, Head(main.regs)) /\ UNCHANGED faults
                 ELSE Unmark(main.acct, Head(main.regs)) /\ Fault
    /\ UNCHANGED <<callVars, calls>>

\* Mutant: the exception leaves the loop.
RebindRaisesOut ==
    /\ main.pc = "rebind" /\ main.regs # <<>>
    /\ main' = [main EXCEPT !.pc = "dead"] /\ Fault
    /\ UNCHANGED <<callVars, ready, calls>>

\* An exception nobody expected is logged and the attempt has failed.
RebindRaises ==
    /\ main.pc = "rebind" /\ main.regs # <<>>
    /\ NextAttempt /\ Fault
    /\ UNCHANGED <<callVars, ready, calls>>

\* The broker is marked last; the account is left when it may trade.
RebindEnds ==
    LET a == main.acct
        now == ready[a] \cup (IF main.rebound THEN {"broker"} ELSE {})
    IN
    /\ main.pc = "rebind" /\ main.regs = <<>>
    /\ ready' = [ready EXCEPT ![a] = now]
    /\ IF Required(a) \subseteq now THEN LeaveAccount ELSE NextAttempt
    /\ UNCHANGED <<callVars, calls, faults>>

HealStep ==
    \/ BurstStarts \/ BurstNext \/ Attempt \/ AttemptConnected \/ AttemptFails
    \/ Registered(TRUE) \/ Registered(FALSE) \/ RebindRaises \/ RebindEnds

-----------------------------------------------------------------------------
(* _shutdown *)

\* The loop is cancelled wherever it is: it leaves the locks it holds or awaits, and connect
\* closes its session.
CancelHealing ==
    /\ main.pc \in {"sleep", "burst", "attempt", "connecting", "rebind"}
    /\ main' = [main EXCEPT !.pc = "stopping", !.todo = {}, !.acct = Nobody, !.tries = 0,
                            !.regs = <<>>, !.rebound = FALSE]
    /\ call' = [call EXCEPT !["main"] = NoCall]
    /\ lockq' = [a \in AccountIds |-> Without(lockq[a], "main")]
    /\ tokenq' = Without(tokenq, "main")
    /\ UNCHANGED <<fresh, cooldown, brokers, ready, calls, faults>>

StopDispatching ==
    /\ main.pc = "stopping"
    /\ main' = [main EXCEPT !.pc = "disconnect", !.todo = AccountIds]
    /\ UNCHANGED <<callVars, ready, calls, faults>>

\* Mutant: get_cached_broker does not wait for the lock.
GetCachedBrokerAtOnce(a) ==
    /\ main.pc = "disconnect" /\ main.acct = Nobody /\ a \in main.todo
    /\ main' = [main EXCEPT !.todo = @ \ {a}]
    /\ brokers' = [brokers EXCEPT ![a] = IF @ = "up" THEN "closed" ELSE @]
    /\ UNCHANGED <<tokenVars, lockq, call, ready, calls, faults>>

\* get_cached_broker waits for the lock of the account.
GetCachedBroker(a) ==
    /\ main.pc = "disconnect" /\ main.acct = Nobody /\ a \in main.todo
    /\ main' = [main EXCEPT !.acct = a]
    /\ lockq' = [lockq EXCEPT ![a] = Append(@, "main")]
    /\ UNCHANGED <<tokenVars, brokers, call, ready, calls, faults>>

\* What it finds in the cache is disconnected.
Disconnect ==
    LET a == main.acct IN
    /\ main.pc = "disconnect" /\ a # Nobody
    /\ Head(lockq[a]) = "main"
    /\ main' = [main EXCEPT !.acct = Nobody, !.todo = @ \ {a}]
    /\ lockq' = [lockq EXCEPT ![a] = Tail(@)]
    /\ brokers' = [brokers EXCEPT ![a] = IF @ = "up" THEN "closed" ELSE @]
    /\ UNCHANGED <<tokenVars, call, ready, calls, faults>>

CloseDb ==
    /\ main.pc = "disconnect" /\ main.todo = {} /\ main.acct = Nobody
    /\ main' = [main EXCEPT !.pc = "closed"]
    /\ UNCHANGED <<callVars, ready, calls, faults>>

ShutdownStep ==
    StopDispatching \/ (\E a \in AccountIds : GetCachedBroker(a)) \/ Disconnect \/ CloseDb

-----------------------------------------------------------------------------

Next ==
    \/ BootStep \/ HealStep \/ CancelHealing \/ ShutdownStep
    \/ \E t \in Tasks : CallStep(t)
    \/ \E a \in AccountIds : IpcCall(a)
    \/ IpcRequest \/ IpcEnds
    \/ TokenExpires \/ CooldownEnds

Spec == Init /\ [][Next]_vars

\* The event loop goes on with every task, cool-downs end, and what fails does not fail for
\* ever (MaxFaults).
FairSpec ==
    /\ Spec
    /\ WF_vars(BootStep \/ HealStep \/ ShutdownStep)
    /\ WF_vars(CallStep("main"))
    /\ WF_vars(CallStep("ipc") \/ IpcRequest \/ IpcEnds)
    /\ WF_vars(CooldownEnds)

-----------------------------------------------------------------------------

\* However many accounts and clients ask at once, one token is requested at a time for an app
\* key, and none while the cache has a fresh one or the key is in its cool-down
\* (kis.py:574-625).
OneTokenAtATime ==
    \A t \in Tasks : call[t].pc = "issue" =>
        /\ ~fresh /\ ~cooldown
        /\ \A u \in Tasks \ {t} : call[u].pc # "issue"

\* When the database closes no broker is connected and none is connecting, whatever command
\* was under way (service.py:1079-1102, main.py:2950-2971).
NoSessionPastDb ==
    main.pc = "closed" =>
        /\ \A a \in AccountIds : brokers[a] # "up"
        /\ ~\E t \in Tasks : call[t].pc \in {"lock", "wait", "issue"} /\ ~call[t].api

\* Unless the process is shut down every account comes to trade, whichever connections, token
\* requests and registrations fail first (main.py:1570-1664).
EventuallyReady ==
    <>(\/ main.pc \in {"stopping", "disconnect", "closed"}
       \/ \A a \in AccountIds : ActiveTradingReady(a))

=============================================================================
