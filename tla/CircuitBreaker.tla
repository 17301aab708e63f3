--------------------------- MODULE CircuitBreaker ---------------------------
(***************************************************************************)
(* The circuit breaker of the KIS broker adapter (broker/circuit_breaker   *)
(* .py) driven by the request wrapper that every order and query of one    *)
(* account shares (KISBaseAdapter._request_with_cont in broker/kis.py).    *)
(*                                                                         *)
(* The wrapper asks the breaker once, then awaits authentication, the rate *)
(* limiter, the HTTP exchange and the retry back-off.  The breaker is      *)
(* therefore told about an outcome long after it admitted the call, and    *)
(* several calls are in flight at once: a late answer meets a breaker that *)
(* has changed state in between.                                           *)
(***************************************************************************)
EXTENDS Naturals, FiniteSets

CONSTANTS
    Calls,            \* the concurrent users of one adapter instance
    ExemptCalls,      \* the late-ccld queries, cb_exempt_timeout=True
    Threshold,        \* failure_threshold
    RecoveryTimeout,  \* recovery_timeout, in ticks of the clock
    MaxRetries        \* max_retries of the endpoint

ASSUME CallsAssumption == IsFiniteSet(Calls) /\ ExemptCalls \subseteq Calls
ASSUME ThresholdAssumption == Threshold \in Nat \ {0}
ASSUME TimeoutAssumption == RecoveryTimeout \in Nat \ {0}
ASSUME RetriesAssumption == MaxRetries \in Nat

VARIABLES
    state,     \* CircuitBreaker._state
    failures,  \* CircuitBreaker._failure_count, saturating at Threshold
    elapsed,   \* monotonic() - _last_failure_time, saturating at RecoveryTimeout
    pc,        \* where each call stands in _request_with_cont
    attempt,   \* the retry loop's counter
    openSends  \* HTTP requests each call sent in the current OPEN period (history)

breaker == <<state, failures, elapsed>>
breakerVars == <<state, failures, elapsed, pc, attempt, openSends>>

\* "admitted": past check(), awaiting the token or the rate limiter.
PCs == {"idle", "admitted", "sending", "backoff"}

TypeOK ==
    /\ state \in {"closed", "open", "half_open"}
    /\ failures \in 0..Threshold
    /\ elapsed \in 0..RecoveryTimeout
    /\ pc \in [Calls -> PCs]
    /\ attempt \in [Calls -> 0..MaxRetries]
    /\ openSends \in [Calls -> Nat]

BreakerInit ==
    /\ state = "closed"
    /\ failures = 0
    /\ elapsed = RecoveryTimeout
    /\ pc = [c \in Calls |-> "idle"]
    /\ attempt = [c \in Calls |-> 0]
    /\ openSends = [c \in Calls |-> 0]

-----------------------------------------------------------------------------
(* The breaker's own operations. *)

\* Mutant: the recovery time-out is never evaluated.
StateReadNoRecovery == state

\* The state property: reading an expired OPEN turns it into HALF_OPEN.
StateRead ==
    IF state = "open" /\ elapsed >= RecoveryTimeout THEN "half_open" ELSE state

\* record_success: from whatever state the breaker is in.
RecordSuccess ==
    /\ state' = "closed"
    /\ failures' = 0
    /\ UNCHANGED elapsed

\* record_failure: the count only matters up to the threshold, so it saturates.
RecordFailure ==
    /\ failures' = IF failures < Threshold THEN failures + 1 ELSE Threshold
    /\ elapsed' = 0
    /\ state' = CASE state = "half_open" -> "open"
                  [] state = "closed" /\ failures' >= Threshold -> "open"
                  [] OTHER -> state

-----------------------------------------------------------------------------
(* The request wrapper, one action per stretch between two awaits. *)

\* A new OPEN period starts with no request sent in it.
CountSends(sent) ==
    openSends' = IF state' = "open" /\ state # "open"
                 THEN [c \in Calls |-> 0]
                 ELSE sent

\* Mutant: the wrapper forgets to call check().
CheckPassesAlways(c) ==
    /\ pc[c] = "idle"
    /\ pc' = [pc EXCEPT ![c] = "admitted"]
    /\ UNCHANGED <<breaker, attempt, openSends>>

\* self._circuit_breaker.check() lets the call through.
CheckPasses(c) ==
    /\ pc[c] = "idle"
    /\ StateRead # "open"
    /\ state' = StateRead
    /\ pc' = [pc EXCEPT ![c] = "admitted"]
    /\ UNCHANGED <<failures, elapsed, attempt, openSends>>

\* check() raises CircuitOpenError: the call ends, nothing changes.
CheckRaises(c) ==
    /\ pc[c] = "idle"
    /\ StateRead = "open"
    /\ UNCHANGED breakerVars

\* _ensure_authenticated raises: the breaker is told nothing.
AuthFails(c) ==
    /\ pc[c] = "admitted"
    /\ pc' = [pc EXCEPT ![c] = "idle"]
    /\ UNCHANGED <<breaker, attempt, openSends>>

\* The (first or next) iteration of the retry loop calls _send_http.  The loop
\* does not consult the breaker again.
Send(c) ==
    /\ pc[c] \in {"admitted", "backoff"}
    /\ attempt' = [attempt EXCEPT ![c] = IF pc[c] = "backoff" THEN @ + 1 ELSE 0]
    /\ pc' = [pc EXCEPT ![c] = "sending"]
    /\ UNCHANGED breaker
    /\ CountSends(IF state = "open" THEN [openSends EXCEPT ![c] = @ + 1]
                                    ELSE openSends)

\* The answer arrives.
Succeeds(c) ==
    /\ pc[c] = "sending"
    /\ RecordSuccess
    /\ pc' = [pc EXCEPT ![c] = "idle"]
    /\ CountSends(openSends)
    /\ UNCHANGED attempt

\* An error the classifier calls not retryable: raised, not recorded.
FailsFatally(c) ==
    /\ pc[c] = "sending"
    /\ pc' = [pc EXCEPT ![c] = "idle"]
    /\ UNCHANGED <<breaker, attempt, openSends>>

\* should_retry: sleep and go round, or leave the loop and raise last_error.
AfterRetryable(c) ==
    /\ pc' = [pc EXCEPT ![c] = IF attempt[c] < MaxRetries THEN "backoff" ELSE "idle"]
    /\ UNCHANGED attempt

\* A retryable error that is recorded: HTTP 5xx, rate limit, connection errors,
\* and timeouts of every call but the late-ccld queries.
FailsRecorded(c) ==
    /\ pc[c] = "sending"
    /\ RecordFailure
    /\ AfterRetryable(c)
    /\ CountSends(openSends)

\* The timeout of a late-ccld query (cb_exempt_timeout): retried, not recorded.
TimesOutExempt(c) ==
    /\ c \in ExemptCalls
    /\ pc[c] = "sending"
    /\ AfterRetryable(c)
    /\ UNCHANGED <<breaker, openSends>>

\* The monotonic clock.
Tick ==
    /\ elapsed < RecoveryTimeout
    /\ elapsed' = elapsed + 1
    /\ UNCHANGED <<state, failures, pc, attempt, openSends>>

CallStep(c) ==
    \/ AuthFails(c)
    \/ Send(c)
    \/ Succeeds(c)
    \/ FailsFatally(c)
    \/ FailsRecorded(c)
    \/ TimesOutExempt(c)

BreakerNext ==
    \/ \E c \in Calls : CheckPasses(c) \/ CheckRaises(c) \/ CallStep(c)
    \/ Tick

BreakerSpec == BreakerInit /\ [][BreakerNext]_breakerVars

\* Time passes, every await of an admitted call ends (each has a time-out), and
\* the adapter's users keep asking.
BreakerFairSpec ==
    /\ BreakerSpec
    /\ WF_breakerVars(Tick)
    /\ \A c \in Calls : WF_breakerVars(CallStep(c)) /\ WF_breakerVars(CheckPasses(c))

-----------------------------------------------------------------------------
(* What the breaker guarantees. *)

\* The state and the failure count never disagree: the breaker is CLOSED exactly
\* while fewer than failure_threshold failures were recorded since the last
\* success, whatever order the answers of the concurrent calls arrive in.
\* (record_success and record_failure, circuit_breaker.py.)
ClosedIffBelowThreshold == (state = "closed") <=> (failures < Threshold)

\* An OPEN breaker stops the cascade: after it opened, a call in flight sends at
\* most the requests its own retry loop has left, because check() admits nobody
\* else.  (check() before the retry loop of _request_with_cont, kis.py.)
CascadeBounded == \A c \in Calls : openSends[c] <= MaxRetries + 1

\* The strengthening of CascadeBounded: requests already sent in this OPEN period
\* plus those the retry loop can still send stay within the loop's own bound.
SendsLeft(c) ==
    CASE pc[c] = "idle" -> 0
      [] pc[c] = "admitted" -> MaxRetries + 1
      [] OTHER -> MaxRetries - attempt[c]

\* A call that runs in an OPEN period cannot exceed its retry budget.
CascadeBudget ==
    state = "open" => \A c \in Calls : openSends[c] + SendsLeft(c) <= MaxRetries + 1

\* A breaker that opened is tried again: late failures of calls in flight push
\* the recovery back, but only finitely often.
OpenIsTemporary == (state = "open") ~> (state # "open")
=============================================================================
