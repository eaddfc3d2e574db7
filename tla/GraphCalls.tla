----------------------------- MODULE GraphCalls -----------------------------
(***************************************************************************)
(* Concurrent calls of Microsoft Graph through the one GraphRetryAdapter:  *)
(* its retry loop, its circuit breaker and its rate limiter.               *)
(*                                                                         *)
(* A call passes the breaker, then polls the limiter, then sends; so a     *)
(* call that waits for the limiter sends whatever the breaker says by      *)
(* then, and answers arrive in any order.  Times are kept as ages, which   *)
(* stop counting where no comparison tells them apart.                     *)
(***************************************************************************)
EXTENDS Naturals

CONSTANTS
    Caller,      \* concurrent coroutines
    MaxRetries,  \* max_retries of the adapter
    Threshold,   \* failure_threshold of the breaker
    Recovery,    \* recovery_timeout
    Budget,      \* max_requests_per_minute
    Window,      \* the 60 seconds of a request window
    MaxWait,     \* the longest Retry-After
    MaxCalls     \* bound: calls per coroutine

ASSUME CallsAssumption ==
    /\ MaxRetries \in Nat /\ MaxCalls \in Nat
    /\ Threshold \in Nat \ {0} /\ Budget \in Nat \ {0}
    /\ Recovery \in Nat /\ Window \in Nat /\ MaxWait \in Nat

VARIABLES
    breaker,  \* state, failure_count, age of last_failure_time
    limiter,  \* request_count, age of window_start, what is left of retry_after
    call,     \* per coroutine: where it is, its attempt, its calls so far
    recent    \* how many requests are at most so many seconds old

callsVars == <<breaker, limiter, call, recent>>

BreakerState == {"closed", "open", "half-open"}
Breaker == [state : BreakerState, failure_count : Nat, since : 0..Recovery + 1]
Limiter == [request_count : 0..Budget, age : 0..Window + 1,
            retry_after : 0..MaxWait]
Call == [pc : {"idle", "enter", "poll", "sent"}, attempt : 0..MaxRetries,
         calls : 0..MaxCalls]

CallsTypeOK ==
    /\ breaker \in Breaker
    /\ limiter \in Limiter
    /\ call \in [Caller -> Call]
    /\ recent \in [0..Window -> Nat]

\* One adapter, with its own breaker and limiter, for all calls.
CallsInit ==
    /\ breaker = [state |-> "closed", failure_count |-> 0,
                  since |-> Recovery + 1]
    /\ limiter = [request_count |-> 0, age |-> 0, retry_after |-> 0]
    /\ call = [c \in Caller |-> [pc |-> "idle", attempt |-> 0, calls |-> 0]]
    /\ recent = [a \in 0..Window |-> 0]

At(c, pc) == call[c].pc = pc
GoesTo(c, pc) == call' = [call EXCEPT ![c].pc = pc]

-----------------------------------------------------------------------------
\* execute_with_retry starts its loop.
Begin(c) ==
    /\ At(c, "idle")
    /\ call[c].calls < MaxCalls
    /\ call' = [call EXCEPT ![c] = [pc |-> "enter", attempt |-> 0,
                                    calls |-> @.calls + 1]]
    /\ UNCHANGED <<breaker, limiter, recent>>

\* call_with_circuit_breaker: closed or half-open lets everybody pass ...
Admitted(c) ==
    /\ At(c, "enter")
    /\ breaker.state # "open"
    /\ GoesTo(c, "poll")
    /\ UNCHANGED <<breaker, limiter, recent>>

\* ... an open breaker becomes half-open when the last failure is old enough ...
HalfOpens(c) ==
    /\ At(c, "enter")
    /\ breaker.state = "open"
    /\ breaker.since > Recovery
    /\ breaker' = [breaker EXCEPT !.state = "half-open"]
    /\ GoesTo(c, "poll")
    /\ UNCHANGED <<limiter, recent>>

\* ... and otherwise raises what the retry loop does not catch.
TurnedAway(c) ==
    /\ At(c, "enter")
    /\ breaker.state = "open"
    /\ breaker.since <= Recovery
    /\ GoesTo(c, "idle")
    /\ UNCHANGED <<breaker, limiter, recent>>

\* check_rate_limit: the first check after the end of a window opens a new one.
WindowOver == limiter.age > Window

\* Mutants of Count and Age: the new window keeps the count of the old one, or
\* does not remember when it began.
CountKept == limiter.request_count
AgeKept == limiter.age

Count == IF WindowOver THEN 0 ELSE limiter.request_count
Age == IF WindowOver THEN 0 ELSE limiter.age
MayProceed == limiter.retry_after = 0 /\ Count < Budget

\* make_request polls the limiter; when it says yes, the request is sent.
Poll(c) ==
    /\ At(c, "poll")
    /\ MayProceed
    /\ limiter' = [limiter EXCEPT !.request_count = Count + 1, !.age = Age]
    /\ recent' = [a \in 0..Window |-> recent[a] + 1]
    /\ GoesTo(c, "sent")
    /\ UNCHANGED breaker

\* The breaker sees a success: failures are forgotten, also while it is open.
OnSuccess ==
    breaker' = [breaker EXCEPT
                  !.state = IF @ = "half-open" THEN "closed" ELSE @,
                  !.failure_count = 0]

\* The breaker sees a failure of any kind, client errors included.
OnFailure ==
    breaker' = [state |-> IF breaker.failure_count + 1 >= Threshold
                          THEN "open" ELSE breaker.state,
                failure_count |-> breaker.failure_count + 1,
                since |-> 0]

Succeeds(c) ==
    /\ At(c, "sent")
    /\ OnSuccess
    /\ GoesTo(c, "idle")
    /\ UNCHANGED <<limiter, recent>>

\* Mutant of NextAttempt: the loop makes a round more.
NextAttemptLate(c) ==
    IF call[c].attempt <= MaxRetries
    THEN call' = [call EXCEPT ![c].pc = "enter", ![c].attempt = @ + 1]
    ELSE GoesTo(c, "idle")

\* The next round of the loop, after its backoff, or the end of the loop.
NextAttempt(c) ==
    IF call[c].attempt < MaxRetries
    THEN call' = [call EXCEPT ![c].pc = "enter", ![c].attempt = @ + 1]
    ELSE GoesTo(c, "idle")

\* A server or network error.
Fails(c) ==
    /\ At(c, "sent")
    /\ OnFailure
    /\ NextAttempt(c)
    /\ UNCHANGED <<limiter, recent>>

\* A 429: its Retry-After replaces whatever is left of an earlier one.
Throttled(c, wait) ==
    /\ At(c, "sent")
    /\ limiter' = [limiter EXCEPT !.retry_after = wait]
    /\ OnFailure
    /\ NextAttempt(c)
    /\ UNCHANGED recent

\* Any other 4xx is not retried.
ClientError(c) ==
    /\ At(c, "sent")
    /\ OnFailure
    /\ GoesTo(c, "idle")
    /\ UNCHANGED <<limiter, recent>>

Older(age, limit) == IF age < limit THEN age + 1 ELSE age

SecondPasses ==
    /\ breaker' = [breaker EXCEPT !.since = Older(@, Recovery + 1)]
    /\ limiter' = [limiter EXCEPT !.age = Older(@, Window + 1),
                                  !.retry_after = IF @ = 0 THEN 0 ELSE @ - 1]
    /\ recent' = [a \in 0..Window |-> IF a = 0 THEN 0 ELSE recent[a - 1]]
    /\ UNCHANGED call

Answered(c) ==
    \/ Succeeds(c) \/ Fails(c) \/ ClientError(c)
    \/ \E wait \in 0..MaxWait : Throttled(c, wait)
Passes(c) == Admitted(c) \/ HalfOpens(c) \/ TurnedAway(c) \/ Poll(c)
ExecuteWithRetry(c) == Begin(c) \/ Passes(c) \/ Answered(c)

CallsNext == (\E c \in Caller : ExecuteWithRetry(c)) \/ SecondPasses

\* Time passes, the event loop runs every coroutine, and every request is
\* answered or times out.
CallsFairness ==
    /\ WF_callsVars(SecondPasses)
    /\ \A c \in Caller : WF_callsVars(Passes(c)) /\ WF_callsVars(Answered(c))

CallsSpec == CallsInit /\ [][CallsNext]_callsVars /\ CallsFairness

-----------------------------------------------------------------------------
\* Properties.

\* In any 60 seconds at most two budgets are sent, however the fixed windows
\* lie: this is what keeps 50 per window below Graph's limit of 100 a minute.
RateBounded == recent[Window] <= 2 * Budget

\* Every call ends, through retries, waits and outages of Graph.
CallsEnd == \A c \in Caller : ~At(c, "idle") ~> At(c, "idle")
=============================================================================
