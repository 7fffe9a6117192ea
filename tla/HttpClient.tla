----------------------------- MODULE HttpClient -----------------------------
(***************************************************************************)
(* Requests through one target of the HTTP client                          *)
(* (libs/resilient-http-client): enter, the retry budget, the attempts     *)
(* (circuit breaker, rate limiter, bulkhead, transport) with backoff       *)
(* between them, the response body that keeps the slot and the request in  *)
(* flight until it is closed, and Shutdown.  The breaker is the one of     *)
(* Breaker; the bulkhead is a count of slots; the transport and the rate   *)
(* limiter are external, and answer what they like when they like.         *)
(***************************************************************************)
EXTENDS Breaker

CONSTANTS Closers,          \* calls of Shutdown
          MaxAttempts,      \* RetryMaxAttempts
          MaxConcurrent,    \* bulkhead slots
          MinRetries,       \* RetryBudgetMinRetries
          BudgetNum, BudgetDen, \* RetryBudgetRatio
          Answers,          \* how a request may end: a subset of Responses \union Errors
          MaxSends          \* bound: calls of send

ASSUME ClientSizes == MaxConcurrent \in Nat \ {0}

VARIABLES
  pc,       \* where each caller is in send
  try,      \* the number of its attempt
  got,      \* how its attempt ended
  ctxDone,  \* its context has ended
  slots,    \* bulkhead: slots taken
  budget,   \* retryBudget.w
  inFlight, \* Client.inFlight
  closing,  \* Client.closing
  idle,     \* a token is in Client.idle
  closer,   \* Shutdown: "none", "load", "wait", "nil" or "gave up"
  granted,  \* history: requests (a) and retries (b) in each slot of time
  sends     \* bound counter

clientVars == <<try, got, ctxDone, slots, budget, inFlight, closing, idle, closer, granted, sends>>
vars == <<breakerVars, clientVars, pc>>

\* Responses by status: below 400, 4xx, (408, 425, 429), 5xx, (501, 505).
Responses == {"ok", "client", "again", "server", "final"}
\* Transport errors, and the request body that cannot be replayed.
Errors == {"redirect", "canceled", "timeout", "connection", "replay"}

\* classify and the status rule of attempt: what the breaker hears.
Outcome(k) ==
  CASE k \in {"server", "final", "timeout", "connection"} -> "failure"
    [] k \in {"canceled", "replay"} -> "ignored"
    [] OTHER -> "success"

retryable(k) == k \in {"again", "server", "timeout", "connection"}

Init ==
  /\ BreakerInit
  /\ pc = [c \in Callers |-> "idle"] /\ try = [c \in Callers |-> 0]
  /\ got = [c \in Callers |-> "none"] /\ ctxDone = [c \in Callers |-> FALSE]
  /\ slots = 0 /\ budget = newWindow
  /\ inFlight = 0 /\ closing = FALSE /\ idle = FALSE
  /\ closer = [s \in Closers |-> "none"]
  /\ granted = [t \in 0..MaxTime |-> [a |-> 0, b |-> 0]]
  /\ sends = 0

Goto(c, from, to) == pc[c] = from /\ pc' = [pc EXCEPT ![c] = to]

----------------------------------------------------------------------------
\* enter: the request is counted ...
enter(c) ==
  /\ Goto(c, "idle", "entered") /\ sends < MaxSends
  /\ sends' = sends + 1 /\ inFlight' = inFlight + 1
  /\ UNCHANGED <<breakerVars, try, got, ctxDone, slots, budget, closing, idle, closer, granted>>

\* Code that counts and does not look.
enterCheckMutant(c) ==
  /\ Goto(c, "entered", "request")
  /\ UNCHANGED <<breakerVars, clientVars>>

\* ... and refused when a shutdown has begun.
enterCheck(c) ==
  /\ Goto(c, "entered", IF closing THEN "leave" ELSE "request")
  /\ UNCHANGED <<breakerVars, clientVars>>

\* budget.request, and the first turn of the loop.
request(c) ==
  /\ Goto(c, "request", "attempt")
  /\ try' = [try EXCEPT ![c] = 1]
  /\ budget' = add(budget, clock, 1, 0)
  /\ granted' = [granted EXCEPT ![clock].a = @ + 1]
  /\ UNCHANGED <<breakerVars, got, ctxDone, slots, inFlight, closing, idle, closer, sends>>

\* The context has ended, or the breaker refuses: send returns an error.
refused(c) ==
  /\ Goto(c, "attempt", "leave") /\ (ctxDone[c] \/ Rejects)
  /\ UNCHANGED <<breakerVars, clientVars>>

admitted(c) ==
  /\ Goto(c, "attempt", "limiter") /\ ~ctxDone[c] /\ allow(c)
  /\ UNCHANGED clientVars

\* The breaker hears outcome o; record goes on in Breaker's steps.
Report(c, o) == record(c, o) \/ recordProbe(c, o)

\* A local limit rejects the attempt: the limiter's error, or acquire's false.
\* The errors for these are not retryable.
limited(c) ==
  /\ Goto(c, "limiter", "leave") /\ Report(c, "ignored")
  /\ UNCHANGED clientVars

\* limiter.Wait returns nil and acquire takes a slot, or waits for one.
acquire(c) ==
  /\ IF slots < MaxConcurrent THEN Goto(c, "limiter", "send") /\ slots' = slots + 1
                              ELSE Goto(c, "limiter", "queue") /\ UNCHANGED slots
  /\ UNCHANGED <<breakerVars, try, got, ctxDone, budget, inFlight, closing, idle, closer, granted, sends>>

acquireQueued(c) ==
  /\ Goto(c, "queue", "send") /\ slots < MaxConcurrent /\ slots' = slots + 1
  /\ UNCHANGED <<breakerVars, try, got, ctxDone, budget, inFlight, closing, idle, closer, granted, sends>>

\* The wait is over, or the attempt's context: no slot came free in time.
bulkheadFull(c) ==
  /\ Goto(c, "queue", "leave") /\ Report(c, "ignored")
  /\ UNCHANGED clientVars

\* Do returns an error (or the body cannot be replayed): the slot is released
\* before the breaker hears.
failed(c, k) ==
  /\ Goto(c, "send", "report") /\ k \in Errors
  /\ k = "canceled" => ctxDone[c]
  /\ k \in {"timeout", "connection"} => ~ctxDone[c]
  /\ k = "replay" => try[c] > 1
  /\ got' = [got EXCEPT ![c] = k] /\ slots' = slots - 1
  /\ UNCHANGED <<breakerVars, try, ctxDone, budget, inFlight, closing, idle, closer, granted, sends>>

\* Do returns a response.
responded(c, k) ==
  /\ Goto(c, "send", "report") /\ k \in Responses
  /\ got' = [got EXCEPT ![c] = k]
  /\ UNCHANGED <<breakerVars, try, ctxDone, slots, budget, inFlight, closing, idle, closer, granted, sends>>

\* The breaker hears how the attempt ended.
report(c) ==
  /\ Goto(c, "report", "recorded") /\ Report(c, Outcome(got[c]))
  /\ UNCHANGED clientVars

\* record's later steps.
recording(c) ==
  /\ recordCount(c) \/ recordTrip(c)
  /\ UNCHANGED <<clientVars, pc>>

\* Code that releases the slot of a failure only.
attemptReturnsMutant(c) ==
  /\ stage[c] = "none"
  /\ Goto(c, "recorded", IF got[c] = "ok" THEN "body" ELSE "decide")
  /\ UNCHANGED <<breakerVars, clientVars>>

\* attempt returns.  A response below 400 keeps the slot; of any other the
\* body is read and the slot released; an error has released it.
attemptReturns(c) ==
  /\ stage[c] = "none"
  /\ Goto(c, "recorded", IF got[c] = "ok" THEN "body" ELSE "decide")
  /\ slots' = IF got[c] \in Responses \ {"ok"} THEN slots - 1 ELSE slots
  /\ UNCHANGED <<breakerVars, try, got, ctxDone, budget, inFlight, closing, idle, closer, granted, sends>>

\* Code that spends from the budget what it has spent.
BudgetLeftMutant == LET n == sum(budget, clock) IN n.b * BudgetDen <= MinRetries * BudgetDen + BudgetNum * n.a

\* tryRetry finds a retry left.
BudgetLeft == LET n == sum(budget, clock) IN n.b * BudgetDen < MinRetries * BudgetDen + BudgetNum * n.a

\* No attempt left, an error not worth another, a Retry-After or a deadline
\* that forbids the wait, or no budget: send returns the error.
giveUp(c) ==
  /\ Goto(c, "decide", "leave")
  /\ UNCHANGED <<breakerVars, clientVars>>

retry(c) ==
  /\ Goto(c, "decide", "sleep")
  /\ try[c] < MaxAttempts /\ retryable(got[c]) /\ BudgetLeft
  /\ budget' = add(budget, clock, 0, 1)
  /\ granted' = [granted EXCEPT ![clock].b = @ + 1]
  /\ UNCHANGED <<breakerVars, try, got, ctxDone, slots, inFlight, closing, idle, closer, sends>>

\* sleep: the delay passes, or the context ends first.
sleep(c) ==
  /\ \/ Goto(c, "sleep", "attempt") /\ try' = [try EXCEPT ![c] = @ + 1]
     \/ Goto(c, "sleep", "leave") /\ ctxDone[c] /\ UNCHANGED try
  /\ got' = [got EXCEPT ![c] = "none"]
  /\ UNCHANGED <<breakerVars, ctxDone, slots, budget, inFlight, closing, idle, closer, granted, sends>>

\* releaseBody.Close, the first time: the slot, then the request in flight.
Close(c) ==
  /\ Goto(c, "body", "leave") /\ slots' = slots - 1
  /\ UNCHANGED <<breakerVars, try, got, ctxDone, budget, inFlight, closing, idle, closer, granted, sends>>

\* leave: the count goes down; the last one out looks at closing.
leave(c) ==
  /\ Goto(c, "leave", IF inFlight = 1 THEN "signal" ELSE "idle")
  /\ stage[c] = "none"
  /\ inFlight' = inFlight - 1
  /\ try' = [try EXCEPT ![c] = 0] /\ got' = [got EXCEPT ![c] = "none"]
  /\ ctxDone' = [ctxDone EXCEPT ![c] = FALSE]
  /\ UNCHANGED <<breakerVars, slots, budget, closing, idle, closer, granted, sends>>

\* Code in which the last request out leaves no token.
signalMutant(c) ==
  /\ Goto(c, "signal", "idle")
  /\ UNCHANGED <<breakerVars, clientVars>>

signal(c) ==
  /\ Goto(c, "signal", "idle")
  /\ idle' = (idle \/ closing)
  /\ UNCHANGED <<breakerVars, try, got, ctxDone, slots, budget, inFlight, closing, closer, granted, sends>>

cancel(c) ==
  /\ pc[c] \notin {"idle", "entered", "leave", "signal"} /\ ~ctxDone[c]
  /\ ctxDone' = [ctxDone EXCEPT ![c] = TRUE]
  /\ UNCHANGED <<breakerVars, pc, try, got, slots, budget, inFlight, closing, idle, closer, granted, sends>>

----------------------------------------------------------------------------
\* Shutdown sets closing, and loops: load the count, wait for a token.
ShutdownMoves(s, from, to) == closer[s] = from /\ closer' = [closer EXCEPT ![s] = to]

Shutdown(s) ==
  /\ ShutdownMoves(s, "none", "load") /\ closing' = TRUE
  /\ UNCHANGED <<breakerVars, pc, try, got, ctxDone, slots, budget, inFlight, idle, granted, sends>>

shutdownLoad(s) ==
  /\ ShutdownMoves(s, "load", IF inFlight = 0 THEN "nil" ELSE "wait")
  /\ UNCHANGED <<breakerVars, pc, try, got, ctxDone, slots, budget, inFlight, closing, idle, granted, sends>>

shutdownIdle(s) ==
  /\ ShutdownMoves(s, "wait", "load") /\ idle /\ idle' = FALSE
  /\ UNCHANGED <<breakerVars, pc, try, got, ctxDone, slots, budget, inFlight, closing, granted, sends>>

\* Its context ends before the requests do.
shutdownGivesUp(s) ==
  /\ ShutdownMoves(s, "wait", "gave up")
  /\ UNCHANGED <<breakerVars, pc, try, got, ctxDone, slots, budget, inFlight, closing, idle, granted, sends>>

tick == Tick /\ UNCHANGED <<clientVars, pc>>

\* The steps of send that its caller and the runtime always take.
SendStep(c) ==
  \/ enterCheck(c) \/ request(c) \/ refused(c) \/ admitted(c) \/ limited(c)
  \/ acquire(c) \/ acquireQueued(c) \/ bulkheadFull(c)
  \/ \E k \in Answers : failed(c, k) \/ responded(c, k)
  \/ report(c) \/ recording(c) \/ attemptReturns(c) \/ giveUp(c) \/ retry(c)
  \/ sleep(c) \/ Close(c) \/ leave(c) \/ signal(c)

ShutdownStep(s) == shutdownLoad(s) \/ shutdownIdle(s)

Next ==
  \/ \E c \in Callers : enter(c) \/ SendStep(c) \/ cancel(c)
  \/ \E s \in Closers : Shutdown(s) \/ ShutdownStep(s) \/ shutdownGivesUp(s)
  \/ tick

Spec == Init /\ [][Next]_vars

\* The scheduler runs every goroutine; an attempt ends because its timeout
\* does, a queue and a sleep because their timers do; callers close bodies.
FairSpec ==
  /\ Spec
  /\ \A c \in Callers : WF_vars(SendStep(c))
  /\ \A s \in Closers : WF_vars(ShutdownStep(s))
----------------------------------------------------------------------------
\* No slot leaks and none is freed twice.  A slot of the bulkhead is taken
\* exactly while an attempt is in the transport, while its answer is reported,
\* and while the body of a successful response is open (client.go attempt and
\* its release, bulkhead.go); a probe slot of the half-open breaker exactly
\* while its probe is in flight or has succeeded (ProbesAccounted).
SlotsAccounted ==
  /\ ProbesAccounted
  /\ slots <= MaxConcurrent
  /\ slots = Cardinality({c \in Callers : \/ pc[c] \in {"send", "body"}
                                          \/ pc[c] \in {"report", "recorded"} /\ got[c] \in Responses})

\* Once a Shutdown has returned nil no request is admitted or under way: of a
\* request that is counted while Shutdown begins, either Shutdown sees it or
\* it sees Shutdown (client.go enter, Shutdown).
ShutdownIsFinal ==
  (\E s \in Closers : closer[s] = "nil") =>
    /\ \A c \in Callers : pc[c] \in {"idle", "entered", "leave", "signal"}
    /\ slots = 0

\* What really happened in the window that ends now.
Recent == {t \in 0..MaxTime : t <= clock /\ clock - t < WindowSlots}
RecentRequests == SumFunctionOnSet([t \in 0..MaxTime |-> granted[t].a], Recent)
RecentRetries == SumFunctionOnSet([t \in 0..MaxTime |-> granted[t].b], Recent)

\* A retry is granted only while the retries of the window's slots of time
\* are fewer than the requests of these slots allow, whatever the ring of
\* slots has been used for before (budget.go tryRetry, window.go).
RetriesWithinBudget ==
  [][granted'[clock].b > granted[clock].b
       => RecentRetries * BudgetDen < MinRetries * BudgetDen + BudgetNum * RecentRequests]_vars

\* Every send returns: nothing waits for a slot, a token or a breaker that
\* never comes.  And a Shutdown that is alone returns: the last request to
\* leave wakes it, however enter, leave and Shutdown interleave (client.go send,
\* leave, Shutdown).
CallsReturn ==
  /\ \A c \in Callers : pc[c] # "idle" ~> pc[c] = "idle"
  /\ \A s \in Closers : closer[s] = "load" ~> closer[s] \in {"nil", "gave up"}
============================================================================
