---------------------------- MODULE HttpRequest ----------------------------
(***************************************************************************)
(* One request to the API of the tasks service: the middleware chain of    *)
(* libs/httpx, the handlers of internal/api as far as their answers go     *)
(* (TaskStore and TaskCache have their effects), and the error mapping.    *)
(* The client may leave and the deadline may pass at any moment.           *)
(***************************************************************************)
EXTENDS Integers

CONSTANTS Timeouts, Asked  \* values of the deadline settings and of X-Request-Timeout-Ms (0: none)

ASSUME TimeoutsAreDurations == Timeouts \subseteq Nat /\ Asked \subseteq Nat

VARIABLES
  req,       \* the request: operation, route, body, whether its fields are valid; settings
  budget,    \* the request's deadline, 0 for none
  at,        \* where the request is in the chain
  ctxErr,    \* the request context: "none", "canceled" or "deadline"
  status, aborted,  \* responseWriter.status, reqInfo.aborted
  panic,     \* the panic that unwinds the chain: "none", "bug" or "abort"
  inFlight, unhandled, counted, logged, span,  \* metrics, access log, span
  cause      \* the cause a status from 500 up was logged with

requestVars == <<req, budget, at, ctxErr, status, aborted, panic, inFlight, unhandled, counted, logged, span, cause>>

Max2(a, b) == IF a > b THEN a ELSE b

\* requestBudget: asked is 0 for a header that is missing, zero or malformed.
requestBudget(configured, floor, wanted) ==
  IF wanted = 0 \/ (configured > 0 /\ configured < Max2(wanted, floor)) THEN configured
  ELSE Max2(wanted, floor)

RequestInit ==
  /\ req \in [op : {"create", "get", "list", "update", "delete"}, route : {"found", "unknown", "method"},
              body : {"ok", "invalid", "tooBig"}, valid : BOOLEAN,
              timeout : Timeouts, floor : Timeouts, asked : Asked]
  /\ req.timeout > 0 => req.floor <= req.timeout  \* Config.Validate
  /\ req.route # "found" => req.body = "ok" /\ req.valid
  /\ req.op \in {"get", "list", "delete"} => req.body = "ok"
  /\ req.op = "get" => req.valid
  /\ budget = 0 /\ at = "entry" /\ ctxErr = "none" /\ status = 0 /\ aborted = FALSE /\ panic = "none"
  /\ inFlight = 0 /\ unhandled = 0 /\ counted = 0 /\ logged = 0 /\ span = 0 /\ cause = "none"

rest == <<req, budget, aborted, panic, inFlight, unhandled, counted, logged, span>>

\* entry, debugToken, tracing, accessLog, metrics: the way in.
entry ==
  /\ at = "entry" /\ at' = "route"
  /\ budget' = requestBudget(req.timeout, req.floor, req.asked)
  /\ inFlight' = inFlight + 1
  /\ UNCHANGED <<req, ctxErr, status, aborted, panic, unhandled, counted, logged, span, cause>>

\* responseWriter.WriteHeader: the first status counts.
WriteHeader(code) == status' = IF status = 0 THEN code ELSE status

\* WriteProblem, WriteError
Problem(code, err) == WriteHeader(code) /\ cause' = IF code >= 500 THEN err ELSE cause

\* route: no such route, or not this method on it.
route ==
  /\ at = "route"
  /\ IF req.route = "found" THEN at' = "check" /\ UNCHANGED <<status, cause>>
     ELSE at' = "recovery" /\ WriteHeader(IF req.route = "unknown" THEN 404 ELSE 405) /\ UNCHANGED cause
  /\ UNCHANGED <<rest, ctxErr>>

\* The handlers up to the store: DecodeJSON and bodyLimit, the title, key, patch,
\* If-Match and query rules.
check ==
  /\ at = "check"
  /\ IF req.body = "ok" /\ req.valid THEN at' = "store" /\ UNCHANGED <<status, cause>>
     ELSE at' = "recovery" /\ Problem(IF req.body = "tooBig" THEN 413 ELSE 400, "none")
  /\ UNCHANGED <<rest, ctxErr>>

\* What the store answers an operation with, and the status for it.
Answers == [create |-> {201, 200, 422}, get |-> {200, 404}, list |-> {200},
            update |-> {200, 404, 412}, delete |-> {204, 404, 412}]

\* create, get, list, update, delete once the store has answered: writeChangeError.
answered ==
  /\ at = "store" /\ at' = "recovery"
  /\ \E code \in Answers[req.op] : Problem(code, "none")
  /\ UNCHANGED <<rest, ctxErr>>

\* fail and WriteError, when it failed; a call fails with the context's error
\* only once the context has ended.
fail ==
  /\ at = "store" /\ at' = "recovery"
  /\ \E err \in {ctxErr, "other"} \ {"none"} : Problem(IF err = "deadline" THEN 504 ELSE 500, err)
  /\ UNCHANGED <<rest, ctxErr>>

\* A handler panics, before or after it has written.
handlerPanics ==
  /\ at \in {"check", "store", "recovery"} /\ panic = "none" /\ ~aborted /\ unhandled = 0
  /\ at' = "recovery"
  /\ panic' \in {"bug", "abort"}
  /\ UNCHANGED <<req, budget, ctxErr, status, aborted, inFlight, unhandled, counted, logged, span, cause>>

----------------------------------------------------------------------------
\* A chain with recovery outside the metrics: the panic passes them first.
recoveryMutant ==
  /\ at = "recovery"
  /\ at' = "metrics"
  /\ UNCHANGED <<req, budget, ctxErr, status, aborted, panic, inFlight, unhandled, counted, logged, span, cause>>

\* recovery
recovery ==
  /\ at = "recovery" /\ at' = "metrics"
  /\ aborted' = (panic = "abort")
  /\ IF panic = "bug"
       THEN unhandled' = unhandled + 1 /\ panic' = "none" /\ cause' = "panic" /\ WriteHeader(500)
       ELSE UNCHANGED <<unhandled, panic, cause, status>>
  /\ UNCHANGED <<req, budget, ctxErr, inFlight, counted, logged, span>>

\* reqInfo.status
StatusOf == IF aborted \/ (status = 0 /\ ctxErr = "canceled") THEN 499
            ELSE IF status = 0 THEN 200 ELSE status

\* Metrics.Middleware and accessLog, in defers, so a panic does not pass them by.
metrics ==
  /\ at = "metrics" /\ at' = "log"
  /\ inFlight' = inFlight - 1 /\ counted' = StatusOf
  /\ UNCHANGED <<req, budget, ctxErr, status, aborted, panic, unhandled, logged, span, cause>>

accessLog ==
  /\ at = "log" /\ at' = "tracing"
  /\ logged' = StatusOf
  /\ UNCHANGED <<req, budget, ctxErr, status, aborted, panic, inFlight, unhandled, counted, span, cause>>

\* tracing, which a panic does pass by.
tracing ==
  /\ at = "tracing" /\ at' = "done"
  /\ span' = IF panic = "none" THEN StatusOf ELSE 0
  /\ UNCHANGED <<req, budget, ctxErr, status, aborted, panic, inFlight, unhandled, counted, logged, cause>>

\* The client leaves; the deadline passes.
ContextEnds ==
  /\ at # "done" /\ ctxErr = "none"
  /\ \/ ctxErr' = "canceled"
     \/ budget > 0 /\ at # "entry" /\ ctxErr' = "deadline"
  /\ UNCHANGED <<rest, at, status, cause>>

RequestNext == \/ entry \/ route \/ check \/ answered \/ fail \/ handlerPanics \/ recovery
               \/ metrics \/ accessLog \/ tracing \/ ContextEnds

RequestSpec == RequestInit /\ [][RequestNext]_requestVars

----------------------------------------------------------------------------
\* A request is counted and logged with what its client got: the first status
\* written, 500 for a handler that panicked before it wrote, 499 for a dropped
\* connection.  The gauge is back at zero, a status from 500 up was logged with
\* its cause, no panic but an abort leaves the chain, and the deadline is never
\* longer than the server's (middleware.go recovery, accessLog, status,
\* requestBudget; metrics.go Middleware; problem.go WriteProblem; httpx.go
\* NewServer).
CountedAsAnswered ==
  at = "done" =>
    /\ inFlight = 0 /\ panic # "bug"
    /\ IF aborted THEN counted = 499 /\ logged = 499
       ELSE status # 0 /\ counted = status /\ logged = status /\ (status >= 500 => cause # "none")
    /\ req.timeout > 0 => budget \in 1..req.timeout
============================================================================
