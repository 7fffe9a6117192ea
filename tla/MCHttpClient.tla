---------------------------- MODULE MCHttpClient ----------------------------
(***************************************************************************)
(* The HTTP client for TLC, from two sides: whole requests and a Shutdown  *)
(* (mode "client"), and more calls of the breaker alone than requests      *)
(* would allow (mode "breaker").                                           *)
(***************************************************************************)
EXTENDS HttpClient, TLC

CONSTANT MaxCalls  \* bound: calls of allow in mode "breaker"

VARIABLE mode

BreakerAlone ==
  /\ \/ \E c \in Callers : allow(c) /\ sends < MaxCalls /\ sends' = sends + 1
     \/ /\ \/ \E c \in Callers : recordCount(c) \/ recordTrip(c) \/ \E o \in Outcomes : Report(c, o)
           \/ Tick
        /\ UNCHANGED sends
  /\ UNCHANGED <<pc, try, got, ctxDone, slots, budget, inFlight, closing, idle, closer, granted>>

MCInit == Init /\ mode \in {"client", "breaker"}
MCNext ==
  /\ \/ mode = "client" /\ Next
     \/ mode = "breaker" /\ BreakerAlone
  /\ UNCHANGED mode
MCSpec == MCInit /\ [][MCNext]_<<vars, mode>>

Interchangeable == Permutations(Callers)
============================================================================
