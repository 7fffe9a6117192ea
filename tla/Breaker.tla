------------------------------ MODULE Breaker ------------------------------
(***************************************************************************)
(* The circuit breaker of the HTTP client                                  *)
(* (libs/resilient-http-client/breaker.go).  Its state is one immutable    *)
(* snapshot replaced by compare-and-swap.  allow and recordProbe load it,  *)
(* compute the next one and retry when the swap loses: each is atomic at   *)
(* the swap that wins, or at the load that ends it.  record of a request   *)
(* admitted while closed is three steps (the load of the snapshot and of   *)
(* the time, the window under its lock, the swap that trips), and the      *)
(* snapshot may be replaced between them.                                  *)
(***************************************************************************)
EXTENDS SlidingWindow

CONSTANTS Callers,
          RatioNum, RatioDen, \* BreakerFailureRatio
          MinRequests,        \* BreakerMinRequests
          OpenTimeout,        \* BreakerOpenTimeout, in slots of time
          MaxProbes,          \* BreakerHalfOpenProbes
          MaxTime             \* bound: the clock

ASSUME BreakerSizes ==
  /\ IsFiniteSet(Callers) /\ MaxProbes \in Nat \ {0}
  /\ MinRequests \in Nat \ {0} /\ WindowSlots \in Nat \ {0}
  /\ RatioNum \in Nat /\ RatioDen \in Nat /\ OpenTimeout \in Nat /\ MaxTime \in Nat

VARIABLES
  clock,   \* the slot of time it is
  cur,     \* breaker.cur
  win,     \* breaker.win
  winGen,  \* breaker.winGen
  ticket,  \* the ticket of each caller's request
  stage,   \* "none", "held" (admitted), "count" and "trip" (inside record)
  heard,   \* what record has in hand: [failed, now]
  counted  \* history: results of requests admitted in the current generation
           \* that record has counted

breakerVars == <<clock, cur, win, winGen, ticket, stage, heard, counted>>

Outcomes == {"success", "failure", "ignored"}

Snapshot == [state : {"closed", "open", "half-open"}, gen : Nat,
             probes : Nat, successes : Nat, openedAt : Nat]

Fresh(state, gen, probes, at) ==
  [state |-> state, gen |-> gen, probes |-> probes, successes |-> 0, openedAt |-> at]

NoTicket == [gen |-> 0, probe |-> FALSE]
Nothing == [failed |-> FALSE, now |-> 0]

BreakerInit ==
  /\ clock = 0
  /\ cur = Fresh("closed", 0, 0, 0)
  /\ win = newWindow /\ winGen = 0
  /\ ticket = [c \in Callers |-> NoTicket]
  /\ stage = [c \in Callers |-> "none"]
  /\ heard = [c \in Callers |-> Nothing]
  /\ counted = 0

----------------------------------------------------------------------------
Expired == clock - cur.openedAt >= OpenTimeout

\* allow reports false.
Rejects ==
  \/ cur.state = "open" /\ ~Expired
  \/ cur.state = "half-open" /\ cur.probes >= MaxProbes

Admit(c, gen, probe) ==
  /\ ticket' = [ticket EXCEPT ![c] = [gen |-> gen, probe |-> probe]]
  /\ stage' = [stage EXCEPT ![c] = "held"]

\* A transition to another state begins a generation.
Swap(next) ==
  /\ cur' = next
  /\ counted' = IF next.gen = cur.gen THEN counted ELSE 0

\* allow admits a request: when closed; when open long enough, as the first
\* probe; when half-open, as one more probe.
allow(c) ==
  /\ stage[c] = "none" /\ ~Rejects
  /\ \/ /\ cur.state = "closed"
        /\ Admit(c, cur.gen, FALSE) /\ UNCHANGED <<cur, counted>>
     \/ /\ cur.state = "open"
        /\ Swap(Fresh("half-open", cur.gen + 1, 1, 0)) /\ Admit(c, cur.gen + 1, TRUE)
     \/ /\ cur.state = "half-open"
        /\ Swap([cur EXCEPT !.probes = @ + 1]) /\ Admit(c, cur.gen, TRUE)
  /\ UNCHANGED <<clock, win, winGen, heard>>

\* record returns.
Recorded(c) ==
  /\ stage' = [stage EXCEPT ![c] = "none"]
  /\ ticket' = [ticket EXCEPT ![c] = NoTicket]
  /\ heard' = [heard EXCEPT ![c] = Nothing]

\* A probe's slot is live while its generation is.
LiveProbe(c) ==
  ticket[c].probe /\ cur.state = "half-open" /\ cur.gen = ticket[c].gen

\* What a live probe's outcome makes of the snapshot.
ProbeNext(o) ==
  CASE o = "ignored" -> [cur EXCEPT !.probes = @ - 1]
    [] o = "failure" -> Fresh("open", cur.gen + 1, 0, clock)
    [] o = "success" -> IF cur.successes + 1 >= MaxProbes
                          THEN Fresh("closed", cur.gen + 1, 0, 0)
                          ELSE [cur EXCEPT !.successes = @ + 1]

\* recordProbe: a result of an older generation changes nothing.
recordProbe(c, o) ==
  /\ stage[c] = "held" /\ ticket[c].probe
  /\ IF LiveProbe(c) THEN Swap(ProbeNext(o)) ELSE UNCHANGED <<cur, counted>>
  /\ Recorded(c)
  /\ UNCHANGED <<clock, win, winGen>>

\* The result belongs to the closed state that admitted the request.
Current(c) == cur.state = "closed" /\ cur.gen = ticket[c].gen

\* record, up to the lock: it loads the snapshot and reads the time.
record(c, o) ==
  /\ stage[c] = "held" /\ ~ticket[c].probe
  /\ IF o # "ignored" /\ Current(c)
       THEN /\ stage' = [stage EXCEPT ![c] = "count"]
            /\ heard' = [heard EXCEPT ![c] = [failed |-> o = "failure", now |-> clock]]
            /\ UNCHANGED ticket
       ELSE Recorded(c)
  /\ UNCHANGED <<clock, cur, win, winGen, counted>>

\* Code that never resets the window.
recordCountMutant(c) ==
  LET h == heard[c]
      w == add(win, h.now, 1, IF h.failed THEN 1 ELSE 0)
      n == sum(w, h.now)
  IN /\ stage[c] = "count"
     /\ win' = w /\ winGen' = ticket[c].gen
     /\ IF h.failed /\ n.a >= MinRequests /\ n.b * RatioDen >= RatioNum * n.a
          THEN stage' = [stage EXCEPT ![c] = "trip"] /\ UNCHANGED <<ticket, heard>>
          ELSE Recorded(c)
     /\ counted' = IF ticket[c].gen = cur.gen THEN counted + 1 ELSE counted
     /\ UNCHANGED <<clock, cur>>

\* record, under the lock.  The window is reset when it counts for another
\* generation than the one loaded, be that an older or a newer one.
recordCount(c) ==
  LET h == heard[c]
      w == add(IF winGen = ticket[c].gen THEN win ELSE newWindow, h.now, 1, IF h.failed THEN 1 ELSE 0)
      n == sum(w, h.now)
  IN /\ stage[c] = "count"
     /\ win' = w /\ winGen' = ticket[c].gen
     /\ IF h.failed /\ n.a >= MinRequests /\ n.b * RatioDen >= RatioNum * n.a
          THEN stage' = [stage EXCEPT ![c] = "trip"] /\ UNCHANGED <<ticket, heard>>
          ELSE Recorded(c)
     /\ counted' = IF ticket[c].gen = cur.gen THEN counted + 1 ELSE counted
     /\ UNCHANGED <<clock, cur>>

\* record, after the lock: the swap wins if the snapshot is still the one loaded.
recordTrip(c) ==
  /\ stage[c] = "trip"
  /\ IF Current(c) THEN Swap(Fresh("open", cur.gen + 1, 0, heard[c].now))
                   ELSE UNCHANGED <<cur, counted>>
  /\ Recorded(c)
  /\ UNCHANGED <<clock, win, winGen>>

Tick ==
  /\ clock < MaxTime /\ clock' = clock + 1
  /\ UNCHANGED <<cur, win, winGen, ticket, stage, heard, counted>>

BreakerNext ==
  \/ \E c \in Callers :
       \/ allow(c) \/ recordCount(c) \/ recordTrip(c)
       \/ \E o \in Outcomes : record(c, o) \/ recordProbe(c, o)
  \/ Tick

BreakerSpec == BreakerInit /\ [][BreakerNext]_breakerVars

----------------------------------------------------------------------------
\* The requests that hold a probe slot of the current half-open state.
Probing == {c \in Callers : stage[c] = "held" /\ LiveProbe(c)}

\* While half-open, the slots handed out are exactly the probes still in
\* flight and the ones that succeeded, and there are never more than MaxProbes
\* nor as many successes as would close it.  No interleaving of allow and
\* recordProbe leaks a slot (which would leave the breaker half-open and
\* rejecting for ever) or admits one probe too many (breaker.go allow,
\* recordProbe).
ProbesAccounted ==
  cur.state = "half-open" =>
    /\ cur.probes = Cardinality(Probing) + cur.successes
    /\ cur.probes <= MaxProbes
    /\ cur.successes < MaxProbes

\* The breaker leaves the closed state only after MinRequests results of
\* requests admitted in this very generation were counted: a result that
\* arrives late from an older generation, or between the load and the lock of
\* another record, never trips it (breaker.go record).
TripsOnItsOwnEvidence ==
  [][cur.state = "closed" /\ cur'.state # "closed" => counted >= MinRequests]_breakerVars
============================================================================
