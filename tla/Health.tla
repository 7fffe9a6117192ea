------------------------------ MODULE Health ------------------------------
(***************************************************************************)
(* The readiness registry of libs/httpx: named checks, their cached        *)
(* results, the refreshes of the background loop and of stale probes, and  *)
(* the readiness handler.                                                  *)
(***************************************************************************)
EXTENDS Naturals

CONSTANTS
  Names,       \* names of checks
  Critical,    \* those that main registers as critical
  Probes,      \* requests to the readiness endpoint
  MaxReplaced, \* bound: checks replaced after the start
  MaxRefreshes \* bound: ticks of the background loop

Loop == "loop"  \* Run, whose first pass Server.Run waits for
ASSUME LoopIsNoProbe == Loop \notin Probes
Refreshers == Probes \union {Loop}
NoResult == [ok |-> TRUE, of |-> 0, aged |-> FALSE]  \* the zero result

VARIABLES
  checks,    \* the check registered under each name: its identity and whether it is critical
  results,   \* the cached result of each name, NoResult when there is none
  running,   \* the checks whose function has not returned
  pass,      \* each refresh: where it is, the checks it took, what came out
  gate,      \* SetReady
  refreshMu, \* holder of refreshMu, or "free"
  answer,    \* the answers of the probes
  replaced, passes  \* bound counters

healthVars == <<checks, results, running, pass, gate, refreshMu, answer, replaced, passes>>

NoPass == [at |-> "idle", took |-> {}, left |-> {}, out |-> {}]

\* NewHealth and the registrations of main.
HealthInit ==
  /\ checks = [n \in Names |-> [id |-> n, critical |-> n \in Critical]]
  /\ results = [n \in Names |-> NoResult] /\ running = {}
  /\ pass = [f \in Refreshers |-> NoPass]
  /\ gate = FALSE /\ refreshMu = "free" /\ answer = [p \in Probes |-> "none"]
  /\ replaced = 0 /\ passes = 0

\* Register over an existing name.
Register(n, critical) ==
  /\ replaced < MaxReplaced /\ replaced' = replaced + 1
  /\ checks' = [checks EXCEPT ![n] = [id |-> replaced + 1, critical |-> critical]]
  /\ results' = [results EXCEPT ![n] = NoResult]
  /\ UNCHANGED <<running, pass, gate, refreshMu, answer, passes>>

----------------------------------------------------------------------------
\* refresh, in steps.  It copies the checks under the lock,
collect(f) ==
  LET took == {[name |-> n, id |-> checks[n].id, critical |-> checks[n].critical] : n \in Names}
  IN pass' = [pass EXCEPT ![f] = [at |-> "run", took |-> took, left |-> took, out |-> {}]]

Take(f, c, more) == pass' = [pass EXCEPT ![f].left = @ \ {c}, ![f].out = @ \union more]

\* starts each of them, unless it still runs,
start(f, c) ==
  /\ pass[f].at = "run" /\ c \in pass[f].left
  /\ IF c.id \in running
       THEN Take(f, c, {}) /\ UNCHANGED running
       ELSE /\ running' = running \union {c.id}
            /\ pass' = [pass EXCEPT ![f].left = @ \ {c}, ![f].out = @ \union {[c |-> c, res |-> "pending"]}]
  /\ UNCHANGED <<checks, results, gate, refreshMu, answer, replaced, passes>>

\* takes what each of them returns (runCheck),
returns(f, o, ok) ==
  /\ o \in pass[f].out /\ o.res = "pending"
  /\ running' \in {running, running \ {o.c.id}}  \* the flag is cleared after the result is sent
  /\ pass' = [pass EXCEPT ![f].out = (@ \ {o}) \union {[o EXCEPT !.res = IF ok THEN "ok" ELSE "failed"]}]
  /\ UNCHANGED <<checks, results, gate, refreshMu, answer, replaced, passes>>

\* or a timeout, which leaves the function running,
timesOut(f, o) ==
  /\ o \in pass[f].out /\ o.res = "pending"
  /\ pass' = [pass EXCEPT ![f].out = (@ \ {o}) \union {[o EXCEPT !.res = "failed"]}]
  /\ UNCHANGED <<checks, results, running, gate, refreshMu, answer, replaced, passes>>

\* the function returns at last,
clears(k) ==
  /\ k \in running /\ \A f \in Refreshers : \A o \in pass[f].out : o.c.id = k => o.res # "pending"
  /\ running' = running \ {k}
  /\ UNCHANGED <<checks, results, pass, gate, refreshMu, answer, replaced, passes>>

\* and stores all of them under the lock, by name.
Result(o) == [ok |-> o.res = "ok", of |-> o.c.id, aged |-> FALSE]
store(f) ==
  /\ pass[f].at = "run" /\ pass[f].left = {} /\ \A o \in pass[f].out : o.res # "pending"
  /\ results' = [n \in Names |-> IF \E o \in pass[f].out : o.c.name = n
                                   THEN Result(CHOOSE o \in pass[f].out : o.c.name = n)
                                   ELSE results[n]]
  /\ UNCHANGED <<checks, running, replaced, passes>>

----------------------------------------------------------------------------
\* Code that opens the gate before the first pass: a probe's refresh then skips
\* the checks that the pass has started.
runPassMutant ==
  /\ pass[Loop].at = "idle" /\ passes < MaxRefreshes /\ passes' = passes + 1
  /\ collect(Loop) /\ gate' = TRUE
  /\ UNCHANGED <<checks, results, running, refreshMu, answer, replaced>>

\* Server.Run's pass, whose store opens the gate, and the ticks of Run.
runPass ==
  /\ pass[Loop].at = "idle" /\ passes < MaxRefreshes /\ passes' = passes + 1
  /\ collect(Loop)
  /\ UNCHANGED <<checks, results, running, gate, refreshMu, answer, replaced>>

runStore ==
  /\ store(Loop)
  /\ pass' = [pass EXCEPT ![Loop] = NoPass] /\ gate' = TRUE
  /\ UNCHANGED <<refreshMu, answer>>

\* Results grow older than two intervals and a timeout.
Age ==
  /\ \E n \in Names : ~results[n].aged /\ results[n].of # 0
  /\ results' = [n \in Names |-> IF results[n].of # 0 THEN [results[n] EXCEPT !.aged = TRUE] ELSE results[n]]
  /\ UNCHANGED <<checks, running, pass, gate, refreshMu, answer, replaced, passes>>

stale == \E n \in Names : results[n].of = 0 \/ results[n].aged

At(p, from, to) == pass[p].at = from /\ pass' = [pass EXCEPT ![p].at = to]

\* ReadyHandler: the gate, then snapshot, which looks at the age first,
ReadyHandler(p) ==
  /\ answer[p] = "none"
  /\ \/ ~gate /\ answer' = [answer EXCEPT ![p] = "not_ready"] /\ pass[p].at = "idle" /\ UNCHANGED pass
     \/ gate /\ At(p, "idle", IF stale THEN "lock" ELSE "read") /\ UNCHANGED answer
  /\ UNCHANGED <<checks, results, running, gate, refreshMu, replaced, passes>>

\* again under refreshMu,
lockRefresh(p) ==
  /\ pass[p].at = "lock" /\ refreshMu = "free" /\ refreshMu' = p
  /\ IF stale THEN collect(p) ELSE pass' = [pass EXCEPT ![p].at = "unlock"]
  /\ UNCHANGED <<checks, results, running, gate, answer, replaced, passes>>

probeStore(p) ==
  /\ store(p)
  /\ pass' = [pass EXCEPT ![p] = [NoPass EXCEPT !.at = "unlock"]]
  /\ UNCHANGED <<gate, refreshMu, answer>>

unlockRefresh(p) ==
  /\ At(p, "unlock", "read") /\ refreshMu' = "free"
  /\ UNCHANGED <<checks, results, running, gate, answer, replaced, passes>>

\* and answers from the cached results.
Failing(critical) == {n \in Names : checks[n].critical = critical /\ ~results[n].ok}
respond(p) ==
  /\ At(p, "read", "done")
  /\ answer' = [answer EXCEPT ![p] = IF Failing(TRUE) # {} THEN "not_ready"
                                     ELSE IF Failing(FALSE) # {} THEN "degraded" ELSE "ready"]
  /\ UNCHANGED <<checks, results, running, gate, refreshMu, replaced, passes>>

HealthNext ==
  \/ \E n \in Names, critical \in BOOLEAN : Register(n, critical)
  \/ \E f \in Refreshers : \/ \E c \in pass[f].left : start(f, c)
                           \/ \E o \in pass[f].out : timesOut(f, o) \/ \E ok \in BOOLEAN : returns(f, o, ok)
  \/ \E k \in running : clears(k)
  \/ runPass \/ runStore \/ Age
  \/ \E p \in Probes : \/ ReadyHandler(p) \/ lockRefresh(p) \/ probeStore(p)
                       \/ unlockRefresh(p) \/ respond(p)

HealthSpec == HealthInit /\ [][HealthNext]_healthVars

----------------------------------------------------------------------------
\* Unless a check was replaced after the start, a probe that answers "ready"
\* or "degraded" has a passing result of every critical check, taken by that
\* check itself: the gate opens after a first pass, and a refresh that skips a
\* check leaves its last result (health.go snapshot, refresh; httpx.go Run).
ReadyRestsOnResults ==
  [][\A p \in Probes : answer[p] = "none" /\ answer'[p] \in {"ready", "degraded"}
        /\ replaced = 0
       => \A n \in Names : checks[n].critical => results[n].ok /\ results[n].of = checks[n].id]_healthVars
===========================================================================
