----------------------------- MODULE LogLevel -----------------------------
(***************************************************************************)
(* The runtime log level of libs/httpx and its admin endpoint: Set, Reset  *)
(* and the timer that reverts a change, whose callback may already wait    *)
(* for the lock when a newer change stops it; and the sampling of records. *)
(***************************************************************************)
EXTENDS Integers, Functions

CONSTANTS
  Levels, Base,              \* levels (debug 0 up to error 3) and the configured one
  MaxTTL,                    \* LogLevelMaxTTL
  MaxSets, MaxNow,           \* bounds: changes, clock
  Initial, Thereafter, Window, MaxRecords  \* sampling; bound: records

ASSUME MaxTTLIsADuration == MaxTTL \in Nat
ASSUME SamplingSizes ==
  Initial \in Nat /\ Thereafter \in Nat \ {0} /\ Window \in Nat \ {0} /\ MaxNow \in Nat \ {0}

Warn == 2

VARIABLES
  now,       \* the clock
  lv, gen, expires, timer,   \* LogLevel: level, generation, expiry and armed timer (0: none)
  armed,     \* the timers: generation and time of each
  fired,     \* generations of the callbacks that wait for the lock
  asked,     \* history: the change in effect: its level and when it ends (0: never)
  resetAt, count,            \* sampleCounter
  offered, passed, dropped   \* history: records offered, and passed by time; the dropped counter

levelVars == <<lv, gen, expires, timer, armed, fired, asked>>
sampleVars == <<resetAt, count, offered, passed, dropped>>
logVars == <<now, levelVars, sampleVars>>

LogInit ==
  /\ now = 1 /\ lv = Base /\ gen = 0 /\ expires = 0 /\ timer = 0 /\ armed = {} /\ fired = {}
  /\ asked = [level |-> Base, end |-> 0]
  /\ resetAt = 0 /\ count = 0 /\ offered = 0 /\ dropped = 0
  /\ passed = [t \in 0..MaxNow |-> 0]

\* Set: the old timer is stopped, which does not recall a callback that has fired.
Set(level, ttl) ==
  /\ gen < MaxSets /\ gen' = gen + 1
  /\ lv' = level
  /\ expires' = IF ttl > 0 THEN now + ttl ELSE 0
  /\ timer' = IF ttl > 0 THEN gen + 1 ELSE 0
  /\ armed' = {t \in armed : t.gen # timer}
                \union (IF ttl > 0 THEN {[gen |-> gen + 1, at |-> now + ttl]} ELSE {})
  /\ asked' = [level |-> level, end |-> IF ttl > 0 THEN now + ttl ELSE 0]
  /\ UNCHANGED <<now, fired, sampleVars>>

Min2(a, b) == IF a < b THEN a ELSE b

\* putLogLevel: ttl is 0 when none is given; a level or a ttl that does not
\* parse changes nothing.
putLogLevel(level, ttl) == Set(level, IF ttl = 0 THEN MaxTTL ELSE Min2(ttl, MaxTTL))

\* deleteLogLevel, Reset
Reset == Set(Base, 0)

\* A timer fires: its callback runs in a goroutine of its own.
Fire(t) ==
  /\ t \in armed /\ t.at <= now
  /\ armed' = armed \ {t} /\ fired' = fired \union {t.gen}
  /\ UNCHANGED <<now, lv, gen, expires, timer, asked, sampleVars>>

\* Code that does not look at the generation.
currentMutant(g) == TRUE
current(g) == gen = g

\* revert
revert(g) ==
  /\ g \in fired /\ fired' = fired \ {g}
  /\ IF current(g) THEN lv' = Base /\ expires' = 0 /\ timer' = 0
                   ELSE UNCHANGED <<lv, expires, timer>>
  /\ UNCHANGED <<now, gen, armed, asked, sampleVars>>

\* Time passes; timers are not late by more than a tick.
TimePasses ==
  /\ now < MaxNow /\ now' = now + 1
  /\ \A t \in armed : t.at >= now
  /\ UNCHANGED <<levelVars, sampleVars>>

----------------------------------------------------------------------------
\* A counter that is reset without starting its window anew.
incMutant(t) ==
  /\ count' = IF t >= resetAt THEN 1 ELSE count + 1
  /\ UNCHANGED resetAt

\* sampleCounter.inc: count a record of time t.
inc(t) ==
  IF t >= resetAt THEN resetAt' = t + Window /\ count' = 1
                  ELSE count' = count + 1 /\ UNCHANGED resetAt

\* samplingHandler.Handle, of a record below Warn whose message has this slot.
Handle(t) ==
  /\ offered < MaxRecords
  /\ inc(t)
  /\ LET kept == count' <= Initial \/ (count' - Initial) % Thereafter = 0
     IN /\ passed' = IF kept THEN [passed EXCEPT ![t] = @ + 1] ELSE passed
        /\ dropped' = IF kept THEN dropped ELSE dropped + 1
  /\ offered' = offered + 1
  /\ UNCHANGED <<now, levelVars>>

\* levelHandler.Enabled, and the sampler behind it: a record of some level,
\* perhaps logged for a request that is being debugged.
Log(level, debug) ==
  /\ debug \/ level >= lv
  /\ IF debug \/ level >= Warn THEN UNCHANGED logVars
     ELSE \E t \in {now - 1, now} : Handle(t)  \* the record's time, taken before it got here

LogNext ==
  \/ \E level \in Levels, ttl \in 0..(MaxTTL + 1) : putLogLevel(level, ttl)
  \/ \E level \in Levels : Set(level, 0) \/ \E debug \in BOOLEAN : Log(level, debug)
  \/ Reset \/ TimePasses
  \/ \E t \in armed : Fire(t)
  \/ \E g \in fired : revert(g)

LogSpec == LogInit /\ [][LogNext]_logVars

----------------------------------------------------------------------------
\* The level in effect is the one last asked for until its time is up, and a
\* callback that will revert it is pending as long as it differs from the base:
\* the revert of an older change never ends a newer one (loglevel.go Set,
\* revert; admin.go putLogLevel, deleteLogLevel).
NoStaleRevert ==
  /\ asked.end = 0 \/ now < asked.end => lv = asked.level
  /\ asked.end > 0 /\ lv # Base => [gen |-> gen, at |-> asked.end] \in armed \/ gen \in fired
  /\ expires > 0 => expires = asked.end /\ timer = gen

\* However the records fall, those of one window's length that pass are at most
\* what two windows allow, and each of the others is counted as dropped
\* (sampling.go inc, Handle).
SamplingBounds ==
  /\ \A t \in 0..MaxNow :
       SumFunctionOnSet(passed, t..Min2(t + Window - 1, MaxNow)) <= 2 * Initial + offered \div Thereafter
  /\ SumFunctionOnSet(passed, 0..MaxNow) + dropped = offered
============================================================================
