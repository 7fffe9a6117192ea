-------------------------- MODULE RdkafkaConsumer --------------------------
(***************************************************************************)
(* The librdkafka driver's consumer handle (libs/kafka-rdkafka/rdkafka.go):*)
(* the calls into it that may be under way when the loop of libs/kafka has *)
(* returned and Close is called.  These are readiness's Ping, and a Commit *)
(* whose wait ended with its context while librdkafka still works on it.   *)
(***************************************************************************)
EXTENDS Naturals

CONSTANTS Pingers, MaxPings, MaxCommits  \* bounds: calls of Ping and Commit

VARIABLES
  pinging,   \* Pingers inside the client
  commits,   \* commits inside the client, on goroutines of their own
  waiting,   \* the loop waits in Commit
  dead,      \* consumer.failed is set
  closing, closed, destroyed,
  stage,     \* Close: "none", "drain", "leave", "commit", "destroyed", "done"
  pings, tried  \* bound counters

consumerVars == <<pinging, commits, waiting, dead, closing, closed, destroyed, stage, pings, tried>>

ConsumerInit ==
  /\ pinging = {} /\ commits = 0 /\ waiting = FALSE /\ dead = FALSE
  /\ closing = FALSE /\ closed = FALSE /\ destroyed = FALSE
  /\ stage = "none" /\ pings = 0 /\ tried = 0

\* consumer.calls, a sync.WaitGroup, counts a call.
callsInside == pinging # {} \/ commits > 0 \/ stage = "commit"

----------------------------------------------------------------------------
\* Code that refuses a Ping only when the client is gone.
PingMutant(c) ==
  /\ c \notin pinging /\ ~dead /\ ~closed
  /\ pings < MaxPings /\ pings' = pings + 1
  /\ pinging' = pinging \union {c}
  /\ UNCHANGED <<commits, waiting, dead, closing, closed, destroyed, stage, tried>>

\* Ping goes into the client unless it has failed, closes or is closed.
Ping(c) ==
  /\ c \notin pinging /\ ~dead /\ ~closing /\ ~closed
  /\ pings < MaxPings /\ pings' = pings + 1
  /\ pinging' = pinging \union {c}
  /\ UNCHANGED <<commits, waiting, dead, closing, closed, destroyed, stage, tried>>

pingReturns(c) ==
  /\ c \in pinging
  /\ pinging' = pinging \ {c}
  /\ UNCHANGED <<commits, waiting, dead, closing, closed, destroyed, stage, pings, tried>>

\* Poll meets a fatal error.
fail ==
  /\ ~dead /\ ~waiting /\ stage = "none"
  /\ dead' = TRUE
  /\ UNCHANGED <<pinging, commits, waiting, closing, closed, destroyed, stage, pings, tried>>

\* Commit by the loop: a goroutine makes the call, the loop waits for it.
Commit ==
  /\ stage = "none" /\ ~waiting /\ ~closed
  /\ tried < MaxCommits /\ tried' = tried + 1
  /\ commits' = commits + 1 /\ waiting' = TRUE
  /\ UNCHANGED <<pinging, dead, closing, closed, destroyed, stage, pings>>

\* A call returns: the one the loop waits for, or one it gave up on.
commitReturns ==
  /\ commits > 0 /\ commits' = commits - 1
  /\ waiting' \in BOOLEAN /\ (waiting' => waiting /\ commits > 1)
  /\ UNCHANGED <<pinging, dead, closing, closed, destroyed, stage, pings, tried>>

\* The context of the wait ends first.
commitAbandoned ==
  /\ waiting /\ waiting' = FALSE
  /\ UNCHANGED <<pinging, commits, dead, closing, closed, destroyed, stage, pings, tried>>

\* Close, once Run has returned.
consumerClose ==
  /\ stage = "none" /\ ~waiting
  /\ closing' = TRUE /\ stage' = "drain"
  /\ UNCHANGED <<pinging, commits, waiting, dead, closed, destroyed, pings, tried>>

\* The calls have finished: cl.Close() leaves the group.
callsDone ==
  /\ stage = "drain" /\ ~callsInside
  /\ stage' = "leave"
  /\ UNCHANGED <<pinging, commits, waiting, dead, closing, closed, destroyed, pings, tried>>

\* closeWait has passed: the handle is left to the exiting process.
abandon ==
  /\ stage = "drain" /\ callsInside
  /\ stage' = "done" /\ closed' = TRUE
  /\ UNCHANGED <<pinging, commits, waiting, dead, closing, destroyed, pings, tried>>

\* cl.Close() runs the revoke callback, whose Commit waits for the call ...
callbackCommit ==
  /\ stage = "leave" /\ stage' = "commit"
  /\ UNCHANGED <<pinging, commits, waiting, dead, closing, closed, destroyed, pings, tried>>

\* ... and then destroys the client.
destroy ==
  /\ stage \in {"leave", "commit"} /\ stage' = "destroyed" /\ destroyed' = TRUE
  /\ UNCHANGED <<pinging, commits, waiting, dead, closing, closed, pings, tried>>

consumerCloseReturns ==
  /\ stage = "destroyed" /\ stage' = "done" /\ closed' = TRUE
  /\ UNCHANGED <<pinging, commits, waiting, dead, closing, destroyed, pings, tried>>

ConsumerNext ==
  \/ \E c \in Pingers : Ping(c) \/ pingReturns(c)
  \/ fail \/ Commit \/ commitReturns \/ commitAbandoned
  \/ consumerClose \/ callsDone \/ abandon \/ callbackCommit \/ destroy \/ consumerCloseReturns

----------------------------------------------------------------------------
\* No call is inside the client when it is destroyed, and none enters it
\* after: neither a Ping of readiness, nor a commit the loop gave up on
\* (rdkafka.go consumer, Ping, Commit, Close).
NoCallInDestroyedConsumer == destroyed => ~callsInside
=============================================================================
