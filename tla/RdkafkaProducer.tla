-------------------------- MODULE RdkafkaProducer --------------------------
(***************************************************************************)
(* The librdkafka driver's producer (libs/kafka-rdkafka/rdkafka.go): calls *)
(* hold its RWMutex for reading while they are inside the client, and a    *)
(* client that failed fatally is replaced, or the producer closed, under   *)
(* the write lock.  A section under the write lock is one step, taken when *)
(* no call is inside.  Clients are numbered as they are created.  A client *)
(* is destroyed by its Close; a call inside it would then crash.           *)
(***************************************************************************)
EXTENDS Naturals

CONSTANTS Callers, MaxClients, \* bound: clients created
          MaxCalls, MaxFatals  \* bounds: calls, fatal errors

VARIABLES
  client,    \* producer.cl
  made,      \* clients created: 1..made
  gone,      \* the ones destroyed
  producerClosed, \* producer.closed
  inside,    \* the client each call is in, 0 for none
  fatal,     \* clients whose event pump has a fatal error in hand
  replacing, \* goroutines about to take the lock in replace, by failed client
  retiring,  \* clients replaced, which replace is about to close
  closer,    \* Close: "none", "flush", "wait", "done"
  entered, fatals  \* bound counters

producerVars == <<client, made, gone, producerClosed, inside, fatal, replacing, retiring, closer, entered, fatals>>

Clients == 1..MaxClients

ProducerInit ==
  /\ client = 1 /\ made = 1 /\ gone = {} /\ producerClosed = FALSE
  /\ inside = [c \in Callers |-> 0]
  /\ fatal = {} /\ replacing = [k \in Clients |-> 0] /\ retiring = {}
  /\ closer = "none" /\ entered = 0 /\ fatals = 0

NoReaders == \A c \in Callers : inside[c] = 0

----------------------------------------------------------------------------
\* produce (once per turn of Send's loop) and Ping; closed, they return at once.
Call(c) ==
  /\ inside[c] = 0 /\ ~producerClosed
  /\ entered < MaxCalls /\ entered' = entered + 1
  /\ inside' = [inside EXCEPT ![c] = client]
  /\ UNCHANGED <<client, made, gone, producerClosed, fatal, replacing, retiring, closer, fatals>>

Return(c) ==
  /\ inside[c] # 0
  /\ inside' = [inside EXCEPT ![c] = 0]
  /\ UNCHANGED <<client, made, gone, producerClosed, fatal, replacing, retiring, closer, entered, fatals>>

\* pumpEvents receives a fatal error ...
fatalError(k) ==
  /\ k \in (1..made) \ (gone \union fatal)
  /\ fatals < MaxFatals /\ fatals' = fatals + 1
  /\ fatal' = fatal \union {k}
  /\ UNCHANGED <<client, made, gone, producerClosed, inside, replacing, retiring, closer, entered>>

\* ... and startReplace starts a goroutine unless the producer is closing.
startReplace(k) ==
  /\ k \in fatal /\ NoReaders
  /\ fatal' = fatal \ {k}
  /\ replacing' = [replacing EXCEPT ![k] = IF producerClosed THEN @ ELSE @ + 1]
  /\ UNCHANGED <<client, made, gone, producerClosed, inside, retiring, closer, entered, fatals>>

\* Code that does not look for a Close that came first.
replaceMutant(k) ==
  /\ replacing[k] > 0 /\ NoReaders
  /\ replacing' = [replacing EXCEPT ![k] = @ - 1]
  /\ \/ UNCHANGED <<client, made, retiring>>
     \/ /\ client = k /\ made < MaxClients
        /\ made' = made + 1 /\ client' = made + 1
        /\ retiring' = retiring \union {k}
  /\ UNCHANGED <<gone, producerClosed, inside, fatal, closer, entered, fatals>>

\* replace, under the lock: nothing to do when Close or another replacement
\* came first; newClient may fail.
replace(k) ==
  /\ replacing[k] > 0 /\ NoReaders
  /\ replacing' = [replacing EXCEPT ![k] = @ - 1]
  /\ \/ UNCHANGED <<client, made, retiring>>
     \/ /\ ~producerClosed /\ client = k /\ made < MaxClients
        /\ made' = made + 1 /\ client' = made + 1
        /\ retiring' = retiring \union {k}
  /\ UNCHANGED <<gone, producerClosed, inside, fatal, closer, entered, fatals>>

\* replace, after the lock: failed.Close().
retire(k) ==
  /\ k \in retiring
  /\ retiring' = retiring \ {k} /\ gone' = gone \union {k}
  /\ UNCHANGED <<client, made, producerClosed, inside, fatal, replacing, closer, entered, fatals>>

\* Close, under the lock.  (A second Close returns at once.)
producerClose ==
  /\ closer = "none" /\ NoReaders
  /\ producerClosed' = TRUE /\ closer' = "flush"
  /\ UNCHANGED <<client, made, gone, inside, fatal, replacing, retiring, entered, fatals>>

\* Flush and close the client found under the lock.
closeClient ==
  /\ closer = "flush"
  /\ closer' = "wait" /\ gone' = gone \union {client}
  /\ UNCHANGED <<client, made, producerClosed, inside, fatal, replacing, retiring, entered, fatals>>

\* wg: the replacements, and the pumps, which end when their client is closed.
producerCloseReturns ==
  /\ closer = "wait"
  /\ fatal = {} /\ retiring = {} /\ (\A k \in Clients : replacing[k] = 0) /\ gone = 1..made
  /\ closer' = "done"
  /\ UNCHANGED <<client, made, gone, producerClosed, inside, fatal, replacing, retiring, entered, fatals>>

\* The steps of the driver's own goroutines, and calls that return.
ProducerStep ==
  \/ \E c \in Callers : Return(c)
  \/ \E k \in Clients : startReplace(k) \/ replace(k) \/ retire(k)
  \/ closeClient \/ producerCloseReturns

ProducerNext ==
  \/ ProducerStep \/ producerClose
  \/ \E c \in Callers : Call(c)
  \/ \E k \in Clients : fatalError(k)

----------------------------------------------------------------------------
\* No call is inside a client that has been destroyed, and until Close the
\* client a call would find is not one of those: however fatal errors,
\* replacements, calls and Close interleave (rdkafka.go producer, produce,
\* Ping, replace, Close).
NoCallInDestroyedProducer ==
  /\ \A c \in Callers : inside[c] \notin gone
  /\ ~producerClosed => client \notin gone

\* Close comes to an end: every client ever created is closed, the ones a
\* replacement that raced it created too (rdkafka.go replace, Close).
ProducerCloses == closer # "none" ~> closer = "done"
=============================================================================
