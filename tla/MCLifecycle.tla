---------------------------- MODULE MCLifecycle ----------------------------
(***************************************************************************)
(* What is opened, used and closed, for TLC: the HTTP client's requests    *)
(* and Shutdown, the librdkafka producer and consumer, and the process of  *)
(* a service.  They share no state: a behaviour is one of the component    *)
(* that part names, and the others stay where they start.                  *)
(***************************************************************************)
EXTENDS RdkafkaClients, ServiceLife

CONSTANTS
  Senders, Closers, WindowSlots, RatioNum, RatioDen, MinRequests, OpenTimeout, MaxProbes, MaxTime,
  MaxAttempts, MaxConcurrent, MinRetries, BudgetNum, BudgetDen, Answers, MaxSends

VARIABLES part,
  clock, cur, win, winGen, ticket, probing, heard, counted,
  pc, try, got, ctxDone, slots, budget, inFlight, shutting, idle, ending, granted, sends

http == <<clock, cur, win, winGen, ticket, probing, heard, counted,
          pc, try, got, ctxDone, slots, budget, inFlight, shutting, idle, ending, granted, sends>>

Http == INSTANCE HttpClient
  WITH Callers <- Senders, stage <- probing, closing <- shutting, closer <- ending

MCInit ==
  /\ part \in {"http", "producer", "consumer", "process"}
  /\ Http!Init /\ ClientsInit /\ LifeInit
  /\ part # "process" => svc = "ping"

MCNext ==
  /\ UNCHANGED part
  /\ \/ part = "http" /\ Http!Next /\ UNCHANGED <<clientsVars, lifeVars>>
     \/ part = "producer" /\ ProducerNext /\ UNCHANGED <<http, consumerVars, lifeVars>>
     \/ part = "consumer" /\ ConsumerNext /\ UNCHANGED <<http, producerVars, lifeVars>>
     \/ part = "process" /\ LifeNext /\ UNCHANGED <<http, clientsVars>>

\* Goroutines run, calls into the library return, timers fire: the fairness of
\* HttpClient, and the steps of a producer and of a process that do not wait for
\* the outside.
MCSpec ==
  /\ MCInit /\ [][MCNext]_<<part, http, clientsVars, lifeVars>>
  /\ \A c \in Senders : WF_http(part = "http" /\ Http!SendStep(c))
  /\ \A s \in Closers : WF_http(part = "http" /\ Http!ShutdownStep(s))
  /\ WF_producerVars(part = "producer" /\ ProducerStep)
  /\ WF_lifeVars(part = "process" /\ Step)

\* CallsReturn of HttpClient: every send returns, and so does a Shutdown.
CallsReturn == Http!CallsReturn
============================================================================
