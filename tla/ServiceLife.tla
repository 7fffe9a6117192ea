---------------------------- MODULE ServiceLife ----------------------------
(***************************************************************************)
(* A process of one of the services from its command line to its exit:     *)
(* Boot.Config, main's run (dependencies opened, closed in reverse by its  *)
(* defers), the HTTP server's Run and shutdown, and the loops beside it.   *)
(***************************************************************************)
EXTENDS Naturals, Sequences

CONSTANT Requests  \* requests the API listener may accept

Services == {"tasks", "consumer", "heartbeat", "ping"}

\* What run opens and closes, in this order; the server is built among them.
Opens == [tasks |-> <<"db", "valkey", "producer">>, consumer |-> <<"consumer">>,
          heartbeat |-> << >>, ping |-> << >>]
Optional == {"valkey", "producer"}

\* The loops beside the server and what they use; handlers use Used.tasks.
Loops == [tasks |-> {"relay", "janitor"}, consumer |-> {"worker"}, heartbeat |-> {"ticker"}, ping |-> {}]
Used == [relay |-> {"db", "producer"}, janitor |-> {"db"}, worker |-> {"consumer"}, ticker |-> {},
         handler |-> {"db", "valkey"}]

VARIABLES
  svc, on,    \* the service, and the dependencies it is configured with
  main,       \* config, open, serve, close, exited, killed
  code,       \* the exit code
  opened,     \* the dependencies opened, in order: the deferred closes
  toOpen,     \* those run has yet to come to
  server,     \* Run: off, bind, refresh, serving, delay, drain, admin, returned
  gate,       \* the readiness gate
  signalled, failed,  \* the signal came; a member of the group returned an error
  stopWorkers,        \* the workers' context is cancelled
  loop,       \* the loops of this service: off, running, returned
  request     \* the requests: none, running, cut (its connection was closed), done

lifeVars == <<svc, on, main, code, opened, toOpen, server, gate, signalled, failed, stopWorkers, loop, request>>
fixed == <<svc, on>>
serving == <<server, gate, stopWorkers, loop, request>>

LifeInit ==
  /\ svc \in Services
  /\ on \in {d \in SUBSET {Opens[svc][i] : i \in DOMAIN Opens[svc]} :
               \A i \in DOMAIN Opens[svc] : Opens[svc][i] \notin Optional => Opens[svc][i] \in d}
  /\ main = "config" /\ code = 0 /\ opened = << >>
  /\ toOpen = Opens[svc]
  /\ server = "off" /\ gate = FALSE /\ signalled = FALSE /\ failed = FALSE /\ stopWorkers = FALSE
  /\ loop = [l \in Loops[svc] |-> "off"]
  /\ request = [r \in Requests |-> "none"]

\* Boot.Config: a bad command line, a configuration that does not load, one of
\* the flags that only print, or on to run.
bootConfig ==
  /\ main = "config"
  /\ \/ \E c \in {0, 2, 78} : main' = "exited" /\ code' = c
     \/ main' = "open" /\ UNCHANGED code
  /\ UNCHANGED <<fixed, opened, toOpen, signalled, failed, serving>>

\* run opens a dependency (and migrates, and builds the server), which may fail;
\* it passes over one that is not configured.
openNext ==
  /\ main = "open" /\ toOpen # << >>
  /\ \/ /\ opened' = IF Head(toOpen) \in on THEN Append(opened, Head(toOpen)) ELSE opened
        /\ toOpen' = Tail(toOpen) /\ UNCHANGED <<main, code>>
     \/ /\ Head(toOpen) \in on
        /\ main' = "close" /\ code' = 1 /\ UNCHANGED <<opened, toOpen>>
  /\ UNCHANGED <<fixed, signalled, failed, serving>>

\* NewServer or a migration fails; or the group starts.
serve ==
  /\ main = "open" /\ toOpen = << >>
  /\ \/ main' = "close" /\ code' = 1 /\ UNCHANGED <<server, loop>>
     \/ /\ main' = "serve" /\ server' = "bind" /\ UNCHANGED code
        /\ loop' = [l \in Loops[svc] |-> "running"]
  /\ UNCHANGED <<fixed, opened, toOpen, signalled, failed, gate, stopWorkers, request>>

Signal ==
  /\ main = "serve" /\ ~signalled /\ signalled' = TRUE
  /\ UNCHANGED <<fixed, main, code, opened, toOpen, failed, serving>>

\* A second signal finds the default disposition.
SecondSignal ==
  /\ main \in {"serve", "close"} /\ signalled /\ main' = "killed"
  /\ UNCHANGED <<fixed, code, opened, toOpen, signalled, failed, serving>>

gctxDone == signalled \/ failed

----------------------------------------------------------------------------
group == <<fixed, main, code, opened, toOpen, signalled>>
Api == svc \in {"tasks", "ping"}

\* Code that leaves the workers running.
returnsMutant == server' = "returned" /\ UNCHANGED stopWorkers

\* Run has returned; serve's deferred stopWorkers follows.
returns == server' = "returned" /\ stopWorkers' = TRUE

\* Run binds the listeners, or fails to.
bind ==
  /\ server = "bind" /\ main = "serve"
  /\ \/ server' = "refresh" /\ UNCHANGED <<failed, stopWorkers>>
     \/ returns /\ failed' = TRUE
  /\ UNCHANGED <<group, gate, loop, request>>

\* The first evaluation of the checks is over.
refreshed ==
  /\ server = "refresh" /\ main = "serve"
  /\ server' = "serving" /\ gate' = TRUE
  /\ UNCHANGED <<group, failed, stopWorkers, loop, request>>

\* The context ends, or a listener fails; then the drain starts at once.
shutdownBegins ==
  /\ server = "serving" /\ main = "serve" /\ gate' = FALSE
  /\ \/ gctxDone /\ server' = "delay" /\ UNCHANGED failed
     \/ server' = "drain" /\ failed' = TRUE
  /\ UNCHANGED <<group, stopWorkers, loop, request>>

delayOver ==
  /\ server = "delay" /\ main = "serve" /\ server' = "drain"
  /\ UNCHANGED <<group, failed, gate, stopWorkers, loop, request>>

\* shutdown: the API listener is drained, or its budget is spent: the contexts
\* of the requests are cancelled and their connections closed.
drained ==
  /\ server = "drain" /\ main = "serve" /\ server' = "admin"
  /\ \/ (\A r \in Requests : request[r] # "running") /\ UNCHANGED <<request, failed>>
     \/ /\ \E r \in Requests : request[r] = "running"
        /\ request' = [r \in Requests |-> IF request[r] = "running" THEN "cut" ELSE request[r]]
        /\ failed' = TRUE
  /\ UNCHANGED <<group, gate, stopWorkers, loop>>

adminStops ==
  /\ server = "admin" /\ main = "serve" /\ returns
  /\ failed' \in {failed, TRUE}
  /\ UNCHANGED <<group, gate, loop, request>>

\* The API serves from the bind on until the drain.
accept(r) ==
  /\ Api /\ main = "serve" /\ server \in {"refresh", "serving", "delay"}
  /\ request[r] = "none" /\ request' = [request EXCEPT ![r] = "running"]
  /\ UNCHANGED <<group, failed, server, gate, stopWorkers, loop>>

handlerReturns(r) ==
  /\ request[r] \in {"running", "cut"} /\ main \in {"serve", "close"}
  /\ request' = [request EXCEPT ![r] = "done"]
  /\ UNCHANGED <<group, failed, server, gate, stopWorkers, loop>>

\* The loops of the tasks service outlive the signal until the server has
\* returned; the others stop with the group's context.
loopReturns(l) ==
  /\ main = "serve" /\ loop[l] = "running"
  /\ IF svc = "tasks" THEN stopWorkers ELSE gctxDone
  /\ loop' = [loop EXCEPT ![l] = "returned"]
  /\ UNCHANGED <<group, failed, server, gate, stopWorkers, request>>

\* Consumer.Run returns an error.
workerFails ==
  /\ main = "serve" /\ svc = "consumer" /\ loop["worker"] = "running"
  /\ loop' = [loop EXCEPT !["worker"] = "returned"] /\ failed' = TRUE
  /\ UNCHANGED <<group, server, gate, stopWorkers, request>>

----------------------------------------------------------------------------
\* Code that does not wait for the loops.
WaitMutant == server = "returned"
Wait == server = "returned" /\ \A l \in Loops[svc] : loop[l] = "returned"

\* g.Wait returns and the defers run, last opened first.
waited ==
  /\ main = "serve" /\ Wait
  /\ main' = "close" /\ code' = IF failed THEN 1 ELSE 0
  /\ UNCHANGED <<fixed, opened, toOpen, signalled, failed, serving>>

closeNext ==
  /\ main = "close"
  /\ IF opened = << >> THEN main' = "exited" /\ UNCHANGED opened
     ELSE opened' = SubSeq(opened, 1, Len(opened) - 1) /\ UNCHANGED main
  /\ UNCHANGED <<fixed, code, toOpen, signalled, failed, serving>>

LifeNext ==
  \/ bootConfig \/ openNext \/ serve \/ Signal \/ SecondSignal
  \/ bind \/ refreshed \/ shutdownBegins \/ delayOver \/ drained \/ adminStops
  \/ \E r \in Requests : accept(r) \/ handlerReturns(r)
  \/ \E l \in Loops[svc] : loopReturns(l)
  \/ workerFails \/ waited \/ closeNext

LifeSpec == LifeInit /\ [][LifeNext]_lifeVars

----------------------------------------------------------------------------
Open(d) == \E i \in DOMAIN opened : opened[i] = d
Alive == main \notin {"exited", "killed"}

\* While the process closes what it opened, nothing uses it: a loop runs only
\* while what it uses is open, and so does a request, unless the drain budget
\* was spent and its connection closed under it (main.go serve and run,
\* httpx.go Run and shutdown).
NothingUsedAfterClose ==
  Alive =>
    /\ \A l \in Loops[svc] : loop[l] = "running" => \A d \in Used[l] \intersect on : Open(d)
    /\ \A r \in Requests : request[r] = "running" => \A d \in Used.handler \intersect on : Open(d)

\* Every step but the arrival of signals and requests, and the handlers.
Step ==
  \/ bootConfig \/ openNext \/ serve
  \/ bind \/ refreshed \/ (gctxDone /\ shutdownBegins) \/ delayOver \/ drained \/ adminStops
  \/ \E l \in Loops[svc] : loopReturns(l)
  \/ waited \/ closeNext

\* A process that was told to stop, or one of whose parts failed, exits, even
\* if its handlers never return: no part waits for another that waits for it
\* (main.go serve, httpx.go Run).
StopsWhenTold == gctxDone ~> ~Alive
============================================================================
