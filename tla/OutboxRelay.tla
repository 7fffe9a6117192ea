---------------------------- MODULE OutboxRelay ----------------------------
(***************************************************************************)
(* The relay of the tasks service (services/tasks/internal/outbox/relay.go)*)
(* in every replica: each one loops over passes that take the relay lock,  *)
(* select a batch of outbox rows, publish them one by one and delete the   *)
(* acknowledged ones in one database transaction.                          *)
(*                                                                         *)
(* An event is its outbox row: the id that the IDENTITY column gave it and *)
(* the task it is about.  The writers are the environment here: rows       *)
(* become visible at commit, in id order for one task and in any order     *)
(* across tasks (TaskStore shows that the store does exactly that).        *)
(*                                                                         *)
(* An operator named XMutant is a plausible bug in X; nothing uses it but  *)
(* the experiments that show which property notices the bug.               *)
(***************************************************************************)
EXTENDS Naturals, FiniteSets

CONSTANTS Relays,       \* the replicas' relays
          Tasks,        \* task ids (the aggregate ids and record keys)
          MaxId,        \* bound: highest outbox id handed out
          BatchSize,    \* Config.BatchSize
          MaxAttempts,  \* Config.MaxAttempts
          MaxFaults,    \* bound: outages, lost sessions, failed statements, crashes
          MaxStops,     \* bound: orderly shutdowns
          MaxWakes      \* bound: calls of Wake

ASSUME BatchSizeAssumption == BatchSize \in Nat \ {0}
ASSUME MaxAttemptsAssumption == MaxAttempts \in Nat \ {0}
ASSUME BoundsAssumption == MaxId \in Nat /\ MaxFaults \in Nat /\ MaxStops \in Nat
                           /\ MaxWakes \in Nat

Event == [id : 1..MaxId, task : Tasks]

VARIABLES
  committed,   \* history: every event whose transaction committed
  outbox,      \* the rows of the table
  rejections,  \* column rejections
  waiting,     \* rows whose next_attempt_at is still ahead
  pc,          \* where each relay's Run loop is
  session,     \* the relay's transaction is alive in the database
  todo,        \* rows of the batch not yet handled
  done,        \* rows of the batch the broker acknowledged
  aside,       \* rows of the batch rejected, their UPDATE pending in the tx
  pubErr,      \* the batch stopped at an outage
  wake,        \* the wake channel (capacity 1) holds a token
  ctxDone,     \* the relay's context is cancelled
  announced,   \* events whose request handler has called Wake
  copies,      \* history: records of each event in the topic
  late,        \* sends given up on whose record may still reach the topic
  refused,     \* history: how often the broker refused each event
  dirty,       \* history: events published by a pass that did not settle them
  faults, stops

table  == <<outbox, rejections, waiting>>
batch  == <<todo, done, aside, pubErr>>
broker == <<copies, late, refused>>
bounds == <<faults, stops>>
vars   == <<committed, table, pc, session, batch, wake, ctxDone, announced,
            broker, dirty, bounds>>

Init ==
  /\ committed = {} /\ outbox = {} /\ waiting = {} /\ announced = {}
  /\ rejections = [e \in Event |-> 0]
  /\ pc = [r \in Relays |-> "pass"]
  /\ session = [r \in Relays |-> FALSE]
  /\ todo = [r \in Relays |-> {}]
  /\ done = [r \in Relays |-> {}]
  /\ aside = [r \in Relays |-> {}]
  /\ pubErr = [r \in Relays |-> FALSE]
  /\ wake = [r \in Relays |-> FALSE]
  /\ ctxDone = [r \in Relays |-> FALSE]
  /\ copies = [e \in Event |-> 0]
  /\ refused = [e \in Event |-> 0]
  /\ late = {} /\ dirty = {}
  /\ faults = 0 /\ stops = 0

Fault == faults < MaxFaults /\ faults' = faults + 1 /\ stops' = stops

----------------------------------------------------------------------------
(* The writers: the store commits a row, its request handler calls Wake.   *)

Insert(e) ==
  /\ committed' = committed \union {e}
  /\ outbox' = outbox \union {e}
  /\ UNCHANGED <<rejections, waiting, pc, session, batch, wake, ctxDone,
                 announced, broker, dirty, bounds>>

Commit(e) ==
  /\ \A f \in committed : f.id # e.id /\ (f.task = e.task => f.id < e.id)
  /\ Insert(e)

\* A send on a channel of capacity one that never blocks.
Wake(r) ==
  /\ pc[r] # "stopped" /\ Cardinality(announced) < MaxWakes
  /\ \E e \in committed \ announced : announced' = announced \union {e}
  /\ wake' = [wake EXCEPT ![r] = TRUE]
  /\ UNCHANGED <<committed, table, pc, session, batch, ctxDone, broker, dirty,
                 bounds>>

\* A rejected row's next_attempt_at passes.
DueAgain(e) ==
  /\ e \in waiting
  /\ waiting' = waiting \ {e}
  /\ UNCHANGED <<committed, outbox, rejections, pc, session, batch, wake,
                 ctxDone, announced, broker, dirty, bounds>>

----------------------------------------------------------------------------
(* One pass: relayOnce.                                                    *)

InTx(r) == pc[r] \in {"locked", "batch", "settle"}

\* The batch variables after a pass, and where the loop goes next.
EndPass(r, next) ==
  /\ pc' = [pc EXCEPT ![r] = next]
  /\ session' = [session EXCEPT ![r] = FALSE]
  /\ todo' = [todo EXCEPT ![r] = {}]
  /\ done' = [done EXCEPT ![r] = {}]
  /\ aside' = [aside EXCEPT ![r] = {}]
  /\ pubErr' = [pubErr EXCEPT ![r] = FALSE]

\* No advisory lock: only SKIP LOCKED keeps the relays apart.
LockFreeMutant == TRUE

\* pg_try_advisory_xact_lock: held by the one live transaction that has it.
LockFree == \A q \in Relays : ~ (InTx(q) /\ session[q])

TryLock(r) ==
  /\ pc[r] = "pass"
  /\ pc' = [pc EXCEPT ![r] = IF LockFree THEN "locked" ELSE "wait"]
  /\ session' = [session EXCEPT ![r] = LockFree]
  /\ UNCHANGED <<committed, table, batch, wake, ctxDone, announced, broker,
                 dirty, bounds>>

\* The WHERE clause of the batch query.
Selectable(e) == rejections[e] < MaxAttempts /\ e \notin waiting

\* FOR UPDATE SKIP LOCKED: rows locked by another live transaction.
RowLocked(r, e) ==
  \E q \in Relays \ {r} : session[q] /\ e \in todo[q] \union done[q] \union aside[q]

\* ORDER BY id LIMIT BatchSize.
SelectBatch(r) ==
  LET due == {e \in outbox : Selectable(e) /\ ~ RowLocked(r, e)}
  IN {e \in due : Cardinality({f \in due : f.id < e.id}) < BatchSize}

Select(r) ==
  /\ pc[r] = "locked" /\ session[r]
  /\ IF SelectBatch(r) = {}
     THEN EndPass(r, "wait")
     ELSE /\ todo' = [todo EXCEPT ![r] = SelectBatch(r)]
          /\ pc' = [pc EXCEPT ![r] = "batch"]
          /\ UNCHANGED <<session, done, aside, pubErr>>
  /\ UNCHANGED <<committed, table, wake, ctxDone, announced, broker, dirty,
                 bounds>>

\* The loop takes the rows of the batch in id order.
First(e, S) == e \in S /\ \A f \in S : e.id <= f.id

\* The loop checks the context between records.
Sending(r, e) == pc[r] = "batch" /\ ~ ctxDone[r] /\ First(e, todo[r])

Ack(r, e) ==
  /\ Sending(r, e)
  /\ copies' = [copies EXCEPT ![e] = @ + 1]
  /\ done' = [done EXCEPT ![r] = @ \union {e}]
  /\ todo' = [todo EXCEPT ![r] = @ \ {e}]
  /\ dirty' = IF session[r] THEN dirty ELSE dirty \union {e}
  /\ UNCHANGED <<committed, table, pc, session, aside, pubErr, wake, ctxDone,
                 announced, late, refused, bounds>>

\* kafka.Rejected: the row steps aside inside the transaction, the batch goes on.
Reject(r, e) ==
  /\ Sending(r, e) /\ session[r]
  /\ refused' = [refused EXCEPT ![e] = @ + 1]
  /\ aside' = [aside EXCEPT ![r] = @ \union {e}]
  /\ todo' = [todo EXCEPT ![r] = @ \ {e}]
  /\ UNCHANGED <<committed, table, pc, session, done, pubErr, wake, ctxDone,
                 announced, copies, late, dirty, bounds>>

\* Any other publish error stops the batch.  The record may be lost or may
\* still be on its way.
Outage(r, e) ==
  /\ Sending(r, e) /\ Fault
  /\ \/ UNCHANGED late
     \/ late' = late \union {e}
  /\ dirty' = dirty \union {e}
  /\ pubErr' = [pubErr EXCEPT ![r] = TRUE]
  /\ pc' = [pc EXCEPT ![r] = "settle"]
  /\ UNCHANGED <<committed, table, session, todo, done, aside, wake, ctxDone,
                 announced, copies, refused>>

\* The loop is over: everything handled, or shutting down.
EndLoop(r) ==
  /\ pc[r] = "batch" /\ (todo[r] = {} \/ ctxDone[r])
  /\ pc' = [pc EXCEPT ![r] = "settle"]
  /\ UNCHANGED <<committed, table, session, batch, wake, ctxDone, announced,
                 broker, dirty, bounds>>

\* DELETE of the whole batch.
PersistMutant(r) ==
  /\ outbox' = outbox \ (done[r] \union aside[r] \union todo[r])
  /\ UNCHANGED <<rejections, waiting>>

\* The DELETE is skipped when the batch stopped at an outage.
PersistUndeletedMutant(r) ==
  /\ outbox' = IF pubErr[r] THEN outbox ELSE outbox \ done[r]
  /\ rejections' = [e \in Event |-> rejections[e] + (IF e \in aside[r] THEN 1 ELSE 0)]
  /\ waiting' = waiting \union aside[r]

\* An outage counts as an attempt.
PersistCountingMutant(r) ==
  LET failed == aside[r] \union (IF pubErr[r] THEN todo[r] ELSE {}) IN
  /\ outbox' = outbox \ done[r]
  /\ rejections' = [e \in Event |-> rejections[e] + (IF e \in failed THEN 1 ELSE 0)]
  /\ waiting' = waiting \union aside[r]

\* DELETE of the acknowledged rows, and the UPDATEs of the rejected ones,
\* become visible together.
Persist(r) ==
  /\ outbox' = outbox \ done[r]
  /\ rejections' = [e \in Event |-> rejections[e] + (IF e \in aside[r] THEN 1 ELSE 0)]
  /\ waiting' = waiting \union aside[r]

\* After an error Run backs off, after a full batch it goes on at once.
AfterPass(r) ==
  IF pubErr[r] THEN "backoff"
  ELSE IF Cardinality(done[r]) + Cardinality(aside[r]) = BatchSize THEN "again"
  ELSE "wait"

Settle(r) ==
  /\ pc[r] = "settle" /\ session[r]
  /\ Persist(r)
  /\ EndPass(r, AfterPass(r))
  /\ UNCHANGED <<committed, wake, ctxDone, announced, broker, dirty, bounds>>

\* The COMMIT took effect but its answer was lost.
CommitUnknown(r) ==
  /\ pc[r] = "settle" /\ session[r] /\ Fault
  /\ Persist(r)
  /\ EndPass(r, "backoff")
  /\ UNCHANGED <<committed, wake, ctxDone, announced, broker, dirty>>

\* Some statement fails: the deferred Rollback undoes the transaction.
RollBack(r) ==
  /\ EndPass(r, "backoff")
  /\ dirty' = dirty \union done[r]
  /\ UNCHANGED <<committed, table, wake, ctxDone, announced, broker>>

\* The statements of a pass: Begin and lock, SELECT, the UPDATE of a rejected
\* row, DELETE and COMMIT.
AtStatement(r) ==
  pc[r] \in {"pass", "locked", "settle"} \/ \E e \in todo[r] : Sending(r, e)

StatementFails(r) ==
  /\ AtStatement(r) /\ (pc[r] = "pass" \/ session[r]) /\ Fault
  /\ RollBack(r)

\* The database ended the transaction (connection lost, backend terminated):
\* its locks are free, and the relay learns of it at its next statement.
SessionLost(r) ==
  /\ InTx(r) /\ session[r] /\ Fault
  /\ session' = [session EXCEPT ![r] = FALSE]
  /\ dirty' = dirty \union done[r]
  /\ UNCHANGED <<committed, table, pc, batch, wake, ctxDone, announced, broker>>

LearnsSessionLost(r) ==
  /\ InTx(r) /\ ~ session[r] /\ AtStatement(r)
  /\ RollBack(r) /\ UNCHANGED bounds

----------------------------------------------------------------------------
(* Run: what happens between two passes.                                   *)

Again(r) ==
  /\ pc[r] = "again"
  /\ pc' = [pc EXCEPT ![r] = IF ctxDone[r] THEN "stopped" ELSE "pass"]
  /\ UNCHANGED <<committed, table, session, batch, wake, ctxDone, announced,
                 broker, dirty, bounds>>

\* The idle wait has no poll timer: only Wake ends it.
TimerMutant(r) ==
  /\ pc[r] = "backoff"
  /\ pc' = [pc EXCEPT ![r] = "pass"]
  /\ UNCHANGED <<committed, table, session, batch, wake, ctxDone, announced,
                 broker, dirty, bounds>>

Timer(r) ==
  /\ pc[r] \in {"wait", "backoff"}
  /\ pc' = [pc EXCEPT ![r] = "pass"]
  /\ UNCHANGED <<committed, table, session, batch, wake, ctxDone, announced,
                 broker, dirty, bounds>>

\* The wake channel is not selected on while backing off.
Woken(r) ==
  /\ pc[r] = "wait" /\ wake[r]
  /\ pc' = [pc EXCEPT ![r] = "pass"]
  /\ wake' = [wake EXCEPT ![r] = FALSE]
  /\ UNCHANGED <<committed, table, session, batch, ctxDone, announced, broker,
                 dirty, bounds>>

\* The idle wait does not select on ctx.Done.
StopMutant(r) ==
  /\ pc[r] = "backoff" /\ ctxDone[r]
  /\ pc' = [pc EXCEPT ![r] = "stopped"]
  /\ UNCHANGED <<committed, table, session, batch, wake, ctxDone, announced,
                 broker, dirty, bounds>>

Stop(r) ==
  /\ pc[r] \in {"wait", "backoff"} /\ ctxDone[r]
  /\ pc' = [pc EXCEPT ![r] = "stopped"]
  /\ UNCHANGED <<committed, table, session, batch, wake, ctxDone, announced,
                 broker, dirty, bounds>>

Cancel(r) ==
  /\ pc[r] # "stopped" /\ ~ ctxDone[r] /\ stops < MaxStops
  /\ ctxDone' = [ctxDone EXCEPT ![r] = TRUE]
  /\ stops' = stops + 1
  /\ UNCHANGED <<committed, table, pc, session, batch, wake, announced, broker,
                 dirty, faults>>

\* The process dies; a record it was sending may still arrive.
Crash(r) ==
  /\ pc[r] # "stopped" /\ Fault
  /\ \E S \in {{}} \union {{e} : e \in {x \in todo[r] : Sending(r, x)}} :
       /\ late' = late \union S
       /\ dirty' = dirty \union done[r] \union S
  /\ EndPass(r, "stopped")
  /\ UNCHANGED <<committed, table, wake, ctxDone, announced, copies, refused>>

\* A new process: a new relay with an empty wake channel.
Restart(r) ==
  /\ pc[r] = "stopped"
  /\ pc' = [pc EXCEPT ![r] = "pass"]
  /\ wake' = [wake EXCEPT ![r] = FALSE]
  /\ ctxDone' = [ctxDone EXCEPT ![r] = FALSE]
  /\ UNCHANGED <<committed, table, session, batch, announced, broker, dirty,
                 bounds>>

\* A record whose send was given up on reaches the topic after all.
LateArrival(e) ==
  /\ e \in late
  /\ late' = late \ {e}
  /\ copies' = [copies EXCEPT ![e] = @ + 1]
  /\ UNCHANGED <<committed, table, pc, session, batch, wake, ctxDone,
                 announced, refused, dirty, bounds>>

----------------------------------------------------------------------------
RelayNext(r) ==
  \/ Wake(r) \/ TryLock(r) \/ Select(r) \/ EndLoop(r) \/ Settle(r)
  \/ CommitUnknown(r) \/ StatementFails(r) \/ SessionLost(r)
  \/ LearnsSessionLost(r) \/ Again(r) \/ Timer(r) \/ Woken(r) \/ Stop(r)
  \/ Cancel(r) \/ Crash(r) \/ Restart(r)

EventNext(e) ==
  \/ DueAgain(e) \/ LateArrival(e)
  \/ \E r \in Relays : Ack(r, e) \/ Reject(r, e) \/ Outage(r, e)

RelaysNext == (\E r \in Relays : RelayNext(r)) \/ (\E e \in Event : EventNext(e))

Next == RelaysNext \/ \E e \in Event : Commit(e)

Spec == Init /\ [][Next]_vars

\* A relay's goroutine keeps running: statements return, sends are answered,
\* timers fire, and a stopped replica is started again.
Progress(r) ==
  \/ TryLock(r) \/ Select(r) \/ EndLoop(r) \/ Settle(r) \/ LearnsSessionLost(r)
  \/ Again(r) \/ Timer(r) \/ Restart(r)
  \/ \E e \in Event : Ack(r, e) \/ Reject(r, e)

Fairness ==
  /\ \A r \in Relays : WF_vars(Progress(r)) /\ SF_vars(Stop(r))
  /\ \A e \in Event : WF_vars(DueAgain(e))

FairSpec == Spec /\ Fairness

----------------------------------------------------------------------------
Delivered == {e \in Event : copies[e] > 0}
Dead(e)   == rejections[e] >= MaxAttempts

PCs == {"pass", "locked", "batch", "settle", "again", "wait", "backoff", "stopped"}

TypeOK ==
  /\ committed \subseteq Event /\ outbox \subseteq committed
  /\ rejections \in [Event -> Nat] /\ waiting \subseteq Event
  /\ pc \in [Relays -> PCs] /\ session \in [Relays -> BOOLEAN]
  /\ todo \in [Relays -> SUBSET Event] /\ done \in [Relays -> SUBSET Event]
  /\ aside \in [Relays -> SUBSET Event] /\ pubErr \in [Relays -> BOOLEAN]
  /\ wake \in [Relays -> BOOLEAN] /\ ctxDone \in [Relays -> BOOLEAN]
  /\ announced \subseteq committed
  /\ copies \in [Event -> Nat] /\ refused \in [Event -> Nat]
  /\ late \subseteq Event /\ dirty \subseteq Event
  /\ faults \in Nat /\ stops \in Nat

\* No event is lost: a committed event is still a row of the outbox or has
\* reached the topic, whatever fails between the acknowledgement, the DELETE
\* and the COMMIT.
NoEventLost == committed \subseteq outbox \union Delivered

\* The first deliveries of one task's events are in id order: an event is in
\* the topic only once every earlier event of its task that the broker never
\* refused is.  This survives outages, crashes, and a relay that goes on
\* publishing after the database has ended its transaction and another relay
\* holds the lock.
FirstDeliveriesInOrder ==
  \A f \in Delivered, e \in committed :
     e.task = f.task /\ e.id < f.id /\ refused[e] = 0 => e \in Delivered

\* A second record of an event appears only after a failure: its send was
\* answered with an error, or the pass that published it did not commit.
\* Replicas that compete for the batch, and shutdowns in the middle of one,
\* never duplicate.
DuplicateNeedsFailure == \A e \in Event : copies[e] > 1 => e \in dirty

\* A row dies of MaxAttempts refusals by the broker and of nothing else: no
\* outage, crash or failed transaction counts.
OnlyRefusalsKill == \A e \in Event : rejections[e] <= refused[e]

\* Wake gets an event relayed at once: while a due row has been announced, the
\* relays are not all asleep until their next poll.
WakeNotLost ==
  \A e \in outbox \cap announced :
     refused[e] = 0 => \E r \in Relays : pc[r] # "wait" \/ wake[r] \/ ctxDone[r]

\* The relays implement the stream they promise.
Stream == INSTANCE EventStream WITH delivered <- Delivered,
                                    excused <- {e \in Event : refused[e] > 0}
ImplementsEventStream == Stream!Spec

\* Every committed event reaches the topic or is given up as dead.
EventuallySettled ==
  \A e \in Event : e \in committed ~> (e \in Delivered \/ Dead(e))

\* A cancelled Run returns.
ShutdownCompletes == \A r \in Relays : ctxDone[r] ~> pc[r] = "stopped"
=============================================================================
