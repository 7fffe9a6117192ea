--------------------------- MODULE KafkaConsumer ---------------------------
(***************************************************************************)
(* The consumer loop of libs/kafka (consumer.go) in every member of one    *)
(* group: poll, handle each record with retries, park what keeps failing   *)
(* in the dead-letter topic, commit, allow a rebalance; plus the rebalance *)
(* callbacks, which a driver runs from within Poll and Close only.         *)
(*                                                                         *)
(* The group coordinator and the client library are external.  A partition *)
(* leaves a member in an orderly way (Revoke, Close) or because the        *)
(* coordinator expels the member (Expel), which then goes on working until *)
(* its next Poll; the coordinator refuses the commits of such a member.    *)
(* Poll is the one that libs/kafka/driver.go describes and the franz       *)
(* driver has; RdkafkaPoll is about the one of the librdkafka driver.      *)
(*                                                                         *)
(* An operator named XMutant is a plausible bug in X; nothing uses it but  *)
(* the experiments that show which property notices the bug.               *)
(***************************************************************************)
EXTENDS Naturals, FiniteSets

CONSTANTS Members, Partitions, Nobody,
          Records,         \* records in each partition: offsets 0..Records-1
          MaxPollRecords,  \* Config.MaxPollRecords
          MaxRetries,      \* Config.maxRetries()
          DeadLetters,     \* the dead-letter topic is enabled
          MaxFaults,       \* bound: failed calls, expulsions, crashes
          MaxMoves,        \* bound: orderly moves of partitions
          MaxStops         \* bound: orderly shutdowns

ASSUME NobodyAssumption == Nobody \notin Members
ASSUME SizesAssumption ==
  /\ Records \in Nat /\ MaxPollRecords \in Nat \ {0} /\ MaxRetries \in Nat
  /\ DeadLetters \in BOOLEAN
  /\ MaxFaults \in Nat /\ MaxMoves \in Nat /\ MaxStops \in Nat

Record == [part : Partitions, off : 0..(Records - 1)]

VARIABLES
  committed,  \* the group's committed offset of each partition
  assigned,   \* the member the coordinator has given each partition to
  expelled,   \* members expelled that have not noticed yet
  pc,         \* where each member's Run is
  batch,      \* records of the current poll not yet handled
  current,    \* the record being handled (a set of at most one)
  attempt,    \* handler or dead-letter attempts of it so far
  owned,      \* Consumer.owned
  pending,    \* Consumer.pending as the next offset to commit, 0 for none
  position,   \* the client's fetch position in each partition
  ctxDone,    \* Run's context is cancelled
  drained,    \* the drain budget is over: procCtx is cancelled
  settled,    \* history: how often each record was handled or parked
  faults, moves, stops

broker == <<committed, assigned, expelled>>
loop   == <<pc, batch, current, attempt>>
group  == <<owned, pending, position>>
shut   == <<ctxDone, drained>>
bounds == <<faults, moves, stops>>
vars   == <<broker, loop, group, shut, settled, bounds>>

Init ==
  /\ committed = [p \in Partitions |-> 0]
  /\ assigned = [p \in Partitions |-> Nobody]
  /\ expelled = {}
  /\ pc = [m \in Members |-> "poll"]
  /\ batch = [m \in Members |-> {}]
  /\ current = [m \in Members |-> {}]
  /\ attempt = [m \in Members |-> 0]
  /\ owned = [m \in Members |-> {}]
  /\ pending = [m \in Members |-> [p \in Partitions |-> 0]]
  /\ position = [m \in Members |-> [p \in Partitions |-> 0]]
  /\ ctxDone = [m \in Members |-> FALSE]
  /\ drained = [m \in Members |-> FALSE]
  /\ settled = [x \in Record |-> 0]
  /\ faults = 0 /\ moves = 0 /\ stops = 0

Fault == faults < MaxFaults /\ faults' = faults + 1 /\ UNCHANGED <<moves, stops>>

Goto(m, where) == pc' = [pc EXCEPT ![m] = where]

----------------------------------------------------------------------------
(* Commits: commitLocked.                                                  *)

Offsets(m, only) == {p \in only \cap owned[m] : pending[m][p] > 0}

Applied(m, S) == [p \in Partitions |-> IF p \in S THEN pending[m][p] ELSE committed[p]]

CommitOK(m, only) ==
  /\ m \in expelled => Offsets(m, only) = {}
  /\ committed' = Applied(m, Offsets(m, only))
  /\ UNCHANGED faults

\* An error: some of the offsets, or all of them, may have been committed.
CommitFails(m, only) ==
  /\ Offsets(m, only) # {}
  /\ IF m \in expelled
     THEN UNCHANGED <<committed, faults>>
     ELSE /\ faults < MaxFaults /\ faults' = faults + 1
          /\ \E S \in SUBSET Offsets(m, only) : committed' = Applied(m, S)

Forget(m, gone) ==
  pending' = [pending EXCEPT ![m] = [p \in Partitions |-> IF p \in gone THEN 0 ELSE @[p]]]

\* commitPending after a batch; what a failed commit covered stays pending.
CommitPending(m) ==
  /\ pc[m] \in {"commit", "commitStop"}
  /\ \/ CommitOK(m, Partitions) /\ Forget(m, Partitions)
     \/ CommitFails(m, Partitions) /\ Forget(m, Partitions \ owned[m])
  /\ Goto(m, IF pc[m] = "commit" THEN "poll" ELSE "close")
  /\ UNCHANGED <<assigned, expelled, batch, current, attempt, owned, position,
                 shut, settled, moves, stops>>

----------------------------------------------------------------------------
(* Poll, and the callbacks it runs.                                        *)

\* Run's checks after Poll: a shutdown that arrived with it drops the batch.
Returned(m, records) ==
  IF ctxDone[m]
  THEN Goto(m, "close") /\ batch' = [batch EXCEPT ![m] = {}]
  ELSE Goto(m, "batch") /\ batch' = [batch EXCEPT ![m] = records]

\* The client resumes where it was, not at the committed offset.
AssignMutant(m, p) ==
  /\ pc[m] = "poll" /\ m \notin expelled /\ assigned[p] = Nobody
  /\ assigned' = [assigned EXCEPT ![p] = m]
  /\ owned' = [owned EXCEPT ![m] = @ \union {p}]
  /\ UNCHANGED <<committed, expelled, loop, pending, position, shut, settled, bounds>>

Assign(m, p) ==
  /\ pc[m] = "poll" /\ m \notin expelled /\ assigned[p] = Nobody
  /\ assigned' = [assigned EXCEPT ![p] = m]
  /\ owned' = [owned EXCEPT ![m] = @ \union {p}]
  /\ position' = [position EXCEPT ![m][p] = committed[p]]
  /\ UNCHANGED <<committed, expelled, loop, pending, shut, settled, bounds>>

Fetch(m, p) ==
  /\ pc[m] = "poll" /\ ~ ctxDone[m] /\ p \in owned[m]
  /\ Cardinality(batch[m]) < MaxPollRecords /\ position[m][p] < Records
  /\ batch' = [batch EXCEPT ![m] = @ \union {[part |-> p, off |-> position[m][p]]}]
  /\ position' = [position EXCEPT ![m][p] = @ + 1]
  /\ UNCHANGED <<broker, pc, current, attempt, owned, pending, shut, settled, bounds>>

\* Poll waits until it has MaxPollRecords records.
PollReturnsMutant(m) ==
  /\ pc[m] = "poll" /\ (Cardinality(batch[m]) = MaxPollRecords \/ ctxDone[m])
  /\ Returned(m, batch[m])
  /\ UNCHANGED <<broker, current, attempt, group, shut, settled, bounds>>

\* Poll does not notice the end of ctx while it has no records.
PollReturnsBlindMutant(m) ==
  /\ pc[m] = "poll" /\ batch[m] # {}
  /\ Returned(m, batch[m])
  /\ UNCHANGED <<broker, current, attempt, group, shut, settled, bounds>>

\* Without records only a fetch error or the end of ctx make Poll return.
PollReturns(m) ==
  /\ pc[m] = "poll"
  /\ IF batch[m] # {} \/ ctxDone[m] THEN UNCHANGED bounds ELSE Fault
  /\ Returned(m, batch[m])
  /\ UNCHANGED <<broker, current, attempt, group, shut, settled>>

\* ErrClientFailed: nothing of this poll is processed.
ClientFails(m) ==
  /\ pc[m] = "poll" /\ Fault
  /\ Goto(m, "close")
  /\ batch' = [batch EXCEPT ![m] = {}]
  /\ UNCHANGED <<broker, current, attempt, group, shut, settled>>

Without(S, R) == {x \in S : x.part \notin R}

Release(m, R) == assigned' = [p \in Partitions |-> IF p \in R THEN Nobody ELSE assigned[p]]

\* onRevoked: the offsets are committed or given up, then no longer owned.
\* Either the records already polled are dropped and Poll goes on, or
\* (librdkafka's Poll found nothing more) it returns with them.
Revoke(m, R) ==
  /\ pc[m] = "poll" /\ m \notin expelled /\ R # {} /\ R \subseteq owned[m]
  /\ moves < MaxMoves /\ moves' = moves + 1
  /\ CommitOK(m, R) \/ CommitFails(m, R)
  /\ Forget(m, R)
  /\ owned' = [owned EXCEPT ![m] = @ \ R]
  /\ Release(m, R)
  /\ \/ batch' = [batch EXCEPT ![m] = Without(@, R)] /\ UNCHANGED pc
     \/ batch[m] # {} /\ Returned(m, batch[m])
  /\ UNCHANGED <<expelled, current, attempt, position, shut, settled, stops>>

\* onLost keeps the pending offsets.
LoseMutant(m) ==
  /\ pc[m] = "poll" /\ m \in expelled
  /\ expelled' = expelled \ {m}
  /\ owned' = [owned EXCEPT ![m] = {}]
  /\ batch' = [batch EXCEPT ![m] = {}]
  /\ UNCHANGED <<committed, assigned, pc, current, attempt, pending, position,
                 shut, settled, bounds>>

\* onLost, when the member finds out that it was expelled; it joins again.
Lose(m) ==
  /\ pc[m] = "poll" /\ m \in expelled
  /\ expelled' = expelled \ {m}
  /\ Forget(m, owned[m])
  /\ owned' = [owned EXCEPT ![m] = {}]
  /\ \/ batch' = [batch EXCEPT ![m] = {}] /\ UNCHANGED pc
     \/ batch[m] # {} /\ Returned(m, batch[m])
  /\ UNCHANGED <<committed, assigned, current, attempt, position, shut, settled, bounds>>

----------------------------------------------------------------------------
(* processBatch and process.                                               *)

\* Offsets of one partition are taken in order; partitions in any.
First(x, S) == x \in S /\ \A y \in S : y.part = x.part => x.off <= y.off

\* No check that the partition is still owned.
TakeMutant(m, x) ==
  /\ pc[m] = "batch" /\ ~ drained[m] /\ First(x, batch[m])
  /\ batch' = [batch EXCEPT ![m] = @ \ {x}]
  /\ Goto(m, "handle")
  /\ current' = [current EXCEPT ![m] = {x}]
  /\ attempt' = [attempt EXCEPT ![m] = 1]
  /\ UNCHANGED <<broker, group, shut, settled, bounds>>

Take(m, x) ==
  /\ pc[m] = "batch" /\ ~ drained[m] /\ First(x, batch[m])
  /\ batch' = [batch EXCEPT ![m] = @ \ {x}]
  /\ IF x.part \in owned[m]
     THEN /\ Goto(m, "handle")
          /\ current' = [current EXCEPT ![m] = {x}]
          /\ attempt' = [attempt EXCEPT ![m] = 1]
     ELSE UNCHANGED <<pc, current, attempt>>
  /\ UNCHANGED <<broker, group, shut, settled, bounds>>

\* The batch is over, or the drain budget is.
EndBatch(m) ==
  /\ pc[m] = "batch"
  /\ \/ batch[m] = {} /\ Goto(m, "commit")
     \/ batch[m] # {} /\ drained[m] /\ Goto(m, "commitStop")
  /\ batch' = [batch EXCEPT ![m] = {}]
  /\ UNCHANGED <<broker, current, attempt, group, shut, settled, bounds>>

\* The handler succeeded, or the dead-letter topic has the record: markDone.
Settle(m, x) ==
  /\ pc[m] \in {"handle", "park"} /\ x \in current[m]
  /\ settled' = [settled EXCEPT ![x] = @ + 1]
  /\ pending' = [pending EXCEPT ![m][x.part] = x.off + 1]
  /\ current' = [current EXCEPT ![m] = {}]
  /\ attempt' = [attempt EXCEPT ![m] = 0]
  /\ Goto(m, "batch")
  /\ UNCHANGED <<broker, batch, owned, position, shut, bounds>>

\* The record is skipped and the batch goes on.
GiveUpMutant(m) ==
  /\ Goto(m, "batch")
  /\ current' = [current EXCEPT ![m] = {}]
  /\ attempt' = [attempt EXCEPT ![m] = 0]
  /\ UNCHANGED batch

\* The record is left: the rest of the batch is, too, and Run will return.
GiveUp(m) ==
  /\ Goto(m, "commitStop")
  /\ batch' = [batch EXCEPT ![m] = {}]
  /\ current' = [current EXCEPT ![m] = {}]
  /\ attempt' = [attempt EXCEPT ![m] = 0]

Try(m, where, n) ==
  /\ Goto(m, where)
  /\ attempt' = [attempt EXCEPT ![m] = n]
  /\ UNCHANGED <<batch, current>>

\* An error, timeout or panic of the handler.  A wait cut short by the drain
\* is the same as one more failed attempt.
HandlerFails(m) ==
  /\ pc[m] = "handle"
  /\ \/ drained[m] /\ GiveUp(m)
     \/ ~ drained[m] /\ attempt[m] <= MaxRetries /\ Try(m, "handle", attempt[m] + 1)
     \/ ~ drained[m] /\ DeadLetters /\ Try(m, "park", 0)       \* permanent, or no
     \/ ~ drained[m] /\ ~ DeadLetters /\ GiveUp(m)             \* retry is left
  /\ UNCHANGED <<broker, group, shut, settled, bounds>>

ParkFails(m) ==
  /\ pc[m] = "park" /\ Fault
  /\ IF drained[m] \/ attempt[m] >= MaxRetries
     THEN GiveUp(m)
     ELSE Try(m, "park", attempt[m] + 1)
  /\ UNCHANGED <<broker, group, shut, settled>>

----------------------------------------------------------------------------
(* Shutdown, failures and the coordinator.                                 *)

Cancel(m) ==
  /\ pc[m] # "stopped" /\ ~ ctxDone[m] /\ stops < MaxStops
  /\ ctxDone' = [ctxDone EXCEPT ![m] = TRUE]
  /\ stops' = stops + 1
  /\ UNCHANGED <<broker, loop, group, drained, settled, faults, moves>>

DrainTimeout(m) ==
  /\ ctxDone[m] /\ ~ drained[m] /\ pc[m] # "stopped"
  /\ drained' = [drained EXCEPT ![m] = TRUE]
  /\ UNCHANGED <<broker, loop, group, ctxDone, settled, bounds>>

Gone(m) ==
  /\ Goto(m, "stopped")
  /\ Release(m, {p \in Partitions : assigned[p] = m})
  /\ expelled' = expelled \ {m}
  /\ Forget(m, Partitions)
  /\ owned' = [owned EXCEPT ![m] = {}]
  /\ UNCHANGED position

\* Leaving the group runs onRevoked, or onLost, on what is still owned.
Close(m) ==
  /\ pc[m] = "close"
  /\ IF m \in expelled THEN UNCHANGED <<committed, faults>>
     ELSE CommitOK(m, owned[m]) \/ CommitFails(m, owned[m])
  /\ Gone(m)
  /\ UNCHANGED <<batch, current, attempt, shut, settled, moves, stops>>

Crash(m) ==
  /\ pc[m] # "stopped" /\ Fault
  /\ Gone(m)
  /\ batch' = [batch EXCEPT ![m] = {}]
  /\ current' = [current EXCEPT ![m] = {}]
  /\ attempt' = [attempt EXCEPT ![m] = 0]
  /\ UNCHANGED <<committed, shut, settled>>

Restart(m) ==
  /\ pc[m] = "stopped"
  /\ Goto(m, "poll")
  /\ ctxDone' = [ctxDone EXCEPT ![m] = FALSE]
  /\ drained' = [drained EXCEPT ![m] = FALSE]
  /\ UNCHANGED <<broker, batch, current, attempt, group, settled, bounds>>

\* The session or the maximum poll interval expires.
Expel(m) ==
  /\ pc[m] # "stopped" /\ m \notin expelled /\ Fault
  /\ expelled' = expelled \union {m}
  /\ Release(m, {p \in Partitions : assigned[p] = m})
  /\ UNCHANGED <<committed, loop, group, shut, settled>>

----------------------------------------------------------------------------
MemberNext(m) ==
  \/ CommitPending(m) \/ PollReturns(m) \/ ClientFails(m) \/ Lose(m)
  \/ EndBatch(m) \/ HandlerFails(m) \/ ParkFails(m) \/ Cancel(m)
  \/ DrainTimeout(m) \/ Close(m) \/ Crash(m) \/ Restart(m) \/ Expel(m)
  \/ \E p \in Partitions : Assign(m, p) \/ Fetch(m, p)
  \/ \E R \in SUBSET Partitions : Revoke(m, R)
  \/ \E x \in Record : Take(m, x) \/ Settle(m, x)

Next == \E m \in Members : MemberNext(m)

Spec == Init /\ [][Next]_vars

\* The steps a member takes by itself: its goroutine runs, calls return, and
\* the handler answers or times out.
RunStep(m) ==
  \/ CommitPending(m) \/ Lose(m) \/ EndBatch(m) \/ HandlerFails(m)
  \/ ((batch[m] # {} \/ ctxDone[m]) /\ PollReturns(m))
  \/ Close(m) \/ Restart(m)
  \/ \E x \in Record : Take(m, x) \/ Settle(m, x)

\* The coordinator gives a free partition to some member and fetches are
\* answered; the drain timer fires.
Fairness ==
  /\ \A m \in Members :
       /\ WF_vars(RunStep(m))
       /\ WF_vars(DrainTimeout(m))
       /\ \A p \in Partitions : WF_vars(Fetch(m, p))
  /\ \A p \in Partitions : SF_vars(\E m \in Members : Assign(m, p))

FairSpec == Spec /\ Fairness

----------------------------------------------------------------------------
PCs == {"poll", "batch", "handle", "park", "commit", "commitStop", "close", "stopped"}

BrokerType ==
  /\ committed \in [Partitions -> 0..Records]
  /\ assigned \in [Partitions -> Members \union {Nobody}]
  /\ expelled \subseteq Members

LoopType ==
  /\ pc \in [Members -> PCs]
  /\ batch \in [Members -> SUBSET Record]
  /\ current \in [Members -> SUBSET Record]
  /\ attempt \in [Members -> 0..(MaxRetries + 1)]

GroupType ==
  /\ owned \in [Members -> SUBSET Partitions]
  /\ pending \in [Members -> [Partitions -> 0..Records]]
  /\ position \in [Members -> [Partitions -> 0..Records]]

RestType ==
  /\ ctxDone \in [Members -> BOOLEAN] /\ drained \in [Members -> BOOLEAN]
  /\ settled \in [Record -> Nat]
  /\ faults \in Nat /\ moves \in Nat /\ stops \in Nat

\* The variables have their types.  A record is tried MaxRetries + 1 times at
\* most: process gives it up, or to the dead-letter topic, after that.
TypeOK == BrokerType /\ LoopType /\ GroupType /\ RestType

\* No record is skipped: the group's offset passes only records that were
\* handled or parked, whatever commit fails and whoever owns the partition.
NoRecordSkipped == \A x \in Record : x.off < committed[x.part] => settled[x] > 0

\* The first time through, the records of a partition are settled in order,
\* also across owners.
SettledInOrder ==
  \A x, y \in Record : x.part = y.part /\ x.off < y.off /\ settled[y] > 0 => settled[x] > 0

\* The committed offset never moves back, although the coordinator would
\* accept it: an old owner never commits over a new one.
NeverRewinds == [][\A p \in Partitions : committed'[p] >= committed[p]]_vars

\* Without a failure every record is settled once: orderly rebalances and
\* shutdowns, in the middle of a batch too, redeliver nothing settled.
OnceWithoutFaults == faults = 0 => \A x \in Record : settled[x] <= 1

\* Every record is handled or parked in the end, through shutdowns, moves,
\* expulsions and crashes.
EverythingSettled == \A x \in Record : <>(settled[x] > 0)

\* A cancelled Run returns: the drain budget bounds what the handler and the
\* dead-letter topic may still take.
RunReturns == \A m \in Members : ctxDone[m] ~> pc[m] = "stopped"
=============================================================================
