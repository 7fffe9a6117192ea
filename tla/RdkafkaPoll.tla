---------------------------- MODULE RdkafkaPoll ----------------------------
(***************************************************************************)
(* The librdkafka driver's Poll and rebalance callback                     *)
(* (libs/kafka-rdkafka/rdkafka.go) in one member of a group, between the   *)
(* client library and the loop of libs/kafka, which handles every record   *)
(* Poll returns of a partition it owns and commits.  The other members are *)
(* one action: they work on the partitions this member does not have.      *)
(*                                                                         *)
(* The library is external, and its source is not in the repository.  One  *)
(* call of its Poll is assumed to return one event, or nil when it has run *)
(* the rebalance callback or has waited in vain.                           *)
(***************************************************************************)
EXTENDS Naturals, FiniteSets

CONSTANTS Partitions,
          Records,        \* records in each partition: offsets 0..Records-1
          MaxPollRecords, \* the max argument of Poll
          MaxMoves        \* bound: revocations

ASSUME RecordsIsACount == Records \in Nat

Record == [part : Partitions, off : 0..(Records - 1)]

VARIABLES
  committed,  \* the group's committed offset of each partition
  assigned,   \* partitions of this member: the library's and Consumer.owned
  position,   \* the library's fetch position in each of them
  poll,       \* "loop", "poll" (in Poll) or "batch" (Poll has returned)
  out,        \* the records Poll has so far
  revoked,    \* consumer.revoked
  settled,    \* history: records handled by the group
  bounced,    \* history: partitions that left and came back within one Poll
  moves

pollVars == <<committed, assigned, position, poll, out, revoked, settled, bounced, moves>>

PollInit ==
  /\ committed = [p \in Partitions |-> 0] /\ position = [p \in Partitions |-> 0]
  /\ assigned = {} /\ out = {} /\ revoked = {} /\ settled = {} /\ bounced = {}
  /\ poll = "loop" /\ moves = 0

----------------------------------------------------------------------------
BeginPoll ==
  /\ poll = "loop"
  /\ poll' = "poll" /\ out' = {} /\ revoked' = {}
  /\ UNCHANGED <<committed, assigned, position, settled, bounced, moves>>

\* Poll's loop goes on while there is room in out.
Polling == poll = "poll" /\ Cardinality(out) < MaxPollRecords

\* The end of the loop's body drops everything polled when a partition moved.
KeptMutant(S, gone) == IF gone = {} THEN S ELSE {}

\* The end of the loop's body: what was polled of a revoked partition is dropped.
Kept(S, gone) == {x \in S : x.part \notin gone}

\* A record.
Message(p) ==
  /\ Polling /\ p \in assigned /\ position[p] < Records
  /\ out' = Kept(out \union {[part |-> p, off |-> position[p]]}, revoked)
  /\ revoked' = {}
  /\ position' = [position EXCEPT ![p] = @ + 1]
  /\ UNCHANGED <<committed, assigned, poll, settled, bounced, moves>>

\* Statistics, or an error that is not fatal.  (An error event of one partition
\* skips the end of the body and changes nothing.)
OtherEvent ==
  /\ Polling /\ revoked # {}
  /\ out' = Kept(out, revoked)
  /\ revoked' = {}
  /\ UNCHANGED <<committed, assigned, position, poll, settled, bounced, moves>>

\* No event: Poll returns what it has, before the end of the loop's body, or
\* goes on when that is nothing.
NoEvent == poll' = IF out # {} THEN "batch" ELSE "poll"

Assign(p) ==
  /\ Polling /\ p \notin assigned
  /\ assigned' = assigned \union {p}
  /\ position' = [position EXCEPT ![p] = committed[p]]
  /\ bounced' = bounced \union ({p} \cap revoked)
  /\ NoEvent
  /\ UNCHANGED <<committed, out, revoked, settled, moves>>

\* Both outcomes of AssignmentLost; everything handled is committed by now.
Revoke(R) ==
  /\ Polling /\ R # {} /\ R \subseteq assigned
  /\ moves < MaxMoves /\ moves' = moves + 1
  /\ assigned' = assigned \ R
  /\ revoked' = revoked \union R
  /\ NoEvent
  /\ UNCHANGED <<committed, position, out, settled, bounced>>

\* The library's queue is empty, or out is full.
PollReturns ==
  /\ poll = "poll" /\ out # {}
  /\ poll' = "batch"
  /\ UNCHANGED <<committed, assigned, position, out, revoked, settled, bounced, moves>>

\* A fatal error: Poll returns nothing, Run returns, and a new process joins.
Fatal ==
  /\ Polling /\ moves < MaxMoves
  /\ poll' = "loop" /\ out' = {} /\ assigned' = {} /\ moves' = moves + 1
  /\ UNCHANGED <<committed, position, revoked, settled, bounced>>

----------------------------------------------------------------------------
\* processBatch and commitPending, without their failures (see KafkaConsumer).
Owned == {x \in out : x.part \in assigned}

Batch ==
  /\ poll = "batch"
  /\ settled' = settled \union Owned
  /\ committed' = [p \in Partitions |->
       IF \E x \in Owned : x.part = p
       THEN CHOOSE n \in 1..Records : /\ [part |-> p, off |-> n - 1] \in Owned
                                      /\ \A x \in Owned : x.part = p => x.off < n
       ELSE committed[p]]
  /\ poll' = "loop" /\ out' = {}
  /\ UNCHANGED <<assigned, position, revoked, bounced, moves>>

\* Another member handles and commits a record.
Elsewhere(p) ==
  /\ p \notin assigned /\ committed[p] < Records
  /\ settled' = settled \union {[part |-> p, off |-> committed[p]]}
  /\ committed' = [committed EXCEPT ![p] = @ + 1]
  /\ UNCHANGED <<assigned, position, poll, out, revoked, bounced, moves>>

PollNext ==
  \/ BeginPoll \/ OtherEvent \/ PollReturns \/ Fatal \/ Batch
  \/ \E p \in Partitions : Message(p) \/ Assign(p) \/ Elsewhere(p)
  \/ \E R \in SUBSET Partitions : Revoke(R)

PollSpec == PollInit /\ [][PollNext]_pollVars

----------------------------------------------------------------------------
\* A record the group's offset passes without its being handled belongs to a
\* partition that left the member and came back within one Poll: any other
\* rebalance, in the middle of a batch too, loses nothing.
SkipsNeedABounce ==
  \A x \in Record : x.off < committed[x.part] => x \in settled \/ x.part \in bounced

\* Offsets advance only past records that a handler has accepted.
NoRecordPassedOver == \A x \in Record : x.off < committed[x.part] => x \in settled
=============================================================================
