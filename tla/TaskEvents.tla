----------------------------- MODULE TaskEvents -----------------------------
(***************************************************************************)
(* The tasks service's event pipeline: the store's transactions (TaskStore)*)
(* and the relays (OutboxRelay) around the shared outbox table.            *)
(***************************************************************************)
EXTENDS Naturals, FiniteSets

CONSTANTS Clients, Tasks, Keys, Hashes, None, MaxId,
          Relays, BatchSize, MaxAttempts, MaxFaults, MaxStops, MaxWakes

VARIABLES tasks, keys, events, lastId, minted, tx, epoch, acks,
          committed, outbox, rejections, waiting, pc, session, todo, done,
          aside, pubErr, wake, ctxDone, announced, copies, late, refused,
          dirty, faults, stops

ASSUME StoreAssumption == MaxId \in Nat /\ None \notin Tasks \union Keys \union Hashes
ASSUME RelayAssumption ==
  /\ BatchSize \in Nat \ {0} /\ MaxAttempts \in Nat \ {0}
  /\ MaxFaults \in Nat /\ MaxStops \in Nat /\ MaxWakes \in Nat

Store == INSTANCE TaskStore
Relay == INSTANCE OutboxRelay

storeVars == <<tasks, keys, events, lastId, minted, tx, epoch, acks>>
relayVars == <<committed, outbox, rejections, waiting, pc, session, todo, done,
               aside, pubErr, wake, ctxDone, announced, copies, late, refused,
               dirty, faults, stops>>

Init == Store!Init /\ Relay!Init

\* The columns of an outbox row that the relay orders and groups by.
RowOf(e) == [id |-> e.id, task |-> e.task]

\* A commit makes the change and its outbox row visible at once.
CommitTx(c) ==
  /\ Store!Commit(c) \/ Store!CommitUnknown(c)
  /\ Relay!Insert(RowOf(Store!EventOf(c)))

StoreStep ==
  /\ \/ \E c \in Clients : Store!Begin(c) \/ Store!Step(c) \/ Store!Abort(c)
     \/ \E k \in Keys : Store!Purge(k)
  /\ UNCHANGED relayVars

RelayStep == Relay!RelaysNext /\ UNCHANGED storeVars

Next == (\E c \in Clients : CommitTx(c)) \/ StoreStep \/ RelayStep

Spec == Init /\ [][Next]_<<storeVars, relayVars>>

----------------------------------------------------------------------------
\* The store is the writer that the relays rely on: rows appear with fresh ids
\* and, for one task, in id order, so all that is shown of the relays holds
\* behind this store.
ImplementsOutboxRelay == Relay!Spec

\* What a reader of the topic has seen of a task is a prefix of its history:
\* no event is there before the events of the earlier versions, except those
\* the broker refused.
TopicTellsHistory ==
  \A f \in events : copies[RowOf(f)] > 0 =>
    \A e \in Store!EventsOf(f.task) :
       (e.version < f.version \/ (e # f /\ f.type = "deleted"))
         => copies[RowOf(e)] > 0 \/ refused[RowOf(e)] > 0
=============================================================================
