-------------------------- MODULE TaskEventsProofs --------------------------
(***************************************************************************)
(* The store is the writer that the relays assume, and so the topic tells  *)
(* the history of the tasks: the invariants of TaskStoreProofs and         *)
(* OutboxRelayProofs, put together.                                        *)
(***************************************************************************)
EXTENDS TaskEvents, TLAPS

\* Only the store commits rows.
LEMMA RelaysCommitNothing == Relay!RelaysNext => UNCHANGED committed
<1>1. ASSUME NEW r \in Relays, Relay!RelayNext(r) PROVE UNCHANGED committed
  BY <1>1, Zenon DEF Relay!RelayNext, Relay!Wake, Relay!TryLock, Relay!Select, Relay!EndLoop, Relay!Settle,
     Relay!CommitUnknown, Relay!StatementFails, Relay!RollBack, Relay!SessionLost, Relay!LearnsSessionLost,
     Relay!Again, Relay!Timer, Relay!Woken, Relay!Stop, Relay!Cancel, Relay!Crash, Relay!Restart
<1>2. ASSUME NEW e \in Relay!Event, Relay!EventNext(e) PROVE UNCHANGED committed
  BY <1>2 DEF Relay!EventNext, Relay!DueAgain, Relay!LateArrival, Relay!Ack, Relay!Reject, Relay!Outage
<1>3. QED
  BY <1>1, <1>2, Zenon DEF Relay!RelaysNext

----------------------------------------------------------------------------
(* The store.                                                              *)

SP == INSTANCE TaskStoreProofs

\* The store's steps in the composition are those its proofs are about.
LEMMA SameStore ==
  /\ Store!Init => SP!Init
  /\ \A c \in Clients : Store!Begin(c) \/ Store!Step(c) \/ Store!Abort(c) => SP!Next
  /\ \A c \in Clients : Store!Commit(c) \/ Store!CommitUnknown(c) => SP!Next
  /\ \A k \in Keys : Store!Purge(k) => SP!Next
<1> USE DEF Store!AnyVersion, SP!AnyVersion, Store!NoRow, SP!NoRow, Store!Idle, SP!Idle, Store!End, SP!End,
         Store!Holds, SP!Holds, Store!Ack, SP!Ack
<1>1. Store!Init => SP!Init
  BY Zenon DEF Store!Init, SP!Init
<1>2. ASSUME NEW c \in Clients
      PROVE  Store!Begin(c) \/ Store!Step(c) \/ Store!Abort(c) => SP!Begin(c) \/ SP!Step(c) \/ SP!Abort(c)
  BY Zenon
     DEF Store!Begin, SP!Begin, Store!BeginCreate, SP!BeginCreate, Store!BeginWrite, SP!BeginWrite,
         Store!Step, SP!Step, Store!InsertKey, SP!InsertKey, Store!Replay, SP!Replay,
         Store!Write, SP!Write, Store!Enqueue, SP!Enqueue, Store!Abort, SP!Abort,
         Store!KeyLocked, SP!KeyLocked, Store!RowLocked, SP!RowLocked, Store!Matches, SP!Matches
<1>3. ASSUME NEW c \in Clients
      PROVE  Store!Commit(c) \/ Store!CommitUnknown(c) => SP!Commit(c) \/ SP!CommitUnknown(c)
  BY Zenon
     DEF Store!Commit, SP!Commit, Store!CommitUnknown, SP!CommitUnknown, Store!Apply, SP!Apply,
         Store!Cascaded, SP!Cascaded, Store!EventOf, SP!EventOf
<1>4. ASSUME NEW k \in Keys PROVE Store!Purge(k) => SP!Purge(k)
  BY Zenon DEF Store!Purge, SP!Purge
<1>5. QED
  BY <1>1, <1>2, <1>3, <1>4, Zenon DEF SP!Next

\* The relays' table of committed rows is the store's.
Linked == committed = {RowOf(e) : e \in events}

\* The store's invariant holds in the composition.
LEMMA StoreInvariance == Spec => []SP!IInv
<1>1. MaxId \in Nat /\ None \notin Tasks \union Keys \union Hashes
  BY StoreAssumption, Zenon
<1>2. SP!Spec => []SP!IInv
  BY <1>1, SP!Invariance, PTL
<1>3. Init => SP!Init
  BY SameStore, Zenon DEF Init
<1>4. [Next]_<<storeVars, relayVars>> => [SP!Next]_SP!storeVars
  <2>1. ASSUME NEW c \in Clients, CommitTx(c) PROVE SP!Next
    BY <2>1, SameStore, Zenon DEF CommitTx
  <2>2. StoreStep => SP!Next
    BY SameStore, Zenon DEF StoreStep
  <2>3. RelayStep \/ UNCHANGED <<storeVars, relayVars>> => UNCHANGED SP!storeVars
    BY Zenon DEF RelayStep, storeVars, SP!storeVars
  <2>4. QED
    BY <2>1, <2>2, <2>3 DEF Next
<1>5. QED
  BY <1>2, <1>3, <1>4, PTL DEF Spec, SP!Spec

\* A commit of the store is a commit that the relays' model allows.
LEMMA CommitAllowed ==
  ASSUME SP!IInv, Linked, NEW c \in Clients, CommitTx(c)
  PROVE  /\ RowOf(Store!EventOf(c)) \in Relay!Event /\ Relay!Commit(RowOf(Store!EventOf(c)))
         /\ Linked'
<1> DEFINE row == RowOf(Store!EventOf(c))
<1>1. row = [id |-> tx[c].id, task |-> tx[c].task] /\ tx[c].pc = "commit"
      /\ events' = events \union {Store!EventOf(c)} /\ committed' = committed \union {row}
  BY Zenon DEF CommitTx, Relay!Insert, Store!EventOf, RowOf, Store!Commit, Store!CommitUnknown, Store!Apply
<1>2. /\ tx[c].id \in Nat /\ tx[c].id >= 1 /\ tx[c].id =< lastId /\ lastId \in 0..MaxId /\ tx[c].task \in Tasks
      /\ \A e \in events : e.id # tx[c].id /\ (e.task = tx[c].task => e.id < tx[c].id)
  BY <1>1 DEF SP!IInv, SP!HeldInv, SP!TypeInv, SP!Calls
<1>3. row \in Relay!Event
  BY <1>1, <1>2, StoreAssumption DEF Relay!Event
<1>4. \A f \in committed : f.id # row.id /\ (f.task = row.task => f.id < row.id)
  BY <1>1, <1>2 DEF Linked, RowOf
<1>5. Relay!Commit(row)
  BY <1>4, Zenon DEF Relay!Commit, CommitTx
<1>6. Linked'
  BY <1>1, Zenon DEF Linked
<1>7. QED
  BY <1>3, <1>5, <1>6

\* The relays' rows are the store's, always.
LEMMA AlwaysLinked == Spec => []Linked
<1>1. Init => Linked
  BY Zenon DEF Init, Store!Init, Relay!Init, Linked
<1>2. SP!IInv /\ Linked /\ [Next]_<<storeVars, relayVars>> => Linked'
  <2> SUFFICES ASSUME SP!IInv, Linked, [Next]_<<storeVars, relayVars>> PROVE Linked'
    OBVIOUS
  <2>1. ASSUME NEW c \in Clients, CommitTx(c) PROVE Linked'
    BY <2>1, CommitAllowed, Zenon
  <2>2. StoreStep => UNCHANGED <<events, committed>>
    BY Zenon DEF StoreStep, relayVars, Store!Begin, Store!BeginCreate, Store!BeginWrite, Store!Step, Store!InsertKey,
           Store!Replay, Store!Write, Store!Enqueue, Store!Abort, Store!Purge
  <2>3. RelayStep => UNCHANGED <<events, committed>>
    BY RelaysCommitNothing, Zenon DEF RelayStep, storeVars
  <2>4. UNCHANGED <<storeVars, relayVars>> => UNCHANGED <<events, committed>>
    BY Zenon DEF storeVars, relayVars
  <2>5. UNCHANGED <<events, committed>> => Linked'
    BY Zenon DEF Linked
  <2>6. QED
    BY <2>1, <2>2, <2>3, <2>4, <2>5 DEF Next
<1>3. QED
  BY <1>1, <1>2, StoreInvariance, PTL DEF Spec

\* For any number of calls, relays, tasks and faults, the store is a writer as
\* the relays assume it: rows appear with fresh ids and, for one task, in id
\* order (store.go, outbox.go Enqueue, relay.go).
THEOREM ImplementsOutboxRelayProved == Spec => ImplementsOutboxRelay
<1>1. Init => Relay!Init
  BY DEF Init
<1>2. SP!IInv /\ Linked /\ [Next]_<<storeVars, relayVars>> => [Relay!Next]_Relay!vars
  <2> SUFFICES ASSUME SP!IInv, Linked, [Next]_<<storeVars, relayVars>> PROVE [Relay!Next]_Relay!vars
    OBVIOUS
  <2>1. ASSUME NEW c \in Clients, CommitTx(c) PROVE Relay!Next
    BY <2>1, CommitAllowed, Zenon DEF Relay!Next
  <2>2. RelayStep => Relay!Next
    BY DEF RelayStep, Relay!Next
  <2>3. StoreStep \/ UNCHANGED <<storeVars, relayVars>> => UNCHANGED Relay!vars
    BY Zenon DEF StoreStep, relayVars, Relay!vars, Relay!table, Relay!batch, Relay!broker, Relay!bounds
  <2>4. QED
    BY <2>1, <2>2, <2>3 DEF Next
<1>3. QED
  BY <1>1, <1>2, StoreInvariance, AlwaysLinked, PTL DEF Spec, ImplementsOutboxRelay, Relay!Spec

\* An event of an earlier state of a task has the smaller outbox id.
LEMMA EarlierHasSmallerId ==
  ASSUME SP!IInv, NEW e \in events, NEW f \in events, e.task = f.task,
         e.version < f.version \/ (e # f /\ f.type = "deleted")
  PROVE  e.id \in Nat /\ f.id \in Nat /\ e.id =< f.id
<1>1. e.id \in Nat /\ f.id \in Nat /\ e.version \in Nat /\ f.version \in Nat /\ e.task \in Tasks
      /\ e.type \in SP!Types /\ f.type \in SP!Types
  BY Zenon DEF SP!IInv, SP!TypeInv
<1>2. SUFFICES ASSUME f.id < e.id PROVE FALSE
  BY <1>1
<1>3. f.version < e.version \/ e.type = "deleted"
  BY <1>2, Zenon DEF SP!IInv, SP!HistoryInv
<1>4. e.type = "deleted" \/ f.type = "deleted"
  BY <1>1, <1>3
<1>5. SP!Has(e.task, e.type, e.version) /\ SP!Has(e.task, f.type, f.version)
  BY Zenon DEF SP!Has
<1>6. tasks[e.task] # 0 => SP!Told(e.type, e.version, tasks[e.task]) /\ SP!Told(f.type, f.version, tasks[e.task])
  BY <1>1, <1>5 DEF SP!IInv, SP!HistoryInv
<1>7. tasks[e.task] = 0
  BY <1>4, <1>6 DEF SP!Told
<1>8. PICK n \in 1..MaxId : \A type \in SP!Types, v \in Nat :
        SP!Has(e.task, type, v) <=> SP!Told(type, v, n) \/ (type = "deleted" /\ v = n)
  BY <1>1, <1>7, Zenon DEF SP!IInv, SP!HistoryInv
<1>9. /\ SP!Told(e.type, e.version, n) \/ (e.type = "deleted" /\ e.version = n)
      /\ SP!Told(f.type, f.version, n) \/ (f.type = "deleted" /\ f.version = n)
  BY <1>1, <1>5, <1>8
<1>10. e.version =< n /\ f.version =< n /\ n \in Nat
  BY <1>1, <1>9, StoreAssumption DEF SP!Told
<1>11. e.type = "deleted" => e.version = n
  BY <1>9, Zenon DEF SP!Told
<1>12. f.type = "deleted" => f.version = n
  BY <1>9 DEF SP!Told
<1>13. e.type = f.type /\ e.version = f.version => e = f
  BY Zenon DEF SP!IInv, SP!HistoryInv, SP!NoLostUpdate, SP!EventsOf
<1>14. QED
  BY <1>1, <1>3, <1>4, <1>10, <1>11, <1>12, <1>13

\* The relays' promise, in the terms of the rows.
RowsInOrder ==
  /\ \A r \in committed : refused[r] \in Nat
  /\ \A r, q \in committed :
       copies[r] > 0 /\ q.task = r.task /\ q.id < r.id /\ refused[q] = 0 => copies[q] > 0

\* Rows delivered in id order tell the history of the tasks.
LEMMA RowsTellHistory == SP!IInv /\ Linked /\ RowsInOrder => TopicTellsHistory
<1> SUFFICES ASSUME SP!IInv, Linked, RowsInOrder,
                    NEW f \in events, copies[RowOf(f)] > 0, NEW e \in events, e.task = f.task,
                    e.version < f.version \/ (e # f /\ f.type = "deleted")
             PROVE  copies[RowOf(e)] > 0 \/ refused[RowOf(e)] > 0
  BY Zenon DEF TopicTellsHistory, Store!EventsOf
<1>1. e.id \in Nat /\ f.id \in Nat /\ e.id =< f.id
  BY EarlierHasSmallerId
<1>2. RowOf(e) \in committed /\ RowOf(f) \in committed
  BY Zenon DEF Linked
<1>3. CASE e.id = f.id
  BY <1>3 DEF RowOf
<1>4. CASE e.id # f.id
  <2>1. e.id < f.id
    BY <1>1, <1>4
  <2>2. RowOf(e).task = RowOf(f).task /\ RowOf(e).id < RowOf(f).id
    BY <2>1 DEF RowOf
  <2> QED
    BY <1>2, <2>2 DEF RowsInOrder
<1> QED
  BY <1>3, <1>4

----------------------------------------------------------------------------
(* The relays.                                                             *)

RP == INSTANCE OutboxRelayProofs

\* The relays' steps in the composition are those their proofs are about.
LEMMA SameRelay ==
  (Relay!Init => RP!Init) /\ (Relay!Next => RP!Next) /\ (UNCHANGED Relay!vars => UNCHANGED RP!vars)
<1> USE DEF Relay!Event, RP!Event, Relay!Fault, RP!Fault, Relay!table, RP!table, Relay!batch, RP!batch,
         Relay!broker, RP!broker, Relay!bounds, RP!bounds, Relay!InTx, RP!InTx, Relay!EndPass,
         RP!EndPass, Relay!First, RP!First, Relay!Sending, RP!Sending
<1>1. Relay!Init => RP!Init
  BY Zenon DEF Relay!Init, RP!Init
<1>2. UNCHANGED Relay!vars => UNCHANGED RP!vars
  BY Zenon DEF Relay!vars, RP!vars
<1>3. ASSUME NEW r \in Relays PROVE Relay!RelayNext(r) => RP!RelayNext(r)
  <2>1. /\ (Relay!Wake(r) => RP!Wake(r))
        /\ (Relay!TryLock(r) => RP!TryLock(r))
    BY Zenon
    DEF Relay!Cardinality, RP!Cardinality, Relay!Wake, RP!Wake, Relay!TryLock, RP!TryLock, Relay!LockFree, RP!LockFree
  <2>2. (Relay!Select(r) => RP!Select(r))
    BY Zenon
    DEF Relay!Cardinality, RP!Cardinality, Relay!Select, RP!Select, Relay!Selectable, RP!Selectable, Relay!RowLocked, RP!RowLocked,
         Relay!SelectBatch, RP!SelectBatch
  <2>3. /\ (Relay!EndLoop(r) => RP!EndLoop(r))
        /\ (Relay!Settle(r) => RP!Settle(r))
    BY Zenon
    DEF Relay!Cardinality, RP!Cardinality, Relay!EndLoop, RP!EndLoop, Relay!Settle, RP!Settle, Relay!Persist, RP!Persist, Relay!AfterPass,
         RP!AfterPass
  <2>4. /\ (Relay!CommitUnknown(r) => RP!CommitUnknown(r))
        /\ (Relay!StatementFails(r) => RP!StatementFails(r))
    BY Zenon
    DEF Relay!CommitUnknown, RP!CommitUnknown, Relay!StatementFails, RP!StatementFails, Relay!Persist,
         RP!Persist, Relay!RollBack, RP!RollBack, Relay!AtStatement, RP!AtStatement
  <2>5. /\ (Relay!SessionLost(r) => RP!SessionLost(r))
        /\ (Relay!LearnsSessionLost(r) => RP!LearnsSessionLost(r))
        /\ (Relay!Again(r) => RP!Again(r))
        /\ (Relay!Timer(r) => RP!Timer(r))
        /\ (Relay!Woken(r) => RP!Woken(r))
    BY Zenon
    DEF Relay!RollBack, RP!RollBack, Relay!AtStatement, RP!AtStatement, Relay!SessionLost, RP!SessionLost, Relay!LearnsSessionLost, RP!LearnsSessionLost, Relay!Again,
         RP!Again, Relay!Timer, RP!Timer, Relay!Woken, RP!Woken
  <2>6. /\ (Relay!Stop(r) => RP!Stop(r))
        /\ (Relay!Cancel(r) => RP!Cancel(r))
        /\ (Relay!Crash(r) => RP!Crash(r))
        /\ (Relay!Restart(r) => RP!Restart(r))
    BY Zenon
    DEF Relay!Stop, RP!Stop, Relay!Cancel, RP!Cancel, Relay!Crash, RP!Crash, Relay!Restart, RP!Restart
  <2>7. QED
    BY <2>1, <2>2, <2>3, <2>4, <2>5, <2>6, Zenon DEF Relay!RelayNext, RP!RelayNext
<1>4. ASSUME NEW e \in Relay!Event PROVE Relay!EventNext(e) => RP!EventNext(e)
  BY Zenon
     DEF Relay!EventNext, RP!EventNext, Relay!DueAgain, RP!DueAgain, Relay!LateArrival, RP!LateArrival,
         Relay!Ack, RP!Ack, Relay!Reject, RP!Reject, Relay!Outage,
         RP!Outage
<1>5. ASSUME NEW e \in Relay!Event PROVE Relay!Commit(e) => RP!Commit(e)
  BY Zenon DEF Relay!Commit, RP!Commit, Relay!Insert, RP!Insert
<1>6. QED
  BY <1>1, <1>2, <1>3, <1>4, <1>5, Zenon DEF Relay!Next, RP!Next, Relay!RelaysNext, RP!RelaysNext

\* What is proved of the relays holds in the composition.
LEMMA RelayInvariance == Spec => [](RP!IInv /\ RP!FirstDeliveriesInOrder)
<1>1. BatchSize \in Nat \ {0} /\ MaxAttempts \in Nat \ {0} /\ MaxId \in Nat /\ MaxFaults \in Nat
      /\ MaxStops \in Nat /\ MaxWakes \in Nat
  BY StoreAssumption, RelayAssumption
<1>2. RP!Spec => []RP!FirstDeliveriesInOrder
  BY <1>1, RP!FirstDeliveriesInOrderProved, PTL
<1>3. RP!Spec => []RP!IInv
  BY <1>1, RP!Inductive, PTL
<1>4. Spec => Relay!Spec
  BY ImplementsOutboxRelayProved DEF ImplementsOutboxRelay
<1>5. Relay!Init => RP!Init
  BY SameRelay
<1>6. [Relay!Next]_Relay!vars => [RP!Next]_RP!vars
  BY SameRelay
<1>7. QED
  BY <1>2, <1>3, <1>4, <1>5, <1>6, PTL DEF Relay!Spec, RP!Spec

\* For any number of calls, relays, tasks and faults, a reader of the topic sees
\* no event of a task before those of its earlier versions, except the ones the
\* broker refused (store.go, outbox.go Enqueue, relay.go relayOnce).
THEOREM TopicTellsHistoryProved == Spec => []TopicTellsHistory
<1>1. RP!IInv /\ RP!FirstDeliveriesInOrder => RowsInOrder
  <2> SUFFICES ASSUME RP!IInv, RP!FirstDeliveriesInOrder PROVE RowsInOrder
    OBVIOUS
  <2>1. committed \subseteq RP!Event /\ copies \in [RP!Event -> Nat] /\ refused \in [RP!Event -> Nat]
    BY DEF RP!IInv, RP!TypeOK
  <2> QED
    BY <2>1 DEF RP!FirstDeliveriesInOrder, RP!Delivered, RowsInOrder
<1>2. QED
  BY <1>1, RowsTellHistory, StoreInvariance, AlwaysLinked, RelayInvariance, PTL
=============================================================================
