----------------------------- MODULE TaskStore -----------------------------
(***************************************************************************)
(* The tasks service's store (services/tasks/internal/store/store.go) over *)
(* PostgreSQL at READ COMMITTED: Create with idempotency keys, conditional *)
(* Update and Delete, each one transaction that also inserts the change's  *)
(* outbox row (internal/outbox/outbox.go), and the purge of old keys.      *)
(*                                                                         *)
(* A call is a sequence of statements that interleave with those of other  *)
(* calls, and any of them may fail.  What a call has written is kept in    *)
(* its tx record until it commits; a statement that meets a row written by *)
(* an open transaction waits for its end.                                  *)
(*                                                                         *)
(* An operator named XMutant is a plausible bug in X; nothing uses it but  *)
(* the experiments that show which property notices the bug.               *)
(***************************************************************************)
EXTENDS Naturals

CONSTANTS Clients,    \* concurrent calls of the store
          Tasks,      \* task ids that Create may mint
          Keys,       \* values of the Idempotency-Key header
          Hashes,     \* request hashes
          None,
          MaxId       \* bound: the last value of the outbox id sequence

ASSUME NoneAssumption == None \notin Tasks \union Keys \union Hashes
ASSUME MaxIdAssumption == MaxId \in Nat

VARIABLES
  tasks,    \* version of each committed task row, 0 when there is none
  keys,     \* committed idempotency_keys rows: request_hash and task_id
  events,   \* every outbox row that was ever committed
  lastId,   \* the outbox IDENTITY sequence
  minted,   \* task ids used by some Create
  tx,       \* the call of each client with its uncommitted writes
  epoch,    \* history: how often each key was released (cascade or purge)
  acks      \* history: keyed creates answered with a task

storeVars == <<tasks, keys, events, lastId, minted, tx, epoch, acks>>

AnyVersion == 0      \* expect = nil: no If-Match
NoRow == [hash |-> None, task |-> None]
Idle  == [pc |-> "idle", type |-> "created", task |-> None, key |-> None,
          hash |-> None, expect |-> AnyVersion, version |-> 0, id |-> 0, epoch |-> 0]

Init ==
  /\ tasks = [t \in Tasks |-> 0]
  /\ keys = [k \in Keys |-> NoRow]
  /\ events = {} /\ lastId = 0 /\ minted = {} /\ acks = {}
  /\ tx = [c \in Clients |-> Idle]
  /\ epoch = [k \in Keys |-> 0]

End(c) == tx' = [tx EXCEPT ![c] = Idle]

----------------------------------------------------------------------------
(* The transactions.  "enqueue" and "commit" are the states in which the   *)
(* rows a call wrote are locked.                                           *)

\* The locks end with the last statement, before the commit.
HoldsMutant(c) == tx[c].pc = "enqueue"

Holds(c) == tx[c].pc \in {"enqueue", "commit"}

\* Begin and INSERT INTO tasks with a fresh id; nobody else sees the row.
BeginCreate(c, k, h) ==
  /\ tx[c].pc = "idle"
  /\ \E t \in Tasks \ minted :
       /\ minted' = minted \union {t}
       /\ tx' = [tx EXCEPT ![c] = [Idle EXCEPT !.pc = IF k = None THEN "enqueue" ELSE "key",
                                    !.task = t, !.key = k, !.hash = h, !.version = 1]]
  /\ UNCHANGED <<tasks, keys, events, lastId, epoch, acks>>

\* SELECT of the key, then INSERT: an uncommitted key is not waited for.
KeyLockedMutant(c, k) == FALSE

\* Another open transaction has inserted the key or is deleting its row.
KeyLocked(c, k) ==
  \E d \in Clients \ {c} : Holds(d) /\
     \/ tx[d].type = "created" /\ tx[d].key = k
     \/ tx[d].type = "deleted" /\ keys[k].task = tx[d].task

\* INSERT INTO idempotency_keys ... ON CONFLICT: the key is ours, or names the
\* task to replay, or belongs to another request body.
InsertKey(c) ==
  LET row == keys[tx[c].key] IN
  /\ tx[c].pc = "key" /\ ~ KeyLocked(c, tx[c].key)
  /\ \/ /\ row = NoRow
        /\ tx' = [tx EXCEPT ![c].pc = "enqueue", ![c].epoch = epoch[tx[c].key]]
     \/ /\ row # NoRow /\ row.hash = tx[c].hash
        /\ tx' = [tx EXCEPT ![c].pc = "replay", ![c].task = row.task,
                            ![c].epoch = epoch[tx[c].key]]
     \/ /\ row # NoRow /\ row.hash # tx[c].hash
        /\ End(c)
  /\ UNCHANGED <<tasks, keys, events, lastId, minted, epoch, acks>>

Ack(c) == [key |-> tx[c].key, epoch |-> tx[c].epoch, hash |-> tx[c].hash, task |-> tx[c].task]

\* The Get after the rollback; the task may be gone by then.
Replay(c) ==
  /\ tx[c].pc = "replay"
  /\ acks' = IF tasks[tx[c].task] # 0 THEN acks \union {Ack(c)} ELSE acks
  /\ End(c)
  /\ UNCHANGED <<tasks, keys, events, lastId, minted, epoch>>

BeginWrite(c, type, t, x) ==
  /\ tx[c].pc = "idle" /\ t \in minted
  /\ tx' = [tx EXCEPT ![c] = [Idle EXCEPT !.pc = "write", !.type = type,
                                          !.task = t, !.expect = x]]
  /\ UNCHANGED <<tasks, keys, events, lastId, minted, epoch, acks>>

\* A waiter holds the row it waits for (a lock taken before the statement).
RowLockedMutant(c, t) ==
  \E d \in Clients \ {c} : tx[d].pc \in {"write", "enqueue", "commit"} /\ tx[d].task = t

RowLocked(c, t) ==
  \E d \in Clients \ {c} : Holds(d) /\ tx[d].type # "created" /\ tx[d].task = t

\* The condition on the version is left out.
MatchesMutant(c, version) == version # 0

\* The WHERE clause of UPDATE and DELETE, evaluated on the row as it is once
\* the lock is ours.
Matches(c, version) == version # 0 /\ (tx[c].expect = AnyVersion \/ tx[c].expect = version)

Write(c) ==
  LET version == tasks[tx[c].task] IN
  /\ tx[c].pc = "write" /\ ~ RowLocked(c, tx[c].task)
  /\ IF Matches(c, version)
     THEN tx' = [tx EXCEPT ![c].pc = "enqueue",
                   ![c].version = IF tx[c].type = "updated" THEN version + 1 ELSE version]
     ELSE End(c)    \* missOrMismatch explains, the transaction rolls back
  /\ UNCHANGED <<tasks, keys, events, lastId, minted, epoch, acks>>

\* The row is inserted on the pool, not in the transaction.
EnqueueMutant(c) ==
  /\ tx[c].pc = "enqueue" /\ lastId < MaxId
  /\ lastId' = lastId + 1
  /\ events' = events \union {[id |-> lastId + 1, task |-> tx[c].task, type |-> tx[c].type,
                               version |-> tx[c].version, expect |-> tx[c].expect]}
  /\ tx' = [tx EXCEPT ![c].pc = "commit", ![c].id = lastId + 1]
  /\ UNCHANGED <<tasks, keys, minted, epoch, acks>>

\* INSERT INTO outbox: the id is taken now, not at commit, and never given
\* back.  The statement fails when the sequence is used up.
Enqueue(c) ==
  /\ tx[c].pc = "enqueue"
  /\ IF lastId < MaxId
     THEN /\ lastId' = lastId + 1
          /\ tx' = [tx EXCEPT ![c].pc = "commit", ![c].id = lastId + 1]
     ELSE End(c) /\ UNCHANGED lastId
  /\ UNCHANGED <<tasks, keys, events, minted, epoch, acks>>

\* The keys a transaction releases: ON DELETE CASCADE.
Cascaded(c) == {k \in Keys : tx[c].type = "deleted" /\ keys[k].task = tx[c].task}

EventOf(c) == [id |-> tx[c].id, task |-> tx[c].task, type |-> tx[c].type,
               version |-> tx[c].version, expect |-> tx[c].expect]

Apply(c) ==
  /\ tasks' = [tasks EXCEPT ![tx[c].task] =
                 IF tx[c].type = "deleted" THEN 0 ELSE tx[c].version]
  /\ keys' = [k \in Keys |->
                IF k \in Cascaded(c) THEN NoRow
                ELSE IF tx[c].key = k THEN [hash |-> tx[c].hash, task |-> tx[c].task]
                ELSE keys[k]]
  /\ epoch' = [k \in Keys |-> epoch[k] + (IF k \in Cascaded(c) THEN 1 ELSE 0)]
  /\ events' = events \union {EventOf(c)}
  /\ End(c)
  /\ UNCHANGED <<lastId, minted>>

Commit(c) ==
  /\ tx[c].pc = "commit"
  /\ Apply(c)
  /\ acks' = IF tx[c].key # None THEN acks \union {Ack(c)} ELSE acks

\* The COMMIT took effect, the caller gets an error.
CommitUnknown(c) ==
  /\ tx[c].pc = "commit"
  /\ Apply(c) /\ UNCHANGED acks

\* A statement fails, the request is cancelled or the process dies.
Abort(c) ==
  /\ tx[c].pc # "idle"
  /\ End(c)
  /\ UNCHANGED <<tasks, keys, events, lastId, minted, epoch, acks>>

\* PurgeIdempotencyKeys on a key that has outlived its TTL.
Purge(k) ==
  /\ keys[k] # NoRow
  /\ \A c \in Clients : ~ (Holds(c) /\ tx[c].type = "deleted" /\ keys[k].task = tx[c].task)
  /\ keys' = [keys EXCEPT ![k] = NoRow]
  /\ epoch' = [epoch EXCEPT ![k] = @ + 1]
  /\ UNCHANGED <<tasks, events, lastId, minted, tx, acks>>

----------------------------------------------------------------------------
Begin(c) ==
  \/ BeginCreate(c, None, None)
  \/ \E k \in Keys, h \in Hashes : BeginCreate(c, k, h)
  \/ \E type \in {"updated", "deleted"}, t \in Tasks, x \in 0..MaxId :
       BeginWrite(c, type, t, x)

Step(c) == InsertKey(c) \/ Replay(c) \/ Write(c) \/ Enqueue(c)

Next ==
  \/ \E c \in Clients : Begin(c) \/ Step(c) \/ Commit(c) \/ CommitUnknown(c) \/ Abort(c)
  \/ \E k \in Keys : Purge(k)

Spec == Init /\ [][Next]_storeVars

\* Statements return, and PostgreSQL queues the waiters of a lock: one that is
\* free again and again is granted.
Fairness ==
  \A c \in Clients : /\ WF_storeVars(Replay(c) \/ Enqueue(c) \/ Commit(c))
                      /\ SF_storeVars(Write(c)) /\ SF_storeVars(InsertKey(c))
FairSpec == Spec /\ Fairness

----------------------------------------------------------------------------
EventsOf(t) == {e \in events : e.task = t}

\* The events of a task tell its history: one for its creation, one for each
\* version since, and a last one when the row is gone.  So the table and the
\* stream of committed events cannot disagree, whatever transaction fails.  And
\* their outbox ids follow it too, although an id is handed out before the
\* commit, so that the relay may publish in id order.
EventsTellHistory ==
  \A t \in Tasks :
    LET seen == {<<e.type, e.version>> : e \in EventsOf(t)}
        history(n) == {<<"created", 1>>} \union {<<"updated", v>> : v \in 2..n}
    IN /\ IF tasks[t] # 0 THEN seen = history(tasks[t])
          ELSE seen = {} \/ \E n \in 1..MaxId : seen = history(n) \union {<<"deleted", n>>}
       /\ \A e, f \in EventsOf(t) : e.id < f.id => e.version < f.version \/ f.type = "deleted"

\* No lost update: two committed changes of a task never produce the same
\* version, and one made under If-Match starts from the version it names.
NoLostUpdate ==
  \A e \in events :
    /\ \A f \in EventsOf(e.task) : f.type = e.type /\ f.version = e.version => f = e
    /\ e.expect # AnyVersion => e.version = e.expect + (IF e.type = "updated" THEN 1 ELSE 0)

\* Until a key is released, every create answered under it names one task and
\* one request body: retries, also concurrent ones and ones after an unknown
\* commit, never create a second task.  A key that is still there points to a
\* live task (the foreign key and its cascade).
OneTaskPerKey ==
  /\ \A a, b \in acks : a.key = b.key /\ a.epoch = b.epoch => a = b
  /\ \A k \in Keys : keys[k] # NoRow => tasks[keys[k].task] # 0

\* No call waits for ever: row locks and key locks never form a cycle.
CallsEnd == \A c \in Clients : tx[c].pc # "idle" ~> tx[c].pc = "idle"
=============================================================================
