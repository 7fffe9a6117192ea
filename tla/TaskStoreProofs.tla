-------------------------- MODULE TaskStoreProofs --------------------------
(***************************************************************************)
(* The store for any number of concurrent calls, tasks, keys and bodies:   *)
(* the committed events tell the history of the tasks, no update is lost,  *)
(* and a key names one task.  The argument is about the calls that hold    *)
(* locks: no two hold the same task or the same key, and what a call read  *)
(* from the rows it has locked is still true when it commits.              *)
(***************************************************************************)
EXTENDS TaskStore, TLAPS

Types == {"created", "updated", "deleted"}

Calls == [pc : {"idle", "key", "replay", "write", "enqueue", "commit"}, type : Types,
          task : Tasks \union {None}, key : Keys \union {None}, hash : Hashes \union {None},
          expect : Nat, version : Nat, id : Nat, epoch : Nat]

TypeInv ==
  /\ tasks \in [Tasks -> Nat]
  /\ keys \in [Keys -> [hash : Hashes, task : Tasks] \union {NoRow}]
  /\ events \in SUBSET [id : Nat, task : Tasks, type : Types, version : Nat, expect : Nat]
  /\ lastId \in 0..MaxId /\ minted \in SUBSET Tasks
  /\ tx \in [Clients -> Calls]
  /\ epoch \in [Keys -> Nat]
  /\ acks \in SUBSET [key : Keys, epoch : Nat, hash : Hashes, task : Tasks]
  /\ \A c \in Clients :
       /\ tx[c].pc # "idle" => tx[c].task \in Tasks
       /\ tx[c].pc \in {"key", "replay"} => tx[c].key \in Keys
       /\ tx[c].key \in Keys => tx[c].hash \in Hashes /\ tx[c].type = "created"

\* A create that has inserted its task and not committed yet.
Creating(c) == tx[c].type = "created" /\ tx[c].pc \in {"key", "enqueue", "commit"}

\* An update or delete that has the lock of its row.
Writing(c) == tx[c].type # "created" /\ Holds(c)

\* What a call that has written a task knows stays true until it ends.
HeldInv ==
  /\ \A c \in Clients :
       /\ Creating(c) => /\ tx[c].task \in minted /\ tasks[tx[c].task] = 0
                         /\ tx[c].version = 1 /\ tx[c].expect = AnyVersion
                         /\ \A e \in events : e.task # tx[c].task
       /\ tx[c].pc = "write" => tx[c].type # "created"
       /\ Writing(c) => /\ tasks[tx[c].task] # 0
                        /\ tx[c].version = tasks[tx[c].task] + (IF tx[c].type = "updated" THEN 1 ELSE 0)
                        /\ tx[c].expect # AnyVersion => tx[c].expect = tasks[tx[c].task]
       /\ tx[c].pc = "commit" => /\ tx[c].id >= 1 /\ tx[c].id =< lastId
                                 /\ \A e \in events : /\ e.id # tx[c].id
                                                      /\ e.task = tx[c].task => e.id < tx[c].id
  /\ \A c, d \in Clients : c # d /\ (Creating(c) \/ Writing(c)) /\ (Creating(d) \/ Writing(d))
       => tx[c].task # tx[d].task
  /\ \A c, d \in Clients : c # d /\ tx[c].pc = "commit" /\ tx[d].pc = "commit" => tx[c].id # tx[d].id
  /\ \A t \in Tasks : tasks[t] # 0 => t \in minted
  /\ \A e \in events : e.task \in minted

\* A create that has inserted a key is alone with it, and all answers given
\* under a key, or on the way, agree with its row and with each other.
Claims == acks \union {Ack(c) : c \in {d \in Clients : tx[d].pc = "replay"}}

KeyInv ==
  /\ \A c \in Clients : Creating(c) /\ tx[c].key # None /\ Holds(c)
       => keys[tx[c].key] = NoRow /\ tx[c].epoch = epoch[tx[c].key]
  /\ \A c, d \in Clients : c # d /\ Creating(c) /\ Creating(d) /\ Holds(c) /\ Holds(d)
       /\ tx[c].key # None => tx[c].key # tx[d].key
  /\ \A a \in Claims :
       /\ a.epoch =< epoch[a.key]
       /\ a.epoch = epoch[a.key] => keys[a.key] = [hash |-> a.hash, task |-> a.task]
  /\ \A a, b \in Claims : a.key = b.key /\ a.epoch = b.epoch => a = b
  /\ \A k \in Keys : keys[k] # NoRow => tasks[keys[k].task] # 0

\* EventsTellHistory and NoLostUpdate in terms of single events.
Has(t, type, v) == \E e \in events : e.task = t /\ e.type = type /\ e.version = v
Told(type, v, n) == (type = "created" /\ v = 1) \/ (type = "updated" /\ v \in 2..n)

HistoryInv ==
  /\ \A t \in Tasks :
       IF tasks[t] # 0 THEN \A type \in Types, v \in Nat : Has(t, type, v) <=> Told(type, v, tasks[t])
       ELSE \/ \A e \in events : e.task # t
            \/ \E n \in 1..MaxId : \A type \in Types, v \in Nat :
                 Has(t, type, v) <=> Told(type, v, n) \/ (type = "deleted" /\ v = n)
  /\ \A e \in events : e.version >= 1 /\ e.version =< e.id /\ e.id =< lastId
  /\ \A e, f \in events : e.task = f.task /\ e.id < f.id => e.version < f.version \/ f.type = "deleted"
  /\ NoLostUpdate

IInv == TypeInv /\ HeldInv /\ KeyInv /\ HistoryInv
----------------------------------------------------------------------------
\* An idle call has no key, and no row is NoRow.
LEMMA IdleFacts ==
  /\ Idle \in Calls /\ Idle.pc = "idle" /\ Idle.key = None /\ Idle.type = "created" /\ NoRow.task = None
  /\ \A h \in Hashes, t \in Tasks : [hash |-> h, task |-> t] # NoRow
BY NoneAssumption, Zenon DEF Idle, Calls, Types, NoRow, AnyVersion

\* The effect of an action on the call that takes it, field by field.
Others(c) == tx' \in [Clients -> Calls] /\ \A d \in Clients \ {c} : tx'[d] = tx[d]

Ended(c) == Others(c) /\ tx'[c] = Idle

Created(c) ==
  LET t == tx'[c].task IN
  /\ Others(c) /\ UNCHANGED <<tasks, keys, events, epoch, lastId, acks>>
  /\ t \in Tasks \ minted /\ minted' = minted \union {t}
  /\ tx'[c].type = "created" /\ tx'[c].version = 1 /\ tx'[c].expect = AnyVersion
  /\ \/ tx'[c].pc = "enqueue" /\ tx'[c].key = None
     \/ tx'[c].pc = "key" /\ tx'[c].key \in Keys /\ tx'[c].hash \in Hashes

Wrote(c) ==
  /\ Others(c) /\ UNCHANGED <<tasks, keys, events, epoch, lastId, minted, acks>>
  /\ tx'[c].pc = "write" /\ tx'[c].type # "created" /\ tx'[c].task \in Tasks /\ tx'[c].key = None

\* The fields in fs may have changed.
Kept(c, fs) ==
  /\ Others(c)
  /\ tx'[c].type = tx[c].type /\ tx'[c].key = tx[c].key /\ tx'[c].hash = tx[c].hash
  /\ tx'[c].expect = tx[c].expect
  /\ "task" \in fs \/ tx'[c].task = tx[c].task
  /\ "version" \in fs \/ tx'[c].version = tx[c].version
  /\ "epoch" \in fs \/ tx'[c].epoch = tx[c].epoch

\* A call begins as a create or as a write.
LEMMA BeginEffect ==
  ASSUME TypeInv, NEW c \in Clients, Begin(c)
  PROVE  tx[c].pc = "idle" /\ (Created(c) \/ Wrote(c))
<1>1. ASSUME NEW k \in Keys \union {None}, NEW h \in Hashes \union {None}, BeginCreate(c, k, h),
             k \in Keys => h \in Hashes
      PROVE  Created(c)
  <2>1. PICK t \in Tasks \ minted : 
          /\ minted' = minted \union {t}
          /\ tx' = [tx EXCEPT ![c] = [Idle EXCEPT !.pc = IF k = None THEN "enqueue" ELSE "key",
                                    !.task = t, !.key = k, !.hash = h, !.version = 1]]
    BY <1>1, Zenon DEF BeginCreate
  <2> DEFINE r == [Idle EXCEPT !.pc = IF k = None THEN "enqueue" ELSE "key",
                               !.task = t, !.key = k, !.hash = h, !.version = 1]
  <2>2. r \in Calls
    BY Zenon DEF Calls, Types, AnyVersion, Idle
  <2>3. r.task = t /\ r.type = "created" /\ r.version = 1 /\ r.expect = AnyVersion /\ r.key = k
        /\ r.hash = h /\ r.pc = IF k = None THEN "enqueue" ELSE "key"
    BY Zenon DEF Idle
  <2> HIDE DEF r
  <2>4. Others(c) /\ tx'[c] = r
    BY <2>1, <2>2, Zenon DEF Others, TypeInv, r
  <2>5. k # None => k \in Keys /\ h \in Hashes
    BY <1>1, Zenon
  <2>6. UNCHANGED <<tasks, keys, events, epoch, lastId, acks>>
    BY <1>1, Zenon DEF BeginCreate
  <2>7. QED
    BY <2>1, <2>3, <2>4, <2>5, <2>6, Zenon DEF Created
<1>2. ASSUME NEW type \in {"updated", "deleted"}, NEW t \in Tasks, NEW x \in 0..MaxId,
             BeginWrite(c, type, t, x)
      PROVE  Wrote(c)
  <2> DEFINE r == [Idle EXCEPT !.pc = "write", !.type = type, !.task = t, !.expect = x]
  <2>1. x \in Nat
    BY MaxIdAssumption
  <2>2. r \in Calls
    BY <2>1, Zenon DEF Calls, Types, Idle, AnyVersion
  <2>3. r.pc = "write" /\ r.type # "created" /\ r.task \in Tasks /\ r.key = None
    BY Zenon DEF Idle
  <2> HIDE DEF r
  <2>4. Others(c) /\ tx'[c] = r
    BY <1>2, <2>2, Zenon DEF Others, TypeInv, BeginWrite, r
  <2>5. QED
    BY <1>2, <2>3, <2>4, Zenon DEF Wrote, BeginWrite
<1>3. Created(c) \/ Wrote(c)
  BY <1>1, <1>2, NoneAssumption, Zenon DEF Begin
<1>4. tx[c].pc = "idle"
  BY Zenon DEF Begin, BeginCreate, BeginWrite
<1>5. QED
  BY <1>3, <1>4, Zenon

\* A call that ends is idle again.
LEMMA EndEffect ==
  ASSUME TypeInv, NEW c \in Clients, End(c)
  PROVE  Ended(c)
BY IdleFacts, Zenon DEF Ended, Others, End, TypeInv

\* The key was free and is inserted, or names the task to replay.
LEMMA InsertKeyEffect ==
  ASSUME TypeInv, NEW c \in Clients, InsertKey(c), ~Ended(c)
  PROVE  /\ Kept(c, {"task", "epoch"}) /\ tx'[c].epoch = epoch[tx[c].key]
         /\ \/ /\ keys[tx[c].key] = NoRow
               /\ tx'[c].pc = "enqueue" /\ tx'[c].task = tx[c].task
            \/ /\ keys[tx[c].key] # NoRow /\ keys[tx[c].key].hash = tx[c].hash
               /\ tx'[c].pc = "replay" /\ tx'[c].task = keys[tx[c].key].task
<1> DEFINE row == keys[tx[c].key]
<1>1. tx[c] \in Calls /\ tx[c].key \in Keys /\ epoch[tx[c].key] \in Nat
  BY Zenon DEF TypeInv, InsertKey
<1>2. CASE row = NoRow
  <2>1. tx' = [tx EXCEPT ![c].pc = "enqueue", ![c].epoch = epoch[tx[c].key]]
    BY <1>2, EndEffect, Zenon DEF InsertKey
  <2>2. tx'[c] \in Calls
    BY <1>1, <2>1, Zenon DEF Calls, TypeInv
  <2>3. QED
    BY <1>1, <1>2, <2>1, <2>2 DEF Kept, Others, TypeInv, Calls
<1>3. CASE row # NoRow
  <2>1. tx' = [tx EXCEPT ![c].pc = "replay", ![c].task = row.task, ![c].epoch = epoch[tx[c].key]]
        /\ row.hash = tx[c].hash /\ row.task \in Tasks
    BY <1>1, <1>3, EndEffect, Zenon DEF InsertKey, TypeInv
  <2>2. tx'[c] \in Calls
    BY <1>1, <2>1, Zenon DEF Calls, TypeInv
  <2>3. QED
    BY <1>1, <1>3, <2>1, <2>2 DEF Kept, Others, TypeInv, Calls
<1>4. QED
  BY <1>2, <1>3, Zenon

\* The row matched, and the call carries its next version.
LEMMA WriteEffect ==
  ASSUME TypeInv, NEW c \in Clients, Write(c), ~Ended(c)
  PROVE  /\ Kept(c, {"version"}) /\ tx'[c].pc = "enqueue" /\ Matches(c, tasks[tx[c].task])
         /\ tx'[c].version = tasks[tx[c].task] + (IF tx[c].type = "updated" THEN 1 ELSE 0)
<1> DEFINE v == tasks[tx[c].task] + (IF tx[c].type = "updated" THEN 1 ELSE 0)
<1>1. tx[c] \in Calls /\ v \in Nat
  BY DEF TypeInv, Write
<1>2. tx' = [tx EXCEPT ![c].pc = "enqueue", ![c].version = v] /\ Matches(c, tasks[tx[c].task])
  BY EndEffect DEF Write, TypeInv
<1>3. tx'[c] \in Calls
  BY <1>1, <1>2, Zenon DEF Calls, TypeInv
<1>4. QED
  BY <1>1, <1>2, <1>3 DEF Kept, Others, TypeInv, Calls

\* The call has the next id of the sequence.
LEMMA EnqueueEffect ==
  ASSUME TypeInv, NEW c \in Clients, Enqueue(c), ~Ended(c)
  PROVE  /\ Kept(c, {}) /\ tx'[c].pc = "commit"
         /\ lastId' = lastId + 1 /\ lastId' \in 0..MaxId /\ tx'[c].id = lastId + 1
<1>1. tx[c] \in Calls /\ lastId \in Nat
  BY DEF TypeInv
<1>2. /\ tx' = [tx EXCEPT ![c].pc = "commit", ![c].id = lastId + 1]
      /\ lastId' = lastId + 1 /\ lastId < MaxId
  BY EndEffect, Zenon DEF Enqueue
<1>3. tx'[c] \in Calls
  <2> DEFINE n == lastId + 1
  <2>1. n \in Nat
    BY <1>1
  <2>2. tx'[c] = [tx[c] EXCEPT !.pc = "commit", !.id = n]
    BY <1>2, Zenon DEF TypeInv
  <2> HIDE DEF n
  <2>3. QED
    BY <1>1, <2>1, <2>2, Zenon DEF Calls
<1>4. QED
  BY <1>1, <1>2, <1>3, MaxIdAssumption DEF Kept, Others, TypeInv, Calls

\* A call that ends takes no id.
LEMMA EnqueuePc ==
  ASSUME TypeInv, NEW c \in Clients, Enqueue(c), lastId' # lastId
  PROVE  ~Ended(c)
BY IdleFacts DEF Enqueue, Ended, TypeInv, Calls

\* Every step preserves the types.
LEMMA TypeStep ==
  ASSUME TypeInv, Next
  PROVE  TypeInv'
<1> USE NoneAssumption, MaxIdAssumption, IdleFacts
<1>1. ASSUME NEW c \in Clients, End(c), UNCHANGED <<tasks, keys, events, lastId, minted, epoch>>,
             acks' \in SUBSET [key : Keys, epoch : Nat, hash : Hashes, task : Tasks]
      PROVE  TypeInv'
  BY <1>1, Zenon DEF TypeInv, End
<1>2. ASSUME NEW c \in Clients, Begin(c) PROVE TypeInv'
  BY <1>2, BeginEffect DEF Created, Wrote, Others, TypeInv
<1>3. ASSUME NEW c \in Clients, InsertKey(c) PROVE TypeInv'
  <2>1. CASE Ended(c)
    BY <1>3, <2>1 DEF InsertKey, TypeInv, Ended, Others
  <2>2. CASE ~Ended(c)
    <3>1. tx[c].key \in Keys /\ tx[c].task \in Tasks
      BY <1>3, Zenon DEF InsertKey, TypeInv
    <3>2. keys[tx[c].key] # NoRow => keys[tx[c].key].task \in Tasks
      BY <3>1, Zenon DEF TypeInv
    <3>3. Others(c) /\ tx'[c].task \in Tasks /\ tx'[c].key = tx[c].key /\ tx'[c].hash = tx[c].hash
          /\ tx'[c].type = tx[c].type
      BY <1>3, <2>2, <3>1, <3>2, InsertKeyEffect, Zenon DEF Kept
    <3>4. QED
      BY <1>3, <3>1, <3>3 DEF InsertKey, TypeInv, Others
  <2>3. QED
    BY <2>1, <2>2, Zenon
<1>4. ASSUME NEW c \in Clients, Replay(c) PROVE TypeInv'
  <2>1. Ack(c) \in [key : Keys, epoch : Nat, hash : Hashes, task : Tasks]
    BY <1>4, Zenon DEF Replay, Ack, TypeInv, Calls
  <2>2. QED
    BY <1>4, <1>1, <2>1, Zenon DEF Replay, TypeInv
<1>5. ASSUME NEW c \in Clients, Write(c) PROVE TypeInv'
  <2>1. CASE Ended(c)
    BY <1>5, <2>1 DEF Write, TypeInv, Ended, Others
  <2>2. CASE ~Ended(c)
    BY <1>5, <2>2, WriteEffect DEF Write, TypeInv, Kept, Others
  <2>3. QED
    BY <2>1, <2>2
<1>6. ASSUME NEW c \in Clients, Enqueue(c) PROVE TypeInv'
  <2>1. CASE lastId < MaxId
    <3>1. ~Ended(c)
      BY <1>6, <2>1 DEF Enqueue, Ended, TypeInv, Calls
    <3>2. QED
      BY <1>6, <3>1, EnqueueEffect DEF Enqueue, TypeInv, Kept, Others
  <2>2. CASE ~(lastId < MaxId)
    BY <1>6, <1>1, <2>2, Zenon DEF Enqueue, TypeInv
  <2>3. QED
    BY <2>1, <2>2, Zenon
<1>7. ASSUME NEW c \in Clients, tx[c].pc = "commit", Apply(c),
             acks' = acks \/ (tx[c].key # None /\ acks' = acks \union {Ack(c)})
      PROVE  TypeInv'
  <2>1. tasks' \in [Tasks -> Nat] /\ epoch' \in [Keys -> Nat]
    BY <1>7 DEF Apply, TypeInv, Calls
  <2>2. keys' \in [Keys -> [hash : Hashes, task : Tasks] \union {NoRow}]
    BY <1>7 DEF Apply, TypeInv, Calls
  <2>3. EventOf(c) \in [id : Nat, task : Tasks, type : Types, version : Nat, expect : Nat]
    BY <1>7, Zenon DEF EventOf, TypeInv, Calls
  <2>4. tx[c].key # None => Ack(c) \in [key : Keys, epoch : Nat, hash : Hashes, task : Tasks]
    BY <1>7, Zenon DEF Ack, TypeInv, Calls
  <2>5. QED
    BY <1>7, <2>1, <2>2, <2>3, <2>4 DEF Apply, TypeInv, End
<1>8. ASSUME NEW c \in Clients, Abort(c) PROVE TypeInv'
  BY <1>8, <1>1, Zenon DEF Abort, TypeInv
<1>9. ASSUME NEW k \in Keys, Purge(k) PROVE TypeInv'
  BY <1>9 DEF Purge, TypeInv
<1>10. QED
  BY <1>2, <1>3, <1>4, <1>5, <1>6, <1>7, <1>8, <1>9, Zenon DEF Next, Step, Commit, CommitUnknown

----------------------------------------------------------------------------
\* Every step preserves what the holders of locks know.  Begin takes a fresh
\* task, Write waits for the row lock, and a commit touches its own task only.
LEMMA HeldStep ==
  ASSUME IInv, Next
  PROVE  HeldInv'
<1> USE IdleFacts DEF IInv
<1>1. ASSUME NEW c \in Clients, Ended(c), UNCHANGED <<tasks, events, lastId, minted>>
      PROVE  HeldInv'
  BY <1>1 DEF HeldInv, Ended, Others, Creating, Writing, Holds
<1>2. ASSUME NEW c \in Clients, Begin(c) PROVE HeldInv'
  <2>1. CASE Created(c)
    <3> DEFINE t == tx'[c].task
    <3>1. /\ t \in Tasks \ minted /\ minted' = minted \union {t} /\ UNCHANGED <<tasks, events, lastId>>
          /\ tx'[c].type = "created" /\ tx'[c].version = 1 /\ tx'[c].expect = AnyVersion
          /\ tx'[c].pc \in {"key", "enqueue"} /\ \A d \in Clients \ {c} : tx'[d] = tx[d]
      BY <2>1, Zenon DEF Created, Others
    <3>2. tasks[t] = 0 /\ \A e \in events : e.task # t
      BY <3>1, Zenon DEF HeldInv, TypeInv
    <3>3. \A d \in Clients \ {c} : Creating(d) \/ Writing(d) => tx[d].task # t
      BY <3>1, Zenon DEF HeldInv, TypeInv, Writing, Holds
    <3> HIDE DEF t
    <3>4. QED
      BY <3>1, <3>2, <3>3 DEF HeldInv, Creating, Writing, Holds, t
  <2>2. CASE Wrote(c)
    BY <2>2 DEF HeldInv, Wrote, Others, Creating, Writing, Holds
  <2>3. QED
    BY <1>2, <2>1, <2>2, BeginEffect, Zenon
<1>3. ASSUME NEW c \in Clients, InsertKey(c), ~Ended(c) PROVE HeldInv'
  <2>1. /\ tx[c].pc = "key" /\ UNCHANGED <<tasks, events, lastId, minted>> /\ tx[c].type = "created"
        /\ tx'[c].type = tx[c].type /\ tx'[c].expect = tx[c].expect /\ tx'[c].version = tx[c].version
        /\ tx'[c].pc = "replay" \/ (tx'[c].pc = "enqueue" /\ tx'[c].task = tx[c].task)
        /\ \A d \in Clients \ {c} : tx'[d] = tx[d]
    BY <1>3, InsertKeyEffect, Zenon DEF InsertKey, Kept, Others, TypeInv
  <2>2. QED
    BY <2>1, SMTT(30) DEF HeldInv, Creating, Writing, Holds
<1>4. ASSUME NEW c \in Clients, Write(c), ~Ended(c) PROVE HeldInv'
  <2>1. /\ tx[c].pc = "write" /\ UNCHANGED <<tasks, events, lastId, minted>> /\ tx'[c].type = tx[c].type
        /\ tx'[c].expect = tx[c].expect /\ tx'[c].task = tx[c].task /\ tx'[c].pc = "enqueue"
        /\ tx'[c].version = tasks[tx[c].task] + (IF tx[c].type = "updated" THEN 1 ELSE 0)
        /\ \A d \in Clients \ {c} : tx'[d] = tx[d]
    BY <1>4, WriteEffect, Zenon DEF Write, Kept, Others
  <2>2. /\ tasks[tx[c].task] # 0
        /\ tx[c].expect # AnyVersion => tx[c].expect = tasks[tx[c].task]
        /\ tx[c].type # "created"
    BY <1>4, <2>1, WriteEffect, Zenon DEF Matches, HeldInv
  <2>3. \A d \in Clients \ {c} : Creating(d) \/ Writing(d) => tx[d].task # tx[c].task
    BY <1>4, <2>2 DEF Write, RowLocked, HeldInv, Writing
  <2>4. QED
    BY <2>1, <2>2, <2>3 DEF HeldInv, Creating, Writing, Holds
<1>5. ASSUME NEW c \in Clients, Enqueue(c), ~Ended(c) PROVE HeldInv'
  <2>1. /\ tx[c].pc = "enqueue" /\ UNCHANGED <<tasks, events, minted>> /\ tx'[c].type = tx[c].type
        /\ tx'[c].expect = tx[c].expect /\ tx'[c].task = tx[c].task /\ tx'[c].pc = "commit"
        /\ tx'[c].version = tx[c].version /\ tx'[c].id = lastId + 1 /\ lastId' = lastId + 1
        /\ \A d \in Clients \ {c} : tx'[d] = tx[d]
    BY <1>5, EnqueueEffect, Zenon DEF Enqueue, Kept, Others
  <2>2. lastId \in Nat /\ \A e \in events : e.id \in Nat /\ e.id < lastId + 1
    BY DEF HistoryInv, TypeInv
  <2>3. \A d \in Clients : tx[d].id \in Nat
    BY Zenon DEF TypeInv, Calls
  <2>4. QED
    BY <2>1, <2>2, <2>3 DEF HeldInv, Creating, Writing, Holds
<1>6. ASSUME NEW c \in Clients, tx[c].pc = "commit", Apply(c) PROVE HeldInv'
  <2> DEFINE t == tx[c].task
  <2>1. /\ Ended(c) /\ UNCHANGED <<lastId, minted>> /\ t \in Tasks /\ events' = events \union {EventOf(c)}
        /\ EventOf(c).task = t /\ \A u \in Tasks \ {t} : tasks'[u] = tasks[u]
    BY <1>6, EndEffect, Zenon DEF Apply, TypeInv, EventOf
  <2>2. t \in minted /\ (Creating(c) \/ Writing(c))
    BY <1>6, <2>1, Zenon DEF HeldInv, TypeInv, Creating, Writing, Holds
  <2>3. ASSUME NEW d \in Clients, d # c, Creating(d) \/ Writing(d) \/ tx[d].pc = "commit"
        PROVE  tx[d].task # t /\ tx[d].task \in Tasks
    BY <2>2, <2>3 DEF HeldInv, TypeInv, Creating, Writing, Holds
  <2> HIDE DEF t
  <2>4. tx'[c] = Idle /\ \A d \in Clients \ {c} : tx'[d] = tx[d]
    BY <2>1, Zenon DEF Ended, Others
  <2>5. \A d \in Clients \ {c} : Creating(d) \/ Writing(d) \/ tx[d].pc = "commit"
          => tasks'[tx[d].task] = tasks[tx[d].task] /\ \A e \in events' : e.task = tx[d].task => e \in events
    BY <2>1, <2>3, Zenon
  <2>6. \A d \in Clients \ {c} : tx[d].pc = "commit" => \A e \in events' : e.id # tx[d].id
    BY <1>6, <2>1 DEF HeldInv, EventOf
  <2>7. (\A u \in Tasks : tasks'[u] # 0 => u \in minted) /\ \A e \in events' : e.task \in minted
    BY <2>1, <2>2, Zenon DEF HeldInv
  <2>8. QED
    BY <2>1, <2>4, <2>5, <2>6, <2>7 DEF HeldInv, Creating, Writing, Holds
<1>7. ASSUME NEW k \in Keys, Purge(k) PROVE HeldInv'
  BY <1>7 DEF Purge, HeldInv, Creating, Writing, Holds
<1>8. ASSUME NEW c \in Clients, Step(c) \/ Abort(c) PROVE HeldInv'
  <2>1. CASE Ended(c) /\ UNCHANGED lastId
    BY <1>8, <2>1, <1>1, Zenon DEF Step, InsertKey, Replay, Write, Enqueue, Abort
  <2>2. CASE ~Ended(c)
    BY <1>8, <2>2, <1>3, <1>4, <1>5, EndEffect, Zenon DEF Step, Replay, Abort
  <2>3. CASE lastId' # lastId
    BY <1>8, <2>2, <2>3, <1>5, EnqueuePc, Zenon DEF Step, InsertKey, Replay, Write, Abort
  <2>4. QED
    BY <2>1, <2>2, <2>3, Zenon
<1>9. QED
  BY <1>2, <1>6, <1>7, <1>8, Zenon DEF Next, Commit, CommitUnknown

----------------------------------------------------------------------------
\* Every step preserves the claims on keys.  A new claim is either a replay of
\* the row that is there, or the commit of a key that had no row, so that no
\* claim of its epoch can be older.
LEMMA KeyStep ==
  ASSUME IInv, Next
  PROVE  KeyInv'
<1> USE IdleFacts, NoneAssumption DEF IInv
<1>0. \A a \in Claims : a \in [key : Keys, epoch : Nat, hash : Hashes, task : Tasks]
  BY DEF Claims, Ack, TypeInv, Calls
<1>1. ASSUME NEW c \in Clients, Ended(c), UNCHANGED <<tasks, keys, epoch>>,
             acks' = acks \/ (tx[c].pc = "replay" /\ acks' = acks \union {Ack(c)})
      PROVE  KeyInv'
  <2>1. tx'[c] = Idle /\ \A d \in Clients \ {c} : tx'[d] = tx[d]
    BY <1>1, Zenon DEF Ended, Others
  <2>2. Claims' \subseteq Claims
    BY <1>1, <2>1 DEF Claims, Ack
  <2>3. QED
    BY <1>1, <2>1, <2>2 DEF KeyInv, Creating, Holds
<1>2. ASSUME NEW c \in Clients, Begin(c) PROVE KeyInv'
  <2>1. /\ UNCHANGED <<tasks, keys, epoch, acks>> /\ \A d \in Clients \ {c} : tx'[d] = tx[d]
        /\ tx'[c].pc \in {"key", "write", "enqueue"}
        /\ tx'[c].pc = "enqueue" => tx'[c].key = None
        /\ tx[c].pc = "idle"
    BY <1>2, BeginEffect, Zenon DEF Created, Wrote, Others
  <2>2. Claims' \subseteq Claims
    BY <2>1 DEF Claims, Ack
  <2>3. QED
    BY <2>1, <2>2 DEF KeyInv, Creating, Holds
<1>3. ASSUME NEW c \in Clients, InsertKey(c), ~Ended(c) PROVE KeyInv'
  <2> DEFINE k == tx[c].key
  <2>1. /\ UNCHANGED <<tasks, keys, epoch, acks>> /\ \A d \in Clients \ {c} : tx'[d] = tx[d]
        /\ tx[c].pc = "key" /\ k \in Keys /\ tx'[c].key = k /\ tx'[c].hash = tx[c].hash
        /\ tx'[c].epoch = epoch[k] /\ tx'[c].type = "created"
    BY <1>3, InsertKeyEffect, Zenon DEF InsertKey, Kept, Others, TypeInv
  <2>2. CASE keys[k] = NoRow
    <3>1. tx'[c].pc = "enqueue"
      BY <1>3, <2>2, InsertKeyEffect, Zenon
    <3>2. Claims' \subseteq Claims
      BY <2>1, <3>1 DEF Claims, Ack
    <3>3. \A d \in Clients \ {c} : Creating(d) /\ Holds(d) => tx[d].key # k
      BY <1>3, Zenon DEF InsertKey, KeyLocked, Creating
    <3>4. QED
      BY <2>1, <2>2, <3>1, <3>2, <3>3 DEF KeyInv, Creating, Holds
  <2>3. CASE keys[k] # NoRow
    <3>1. tx'[c].pc = "replay" /\ tx'[c].task = keys[k].task /\ keys[k].hash = tx[c].hash
      BY <1>3, <2>3, InsertKeyEffect, Zenon
    <3>2. Ack(c)' = [key |-> k, epoch |-> epoch[k], hash |-> keys[k].hash, task |-> keys[k].task]
      BY <2>1, <3>1, Zenon DEF Ack
    <3>3. Claims' \subseteq Claims \union {Ack(c)'}
      BY <2>1 DEF Claims, Ack
    <3>4. keys[k] \in [hash : Hashes, task : Tasks]
      BY <2>1, <2>3 DEF TypeInv
    <3>5. keys[k] = [hash |-> keys[k].hash, task |-> keys[k].task]
      BY <3>4, Zenon
    <3>6. ASSUME NEW a \in Claims, a.key = k, a.epoch = epoch[k] PROVE a = Ack(c)'
      <4>1. keys[k] = [hash |-> a.hash, task |-> a.task]
        BY <3>6, Zenon DEF KeyInv
      <4>2. a = [key |-> a.key, epoch |-> a.epoch, hash |-> a.hash, task |-> a.task]
        BY <1>0, Zenon
      <4>3. QED
        BY <3>2, <3>6, <4>1, <4>2
    <3> HIDE DEF k
    <3>7. epoch[k] \in Nat
      BY <2>1, Zenon DEF TypeInv
    <3>8. Ack(c)'.key = k /\ Ack(c)'.epoch = epoch[k] /\ Ack(c)'.hash = keys[k].hash /\ Ack(c)'.task = keys[k].task
      BY <3>2
    <3>9. \A a \in Claims' : /\ a.epoch =< epoch[a.key]
                             /\ a.epoch = epoch[a.key] => keys[a.key] = [hash |-> a.hash, task |-> a.task]
      <4>1. Ack(c)'.epoch =< epoch[Ack(c)'.key]
            /\ keys[Ack(c)'.key] = [hash |-> Ack(c)'.hash, task |-> Ack(c)'.task]
        BY <3>5, <3>7, <3>8
      <4>2. QED
        BY <3>3, <4>1, Zenon DEF KeyInv
    <3>10. \A a, b \in Claims' : a.key = b.key /\ a.epoch = b.epoch => a = b
      <4>1. \A a, b \in Claims : a.key = b.key /\ a.epoch = b.epoch => a = b
        BY Zenon DEF KeyInv
      <4>2. QED
        BY <3>3, <3>6, <3>8, <4>1
    <3>11. QED
      BY <2>1, <3>1, <3>9, <3>10 DEF KeyInv, Creating, Holds
  <2>4. QED
    BY <2>2, <2>3, Zenon
<1>4. ASSUME NEW c \in Clients, (Write(c) \/ Enqueue(c)), ~Ended(c) PROVE KeyInv'
  <2>1. /\ UNCHANGED <<tasks, keys, epoch, acks>> /\ \A d \in Clients \ {c} : tx'[d] = tx[d]
        /\ tx'[c].type = tx[c].type /\ tx'[c].key = tx[c].key /\ tx'[c].epoch = tx[c].epoch
        /\ tx[c].pc \in {"write", "enqueue"} /\ tx'[c].pc \in {"enqueue", "commit"}
        /\ tx[c].pc = "enqueue" \/ tx[c].type # "created"
    BY <1>4, WriteEffect, EnqueueEffect, Zenon DEF Write, Enqueue, Kept, Others, HeldInv
  <2>2. Claims' \subseteq Claims
    BY <2>1 DEF Claims, Ack
  <2>3. QED
    BY <2>1, <2>2 DEF KeyInv, Creating, Holds
<1>5. ASSUME NEW c \in Clients, tx[c].pc = "commit", Apply(c),
             acks' = acks \/ (tx[c].key # None /\ acks' = acks \union {Ack(c)})
      PROVE  KeyInv'
  <2> DEFINE k == tx[c].key
             t == tx[c].task
             row == [hash |-> tx[c].hash, task |-> t]
  <2>1. /\ tx'[c] = Idle /\ \A d \in Clients \ {c} : tx'[d] = tx[d]
        /\ t \in Tasks /\ k \in Keys \union {None}
        /\ k # None => tx[c].type = "created" /\ tx[c].hash \in Hashes
    BY <1>5, EndEffect DEF Apply, Ended, Others, TypeInv, Calls
  <2>2. Claims' \subseteq Claims \union (IF k # None THEN {Ack(c)} ELSE {})
    BY <1>5, <2>1 DEF Claims, Ack
  <2>3. \A j \in Keys : epoch[j] \in Nat /\ (keys[j] = NoRow \/ keys[j].task \in Tasks)
    BY Zenon DEF TypeInv
  <2>4. ASSUME NEW j \in Keys, j \in Cascaded(c)
        PROVE  keys'[j] = NoRow /\ epoch'[j] = epoch[j] + 1 /\ keys[j] # NoRow /\ j # k
    BY <1>5, <2>1, <2>4, Zenon DEF Apply, Cascaded
  <2>5. ASSUME NEW j \in Keys, j \notin Cascaded(c), j # k
        PROVE  keys'[j] = keys[j] /\ epoch'[j] = epoch[j]
    BY <1>5, <2>3, <2>5 DEF Apply
  <2>6. ASSUME k # None
        PROVE  /\ keys[k] = NoRow /\ tx[c].epoch = epoch[k] /\ keys'[k] = row /\ epoch'[k] = epoch[k]
               /\ k \notin Cascaded(c) /\ k \in Keys /\ row # NoRow
    BY <1>5, <2>1, <2>3, <2>6 DEF Apply, KeyInv, Creating, Holds, Cascaded
  <2>7. \A a \in Claims : a.key = k => a.epoch < epoch[k]
    <3> SUFFICES ASSUME NEW a \in Claims, a.key = k PROVE a.epoch < epoch[k]
      OBVIOUS
    <3>1. k # None /\ a.epoch \in Nat /\ epoch[k] \in Nat /\ [hash |-> a.hash, task |-> a.task] # NoRow
      BY <1>0, <2>3, Zenon
    <3>2. a.epoch =< epoch[k] /\ a.epoch # epoch[k]
      BY <2>6, <3>1, Zenon DEF KeyInv
    <3>3. QED
      BY <3>1, <3>2
  <2>8. Ack(c) = [key |-> k, epoch |-> tx[c].epoch, hash |-> tx[c].hash, task |-> t]
    BY Zenon DEF Ack
  <2>9. \A a \in Claims' : a.epoch =< epoch'[a.key]
                           /\ (a.epoch = epoch'[a.key] => keys'[a.key] = [hash |-> a.hash, task |-> a.task])
    <3>1. ASSUME NEW a \in Claims
          PROVE  a.epoch =< epoch'[a.key]
                 /\ (a.epoch = epoch'[a.key] => keys'[a.key] = [hash |-> a.hash, task |-> a.task])
      <4>1. a.key \in Keys /\ a.epoch \in Nat /\ epoch[a.key] \in Nat /\ a.epoch =< epoch[a.key]
        BY <1>0, <2>3, Zenon DEF KeyInv
      <4>2. CASE a.key \in Cascaded(c)
        BY <2>4, <4>1, <4>2
      <4>3. CASE a.key = k
        BY <2>6, <2>7, <4>1, <4>3
      <4>4. CASE a.key \notin Cascaded(c) /\ a.key # k
        BY <2>5, <4>1, <4>4 DEF KeyInv
      <4>5. QED
        BY <4>2, <4>3, <4>4, Zenon
    <3>2. ASSUME k # None
          PROVE  Ack(c).epoch =< epoch'[Ack(c).key] /\ keys'[Ack(c).key] = [hash |-> Ack(c).hash, task |-> Ack(c).task]
      BY <2>3, <2>6, <2>8, <3>2
    <3>3. QED
      BY <2>2, <3>1, <3>2, Zenon
  <2>10. \A a, b \in Claims' : a.key = b.key /\ a.epoch = b.epoch => a = b
    <3>1. ASSUME NEW a \in Claims, k # None, a.key = k PROVE a.epoch # Ack(c).epoch
      BY <1>0, <2>3, <2>6, <2>7, <2>8, <3>1
    <3>2. Ack(c).key = k
      BY <2>8
    <3>3. QED
      BY <2>2, <3>1, <3>2 DEF KeyInv
  <2>11. \A j \in Keys : keys'[j] # NoRow => tasks'[keys'[j].task] # 0
    <3>1. ASSUME NEW j \in Keys, j # k, j \notin Cascaded(c), keys[j] # NoRow PROVE tasks'[keys[j].task] # 0
      <4>1. keys[j].task \in Tasks /\ tasks[keys[j].task] # 0
        BY <2>3, <3>1, Zenon DEF KeyInv
      <4>2. CASE keys[j].task # t
        BY <1>5, <4>1, <4>2, Zenon DEF Apply, TypeInv
      <4>3. CASE keys[j].task = t
        <5>1. tx[c].type # "deleted"
          BY <3>1, <4>3, Zenon DEF Cascaded
        <5>2. tx[c].version # 0
          BY <1>5, <2>1, <5>1 DEF HeldInv, Creating, Writing, Holds, TypeInv
        <5>3. QED
          BY <1>5, <2>1, <4>3, <5>1, <5>2, Zenon DEF Apply, TypeInv
      <4>4. QED
        BY <4>2, <4>3, Zenon
    <3>2. ASSUME k # None PROVE tasks'[t] # 0
      BY <1>5, <2>1, <3>2 DEF Apply, TypeInv, HeldInv, Creating
    <3>3. QED
      BY <2>4, <2>5, <2>6, <3>1, <3>2
  <2>12. ASSUME NEW d \in Clients, d # c, Creating(d), tx[d].key # None, Holds(d)
         PROVE  keys'[tx[d].key] = NoRow /\ tx[d].epoch = epoch'[tx[d].key]
    <3>1. keys[tx[d].key] = NoRow /\ tx[d].epoch = epoch[tx[d].key] /\ tx[d].key \in Keys
      BY <2>12 DEF KeyInv, TypeInv, Calls
    <3>2. tx[d].key # k
      BY <1>5, <2>1, <2>12, Zenon DEF KeyInv, Creating, Holds
    <3>3. QED
      BY <2>4, <2>5, <3>1, <3>2, Zenon
  <2> HIDE DEF k, t, row
  <2>13. QED
    BY <2>1, <2>9, <2>10, <2>11, <2>12 DEF KeyInv, Creating, Holds
<1>6. ASSUME NEW k \in Keys, Purge(k) PROVE KeyInv'
  <2>1. /\ keys[k] # NoRow /\ keys'[k] = NoRow /\ epoch'[k] = epoch[k] + 1 /\ UNCHANGED <<tasks, tx, acks>>
        /\ \A j \in Keys \ {k} : keys'[j] = keys[j] /\ epoch'[j] = epoch[j]
    BY <1>6, Zenon DEF Purge, TypeInv
  <2>2. Claims' = Claims
    BY <2>1, Zenon DEF Claims, Ack
  <2>3. \A j \in Keys : epoch[j] \in Nat
    BY Zenon DEF TypeInv
  <2>4. \A c \in Clients : tx[c].key \in Keys \union {None}
    BY Zenon DEF TypeInv, Calls
  <2>5. QED
    BY <1>0, <2>1, <2>2, <2>3, <2>4 DEF KeyInv, Creating, Holds
<1>7. ASSUME NEW c \in Clients, Step(c) \/ Abort(c) PROVE KeyInv'
  <2>1. CASE Ended(c)
    BY <1>7, <2>1, <1>1, Zenon DEF Step, InsertKey, Replay, Write, Enqueue, Abort
  <2>2. CASE ~Ended(c)
    BY <1>7, <2>2, <1>3, <1>4, EndEffect, Zenon DEF Step, Replay, Abort
  <2>3. QED
    BY <2>1, <2>2, Zenon
<1>8. QED
  BY <1>2, <1>5, <1>6, <1>7, Zenon DEF Next, Commit, CommitUnknown

----------------------------------------------------------------------------
\* Only a commit adds to the events, and the event it adds is the next one of
\* its task.
LEMMA HistoryApply ==
  ASSUME IInv, NEW c \in Clients, tx[c].pc = "commit", Apply(c)
  PROVE  HistoryInv'
<1> USE DEF IInv
<1> DEFINE t == tx[c].task
           n == tx[c].version
           ev == EventOf(c)
<1>1. /\ events' = events \union {ev} /\ lastId' = lastId /\ t \in Tasks /\ n \in Nat /\ tx[c].id \in Nat
      /\ ev.id = tx[c].id /\ ev.task = t /\ ev.type = tx[c].type /\ ev.version = n /\ ev.expect = tx[c].expect
      /\ tasks'[t] = (IF tx[c].type = "deleted" THEN 0 ELSE n)
      /\ \A u \in Tasks \ {t} : tasks'[u] = tasks[u]
      /\ tx[c].type \in Types /\ lastId \in Nat /\ MaxId \in Nat /\ lastId =< MaxId
  BY MaxIdAssumption DEF Apply, EventOf, TypeInv, Calls
<1>2. \A e \in events : e.id \in Nat /\ e.version \in Nat /\ e.task \in Tasks /\ e.type \in Types
  BY Zenon DEF TypeInv
<1>3. tx[c].id =< lastId /\ \A e \in events : e.task = t => e.id < tx[c].id
  BY Zenon DEF HeldInv
<1> HIDE DEF ev
<1>4. \A u, ty, v : Has(u, ty, v)' <=> Has(u, ty, v) \/ (u = t /\ ty = tx[c].type /\ v = n)
  BY <1>1, Zenon DEF Has
<1>5. tx[c].type = "created" => tasks[t] = 0 /\ n = 1 /\ tx[c].expect = AnyVersion /\ \A e \in events : e.task # t
  BY Zenon DEF HeldInv, Creating
<1>6. ASSUME tx[c].type # "created"
      PROVE  /\ tasks[t] \in Nat /\ tasks[t] # 0 /\ n = tasks[t] + (IF tx[c].type = "updated" THEN 1 ELSE 0)
             /\ tx[c].expect # AnyVersion => tx[c].expect = tasks[t]
             /\ \A ty \in Types, v \in Nat : Has(t, ty, v) <=> Told(ty, v, tasks[t])
  BY <1>1, <1>6, Zenon DEF HeldInv, Writing, Holds, HistoryInv, TypeInv
<1>7. \A e \in events : e.task = t => tx[c].type # "created" /\ Told(e.type, e.version, tasks[t])
  BY <1>2, <1>5, <1>6, Zenon DEF Has
<1>8. n >= 1 /\ n =< tx[c].id
  <2>1. CASE tx[c].type = "created"
    BY <1>1, <1>5, <2>1 DEF HeldInv
  <2>2. CASE tx[c].type # "created"
    <3>1. Has(t, "created", tasks[t]) \/ Has(t, "updated", tasks[t])
      BY <1>6, <2>2 DEF Told, Types
    <3>2. PICK e \in events : e.task = t /\ e.version = tasks[t]
      BY <3>1, Zenon DEF Has
    <3>3. e.version =< e.id /\ e.id < tx[c].id
      BY <1>3, <3>2, Zenon DEF HistoryInv
    <3>4. QED
      BY <1>1, <1>2, <1>6, <2>2, <3>2, <3>3
  <2>3. QED
    BY <2>1, <2>2, Zenon
<1>9. \A e \in events : e.task = t => (e.version < n \/ tx[c].type = "deleted")
                                     /\ ~(e.type = tx[c].type /\ e.version = n)
  BY <1>1, <1>2, <1>6, <1>7 DEF Told, Types
<1>10. ASSUME NEW u \in Tasks
       PROVE  IF tasks'[u] # 0 THEN \A ty \in Types, v \in Nat : Has(u, ty, v)' <=> Told(ty, v, tasks'[u])
              ELSE \/ \A e \in events' : e.task # u
                   \/ \E m \in 1..MaxId : \A ty \in Types, v \in Nat :
                        Has(u, ty, v)' <=> Told(ty, v, m) \/ (ty = "deleted" /\ v = m)
  <2> HIDE DEF t, n
  <2>1. CASE u # t
    <3>1. tasks'[u] = tasks[u] /\ (\A ty, v : Has(u, ty, v)' <=> Has(u, ty, v))
          /\ \A e \in events' : e.task = u => e \in events
      BY <1>1, <1>4, <2>1, Zenon
    <3>2. QED
      BY <3>1, Zenon DEF HistoryInv
  <2>2. CASE u = t /\ tx[c].type = "created"
    <3>1. tasks'[u] = 1 /\ n = 1
      BY <1>1, <1>5, <2>2, Zenon DEF n
    <3>2. \A ty \in Types, v \in Nat : ~Has(u, ty, v) /\ (Told(ty, v, 1) <=> ty = "created" /\ v = 1)
      BY <1>5, <2>2 DEF Has, Told, Types
    <3>3. QED
      BY <1>4, <2>2, <3>1, <3>2
  <2>3. CASE u = t /\ tx[c].type = "updated"
    <3>1. tasks'[u] = n /\ n = tasks[u] + 1 /\ tasks[u] \in Nat /\ tasks[u] # 0 /\ n # 0
      BY <1>1, <1>6, <2>3 DEF n, t
    <3>2. \A ty \in Types, v \in Nat : Told(ty, v, n) <=> Told(ty, v, tasks[u]) \/ (ty = "updated" /\ v = n)
      BY <3>1 DEF Told
    <3>3. \A ty \in Types, v \in Nat : Has(u, ty, v) <=> Told(ty, v, tasks[u])
      BY <1>6, <2>3, Zenon
    <3>4. QED
      BY <1>4, <2>3, <3>1, <3>2, <3>3, Zenon
  <2>4. CASE u = t /\ tx[c].type = "deleted"
    <3>1. tasks'[u] = 0 /\ n = tasks[u] /\ n \in 1..MaxId
      BY <1>1, <1>3, <1>6, <1>8, <2>4 DEF n, t
    <3>2. \A ty \in Types, v \in Nat : Has(u, ty, v) <=> Told(ty, v, n)
      BY <1>6, <2>4, <3>1, Zenon
    <3>3. \A ty \in Types, v \in Nat : Has(u, ty, v)' <=> Told(ty, v, n) \/ (ty = "deleted" /\ v = n)
      BY <1>4, <2>4, <3>2, Zenon
    <3>4. QED
      BY <3>1, <3>3, Zenon
  <2>5. QED
    BY <1>1, <2>1, <2>2, <2>3, <2>4, Zenon DEF Types
<1> HIDE DEF t, n
<1>11. \A e \in events' : e.version >= 1 /\ e.version =< e.id /\ e.id =< lastId
  BY <1>1, <1>3, <1>8, Zenon DEF HistoryInv, n, t
<1>12. \A e, f \in events' : e.task = f.task /\ e.id < f.id => e.version < f.version \/ f.type = "deleted"
  BY <1>1, <1>2, <1>3, <1>9 DEF HistoryInv
<1>13. NoLostUpdate'
  <2>1. ev.expect # AnyVersion => ev.version = ev.expect + (IF ev.type = "updated" THEN 1 ELSE 0)
    BY <1>1, <1>5, <1>6, Zenon DEF n, t
  <2>2. ASSUME NEW e \in events', NEW f \in events', e.task = f.task, e.type = f.type, e.version = f.version
        PROVE  e = f
    BY <1>1, <1>9, <2>2 DEF HistoryInv, NoLostUpdate, EventsOf
  <2>3. QED
    BY <1>1, <2>1, <2>2, Zenon DEF HistoryInv, NoLostUpdate, EventsOf
<1>14. QED
  BY <1>1, <1>10, <1>11, <1>12, <1>13, Zenon DEF HistoryInv

\* Every step preserves the history.
LEMMA HistoryStep ==
  ASSUME IInv, Next
  PROVE  HistoryInv'
<1>1. CASE UNCHANGED <<tasks, events>> /\ lastId' >= lastId /\ lastId' \in Nat
  BY <1>1 DEF IInv, TypeInv, HistoryInv, NoLostUpdate, EventsOf, Has
<1>2. ASSUME NEW c \in Clients, Begin(c) \/ Step(c) \/ Abort(c)
      PROVE  UNCHANGED <<tasks, events>> /\ lastId' >= lastId /\ lastId' \in Nat
  <2>1. UNCHANGED <<tasks, events>>
    BY <1>2, Zenon DEF Begin, BeginCreate, BeginWrite, Step, InsertKey, Replay, Write, Enqueue, Abort
  <2>2. lastId' \in {lastId, lastId + 1}
    BY <1>2, Zenon DEF Begin, BeginCreate, BeginWrite, Step, InsertKey, Replay, Write, Enqueue, Abort
  <2>3. QED
    BY <2>1, <2>2, SMTT(30) DEF IInv, TypeInv
<1>3. ASSUME NEW k \in Keys, Purge(k)
      PROVE  UNCHANGED <<tasks, events>> /\ lastId' >= lastId /\ lastId' \in Nat
  BY <1>3 DEF IInv, TypeInv, Purge
<1>4. QED
  BY <1>1, <1>2, <1>3, HistoryApply, Zenon DEF Next, Commit, CommitUnknown
----------------------------------------------------------------------------
\* The invariant is inductive.
THEOREM Invariance == Spec => []IInv
<1>1. Init => IInv
  <2> SUFFICES ASSUME Init PROVE IInv
    OBVIOUS
  <2>1. TypeInv
    BY IdleFacts, NoneAssumption, MaxIdAssumption DEF Init, TypeInv
  <2>2. HeldInv
    BY IdleFacts, Zenon DEF Init, HeldInv, Creating, Writing, Holds
  <2>3. KeyInv
    BY IdleFacts, Zenon DEF Init, KeyInv, Creating, Holds, Claims
  <2>4. HistoryInv
    BY Zenon DEF Init, HistoryInv, NoLostUpdate
  <2>5. QED
    BY <2>1, <2>2, <2>3, <2>4, Zenon DEF IInv
<1>2. IInv /\ [Next]_storeVars => IInv'
  <2>1. IInv /\ Next => IInv'
    BY TypeStep, HeldStep, KeyStep, HistoryStep, Zenon DEF IInv
  <2>2. IInv /\ UNCHANGED storeVars => IInv'
    <3> SUFFICES ASSUME IInv, UNCHANGED storeVars PROVE IInv'
      OBVIOUS
    <3> USE DEF storeVars, IInv
    <3>1. TypeInv'
      BY Zenon DEF TypeInv
    <3>2. HeldInv'
      BY SMTT(30) DEF HeldInv, Creating, Writing, Holds
    <3>3. Claims' = Claims
      BY Zenon DEF Claims, Ack
    <3>4. KeyInv'
      BY <3>3, Zenon DEF KeyInv, Creating, Holds
    <3>5. HistoryInv'
      BY DEF HistoryInv, NoLostUpdate, EventsOf, Has
    <3>6. QED
      BY <3>1, <3>2, <3>4, <3>5, Zenon
  <2>3. QED
    BY <2>1, <2>2, Zenon
<1>3. QED
  BY <1>1, <1>2, PTL DEF Spec

\* What single events tell is what EventsTellHistory says of the set of them.
LEMMA SeenIffHas ==
  ASSUME TypeInv, NEW t \in Tasks, NEW p
  PROVE  p \in {<<e.type, e.version>> : e \in EventsOf(t)} <=>
           \E type \in Types, v \in Nat : p = <<type, v>> /\ Has(t, type, v)
<1>1. \A e \in events : e.type \in Types /\ e.version \in Nat
  BY Zenon DEF TypeInv
<1>2. ASSUME NEW e \in EventsOf(t), p = <<e.type, e.version>>
      PROVE  \E type \in Types, v \in Nat : p = <<type, v>> /\ Has(t, type, v)
  <2>1. Has(t, e.type, e.version)
    BY <1>2, Zenon DEF Has, EventsOf
  <2>2. QED
    BY <1>1, <1>2, <2>1, Zenon DEF EventsOf
<1>3. ASSUME NEW type \in Types, NEW v \in Nat, p = <<type, v>>, Has(t, type, v)
      PROVE  \E e \in EventsOf(t) : p = <<e.type, e.version>>
  BY <1>3, Zenon DEF Has, EventsOf
<1>4. QED
  BY <1>2, <1>3, Zenon

\* The pairs of a history are those that Told tells.
LEMMA HistoryTold ==
  ASSUME NEW p, NEW n \in Nat
  PROVE  p \in {<<"created", 1>>} \union {<<"updated", v>> : v \in 2..n} <=>
           \E type \in Types, v \in Nat : p = <<type, v>> /\ Told(type, v, n)
BY DEF Told, Types

\* Whatever calls run, fail or end unknown, the committed events of a task are
\* its history, in the order of their outbox ids (store.go Create, Update,
\* Delete; outbox.go Enqueue).
THEOREM EventsTellHistoryProved == Spec => []EventsTellHistory
<1>1. IInv => EventsTellHistory
  <2> SUFFICES ASSUME IInv, NEW t \in Tasks
               PROVE  LET seen == {<<e.type, e.version>> : e \in EventsOf(t)}
                          history(n) == {<<"created", 1>>} \union {<<"updated", v>> : v \in 2..n}
                      IN /\ IF tasks[t] # 0 THEN seen = history(tasks[t])
                            ELSE seen = {} \/ \E n \in 1..MaxId : seen = history(n) \union {<<"deleted", n>>}
                         /\ \A e, f \in EventsOf(t) : e.id < f.id => e.version < f.version \/ f.type = "deleted"
    BY Zenon DEF EventsTellHistory
  <2> DEFINE seen == {<<e.type, e.version>> : e \in EventsOf(t)}
             history(n) == {<<"created", 1>>} \union {<<"updated", v>> : v \in 2..n}
  <2>1. \A p : p \in seen <=> \E type \in Types, v \in Nat : p = <<type, v>> /\ Has(t, type, v)
    BY SeenIffHas, Zenon DEF IInv
  <2>2. \A n \in Nat : \A p : p \in history(n) <=>
          \E type \in Types, v \in Nat : p = <<type, v>> /\ Told(type, v, n)
    BY HistoryTold, Zenon
  <2>3. \A e, f \in EventsOf(t) : e.id < f.id => e.version < f.version \/ f.type = "deleted"
    BY Zenon DEF IInv, HistoryInv, EventsOf
  <2>4. tasks[t] \in Nat
    BY Zenon DEF IInv, TypeInv
  <2> HIDE DEF seen, history
  <2>5. CASE tasks[t] # 0
    <3>1. \A type \in Types, v \in Nat : Has(t, type, v) <=> Told(type, v, tasks[t])
      BY <2>5, Zenon DEF IInv, HistoryInv
    <3>2. seen = history(tasks[t])
      BY <2>1, <2>2, <2>4, <3>1, Zenon
    <3>3. QED
      BY <2>3, <2>5, <3>2, Zenon DEF seen, history
  <2>6. CASE tasks[t] = 0 /\ \A e \in events : e.task # t
    <3>1. seen = {}
      BY <2>6, Zenon DEF seen, EventsOf
    <3>2. QED
      BY <2>3, <2>6, <3>1, Zenon DEF seen, history
  <2>7. ASSUME tasks[t] = 0, NEW n \in 1..MaxId,
               \A type \in Types, v \in Nat : Has(t, type, v) <=> Told(type, v, n) \/ (type = "deleted" /\ v = n)
        PROVE  seen = history(n) \union {<<"deleted", n>>}
    <3>1. n \in Nat /\ "deleted" \in Types
      BY <2>7, MaxIdAssumption DEF Types
    <3>2. QED
      BY <2>1, <2>2, <2>7, <3>1
  <2>8. QED
    <3>1. tasks[t] = 0 /\ (\E e \in events : e.task = t) => \E n \in 1..MaxId : \A type \in Types, v \in Nat :
            Has(t, type, v) <=> Told(type, v, n) \/ (type = "deleted" /\ v = n)
      BY Zenon DEF IInv, HistoryInv
    <3>2. tasks[t] = 0 /\ (\E e \in events : e.task = t) =>
            \E n \in 1..MaxId : seen = history(n) \union {<<"deleted", n>>}
      BY <2>7, <3>1, Zenon
    <3>3. QED
      BY <2>3, <2>5, <2>6, <3>2, Zenon DEF seen, history
<1>2. QED
  BY <1>1, Invariance, PTL

\* However calls interleave, no two committed changes of a task produce the
\* same version, and a change made under If-Match starts from the version it
\* names (store.go Update and Delete).
THEOREM NoLostUpdateProved == Spec => []NoLostUpdate
<1>1. IInv => NoLostUpdate
  BY Zenon DEF IInv, HistoryInv
<1>2. QED
  BY <1>1, Invariance, PTL

\* Until a key is released, all creates answered under it name one task and
\* one body, and a key that is there names a live task (store.go Create, Get,
\* PurgeIdempotencyKeys).
THEOREM OneTaskPerKeyProved == Spec => []OneTaskPerKey
<1>1. IInv => OneTaskPerKey
  BY Zenon DEF IInv, KeyInv, Claims, OneTaskPerKey
<1>2. QED
  BY <1>1, Invariance, PTL
=============================================================================
