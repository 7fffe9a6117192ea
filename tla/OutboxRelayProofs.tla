------------------------- MODULE OutboxRelayProofs -------------------------
(***************************************************************************)
(* The inductive invariant of OutboxRelay, what its steps do to the state  *)
(* the invariant is about, that they keep each of its parts, and the       *)
(* theorems.                                                               *)
(***************************************************************************)
EXTENDS OutboxRelay, FiniteSetTheorems, TLAPS

Before(e, f) == e.task = f.task /\ e.id < f.id

\* A relay outside a transaction has no session and no batch.
PassInv ==
  \A r \in Relays :
     /\ session[r] => InTx(r)
     /\ pc[r] \notin {"batch", "settle"} =>
          todo[r] = {} /\ done[r] = {} /\ aside[r] = {}
     /\ todo[r] \subseteq committed /\ done[r] \subseteq Delivered

\* The advisory lock: one live session at a time.
LockInv == \A q, r \in Relays : session[q] /\ session[r] => q = r

\* What the columns rejections and next_attempt_at owe to refusals.
RefusalInv ==
  /\ \A e \in Event : rejections[e] <= refused[e]
  /\ \A e \in waiting : refused[e] > 0
  /\ \A r \in Relays : \A e \in aside[r] :
       refused[e] > 0 /\ (session[r] => rejections[e] < refused[e])

\* Ids are unique, and only committed events are sent.
StreamInv ==
  /\ \A e, f \in committed : e.id = f.id => e = f
  /\ Delivered \subseteq committed /\ late \subseteq committed
  /\ NoEventLost

\* Everything before an event that is in the topic or on its way there is in
\* the topic; everything before a row of a batch is there or in the batch.
OrderInv ==
  \A e, f \in committed : Before(e, f) /\ refused[e] = 0 =>
     /\ f \in Delivered \union late => e \in Delivered
     /\ \A r \in Relays : f \in todo[r] => e \in Delivered \union todo[r]

\* An event no failed pass has touched is in the topic at most once, and its
\* row is then gone or about to be deleted by the live session.
DupInv ==
  /\ late \subseteq dirty
  /\ \A e \in Event \ dirty :
       /\ copies[e] <= 1
       /\ copies[e] = 1 /\ e \in outbox => \E r \in Relays : session[r] /\ e \in done[r]
       /\ \A r \in Relays : session[r] /\ e \in todo[r] => copies[e] = 0

IInv == TypeOK /\ PassInv /\ LockInv /\ RefusalInv /\ StreamInv /\ OrderInv /\ DupInv

----------------------------------------------------------------------------
(* The steps, sorted by what they do to the state the invariant is about.  *)

\* Between passes, at the end of a loop, and when a row falls due again.
Quiet ==
  /\ UNCHANGED <<committed, outbox, rejections, session, todo, done, aside,
                 copies, late, refused, dirty>>
  /\ waiting' \subseteq waiting
  /\ \A q \in Relays :
       /\ InTx(q)' = InTx(q)
       /\ (pc[q] \in {"batch", "settle"})' = (pc[q] \in {"batch", "settle"})

\* The end of a pass, whatever state Run goes to.
Ended(r) == \E next \in PCs \ {"locked", "batch", "settle"} : EndPass(r, next)

\* A commit that took effect, whether or not the relay learns of it.
Settled(r) ==
  /\ pc[r] = "settle" /\ session[r] /\ Persist(r) /\ Ended(r)
  /\ UNCHANGED <<committed, broker, dirty>>

RolledBack(r) ==
  /\ Ended(r)
  /\ dirty' = dirty \union done[r]
  /\ UNCHANGED <<committed, table, broker>>

Crashed(r) ==
  /\ Ended(r)
  /\ \E S \in SUBSET todo[r] :
       /\ \A f \in S : Sending(r, f)
       /\ late' = late \union S
       /\ dirty' = dirty \union done[r] \union S
  /\ UNCHANGED <<committed, table, copies, refused>>

RelayStep(r) ==
  \/ TryLock(r) \/ Select(r) \/ Settled(r) \/ RolledBack(r) \/ SessionLost(r) \/ Crashed(r)

EventStep(e) ==
  \/ Commit(e) \/ LateArrival(e)
  \/ \E r \in Relays : Ack(r, e) \/ Reject(r, e) \/ Outage(r, e)

Step == Quiet \/ (\E r \in Relays : RelayStep(r)) \/ (\E e \in Event : EventStep(e))

\* Every step of the specification is one of these.
LEMMA Steps == TypeOK /\ [Next]_vars => Step
<1> SUFFICES ASSUME TypeOK, [Next]_vars PROVE Step
  OBVIOUS
<1> USE DEF table, batch, broker, bounds
<1>1. ASSUME NEW r \in Relays, Wake(r) \/ EndLoop(r) \/ Again(r) \/ Timer(r) \/ Woken(r)
                               \/ Stop(r) \/ Cancel(r) \/ Restart(r)
      PROVE  Quiet
  BY <1>1 DEF TypeOK, PCs, Quiet, InTx, Wake, EndLoop, Again, Timer, Woken, Stop, Cancel,
              Restart
<1>2. ASSUME NEW e \in Event, DueAgain(e) PROVE Quiet
  BY <1>2, Zenon DEF Quiet, InTx, DueAgain
<1>3. ASSUME UNCHANGED vars PROVE Quiet
  <2>1. UNCHANGED <<committed, outbox, rejections, session, todo, done, aside, copies,
                    late, refused, dirty>> /\ pc' = pc /\ waiting' = waiting
    BY <1>3, Zenon DEF vars
  <2> QED
    BY <2>1, Zenon DEF Quiet, InTx
<1>4. ASSUME NEW r \in Relays, Settle(r) \/ CommitUnknown(r) PROVE Settled(r)
  <2>1. {"again", "wait", "backoff"} \subseteq PCs \ {"locked", "batch", "settle"}
    BY Zenon DEF PCs
  <2>2. AfterPass(r) \in {"again", "wait", "backoff"}
    BY Zenon DEF AfterPass
  <2> QED
    BY <1>4, <2>1, <2>2, Zenon DEF Settle, CommitUnknown, Settled, Ended
<1>5. ASSUME NEW r \in Relays, StatementFails(r) \/ LearnsSessionLost(r)
      PROVE  RolledBack(r)
  BY <1>5, Zenon DEF StatementFails, LearnsSessionLost, RollBack, RolledBack, Ended, PCs
<1>6. ASSUME NEW r \in Relays, Crash(r) PROVE Crashed(r)
  <2>1. Ended(r)
    BY <1>6, Zenon DEF Crash, Ended, PCs
  <2>2. PICK S \in {{}} \union {{e} : e \in {x \in todo[r] : Sending(r, x)}} :
          late' = late \union S /\ dirty' = dirty \union done[r] \union S
    BY <1>6, Zenon DEF Crash
  <2>3. S \in SUBSET todo[r] /\ \A f \in S : Sending(r, f)
    BY Zenon
  <2> QED
    BY <1>6, <2>1, <2>2, <2>3, Zenon DEF Crash, Crashed
<1> QED
  BY <1>1, <1>2, <1>3, <1>4, <1>5, <1>6, Zenon
  DEF Step, RelayStep, EventStep, Next, RelaysNext, RelayNext, EventNext

----------------------------------------------------------------------------
(* Each part of the invariant is preserved by every step.                  *)

\* SelectBatch returns rows of the table.
LEMMA SelectedRows ==
  ASSUME NEW r \in Relays PROVE SelectBatch(r) \subseteq outbox
BY Zenon DEF SelectBatch

\* Types at the end of a pass.
LEMMA EndTypes ==
  ASSUME TypeOK, NEW r \in Relays, NEW next \in PCs, EndPass(r, next)
  PROVE  /\ pc' \in [Relays -> PCs] /\ session' \in [Relays -> BOOLEAN]
         /\ todo' \in [Relays -> SUBSET Event] /\ done' \in [Relays -> SUBSET Event]
         /\ aside' \in [Relays -> SUBSET Event] /\ pubErr' \in [Relays -> BOOLEAN]
BY Zenon DEF TypeOK, EndPass

\* Types.
LEMMA TypeStep == TypeOK /\ [Next]_vars => TypeOK'
<1> SUFFICES ASSUME TypeOK, [Next]_vars PROVE TypeOK'
  OBVIOUS
<1> USE DEF TypeOK, PCs, table, batch, broker, bounds, Fault
<1>1. ASSUME NEW r \in Relays, Wake(r) PROVE TypeOK'
  BY <1>1, Zenon DEF Wake
<1>2. ASSUME NEW r \in Relays, TryLock(r) PROVE TypeOK'
  BY <1>2, Zenon DEF TryLock, LockFree, InTx
<1>3. ASSUME NEW r \in Relays, Select(r) PROVE TypeOK'
  <2>1. SelectBatch(r) \in SUBSET Event
    BY SelectedRows, Zenon
  <2>2. CASE SelectBatch(r) = {}
    BY <1>3, <2>2, EndTypes, Zenon DEF Select
  <2>3. CASE SelectBatch(r) # {}
    BY <1>3, <2>1, <2>3 DEF Select
  <2> QED
    BY <2>2, <2>3, Zenon
<1>4. ASSUME NEW r \in Relays, EndLoop(r) PROVE TypeOK'
  BY <1>4, Zenon DEF EndLoop
<1>5. ASSUME NEW r \in Relays, Settle(r) PROVE TypeOK'
  BY <1>5 DEF Settle, Persist, EndPass, AfterPass
<1>6. ASSUME NEW r \in Relays, CommitUnknown(r) PROVE TypeOK'
  BY <1>6 DEF CommitUnknown, Persist, EndPass
<1>7. ASSUME NEW r \in Relays, StatementFails(r) PROVE TypeOK'
  BY <1>7, SMTT(30) DEF StatementFails, RollBack, EndPass, AtStatement
<1>8. ASSUME NEW r \in Relays, SessionLost(r) PROVE TypeOK'
  BY <1>8 DEF SessionLost, InTx
<1>9. ASSUME NEW r \in Relays, LearnsSessionLost(r) PROVE TypeOK'
  BY <1>9, Zenon DEF LearnsSessionLost, InTx, RollBack, EndPass, AtStatement
<1>10. ASSUME NEW r \in Relays, Again(r) PROVE TypeOK'
  BY <1>10, Zenon DEF Again
<1>11. ASSUME NEW r \in Relays, Timer(r) PROVE TypeOK'
  BY <1>11, Zenon DEF Timer
<1>12. ASSUME NEW r \in Relays, Woken(r) PROVE TypeOK'
  BY <1>12, Zenon DEF Woken
<1>13. ASSUME NEW r \in Relays, Stop(r) PROVE TypeOK'
  BY <1>13, Zenon DEF Stop
<1>14. ASSUME NEW r \in Relays, Cancel(r) PROVE TypeOK'
  BY <1>14 DEF Cancel
<1>15. ASSUME NEW r \in Relays, Crash(r) PROVE TypeOK'
  BY <1>15 DEF Crash, EndPass, Sending
<1>16. ASSUME NEW r \in Relays, Restart(r) PROVE TypeOK'
  BY <1>16, Zenon DEF Restart
<1>17. ASSUME NEW e \in Event, Commit(e) PROVE TypeOK'
  BY <1>17, Zenon DEF Commit, Insert
<1>18. ASSUME NEW e \in Event, DueAgain(e) PROVE TypeOK'
  BY <1>18, Zenon DEF DueAgain
<1>19. ASSUME NEW e \in Event, LateArrival(e) PROVE TypeOK'
  BY <1>19, SMTT(30) DEF LateArrival
<1>20. ASSUME NEW r \in Relays, NEW e \in Event, Ack(r, e) PROVE TypeOK'
  BY <1>20, SMTT(30) DEF Ack, Sending, First
<1>21. ASSUME NEW r \in Relays, NEW e \in Event, Reject(r, e) PROVE TypeOK'
  BY <1>21 DEF Reject, Sending, First
<1>22. ASSUME NEW r \in Relays, NEW e \in Event, Outage(r, e) PROVE TypeOK'
  BY <1>22, SMTT(30) DEF Outage, Sending, First
<1>23. CASE UNCHANGED vars
  BY <1>23, Zenon DEF vars
<1> HIDE DEF TypeOK, PCs, table, batch, broker, bounds, Fault
<1> QED
  BY <1>1, <1>2, <1>3, <1>4, <1>5, <1>6, <1>7, <1>8, <1>9, <1>10, <1>11, <1>12, <1>13,
     <1>14, <1>15, <1>16, <1>17, <1>18, <1>19, <1>20, <1>21, <1>22, <1>23, SMTT(30)
  DEF Next, RelaysNext, RelayNext, EventNext

\* A batch belongs to a running pass, and done is what the broker has.
LEMMA PassStep ==
  ASSUME TypeOK, PassInv, Step PROVE PassInv'
<1> /\ pc \in [Relays -> PCs] /\ session \in [Relays -> BOOLEAN]
    /\ todo \in [Relays -> SUBSET Event] /\ done \in [Relays -> SUBSET Event]
    /\ aside \in [Relays -> SUBSET Event] /\ copies \in [Event -> Nat]
    /\ committed \subseteq Event /\ outbox \subseteq committed
  BY Zenon DEF TypeOK
<1>1. CASE Quiet
  BY <1>1, Zenon DEF Quiet, PassInv, Delivered
<1>2. ASSUME NEW r \in Relays, TryLock(r) PROVE PassInv'
  BY <1>2, Zenon DEF TryLock, batch, broker, PassInv, InTx, Delivered
<1>3. ASSUME NEW r \in Relays, Ended(r), UNCHANGED <<committed, copies>> PROVE PassInv'
  BY <1>3 DEF Ended, EndPass, PCs, PassInv, InTx, Delivered
<1>4. ASSUME NEW r \in Relays, Select(r) PROVE PassInv'
  <2>1. UNCHANGED <<committed, copies>>
    BY <1>4, Zenon DEF Select, broker
  <2>2. CASE SelectBatch(r) = {}
    BY <1>3, <1>4, <2>1, <2>2, Zenon DEF Select, Ended, PCs
  <2>3. CASE SelectBatch(r) # {}
    <3>1. /\ pc[r] = "locked" /\ todo' = [todo EXCEPT ![r] = SelectBatch(r)]
          /\ pc' = [pc EXCEPT ![r] = "batch"] /\ UNCHANGED <<session, done, aside>>
      BY <1>4, <2>3, Zenon DEF Select
    <3> QED
      BY <2>1, <3>1, SelectedRows DEF PassInv, InTx, Delivered
  <2> QED
    BY <2>2, <2>3, Zenon
<1>5. ASSUME NEW r \in Relays, SessionLost(r) PROVE PassInv'
  BY <1>5 DEF SessionLost, batch, broker, PassInv, InTx, Delivered
<1>6. ASSUME NEW e \in Event, Commit(e) PROVE PassInv'
  BY <1>6, Zenon DEF Commit, Insert, batch, broker, PassInv, InTx, Delivered
<1>7. ASSUME NEW e \in Event, LateArrival(e) PROVE PassInv'
  BY <1>7 DEF LateArrival, batch, PassInv, InTx, Delivered
<1>8. ASSUME NEW r \in Relays, NEW e \in Event, Ack(r, e) PROVE PassInv'
  BY <1>8, SMTT(30) DEF Ack, Sending, First, PassInv, InTx, Delivered
<1>9. ASSUME NEW r \in Relays, NEW e \in Event, Reject(r, e) PROVE PassInv'
  BY <1>9 DEF Reject, Sending, First, PassInv, InTx, Delivered
<1>10. ASSUME NEW r \in Relays, NEW e \in Event, Outage(r, e) PROVE PassInv'
  BY <1>10, Zenon DEF Outage, Sending, First, PassInv, InTx, Delivered
<1>11. ASSUME NEW r \in Relays, Settled(r) \/ RolledBack(r) \/ Crashed(r) PROVE PassInv'
  BY <1>3, <1>11, Zenon DEF Settled, RolledBack, Crashed, broker
<1> QED
  BY <1>1, <1>2, <1>4, <1>5, <1>6, <1>7, <1>8, <1>9, <1>10, <1>11, Zenon
  DEF Step, RelayStep, EventStep

\* A session begins only when no other is alive.
LEMMA LockStep ==
  ASSUME TypeOK, PassInv, LockInv, Step PROVE LockInv'
<1> session \in [Relays -> BOOLEAN]
  BY Zenon DEF TypeOK
<1>1. ASSUME session' = session PROVE LockInv'
  BY <1>1, Zenon DEF LockInv
<1>2. ASSUME NEW r \in Relays, session' = [session EXCEPT ![r] = FALSE] PROVE LockInv'
  BY <1>2, Zenon DEF LockInv
<1>3. ASSUME NEW r \in Relays, TryLock(r) PROVE LockInv'
  BY <1>3, Zenon DEF TryLock, LockFree, LockInv, PassInv
<1>4. ASSUME NEW r \in Relays, Select(r) PROVE LockInv'
  BY <1>1, <1>2, <1>4, Zenon DEF Select, EndPass
<1>5. ASSUME NEW r \in Relays, Settled(r) \/ RolledBack(r) \/ Crashed(r) PROVE LockInv'
  BY <1>2, <1>5, Zenon DEF Settled, RolledBack, Crashed, Ended, EndPass
<1>6. ASSUME NEW r \in Relays, SessionLost(r) PROVE LockInv'
  BY <1>2, <1>6, Zenon DEF SessionLost
<1>7. ASSUME NEW e \in Event, EventStep(e) PROVE session' = session
  BY <1>7, Zenon DEF EventStep, Commit, Insert, LateArrival, Ack, Reject, Outage
<1>8. CASE Quiet
  BY <1>1, <1>8, Zenon DEF Quiet
<1> QED
  BY <1>1, <1>3, <1>4, <1>5, <1>6, <1>7, <1>8, Zenon DEF Step, RelayStep

\* Only a recorded refusal raises rejections.
LEMMA RefusalStep ==
  ASSUME TypeOK, PassInv, LockInv, RefusalInv, Step PROVE RefusalInv'
<1> /\ session \in [Relays -> BOOLEAN] /\ aside \in [Relays -> SUBSET Event]
    /\ waiting \subseteq Event /\ rejections \in [Event -> Nat] /\ refused \in [Event -> Nat]
  BY Zenon DEF TypeOK
<1>1. ASSUME UNCHANGED <<rejections, refused, aside, session>>, waiting' \subseteq waiting
      PROVE  RefusalInv'
  BY <1>1, Zenon DEF RefusalInv
<1>2. ASSUME NEW r \in Relays, TryLock(r) PROVE RefusalInv'
  <2>1. aside[r] = {}
    BY <1>2 DEF TryLock, PassInv
  <2> QED
    BY <1>2, <2>1, Zenon DEF TryLock, table, batch, broker, RefusalInv
<1>3. ASSUME NEW r \in Relays, UNCHANGED <<rejections, waiting, refused>>, Ended(r)
      PROVE  RefusalInv'
  BY <1>3, SMTT(30) DEF Ended, EndPass, RefusalInv
<1>4. ASSUME NEW r \in Relays, Select(r) PROVE RefusalInv'
  <2>1. UNCHANGED <<rejections, waiting, refused>>
    BY <1>4, Zenon DEF Select, table, broker
  <2> QED
    BY <1>1, <1>3, <1>4, <2>1 DEF Select, Ended, PCs
<1>5. ASSUME NEW r \in Relays, Settled(r) PROVE RefusalInv'
  BY <1>5 DEF Settled, Persist, Ended, EndPass, broker, LockInv, RefusalInv
<1>6. ASSUME NEW r \in Relays, RolledBack(r) \/ Crashed(r) PROVE RefusalInv'
  BY <1>3, <1>6, Zenon DEF RolledBack, Crashed, table, broker
<1>7. ASSUME NEW r \in Relays, SessionLost(r) PROVE RefusalInv'
  BY <1>7, Zenon DEF SessionLost, table, batch, broker, RefusalInv
<1>8. ASSUME NEW r \in Relays, NEW e \in Event, Reject(r, e) PROVE RefusalInv'
  BY <1>8 DEF Reject, table, LockInv, RefusalInv
<1>9. ASSUME NEW e \in Event,
             Commit(e) \/ LateArrival(e) \/ \E r \in Relays : Ack(r, e) \/ Outage(r, e)
      PROVE  UNCHANGED <<rejections, waiting, refused, aside, session>>
  BY <1>9, Zenon DEF Commit, Insert, LateArrival, Ack, Outage, table, batch, broker
<1>10. CASE Quiet
  BY <1>1, <1>10, Zenon DEF Quiet
<1> QED
  BY <1>1, <1>2, <1>4, <1>5, <1>6, <1>7, <1>8, <1>9, <1>10 DEF Step, RelayStep, EventStep

----------------------------------------------------------------------------
(* What the batch query returns.                                           *)

\* Sets of rows are finite: their ids are distinct numbers up to MaxId.
LEMMA RowsFinite ==
  ASSUME TypeOK, StreamInv, NEW S \in SUBSET outbox PROVE IsFiniteSet(S)
<1> DEFINE idOf == [e \in S |-> e.id]
<1>1. IsFiniteSet(1..MaxId)
  BY FS_Interval, BoundsAssumption
<1>2. idOf \in Injection(S, 1..MaxId)
  BY DEF TypeOK, StreamInv, Event, Injection, IsInjective
<1> HIDE DEF idOf
<1> QED
  BY <1>1, <1>2, FS_Injection, Zenon

\* ORDER BY id LIMIT leaves out only rows after the ones it returns: a due row
\* with a smaller id than a returned one is returned too.
LEMMA SelectedPrefix ==
  ASSUME TypeOK, StreamInv, LockInv,
         NEW r \in Relays, session[r],
         NEW f \in SelectBatch(r), NEW e \in outbox, Selectable(e), e.id < f.id
  PROVE  e \in SelectBatch(r)
<1> DEFINE due == {x \in outbox : Selectable(x) /\ ~ RowLocked(r, x)}
           below(x) == {y \in due : y.id < x.id}
<1>1. e \in due /\ f \in due
  BY Zenon DEF SelectBatch, RowLocked, LockInv
<1>2. IsFiniteSet(below(e)) /\ IsFiniteSet(below(f))
  BY RowsFinite, Zenon
<1>3. below(e) \subseteq below(f)
  <2> SUFFICES ASSUME NEW y \in below(e) PROVE y.id < f.id
    OBVIOUS
  <2> y.id \in Nat /\ e.id \in Nat /\ f.id \in Nat
    BY <1>1 DEF TypeOK, Event
  <2> QED
    OBVIOUS
<1>4. Cardinality(below(e)) <= Cardinality(below(f))
  BY <1>2, <1>3, FS_Subset, Zenon
<1>5. Cardinality(below(f)) < BatchSize
  BY Zenon DEF SelectBatch
<1>6. Cardinality(below(e)) < BatchSize
  BY <1>2, <1>4, <1>5, FS_CardinalityType, BatchSizeAssumption
<1> QED
  BY <1>1, <1>6, Zenon DEF SelectBatch

\* A row the broker never refused is due.
LEMMA UnrefusedDue ==
  ASSUME TypeOK, RefusalInv, NEW x \in outbox, refused[x] = 0 PROVE Selectable(x)
<1>1. x \in Event /\ rejections[x] \in Nat
  BY Zenon DEF TypeOK
<1>2. rejections[x] <= 0 /\ x \notin waiting
  BY <1>1 DEF RefusalInv
<1> QED
  BY <1>1, <1>2, MaxAttemptsAssumption DEF Selectable

\* The batch is sent in id order, so what precedes the record being sent is in
\* the topic.
LEMMA SentInOrder ==
  ASSUME TypeOK, PassInv, OrderInv, NEW r \in Relays, NEW f \in Event, Sending(r, f),
         NEW x \in committed, Before(x, f), refused[x] = 0
  PROVE  x \in Delivered
<1>1. f \in todo[r] /\ f \in committed /\ \A y \in todo[r] : f.id <= y.id
  BY Zenon DEF Sending, First, PassInv
<1>2. x \in Delivered \/ x \in todo[r]
  BY <1>1, Zenon DEF OrderInv
<1>3. x.id \in Nat /\ f.id \in Nat /\ x.id < f.id
  BY SMTT(30) DEF TypeOK, Event, Before
<1> QED
  BY <1>1, <1>2, <1>3

----------------------------------------------------------------------------
(* Each remaining part of the invariant is preserved by every step.        *)

\* Rows leave the table only for the topic.
LEMMA StreamStep ==
  ASSUME TypeOK, PassInv, StreamInv, Step PROVE StreamInv'
<1> /\ committed \subseteq Event /\ outbox \subseteq committed /\ late \subseteq Event
    /\ copies \in [Event -> Nat]
    /\ todo \in [Relays -> SUBSET Event] /\ done \in [Relays -> SUBSET Event]
  BY Zenon DEF TypeOK
<1> USE DEF StreamInv, NoEventLost, Delivered
<1>1. ASSUME UNCHANGED <<committed, outbox, copies, late>> PROVE StreamInv'
  BY <1>1, Zenon
<1>2. ASSUME NEW r \in Relays,
             TryLock(r) \/ Select(r) \/ RolledBack(r) \/ SessionLost(r)
             \/ \E e \in Event : Reject(r, e)
      PROVE  UNCHANGED <<committed, outbox, copies, late>>
  BY <1>2, Zenon DEF TryLock, Select, RolledBack, SessionLost, Reject, table, broker
<1>3. ASSUME NEW r \in Relays, Settled(r) PROVE StreamInv'
  BY <1>3, Zenon DEF Settled, Persist, broker, PassInv
<1>4. ASSUME NEW r \in Relays, Crashed(r) PROVE StreamInv'
  BY <1>4, Zenon DEF Crashed, table, PassInv
<1>5. ASSUME NEW e \in Event, Commit(e) PROVE StreamInv'
  BY <1>5, Zenon DEF Commit, Insert, broker
<1>6. ASSUME NEW e \in Event, LateArrival(e) PROVE StreamInv'
  BY <1>6, SMTT(30) DEF LateArrival, table
<1>7. ASSUME NEW r \in Relays, NEW e \in Event, Ack(r, e) PROVE StreamInv'
  BY <1>7 DEF Ack, Sending, First, table, PassInv
<1>8. ASSUME NEW r \in Relays, NEW e \in Event, Outage(r, e) PROVE StreamInv'
  BY <1>8, Zenon DEF Outage, Sending, First, table, PassInv
<1>9. CASE Quiet
  BY <1>1, <1>9, Zenon DEF Quiet
<1> HIDE DEF StreamInv, NoEventLost, Delivered
<1> QED
  BY <1>1, <1>2, <1>3, <1>4, <1>5, <1>6, <1>7, <1>8, <1>9, Zenon DEF Step, RelayStep, EventStep

\* A clean event is published by one live session only.
LEMMA DupStep ==
  ASSUME TypeOK, PassInv, LockInv, StreamInv, DupInv, Step PROVE DupInv'
<1> /\ committed \subseteq Event /\ outbox \subseteq committed /\ late \subseteq Event
    /\ copies \in [Event -> Nat] /\ session \in [Relays -> BOOLEAN]
    /\ todo \in [Relays -> SUBSET Event] /\ done \in [Relays -> SUBSET Event]
  BY Zenon DEF TypeOK
<1>1. ASSUME UNCHANGED <<outbox, copies, late, session, todo, done>>, dirty \subseteq dirty'
      PROVE  DupInv'
  BY <1>1 DEF DupInv
<1>2. ASSUME NEW r \in Relays, TryLock(r) PROVE DupInv'
  <2>1. todo[r] = {} /\ done[r] = {}
    BY <1>2, Zenon DEF TryLock, PassInv
  <2> QED
    BY <1>2, <2>1, Zenon DEF TryLock, table, batch, broker, DupInv
<1>3. ASSUME NEW r \in Relays, Ended(r), UNCHANGED <<outbox, copies>>,
             NEW S, late' = late \union S, dirty' = dirty \union done[r] \union S
      PROVE  DupInv'
  BY <1>3 DEF Ended, EndPass, DupInv
<1>4. ASSUME NEW r \in Relays, Select(r) PROVE DupInv'
  <2>1. UNCHANGED <<outbox, copies, late, dirty>>
    BY <1>4, Zenon DEF Select, table, broker
  <2>2. session[r] /\ done[r] = {}
    BY <1>4, Zenon DEF Select, PassInv
  <2>3. CASE SelectBatch(r) = {}
    <3>1. Ended(r)
      BY <1>4, <2>3, Zenon DEF Select, Ended, PCs
    <3>2. late' = late \union {} /\ dirty' = dirty \union done[r] \union {}
      BY <2>1, <2>2, Zenon
    <3> QED
      BY <1>3, <2>1, <3>1, <3>2, Zenon
  <2>4. CASE SelectBatch(r) # {}
    <3>1. /\ todo' = [todo EXCEPT ![r] = SelectBatch(r)] /\ UNCHANGED <<session, done>>
      BY <1>4, <2>4, Zenon DEF Select
    <3>2. \A e \in Event \ dirty : e \in SelectBatch(r) => copies[e] = 0
      BY <2>2, SelectedRows DEF LockInv, DupInv
    <3> QED
      BY <2>1, <3>1, <3>2 DEF DupInv
  <2> QED
    BY <2>3, <2>4, Zenon
<1>5. ASSUME NEW r \in Relays, Settled(r) PROVE DupInv'
  BY <1>5, SMTT(30) DEF Settled, Persist, Ended, EndPass, broker, LockInv, DupInv
<1>6. ASSUME NEW r \in Relays, RolledBack(r) PROVE DupInv'
  <2>1. /\ Ended(r) /\ UNCHANGED <<outbox, copies>>
        /\ late' = late \union {} /\ dirty' = dirty \union done[r] \union {}
    BY <1>6, Zenon DEF RolledBack, table, broker
  <2> QED
    BY <1>3, <2>1, Zenon
<1>7. ASSUME NEW r \in Relays, Crashed(r) PROVE DupInv'
  <2>1. Ended(r) /\ UNCHANGED <<outbox, copies>>
    BY <1>7, Zenon DEF Crashed, table
  <2>2. PICK S : late' = late \union S /\ dirty' = dirty \union done[r] \union S
    BY <1>7, Zenon DEF Crashed
  <2> QED
    BY <1>3, <2>1, <2>2, Zenon
<1>8. ASSUME NEW r \in Relays, SessionLost(r) PROVE DupInv'
  BY <1>8, Zenon DEF SessionLost, table, batch, broker, DupInv
<1>9. ASSUME NEW e \in Event, Commit(e) PROVE DupInv'
  BY <1>9, SMTT(30) DEF Commit, Insert, batch, broker, StreamInv, Delivered, DupInv
<1>10. ASSUME NEW e \in Event, LateArrival(e) PROVE DupInv'
  BY <1>10, SMTT(30) DEF LateArrival, table, batch, DupInv
<1>11. ASSUME NEW r \in Relays, NEW e \in Event, Ack(r, e) PROVE DupInv'
  BY <1>11, SMTT(30) DEF Ack, Sending, First, table, LockInv, DupInv
<1>12. ASSUME NEW r \in Relays, NEW e \in Event, Reject(r, e) PROVE DupInv'
  BY <1>12, Zenon DEF Reject, table, DupInv
<1>13. ASSUME NEW r \in Relays, NEW e \in Event, Outage(r, e) PROVE DupInv'
  <2>1. /\ UNCHANGED <<outbox, copies, session, todo, done>>
        /\ late' \subseteq late \union {e} /\ dirty' = dirty \union {e}
    BY <1>13, Zenon DEF Outage, table
  <2> QED
    BY <2>1, Zenon DEF DupInv
<1>14. CASE Quiet
  <2>1. UNCHANGED <<outbox, copies, late, session, todo, done, dirty>>
    BY <1>14, Zenon DEF Quiet
  <2> QED
    BY <1>1, <2>1, Zenon
<1> QED
  BY <1>2, <1>4, <1>5, <1>6, <1>7, <1>8, <1>9, <1>10, <1>11, <1>12, <1>13, <1>14, Zenon
  DEF Step, RelayStep, EventStep

\* The order of first deliveries.
LEMMA OrderStep ==
  ASSUME TypeOK, PassInv, LockInv, RefusalInv, StreamInv, OrderInv, Step PROVE OrderInv'
<1> /\ committed \subseteq Event /\ outbox \subseteq committed /\ late \subseteq Event
    /\ copies \in [Event -> Nat] /\ refused \in [Event -> Nat]
    /\ todo \in [Relays -> SUBSET Event]
  BY Zenon DEF TypeOK
<1>1. ASSUME UNCHANGED <<committed, refused, copies, late>>,
             \A r \in Relays : todo'[r] = todo[r] \/ todo'[r] = {}
      PROVE  OrderInv'
  BY <1>1 DEF OrderInv, Before, Delivered
<1>2. ASSUME NEW r \in Relays, TryLock(r) \/ RolledBack(r) \/ SessionLost(r) \/ Settled(r)
      PROVE  /\ UNCHANGED <<committed, refused, copies, late>>
             /\ todo' = todo \/ todo' = [todo EXCEPT ![r] = {}]
  BY <1>2, Zenon
  DEF TryLock, Settled, RolledBack, SessionLost, Ended, EndPass, table, batch, broker
<1>3. ASSUME NEW r \in Relays, Select(r) PROVE OrderInv'
  <2>1. UNCHANGED <<committed, refused, copies, late>>
    BY <1>3 DEF Select, broker
  <2>2. CASE SelectBatch(r) = {}
    BY <1>1, <1>3, <2>1, <2>2 DEF Select, EndPass
  <2>3. CASE SelectBatch(r) # {}
    <3>1. session[r] /\ todo' = [todo EXCEPT ![r] = SelectBatch(r)]
      BY <1>3, <2>3, Zenon DEF Select
    <3>2. ASSUME NEW x \in committed, NEW f \in SelectBatch(r), Before(x, f),
                 refused[x] = 0, x \in outbox
          PROVE  x \in SelectBatch(r)
      BY <3>1, <3>2, UnrefusedDue, SelectedPrefix DEF Before
    <3> QED
      BY <2>1, <3>1, <3>2 DEF OrderInv, Before, Delivered, StreamInv, NoEventLost
  <2> QED
    BY <2>2, <2>3, Zenon
<1>4. ASSUME NEW r \in Relays, Crashed(r) PROVE OrderInv'
  <2>1. UNCHANGED <<committed, refused, copies>> /\ todo' = [todo EXCEPT ![r] = {}]
    BY <1>4, Zenon DEF Crashed, Ended, EndPass
  <2>2. PICK S \in SUBSET todo[r] : (\A f \in S : Sending(r, f)) /\ late' = late \union S
    BY <1>4, Zenon DEF Crashed
  <2>3. \A f \in S, x \in committed : Before(x, f) /\ refused[x] = 0 => x \in Delivered
    BY <2>2, SentInOrder, Zenon
  <2> QED
    BY <2>1, <2>2, <2>3, Zenon DEF OrderInv, Delivered
<1>5. ASSUME NEW e \in Event, Commit(e) PROVE OrderInv'
  <2>1. \A x \in Event : x.id \in Nat
    BY SMTT(30) DEF Event
  <2> QED
    BY <1>5, <2>1, SMTT(30)
    DEF Commit, Insert, batch, broker, PassInv, StreamInv, OrderInv, Before, Delivered
<1>6. ASSUME NEW e \in Event, LateArrival(e) PROVE OrderInv'
  BY <1>6, SMTT(30) DEF LateArrival, batch, OrderInv, Delivered
<1>7. ASSUME NEW r \in Relays, NEW e \in Event, Ack(r, e) PROVE OrderInv'
  <2>1. Delivered' = Delivered \union {e}
    BY <1>7, SMTT(30) DEF Ack, Delivered
  <2>2. \A x \in committed : Before(x, e) /\ refused[x] = 0 => x \in Delivered
    BY <1>7, SentInOrder, Zenon DEF Ack
  <2>3. UNCHANGED <<committed, refused, late>> /\ todo' = [todo EXCEPT ![r] = @ \ {e}]
    BY <1>7, Zenon DEF Ack
  <2> QED
    BY <2>1, <2>2, <2>3 DEF OrderInv, Before
<1>8. ASSUME NEW r \in Relays, NEW e \in Event, Reject(r, e) PROVE OrderInv'
  BY <1>8, SMTT(30) DEF Reject, OrderInv, Before, Delivered
<1>9. ASSUME NEW r \in Relays, NEW e \in Event, Outage(r, e) PROVE OrderInv'
  <2>1. \A x \in committed : Before(x, e) /\ refused[x] = 0 => x \in Delivered
    BY <1>9, SentInOrder, Zenon DEF Outage
  <2>2. UNCHANGED <<committed, refused, copies, todo>> /\ late' \subseteq late \union {e}
    BY <1>9, Zenon DEF Outage
  <2> QED
    BY <2>1, <2>2 DEF OrderInv, Before, Delivered
<1>10. CASE Quiet
  BY <1>1, <1>10, Zenon DEF Quiet
<1>11. ASSUME NEW r \in Relays, TryLock(r) \/ RolledBack(r) \/ SessionLost(r) \/ Settled(r)
       PROVE  OrderInv'
  BY <1>1, <1>2, <1>11, Zenon
<1> QED
  BY <1>3, <1>4, <1>5, <1>6, <1>7, <1>8, <1>9, <1>10, <1>11 DEF Step, RelayStep, EventStep

----------------------------------------------------------------------------
(* The theorems.                                                           *)

\* IInv is inductive.
THEOREM Inductive == Spec => []IInv
<1>1. Init => IInv
  BY DEF Init, IInv, TypeOK, PCs, PassInv, LockInv, RefusalInv, StreamInv, OrderInv,
         DupInv, NoEventLost, Delivered
<1>2. IInv /\ [Next]_vars => IInv'
  BY Steps, TypeStep, PassStep, LockStep, RefusalStep, StreamStep, OrderStep, DupStep, Zenon DEF IInv
<1> QED
  BY <1>1, <1>2, PTL DEF Spec

\* No committed event is lost (NoEventLost), for any number of replicas, any
\* batch size, and any number of outages, lost sessions, failed commits and
\* crashes of the relays.
THEOREM NoEventLostProved == Spec => []NoEventLost
<1>1. IInv => NoEventLost
  BY Zenon DEF IInv, StreamInv
<1> QED
  BY <1>1, Inductive, PTL

\* The first deliveries of a task's events are in the order of its commits,
\* even while two relays publish at once.
THEOREM FirstDeliveriesInOrderProved == Spec => []FirstDeliveriesInOrder
<1>1. IInv => FirstDeliveriesInOrder
  BY Zenon DEF IInv, StreamInv, OrderInv, Before, FirstDeliveriesInOrder
<1> QED
  BY <1>1, Inductive, PTL

\* Duplicates come from failures only.
THEOREM DuplicateNeedsFailureProved == Spec => []DuplicateNeedsFailure
<1>1. IInv => DuplicateNeedsFailure
  <2> SUFFICES ASSUME IInv, NEW e \in Event, e \notin dirty PROVE ~ (copies[e] > 1)
    BY Zenon DEF DuplicateNeedsFailure
  <2> copies[e] \in Nat /\ copies[e] <= 1
    BY Zenon DEF IInv, TypeOK, DupInv
  <2> QED
    OBVIOUS
<1> QED
  BY <1>1, Inductive, PTL

\* The rejections column never exceeds the refusals of the broker.
THEOREM OnlyRefusalsKillProved == Spec => []OnlyRefusalsKill
<1>1. IInv => OnlyRefusalsKill
  BY Zenon DEF IInv, RefusalInv, OnlyRefusalsKill
<1> QED
  BY <1>1, Inductive, PTL

\* OutboxRelay implements EventStream: an acknowledged or late record is a
\* Deliver (or, for a duplicate, a stutter), a refusal is a Refuse, and what
\* the relays do to the table, the lock and the loop is invisible.
THEOREM ImplementsEventStreamProved == Spec => ImplementsEventStream
<1> USE DEF Stream!streamVars, Delivered
<1>1. Init => Stream!Init
  BY SMTT(30) DEF Init, Stream!Init
<1>2. ASSUME IInv, [Next]_vars PROVE [Stream!Next]_(Stream!streamVars)
  <2> TypeOK /\ PassInv /\ StreamInv /\ OrderInv /\ Step
    BY <1>2, Steps, Zenon DEF IInv
  <2> USE DEF table, batch, broker, bounds
  <2>1. ASSUME NEW e \in Event, Commit(e) PROVE Stream!Commit(e)
    BY <2>1, Zenon DEF Commit, Insert, Stream!Commit
  <2>2. ASSUME NEW e \in Event, e \in committed, UNCHANGED <<committed, refused>>,
               copies' = [copies EXCEPT ![e] = @ + 1],
               \A f \in committed : Before(f, e) /\ refused[f] = 0 => f \in Delivered
        PROVE  Stream!Deliver(e)
    <3>1. Delivered' = Delivered \union {e}
      BY <2>2, SMTT(30) DEF TypeOK
    <3>2. \A f \in committed : refused[f] \in Nat /\ f \in Event
      BY Zenon DEF TypeOK
    <3> QED
      BY <2>2, <3>1, <3>2 DEF Stream!Deliver, Before
  <2>3. ASSUME NEW e \in Event, LateArrival(e) PROVE Stream!Deliver(e)
    <3>1. e \in committed
      BY <2>3, Zenon DEF LateArrival, StreamInv
    <3>2. \A f \in committed : Before(f, e) /\ refused[f] = 0 => f \in Delivered
      BY <2>3, <3>1, Zenon DEF LateArrival, OrderInv
    <3> QED
      BY <2>2, <2>3, <3>1, <3>2, Zenon DEF LateArrival
  <2>4. ASSUME NEW r \in Relays, NEW e \in Event, Ack(r, e) PROVE Stream!Deliver(e)
    <3>1. e \in committed
      BY <2>4, Zenon DEF Ack, Sending, First, PassInv
    <3>2. \A f \in committed : Before(f, e) /\ refused[f] = 0 => f \in Delivered
      BY <2>4, SentInOrder, SMTT(30) DEF Ack
    <3> QED
      <4>1. UNCHANGED <<committed, refused>> /\ copies' = [copies EXCEPT ![e] = @ + 1]
        BY <2>4, Zenon DEF Ack
      <4> QED
        BY <2>2, <3>1, <3>2, <4>1, Zenon
  <2>5. ASSUME NEW r \in Relays, NEW e \in Event, Reject(r, e) PROVE Stream!Refuse(e)
    BY <2>5 DEF TypeOK, Reject, Sending, First, PassInv, Stream!Refuse
  <2>6. CASE UNCHANGED <<committed, copies, refused>>
    BY <2>6, Zenon
  <2>7. ASSUME NEW r \in Relays, RelayStep(r) PROVE UNCHANGED <<committed, copies, refused>>
    BY <2>7, Zenon DEF RelayStep, TryLock, Select, Settled, RolledBack, SessionLost, Crashed
  <2>8. ASSUME NEW r \in Relays, NEW e \in Event, Outage(r, e)
        PROVE  UNCHANGED <<committed, copies, refused>>
    BY <2>8, Zenon DEF Outage
  <2>9. Quiet => UNCHANGED <<committed, copies, refused>>
    BY Zenon DEF Quiet
  <2> HIDE DEF Stream!streamVars, Delivered
  <2> QED
    BY <2>1, <2>3, <2>4, <2>5, <2>6, <2>7, <2>8, <2>9, Zenon DEF Step, EventStep, Stream!Next
<1> QED
  BY <1>1, <1>2, Inductive, PTL DEF Spec, Stream!Spec, ImplementsEventStream
============================================================================
