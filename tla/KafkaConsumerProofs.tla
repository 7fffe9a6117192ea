------------------------ MODULE KafkaConsumerProofs ------------------------
(***************************************************************************)
(* The safety of the consumer group for any number of members, partitions  *)
(* and records: no record is skipped, records are first settled in order,  *)
(* the committed offset never moves back, and without failures no record   *)
(* is settled twice.                                                       *)
(*                                                                         *)
(* First come the type invariant and the steps as the proofs use them.     *)
(* Each action has an effect, XEff, that says member by member what it     *)
(* changes; the effects are derived from the actions once, with what no    *)
(* step of a member does to the others.  Then come the inductive           *)
(* invariants, and the theorems.                                           *)
(***************************************************************************)
EXTENDS KafkaConsumer, TLAPS

\* What the invariants need of a member's types, value by value.
Points(m) ==
  /\ batch[m] \subseteq Record /\ current[m] \subseteq Record /\ owned[m] \subseteq Partitions
  /\ \A p \in Partitions : committed[p] \in Nat /\ pending[m][p] \in Nat /\ position[m][p] \in Nat
  /\ \A x \in Record : x.part \in Partitions /\ x.off \in Nat

\* TypeOK gives it.
LEMMA TypePoints == ASSUME TypeOK, NEW m \in Members PROVE Points(m)
<1>1. batch[m] \subseteq Record /\ current[m] \subseteq Record
  BY Zenon DEF TypeOK, LoopType
<1>2. /\ owned[m] \subseteq Partitions
      /\ \A p \in Partitions : pending[m][p] \in Nat /\ position[m][p] \in Nat
  BY SizesAssumption DEF TypeOK, GroupType
<1>3. \A p \in Partitions : committed[p] \in Nat
  BY SizesAssumption DEF TypeOK, BrokerType
<1>4. \A x \in Record : x.part \in Partitions /\ x.off \in Nat
  BY SizesAssumption DEF Record
<1>5. QED
  BY <1>1, <1>2, <1>3, <1>4, Zenon DEF Points

\* A commit, successful or not, replaces offsets by pending ones.
LEMMA CommitEffect ==
  ASSUME BrokerType, GroupType, faults \in Nat,
         NEW m \in Members, NEW only \in SUBSET Partitions,
         CommitOK(m, only) \/ CommitFails(m, only)
  PROVE  /\ committed' \in [Partitions -> 0..Records] /\ faults' \in Nat
         /\ \A p \in Partitions :
              \/ committed'[p] = committed[p]
              \/ /\ p \in only /\ p \in owned[m] /\ m \notin expelled
                 /\ pending[m][p] > 0 /\ committed'[p] = pending[m][p]
<1>1. ASSUME NEW S \in SUBSET Offsets(m, only)
      PROVE  /\ Applied(m, S) \in [Partitions -> 0..Records]
             /\ \A p \in Partitions :
                  \/ Applied(m, S)[p] = committed[p]
                  \/ /\ p \in only /\ p \in owned[m] /\ pending[m][p] > 0
                     /\ Applied(m, S)[p] = pending[m][p]
  BY DEF Applied, Offsets, BrokerType, GroupType
<1>2. \E S \in SUBSET Offsets(m, only) : committed' = Applied(m, S) /\ (m \in expelled => S = {})
  <2>1. CASE CommitOK(m, only)
    BY <2>1, Zenon DEF CommitOK
  <2>2. CASE CommitFails(m, only) /\ m \in expelled
    <3>1. Applied(m, {}) = committed
      BY Zenon DEF Applied, BrokerType
    <3>2. QED
      BY <2>2, <3>1, Zenon DEF CommitFails
  <2>3. CASE CommitFails(m, only) /\ m \notin expelled
    BY <2>3, Zenon DEF CommitFails
  <2>4. QED
    BY <2>1, <2>2, <2>3, Zenon
<1>3. PICK S \in SUBSET Offsets(m, only) : committed' = Applied(m, S) /\ (m \in expelled => S = {})
  BY <1>2, Zenon
<1>4. CASE m \in expelled
  <2>1. Applied(m, {}) = committed
    BY Zenon DEF Applied, BrokerType
  <2>2. committed' = committed
    BY <1>3, <1>4, <2>1, Zenon
  <2>3. QED
    BY <1>4, <2>2, Zenon DEF CommitOK, CommitFails, BrokerType
<1>5. CASE m \notin expelled
  <2>1. faults' \in Nat
    BY <1>5 DEF CommitOK, CommitFails
  <2>2. QED
    BY <1>1, <1>3, <1>5, <2>1, Zenon
<1>6. QED
  BY <1>4, <1>5, Zenon

\* Forget clears exactly the named offsets of the member.
LEMMA ForgetEffect ==
  ASSUME GroupType, NEW m \in Members, NEW lost, Forget(m, lost)
  PROVE  /\ pending' \in [Members -> [Partitions -> 0..Records]]
         /\ \A q \in Members, p \in Partitions :
              pending'[q][p] = IF q = m /\ p \in lost THEN 0 ELSE pending[q][p]
BY SizesAssumption DEF GroupType, Forget

\* A returning Poll hands its records to the loop or, at shutdown, drops them.
LEMMA ReturnedEffect ==
  ASSUME LoopType, NEW m \in Members, Returned(m, batch[m])
  PROVE  /\ pc' \in [Members -> PCs] /\ batch' \in [Members -> SUBSET Record]
         /\ \A q \in Members : q # m => pc'[q] = pc[q] /\ batch'[q] = batch[q]
         /\ \/ pc'[m] = "close" /\ batch'[m] = {}
            \/ pc'[m] = "batch" /\ batch'[m] = batch[m]
<1>1. "close" \in PCs /\ "batch" \in PCs
  BY Zenon DEF PCs
<1>2. QED
  BY <1>1, Zenon DEF LoopType, Returned, Goto

\* Releasing partitions keeps the type of the assignment.
LEMMA ReleaseType ==
  ASSUME BrokerType, NEW m, NEW R, Release(m, R)
  PROVE  assigned' \in [Partitions -> Members \union {Nobody}]
BY Zenon DEF BrokerType, Release

\* Every step keeps the types.
LEMMA TypeStep ==
  ASSUME TypeOK, NEW m \in Members, MemberNext(m)
  PROVE  TypeOK'
<1>1. BrokerType /\ LoopType /\ GroupType /\ RestType
  BY Zenon DEF TypeOK
<1>2. \A pos \in PCs : Goto(m, pos) => pc' \in [Members -> PCs]
  BY <1>1, Zenon DEF Goto, LoopType
<1>3. {"poll", "batch", "handle", "park", "commit", "commitStop", "close", "stopped"} = PCs
  BY Zenon DEF PCs
<1>4. 0 \in 0..(MaxRetries + 1) /\ 1 \in 0..(MaxRetries + 1) /\ 0 \in 0..Records
  BY SizesAssumption
<1>5. /\ UNCHANGED broker => BrokerType'
      /\ UNCHANGED loop => LoopType'
      /\ UNCHANGED group => GroupType'
      /\ UNCHANGED <<shut, settled>> /\ (UNCHANGED bounds \/ Fault) => RestType'
  <2>1. UNCHANGED broker => BrokerType'
    BY <1>1, Zenon DEF broker, BrokerType
  <2>2. UNCHANGED loop => LoopType'
    BY <1>1, Zenon DEF loop, LoopType
  <2>3. UNCHANGED group => GroupType'
    BY <1>1, Zenon DEF group, GroupType
  <2>4. UNCHANGED <<shut, settled>> /\ (UNCHANGED bounds \/ Fault) => RestType'
    BY <1>1, SMTT(30) DEF shut, bounds, Fault, RestType
  <2>5. QED
    BY <2>1, <2>2, <2>3, <2>4, Zenon
<1>6. CASE CommitPending(m)
  <2>1. committed' \in [Partitions -> 0..Records] /\ faults' \in Nat
    BY <1>1, <1>6, CommitEffect, Zenon DEF CommitPending, RestType
  <2>2. pending' \in [Members -> [Partitions -> 0..Records]]
    BY <1>1, <1>6, ForgetEffect, Zenon DEF CommitPending
  <2>3. LoopType'
    BY <1>1, <1>2, <1>3, <1>6, Zenon DEF CommitPending, LoopType
  <2>4. QED
    BY <1>1, <1>6, <2>1, <2>2, <2>3, Zenon DEF CommitPending, TypeOK, BrokerType, GroupType, RestType, shut
<1>7. CASE PollReturns(m)
  <2>1. LoopType'
    BY <1>1, <1>7, ReturnedEffect, Zenon DEF PollReturns, LoopType
  <2>2. QED
    BY <1>5, <1>7, <2>1, Zenon DEF PollReturns, TypeOK
<1>8. CASE ClientFails(m)
  <2>1. LoopType'
    BY <1>1, <1>2, <1>3, <1>8, Zenon DEF ClientFails, LoopType
  <2>2. QED
    BY <1>5, <1>8, <2>1, Zenon DEF ClientFails, TypeOK
<1>9. CASE Lose(m)
  <2>1. LoopType'
    BY <1>1, <1>9, ReturnedEffect, Zenon DEF Lose, LoopType
  <2>2. GroupType'
    BY <1>1, <1>9, ForgetEffect, Zenon DEF Lose, GroupType
  <2>3. QED
    BY <1>1, <1>5, <1>9, <2>1, <2>2, Zenon DEF Lose, TypeOK, BrokerType
<1>10. CASE EndBatch(m)
  <2>1. LoopType'
    BY <1>1, <1>2, <1>3, <1>10, Zenon DEF EndBatch, LoopType
  <2>2. QED
    BY <1>5, <1>10, <2>1, Zenon DEF EndBatch, TypeOK
<1>11. GiveUp(m) => LoopType'
  BY <1>1, <1>2, <1>3, <1>4 DEF GiveUp, LoopType
<1>12. \A pos \in PCs, n \in 0..(MaxRetries + 1) : Try(m, pos, n) => LoopType'
  BY <1>1, <1>2, Zenon DEF Try, LoopType
<1>13. CASE HandlerFails(m)
  <2>1. attempt[m] <= MaxRetries => attempt[m] + 1 \in 0..(MaxRetries + 1)
    BY <1>1, SizesAssumption, SMTT(30) DEF LoopType
  <2>2. LoopType'
    BY <1>3, <1>4, <1>11, <1>12, <1>13, <2>1, Zenon DEF HandlerFails
  <2>3. QED
    BY <1>5, <1>13, <2>2, Zenon DEF HandlerFails, TypeOK
<1>14. CASE ParkFails(m)
  <2>1. ~ (attempt[m] >= MaxRetries) => attempt[m] + 1 \in 0..(MaxRetries + 1)
    BY <1>1, SizesAssumption DEF LoopType
  <2>2. LoopType'
    <3>1. "park" \in PCs
      BY <1>3, Zenon
    <3>2. QED
      BY <1>11, <1>12, <1>14, <2>1, <3>1, Zenon DEF ParkFails
  <2>3. QED
    BY <1>5, <1>14, <2>2, Zenon DEF ParkFails, TypeOK
<1>15. CASE Cancel(m) \/ DrainTimeout(m)
  <2>1. CASE Cancel(m)
    <3>1. RestType'
      BY <1>1, <2>1 DEF Cancel, RestType
    <3>2. QED
      BY <1>5, <2>1, <3>1, Zenon DEF Cancel, TypeOK
  <2>2. CASE DrainTimeout(m)
    <3>1. RestType'
      BY <1>1, <2>2, Zenon DEF DrainTimeout, RestType, bounds
    <3>2. QED
      BY <1>5, <2>2, <3>1, Zenon DEF DrainTimeout, TypeOK
  <2>3. QED
    BY <1>15, <2>1, <2>2, Zenon
<1>16. Gone(m) => /\ pc' \in [Members -> PCs] /\ GroupType'
                  /\ assigned' \in [Partitions -> Members \union {Nobody}] /\ expelled' \subseteq Members
  <2>1. Gone(m) => pc' \in [Members -> PCs]
    BY <1>2, <1>3, Zenon DEF Gone
  <2>2. Gone(m) => GroupType'
    BY <1>1, ForgetEffect, SMTT(30) DEF Gone, GroupType
  <2>3. Gone(m) => assigned' \in [Partitions -> Members \union {Nobody}] /\ expelled' \subseteq Members
    BY <1>1, ReleaseType, Zenon DEF Gone, BrokerType
  <2>4. QED
    BY <2>1, <2>2, <2>3, Zenon
<1>17. CASE Close(m)
  <2>1. committed' \in [Partitions -> 0..Records] /\ faults' \in Nat
    <3>1. owned[m] \in SUBSET Partitions
      BY <1>1, Zenon DEF GroupType
    <3>2. QED
      BY <1>1, <1>17, <3>1, CommitEffect, Zenon DEF Close, BrokerType, RestType
  <2>2. QED
    BY <1>1, <1>16, <1>17, <2>1, Zenon DEF Close, TypeOK, BrokerType, LoopType, RestType, shut
<1>18. CASE Crash(m)
  <2>1. LoopType'
    BY <1>1, <1>4, <1>16, <1>18, Zenon DEF Crash, LoopType
  <2>2. QED
    BY <1>1, <1>5, <1>16, <1>18, <2>1, Zenon DEF Crash, TypeOK, BrokerType
<1>19. CASE Restart(m)
  <2>1. LoopType' /\ RestType'
    BY <1>1, <1>2, <1>3, <1>19, Zenon DEF Restart, LoopType, RestType, bounds
  <2>2. QED
    BY <1>5, <1>19, <2>1, Zenon DEF Restart, TypeOK
<1>20. CASE Expel(m)
  <2>1. BrokerType'
    BY <1>1, <1>20, ReleaseType, Zenon DEF Expel, BrokerType
  <2>2. QED
    BY <1>5, <1>20, <2>1, Zenon DEF Expel, TypeOK
<1>21. ASSUME NEW p \in Partitions, Assign(m, p) PROVE TypeOK'
  <2>1. BrokerType' /\ GroupType'
    BY <1>1, <1>21, Zenon DEF Assign, BrokerType, GroupType
  <2>2. QED
    BY <1>5, <1>21, <2>1, Zenon DEF Assign, TypeOK
<1>22. ASSUME NEW p \in Partitions, Fetch(m, p) PROVE TypeOK'
  <2>1. position[m][p] \in 0..Records /\ position[m][p] < Records
    BY <1>1, <1>22, Zenon DEF Fetch, GroupType
  <2>2. [part |-> p, off |-> position[m][p]] \in Record /\ position[m][p] + 1 \in 0..Records
    BY <2>1, SizesAssumption, SMTT(30) DEF Record
  <2>3. LoopType'
    BY <1>1, <1>22, <2>2, Zenon DEF Fetch, LoopType
  <2>4. GroupType'
    BY <1>1, <1>22, <2>2, Zenon DEF Fetch, GroupType
  <2>5. QED
    BY <1>5, <1>22, <2>3, <2>4, Zenon DEF Fetch, TypeOK
<1>23. ASSUME NEW R \in SUBSET Partitions, Revoke(m, R) PROVE TypeOK'
  <2>1. committed' \in [Partitions -> 0..Records] /\ faults' \in Nat
    BY <1>1, <1>23, CommitEffect, Zenon DEF Revoke, RestType
  <2>2. BrokerType'
    BY <1>1, <1>23, <2>1, ReleaseType, Zenon DEF Revoke, BrokerType
  <2>3. GroupType'
    BY <1>1, <1>23, ForgetEffect, Zenon DEF Revoke, GroupType
  <2>4. LoopType'
    BY <1>1, <1>23, ReturnedEffect, Zenon DEF Revoke, LoopType, Without
  <2>5. QED
    BY <1>1, <1>23, <2>1, <2>2, <2>3, <2>4, SMTT(30) DEF Revoke, TypeOK, RestType, shut
<1>24. ASSUME NEW x \in Record, Take(m, x) PROVE TypeOK'
  <2>1. LoopType'
    BY <1>1, <1>2, <1>3, <1>4, <1>24 DEF Take, LoopType
  <2>2. QED
    BY <1>5, <1>24, <2>1, Zenon DEF Take, TypeOK
<1>25. ASSUME NEW x \in Record, Settle(m, x) PROVE TypeOK'
  <2>1. x.part \in Partitions /\ x.off + 1 \in 0..Records
    BY SizesAssumption, SMTT(30) DEF Record
  <2>2. GroupType'
    BY <1>1, <1>25, <2>1, Zenon DEF Settle, GroupType
  <2>3. LoopType'
    BY <1>1, <1>2, <1>3, <1>4, <1>25, Zenon DEF Settle, LoopType
  <2>4. RestType'
    BY <1>1, <1>25 DEF Settle, RestType, shut, bounds
  <2>5. QED
    BY <1>5, <1>25, <2>2, <2>3, <2>4, Zenon DEF Settle, TypeOK
<1>26. QED
  BY <1>6, <1>7, <1>8, <1>9, <1>10, <1>13, <1>14, <1>15, <1>17, <1>18, <1>19, <1>20,
     <1>21, <1>22, <1>23, <1>24, <1>25, Zenon DEF MemberNext

----------------------------------------------------------------------------
(* The steps.                                                              *)


\* The coordinator's assignment and what the member believes to own.
OwnOK(m) == \A p \in Partitions : assigned[p] = m <=> p \in owned[m] /\ m \notin expelled

\* Which parts of the loop's state are in use where.
LoopOK(m) ==
  /\ current[m] # {} => pc[m] \in {"handle", "park"}
  /\ \A x, y \in current[m] : x = y
  /\ batch[m] # {} => pc[m] \in {"poll", "batch", "handle", "park"}
  /\ pc[m] = "poll" => \A x \in batch[m] : x.part \in owned[m]
  /\ pc[m] = "stopped" => owned[m] = {}

\* The record being handled is the next of its partition.
CurOK(m) ==
  \A x \in current[m] :
    /\ x.part \in owned[m]
    /\ \A y \in Record : y.part = x.part /\ y.off < x.off => settled[y] > 0
    /\ \A y \in batch[m] : y.part = x.part => x.off < y.off

\* Pending offsets are of owned partitions and cover settled records only.
PendOK(m) ==
  \A p \in Partitions : pending[m][p] > 0 =>
    /\ p \in owned[m]
    /\ \A y \in Record : y.part = p /\ y.off < pending[m][p] => settled[y] > 0

OwnInv  == \A m \in Members : OwnOK(m)
LoopInv == \A m \in Members : LoopOK(m)
CurInv  == \A m \in Members : CurOK(m)
PendInv == \A m \in Members : PendOK(m)

\* Nothing of another member changes.
Others(m) ==
  \A q \in Members : q # m =>
    /\ pc'[q] = pc[q] /\ batch'[q] = batch[q] /\ current'[q] = current[q]
    /\ owned'[q] = owned[q] /\ (q \in expelled' <=> q \in expelled)
    /\ \A p \in Partitions : pending'[q][p] = pending[q][p] /\ position'[q][p] = position[q][p]

\* A committed offset stays or becomes what an unexpelled owner has pending.
Committed(m) ==
  \A p \in Partitions :
    \/ committed'[p] = committed[p]
    \/ /\ p \in owned[m] /\ m \notin expelled
       /\ pending[m][p] > 0 /\ committed'[p] = pending[m][p]

Released(m) == \A p \in Partitions : assigned'[p] = IF assigned[p] = m THEN Nobody ELSE assigned[p]

\* The commit after a batch.
CommitPendingEff(m) ==
  /\ pc[m] \in {"commit", "commitStop"} /\ Others(m) /\ Committed(m)
  /\ UNCHANGED <<assigned, expelled, batch, current, owned, position, settled>>
  /\ pc'[m] = IF pc[m] = "commit" THEN "poll" ELSE "close"
  /\ \A p \in Partitions : pending'[m][p] = pending[m][p] \/ pending'[m][p] = 0

\* A Poll that returns: to the loop with its records, or to Close.
PollReturnsEff(m) ==
  /\ pc[m] = "poll" /\ Others(m)
  /\ UNCHANGED <<committed, assigned, expelled, current, owned, pending, position, settled>>
  /\ \/ pc'[m] = "close" /\ batch'[m] = {}
     \/ pc'[m] = "batch" /\ batch'[m] = batch[m]

\* An expelled member finds out: it owns nothing and forgets what was pending.
LoseEff(m) ==
  /\ pc[m] = "poll" /\ Others(m) /\ m \notin expelled' /\ owned'[m] = {}
  /\ UNCHANGED <<committed, assigned, current, position, settled>> /\ m \in expelled
  /\ \A p \in Partitions : pending'[m][p] = IF p \in owned[m] THEN 0 ELSE pending[m][p]
  /\ \/ pc'[m] = "close" /\ batch'[m] = {}
     \/ pc'[m] = "batch" /\ batch'[m] = batch[m]
     \/ pc'[m] = "poll" /\ batch'[m] = {}

EndBatchEff(m) ==
  /\ pc[m] = "batch" /\ Others(m)
  /\ UNCHANGED <<committed, assigned, expelled, current, owned, pending, position, settled>>
  /\ batch'[m] = {}
  /\ pc'[m] = "commitStop" \/ (pc'[m] = "commit" /\ batch[m] = {})

\* A failed attempt is retried, or the record and the batch are given up.
FailureEff(m) ==
  /\ pc[m] \in {"handle", "park"} /\ Others(m)
  /\ UNCHANGED <<committed, assigned, expelled, owned, pending, position, settled>>
  /\ \/ pc'[m] = "commitStop" /\ batch'[m] = {} /\ current'[m] = {}
     \/ pc'[m] \in {"handle", "park"} /\ UNCHANGED <<batch, current>>

\* The end of the context or of the drain budget.
IdleEff(m) ==
  /\ Others(m)
  /\ UNCHANGED <<committed, assigned, expelled, pc, batch, current, owned, pending,
                 position, settled>>

\* Leaving the group commits what the member still owns, or fails to.
CloseEff(m) ==
  /\ pc[m] = "close" /\ Others(m) /\ Committed(m) /\ Released(m)
  /\ UNCHANGED <<batch, current, position, settled>>
  /\ pc'[m] = "stopped" /\ owned'[m] = {} /\ m \notin expelled'
  /\ \A p \in Partitions : pending'[m][p] = 0

\* A crash: like leaving, without the commit.
CrashEff(m) ==
  /\ Others(m) /\ Released(m) /\ UNCHANGED <<committed, position, settled>>
  /\ pc'[m] = "stopped" /\ owned'[m] = {} /\ m \notin expelled'
  /\ batch'[m] = {} /\ current'[m] = {}
  /\ \A p \in Partitions : pending'[m][p] = 0

RestartEff(m) ==
  /\ pc[m] = "stopped" /\ pc'[m] = "poll" /\ Others(m)
  /\ UNCHANGED <<committed, assigned, expelled, batch, current, owned, pending, position,
                 settled>>

ExpelEff(m) ==
  /\ m \in expelled' /\ Others(m) /\ Released(m)
  /\ UNCHANGED <<committed, pc, batch, current, owned, pending, position, settled>>

\* A new partition starts at its committed offset.
AssignEff(m, p) ==
  /\ pc[m] = "poll" /\ m \notin expelled /\ assigned[p] = Nobody /\ Others(m)
  /\ UNCHANGED <<committed, expelled, pc, batch, current, pending, settled>>
  /\ \A r \in Partitions : assigned'[r] = IF r = p THEN m ELSE assigned[r]
  /\ owned'[m] = owned[m] \union {p}
  /\ \A r \in Partitions : position'[m][r] = IF r = p THEN committed[p] ELSE position[m][r]

\* A fetched record is the one at the position, which moves on.
FetchEff(m, x) ==
  /\ pc[m] = "poll" /\ x.part \in owned[m] /\ x.off = position[m][x.part] /\ Others(m)
  /\ \A y \in Record : y.part = x.part /\ y.off = x.off => y = x
  /\ UNCHANGED <<committed, assigned, expelled, pc, current, owned, pending, settled>>
  /\ batch'[m] = batch[m] \union {x}
  /\ \A r \in Partitions :
       position'[m][r] = IF r = x.part THEN position[m][r] + 1 ELSE position[m][r]

\* An orderly revocation: committed or given up, then no longer owned.
RevokeEff(m, R) ==
  /\ pc[m] = "poll" /\ m \notin expelled /\ R \subseteq owned[m] /\ Others(m) /\ Committed(m)
  /\ UNCHANGED <<expelled, current, position, settled>>
  /\ owned'[m] = owned[m] \ R
  /\ \A p \in Partitions : pending'[m][p] = IF p \in R THEN 0 ELSE pending[m][p]
  /\ \A p \in Partitions : assigned'[p] = IF p \in R THEN Nobody ELSE assigned[p]
  /\ \A p \in Partitions : committed'[p] # committed[p] => p \in R
  /\ \/ pc'[m] = "close" /\ batch'[m] = {}
     \/ pc'[m] = "batch" /\ batch'[m] = batch[m]
     \/ pc'[m] = "poll" /\ batch'[m] = Without(batch[m], R)

\* The next record of a partition is taken from the batch; it is dropped when
\* the partition has moved.
TakeEff(m, x) ==
  /\ pc[m] = "batch" /\ First(x, batch[m]) /\ Others(m)
  /\ UNCHANGED <<committed, assigned, expelled, owned, pending, position, settled>>
  /\ batch'[m] = batch[m] \ {x}
  /\ \/ x.part \in owned[m] /\ pc'[m] = "handle" /\ current'[m] = {x}
     \/ x.part \notin owned[m] /\ pc'[m] = "batch" /\ current'[m] = current[m]

\* A settled record is counted and becomes the partition's pending offset.
SettleEff(m, x) ==
  /\ pc[m] \in {"handle", "park"} /\ x \in current[m] /\ Others(m)
  /\ UNCHANGED <<committed, assigned, expelled, batch, owned, position>>
  /\ pc'[m] = "batch" /\ current'[m] = {}
  /\ \A y \in Record : settled'[y] > 0 <=> settled[y] > 0 \/ y = x
  /\ \A p \in Partitions : pending'[m][p] = IF p = x.part THEN x.off + 1 ELSE pending[m][p]

\* Each action has its effect.
LEMMA Effects ==
  ASSUME TypeOK, NEW m \in Members
  PROVE  /\ CommitPending(m) => CommitPendingEff(m)
         /\ PollReturns(m) \/ ClientFails(m) => PollReturnsEff(m)
         /\ Lose(m) => LoseEff(m)
         /\ EndBatch(m) => EndBatchEff(m)
         /\ HandlerFails(m) \/ ParkFails(m) => FailureEff(m)
         /\ Cancel(m) \/ DrainTimeout(m) => IdleEff(m)
         /\ Close(m) => CloseEff(m)
         /\ Crash(m) => CrashEff(m)
         /\ Restart(m) => RestartEff(m)
         /\ Expel(m) => ExpelEff(m)
         /\ \A p \in Partitions : Assign(m, p) => AssignEff(m, p)
         /\ \A p \in Partitions : Fetch(m, p) => \E x \in Record : FetchEff(m, x)
         /\ \A R \in SUBSET Partitions : Revoke(m, R) => RevokeEff(m, R)
         /\ \A x \in Record : Take(m, x) => TakeEff(m, x)
         /\ \A x \in Record : Settle(m, x) => SettleEff(m, x)
<1> USE DEF broker, loop, group
<1>1. BrokerType /\ LoopType /\ GroupType /\ RestType
  BY Zenon DEF TypeOK
<1>2. \A pos : Goto(m, pos) => pc'[m] = pos /\ \A q \in Members : q # m => pc'[q] = pc[q]
  BY <1>1, Zenon DEF Goto, LoopType
<1>3. ASSUME CommitPending(m) PROVE CommitPendingEff(m)
  <2>1. Committed(m)
    BY <1>1, <1>3, CommitEffect DEF CommitPending, Committed, RestType
  <2>2. \E lost : Forget(m, lost)
    BY <1>3, Zenon DEF CommitPending
  <2>3. \A q \in Members, p \in Partitions :
          pending'[q][p] = pending[q][p] \/ (q = m /\ pending'[q][p] = 0)
    BY <1>1, <2>2, ForgetEffect, SMTT(30)
  <2>4. QED
    BY <1>2, <1>3, <2>1, <2>3, Zenon DEF CommitPending, CommitPendingEff, Others
<1>4. ASSUME PollReturns(m) PROVE PollReturnsEff(m)
  BY <1>1, <1>4, ReturnedEffect, Zenon DEF PollReturns, PollReturnsEff, Others
<1>5. ASSUME ClientFails(m) PROVE PollReturnsEff(m)
  BY <1>1, <1>2, <1>5, Zenon DEF ClientFails, PollReturnsEff, Others, LoopType
<1>6. ASSUME Lose(m) PROVE LoseEff(m)
  <2>1. /\ \A q \in Members : q # m => pc'[q] = pc[q] /\ batch'[q] = batch[q]
        /\ \/ pc'[m] = "close" /\ batch'[m] = {}
           \/ pc'[m] = "batch" /\ batch'[m] = batch[m]
           \/ pc'[m] = "poll" /\ batch'[m] = {}
    BY <1>1, <1>6, ReturnedEffect, Zenon DEF Lose, LoopType
  <2>2. \A q \in Members, p \in Partitions :
          pending'[q][p] = IF q = m /\ p \in owned[m] THEN 0 ELSE pending[q][p]
    BY <1>1, <1>6, ForgetEffect DEF Lose
  <2>3. owned'[m] = {} /\ \A q \in Members : q # m => owned'[q] = owned[q]
    BY <1>1, <1>6, Zenon DEF Lose, GroupType
  <2>4. QED
    BY <1>6, <2>1, <2>2, <2>3, SMTT(30) DEF Lose, LoseEff, Others
<1>7. ASSUME EndBatch(m) PROVE EndBatchEff(m)
  BY <1>1, <1>2, <1>7, Zenon DEF EndBatch, EndBatchEff, Others, LoopType
<1>8. ASSUME HandlerFails(m) \/ ParkFails(m) PROVE FailureEff(m)
  <2>1. GiveUp(m) \/ \E where \in {"handle", "park"}, n \in Nat : Try(m, where, n)
    BY <1>1, <1>8, SizesAssumption, SMTT(30) DEF HandlerFails, ParkFails, LoopType
  <2>2. /\ pc[m] \in {"handle", "park"}
        /\ UNCHANGED <<committed, assigned, expelled, owned, pending, position, settled>>
    BY <1>8, Zenon DEF HandlerFails, ParkFails
  <2>3. CASE GiveUp(m)
    BY <1>1, <1>2, <2>2, <2>3, Zenon DEF GiveUp, FailureEff, Others, LoopType
  <2>4. CASE \E where \in {"handle", "park"}, n \in Nat : Try(m, where, n)
    BY <1>2, <2>2, <2>4, Zenon DEF Try, FailureEff, Others
  <2>5. QED
    BY <2>1, <2>3, <2>4, Zenon
<1>9. ASSUME Cancel(m) \/ DrainTimeout(m) PROVE IdleEff(m)
  BY <1>9, Zenon DEF Cancel, DrainTimeout, IdleEff, Others
<1>10. ASSUME Gone(m)
       PROVE  /\ pc'[m] = "stopped" /\ owned'[m] = {} /\ m \notin expelled' /\ position' = position
              /\ Released(m) /\ \A p \in Partitions : pending'[m][p] = 0
              /\ \A q \in Members : q # m =>
                   /\ pc'[q] = pc[q] /\ owned'[q] = owned[q] /\ (q \in expelled' <=> q \in expelled)
                   /\ \A p \in Partitions : pending'[q][p] = pending[q][p]
  <2>1. \A q \in Members, p \in Partitions : pending'[q][p] = IF q = m THEN 0 ELSE pending[q][p]
    BY <1>1, <1>10, ForgetEffect, SMTT(30) DEF Gone
  <2>2. owned'[m] = {} /\ \A q \in Members : q # m => owned'[q] = owned[q]
    BY <1>1, <1>10, Zenon DEF Gone, GroupType
  <2>3. Released(m)
    BY <1>10, Zenon DEF Gone, Release, Released
  <2>4. QED
    BY <1>2, <1>10, <2>1, <2>2, <2>3 DEF Gone
<1>11. ASSUME Close(m) PROVE CloseEff(m)
  <2>1. owned[m] \in SUBSET Partitions
    BY <1>1, Zenon DEF GroupType
  <2>2. Committed(m)
    BY <1>1, <1>11, <2>1, CommitEffect DEF Close, Committed, RestType
  <2>3. QED
    BY <1>10, <1>11, <2>2, SMTT(30) DEF Close, CloseEff, Others
<1>12. ASSUME Crash(m) PROVE CrashEff(m)
  <2>1. /\ batch'[m] = {} /\ current'[m] = {}
        /\ \A q \in Members : q # m => batch'[q] = batch[q] /\ current'[q] = current[q]
    BY <1>1, <1>12, Zenon DEF Crash, LoopType
  <2>2. QED
    BY <1>10, <1>12, <2>1, SMTT(30) DEF Crash, CrashEff, Others
<1>13. ASSUME Restart(m) PROVE RestartEff(m)
  BY <1>2, <1>13, Zenon DEF Restart, RestartEff, Others
<1>14. ASSUME Expel(m) PROVE ExpelEff(m)
  BY <1>14, Zenon DEF Expel, Release, ExpelEff, Others, Released
<1>15. ASSUME NEW p \in Partitions, Assign(m, p) PROVE AssignEff(m, p)
  <2>1. \A r \in Partitions : assigned'[r] = IF r = p THEN m ELSE assigned[r]
    BY <1>1, <1>15, Zenon DEF Assign, BrokerType
  <2>2. /\ owned'[m] = owned[m] \union {p}
        /\ \A q \in Members : q # m => owned'[q] = owned[q]
        /\ \A q \in Members, r \in Partitions :
             position'[q][r] = IF q = m /\ r = p THEN committed[p] ELSE position[q][r]
    BY <1>1, <1>15, Zenon DEF Assign, GroupType
  <2>3. QED
    BY <1>15, <2>1, <2>2 DEF Assign, AssignEff, Others
<1>16. ASSUME NEW p \in Partitions, Fetch(m, p) PROVE \E x \in Record : FetchEff(m, x)
  <2> DEFINE x == [part |-> p, off |-> position[m][p]]
  <2>1. position[m][p] \in 0..(Records - 1)
    BY <1>1, <1>16, SizesAssumption DEF Fetch, GroupType
  <2>2. /\ x \in Record /\ x.part = p /\ x.off = position[m][p]
        /\ \A y \in Record : y.part = p /\ y.off = x.off => y = x
    BY <2>1, SMTT(30) DEF Record
  <2>3. batch'[m] = batch[m] \union {x} /\ \A q \in Members : q # m => batch'[q] = batch[q]
    BY <1>1, <1>16, Zenon DEF Fetch, LoopType
  <2>4. \A q \in Members, r \in Partitions :
          position'[q][r] = IF q = m /\ r = p THEN position[q][r] + 1 ELSE position[q][r]
    BY <1>1, <1>16, Zenon DEF Fetch, GroupType
  <2> HIDE DEF x
  <2>5. FetchEff(m, x)
    BY <1>16, <2>2, <2>3, <2>4, SMTT(30) DEF Fetch, FetchEff, Others
  <2>6. QED
    BY <2>2, <2>5, Zenon
<1>17. ASSUME NEW R \in SUBSET Partitions, Revoke(m, R) PROVE RevokeEff(m, R)
  <2>1. /\ \A q \in Members : q # m => pc'[q] = pc[q] /\ batch'[q] = batch[q]
        /\ \/ pc'[m] = "close" /\ batch'[m] = {}
           \/ pc'[m] = "batch" /\ batch'[m] = batch[m]
           \/ pc'[m] = "poll" /\ batch'[m] = Without(batch[m], R)
    BY <1>1, <1>17, ReturnedEffect, Zenon DEF Revoke, LoopType
  <2>2. \A q \in Members, p \in Partitions :
          pending'[q][p] = IF q = m /\ p \in R THEN 0 ELSE pending[q][p]
    BY <1>1, <1>17, ForgetEffect, SMTT(30) DEF Revoke
  <2>3. Committed(m) /\ \A p \in Partitions : committed'[p] # committed[p] => p \in R
    BY <1>1, <1>17, CommitEffect DEF Revoke, Committed, RestType
  <2>4. owned'[m] = owned[m] \ R /\ \A q \in Members : q # m => owned'[q] = owned[q]
    BY <1>1, <1>17, Zenon DEF Revoke, GroupType
  <2>5. \A p \in Partitions : assigned'[p] = IF p \in R THEN Nobody ELSE assigned[p]
    BY <1>17, Zenon DEF Revoke, Release
  <2>6. QED
    BY <1>17, <2>1, <2>2, <2>3, <2>4, <2>5, SMTT(30) DEF Revoke, RevokeEff, Others
<1>18. ASSUME NEW x \in Record, Take(m, x) PROVE TakeEff(m, x)
  <2>1. batch'[m] = batch[m] \ {x} /\ \A q \in Members : q # m => batch'[q] = batch[q]
    BY <1>1, <1>18, Zenon DEF Take, LoopType
  <2>2. /\ \A q \in Members : q # m => current'[q] = current[q] /\ pc'[q] = pc[q]
        /\ \/ x.part \in owned[m] /\ pc'[m] = "handle" /\ current'[m] = {x}
           \/ x.part \notin owned[m] /\ pc'[m] = "batch" /\ current'[m] = current[m]
    BY <1>1, <1>2, <1>18, Zenon DEF Take, LoopType
  <2>3. QED
    BY <1>18, <2>1, <2>2, Zenon DEF Take, TakeEff, Others
<1>19. ASSUME NEW x \in Record, Settle(m, x) PROVE SettleEff(m, x)
  <2>1. \A y \in Record : settled'[y] > 0 <=> settled[y] > 0 \/ y = x
    BY <1>1, <1>19 DEF Settle, RestType
  <2>2. x.part \in Partitions
    BY Zenon DEF Record
  <2>3. \A q \in Members, p \in Partitions :
          pending'[q][p] = IF q = m /\ p = x.part THEN x.off + 1 ELSE pending[q][p]
    BY <1>1, <1>19, <2>2, Zenon DEF Settle, GroupType
  <2>4. current'[m] = {} /\ \A q \in Members : q # m => current'[q] = current[q]
    BY <1>1, <1>19, Zenon DEF Settle, LoopType
  <2>5. QED
    BY <1>2, <1>19, <2>1, <2>3, <2>4 DEF Settle, SettleEff, Others
<1>20. QED
  BY <1>3, <1>4, <1>5, <1>6, <1>7, <1>8, <1>9, <1>11, <1>12, <1>13, <1>14, <1>15, <1>16,
     <1>17, <1>18, <1>19, SMTT(30)

\* The steps of a member, by their effects.
Step(m) ==
  \/ CommitPendingEff(m) \/ PollReturnsEff(m) \/ LoseEff(m) \/ EndBatchEff(m)
  \/ FailureEff(m) \/ IdleEff(m) \/ CloseEff(m) \/ CrashEff(m) \/ RestartEff(m) \/ ExpelEff(m)
  \/ \E p \in Partitions : AssignEff(m, p)
  \/ \E R \in SUBSET Partitions : RevokeEff(m, R)
  \/ \E x \in Record : FetchEff(m, x) \/ TakeEff(m, x) \/ SettleEff(m, x)

\* They are all there are.
LEMMA Steps == ASSUME TypeOK, NEW m \in Members, MemberNext(m) PROVE Step(m)
BY Effects, Zenon DEF MemberNext, Step

\* What no step of a member does, whichever it is: it touches nothing of the
\* other members, commits only its own pending offsets, and settles only the
\* record it is handling.
Frame(m) ==
  /\ Others(m) /\ Committed(m)
  /\ \A q \in Members, p \in Partitions : q # m => (assigned'[p] = q <=> assigned[p] = q)
  /\ \A y \in Record : settled[y] > 0 => settled'[y] > 0
  /\ \A y \in Record : settled'[y] > 0 => settled[y] > 0 \/ y \in current[m]

\* Every step is within that frame.
LEMMA FrameStep ==
  ASSUME TypeOK, OwnInv, NEW m \in Members, MemberNext(m)
  PROVE  Frame(m)
<1>1. Step(m)
  BY Steps, Zenon
<1>2. QED
  <2>1. CASE CommitPendingEff(m)
    BY <2>1, Zenon DEF CommitPendingEff, Frame, Committed
  <2>2. CASE PollReturnsEff(m) \/ EndBatchEff(m) \/ FailureEff(m) \/ IdleEff(m) \/ RestartEff(m)
    BY <2>2, Zenon DEF PollReturnsEff, EndBatchEff, FailureEff, IdleEff, RestartEff, Frame,
       Committed
  <2>3. CASE LoseEff(m)
    BY <2>3, Zenon DEF LoseEff, Frame, Committed
  <2>4. CASE CloseEff(m)
    BY <2>4, NobodyAssumption DEF CloseEff, Released, Frame, Committed
  <2>5. CASE CrashEff(m)
    BY <2>5, NobodyAssumption, Zenon DEF CrashEff, Released, Frame, Committed
  <2>6. CASE ExpelEff(m)
    BY <2>6, NobodyAssumption, Zenon DEF ExpelEff, Released, Frame, Committed
  <2>7. ASSUME NEW p \in Partitions, AssignEff(m, p) PROVE Frame(m)
    BY <2>7, NobodyAssumption, Zenon DEF AssignEff, Frame, Committed
  <2>8. ASSUME NEW x \in Record, FetchEff(m, x) PROVE Frame(m)
    BY <2>8, Zenon DEF FetchEff, Frame, Committed
  <2>9. ASSUME NEW R \in SUBSET Partitions, RevokeEff(m, R) PROVE Frame(m)
    BY <2>9, NobodyAssumption, SMTT(30) DEF RevokeEff, Without, OwnInv, OwnOK, Frame, Committed
  <2>10. ASSUME NEW x \in Record, TakeEff(m, x) PROVE Frame(m)
    BY <2>10, Zenon DEF TakeEff, First, Frame, Committed
  <2>11. ASSUME NEW x \in Record, SettleEff(m, x) PROVE Frame(m)
    BY <2>11, Zenon DEF SettleEff, Frame, Committed
  <2>12. QED
    BY <1>1, <2>1, <2>2, <2>3, <2>4, <2>5, <2>6, <2>7, <2>8, <2>9, <2>10, <2>11, Zenon DEF Step

\* The coordinator's assignment and the owned partitions change together; an
\* expelled member owns without being assigned.
LEMMA OwnStep ==
  ASSUME TypeOK, OwnInv, NEW m \in Members, MemberNext(m)
  PROVE  OwnInv'
<1>1. Step(m) /\ Frame(m) /\ Points(m)
  BY Steps, FrameStep, TypePoints, Zenon
<1>2. ASSUME NEW q \in Members, q # m PROVE OwnOK(q)'
  BY <1>1, <1>2, SMTT(30) DEF Frame, Others, OwnInv, OwnOK
<1>3. OwnOK(m)'
  <2>1. CASE CommitPendingEff(m)
    BY <2>1, Zenon DEF CommitPendingEff, OwnInv, OwnOK
  <2>2. CASE PollReturnsEff(m) \/ EndBatchEff(m) \/ FailureEff(m) \/ IdleEff(m) \/ RestartEff(m)
    BY <2>2, SMTT(30) DEF PollReturnsEff, EndBatchEff, FailureEff, IdleEff, RestartEff, OwnInv, OwnOK
  <2>3. CASE LoseEff(m)
    BY <2>3, Zenon DEF LoseEff, OwnInv, OwnOK
  <2>4. CASE CloseEff(m)
    BY <2>4, NobodyAssumption, SMTT(30) DEF CloseEff, Released, OwnInv, OwnOK
  <2>5. CASE CrashEff(m)
    BY <2>5, NobodyAssumption DEF CrashEff, Released, OwnInv, OwnOK
  <2>6. CASE ExpelEff(m)
    BY <2>6, NobodyAssumption DEF ExpelEff, Released, OwnInv, OwnOK
  <2>7. ASSUME NEW p \in Partitions, AssignEff(m, p) PROVE OwnOK(m)'
    BY <2>7, Zenon DEF AssignEff, OwnInv, OwnOK
  <2>8. ASSUME NEW x \in Record, FetchEff(m, x) PROVE OwnOK(m)'
    BY <2>8, Zenon DEF FetchEff, OwnInv, OwnOK
  <2>9. ASSUME NEW R \in SUBSET Partitions, RevokeEff(m, R) PROVE OwnOK(m)'
    BY <2>9, NobodyAssumption DEF RevokeEff, Without, OwnInv, OwnOK
  <2>10. ASSUME NEW x \in Record, TakeEff(m, x) PROVE OwnOK(m)'
    BY <2>10, Zenon DEF TakeEff, First, OwnInv, OwnOK
  <2>11. ASSUME NEW x \in Record, SettleEff(m, x) PROVE OwnOK(m)'
    BY <2>11, Zenon DEF SettleEff, OwnInv, OwnOK
  <2>12. QED
    BY <1>1, <2>1, <2>2, <2>3, <2>4, <2>5, <2>6, <2>7, <2>8, <2>9, <2>10, <2>11, Zenon DEF Step
<1>4. QED
  BY <1>2, <1>3, Zenon DEF OwnInv

\* The batch and the record in hand are there only where the loop uses them.
LEMMA LoopStep ==
  ASSUME TypeOK, OwnInv, LoopInv, NEW m \in Members, MemberNext(m)
  PROVE  LoopInv'
<1>1. Step(m) /\ Frame(m) /\ Points(m)
  BY Steps, FrameStep, TypePoints, Zenon
<1>2. ASSUME NEW q \in Members, q # m PROVE LoopOK(q)'
  BY <1>1, <1>2, SMTT(30) DEF Frame, Others, LoopInv, LoopOK
<1>3. LoopOK(m)'
  <2>1. CASE CommitPendingEff(m)
    BY <2>1, Zenon DEF CommitPendingEff, LoopInv, LoopOK
  <2>2. CASE PollReturnsEff(m) \/ EndBatchEff(m) \/ FailureEff(m) \/ IdleEff(m) \/ RestartEff(m) \/ ExpelEff(m)
    BY <2>2, Zenon DEF PollReturnsEff, EndBatchEff, FailureEff, IdleEff, RestartEff, ExpelEff,
       Released, LoopInv, LoopOK
  <2>3. CASE LoseEff(m) \/ CloseEff(m) \/ CrashEff(m)
    BY <2>3, Zenon DEF LoseEff, CloseEff, CrashEff, Released, LoopInv, LoopOK
  <2>4. ASSUME NEW p \in Partitions, AssignEff(m, p) PROVE LoopOK(m)'
    BY <2>4, Zenon DEF AssignEff, LoopInv, LoopOK
  <2>5. ASSUME NEW x \in Record, FetchEff(m, x) PROVE LoopOK(m)'
    BY <2>5, Zenon DEF FetchEff, LoopInv, LoopOK
  <2>6. ASSUME NEW R \in SUBSET Partitions, RevokeEff(m, R) PROVE LoopOK(m)'
    BY <2>6, Zenon DEF RevokeEff, Without, LoopInv, LoopOK
  <2>7. ASSUME NEW x \in Record, TakeEff(m, x) PROVE LoopOK(m)'
    BY <2>7, Zenon DEF TakeEff, First, LoopInv, LoopOK
  <2>8. ASSUME NEW x \in Record, SettleEff(m, x) PROVE LoopOK(m)'
    BY <2>8, Zenon DEF SettleEff, LoopInv, LoopOK
  <2>9. QED
    BY <1>1, <2>1, <2>2, <2>3, <2>4, <2>5, <2>6, <2>7, <2>8, Zenon DEF Step
<1>4. QED
  BY <1>2, <1>3, Zenon DEF LoopInv

\* Only settled records are marked done, and a partition that leaves takes its
\* pending offset along.
LEMMA PendStep ==
  ASSUME TypeOK, OwnInv, CurInv, PendInv, NEW m \in Members, MemberNext(m)
  PROVE  PendInv'
<1>1. Step(m) /\ Frame(m) /\ Points(m)
  BY Steps, FrameStep, TypePoints, Zenon
<1>2. ASSUME NEW q \in Members, q # m PROVE PendOK(q)'
  BY <1>1, <1>2 DEF Frame, Others, PendInv, PendOK
<1>3. PendOK(m)'
  <2>1. CASE CommitPendingEff(m)
    BY <2>1, SMTT(30) DEF CommitPendingEff, PendInv, PendOK
  <2>2. CASE PollReturnsEff(m) \/ EndBatchEff(m) \/ FailureEff(m) \/ IdleEff(m) \/ RestartEff(m) \/ ExpelEff(m)
    BY <2>2, Zenon DEF PollReturnsEff, EndBatchEff, FailureEff, IdleEff, RestartEff, ExpelEff,
       Released, PendInv, PendOK
  <2>3. CASE LoseEff(m)
    BY <2>3, SMTT(30) DEF LoseEff, PendInv, PendOK
  <2>10. CASE CloseEff(m)
    BY <2>10, SMTT(30) DEF CloseEff, PendInv, PendOK
  <2>11. CASE CrashEff(m)
    BY <2>11 DEF CrashEff, PendInv, PendOK
  <2>4. ASSUME NEW p \in Partitions, AssignEff(m, p) PROVE PendOK(m)'
    BY <2>4, Zenon DEF AssignEff, PendInv, PendOK
  <2>5. ASSUME NEW x \in Record, FetchEff(m, x) PROVE PendOK(m)'
    BY <2>5, Zenon DEF FetchEff, PendInv, PendOK
  <2>6. ASSUME NEW R \in SUBSET Partitions, RevokeEff(m, R) PROVE PendOK(m)'
    BY <2>6, SMTT(30) DEF RevokeEff, Without, PendInv, PendOK
  <2>7. ASSUME NEW x \in Record, TakeEff(m, x) PROVE PendOK(m)'
    BY <2>7, Zenon DEF TakeEff, First, PendInv, PendOK
  <2>8. ASSUME NEW x \in Record, SettleEff(m, x) PROVE PendOK(m)'
    <3>1. \A y \in Record : y.part = x.part /\ y.off < x.off + 1 => y = x \/ y.off < x.off
      BY DEF Record
    <3>2. x.part \in owned[m] /\ \A y \in Record : y.part = x.part /\ y.off < x.off => settled[y] > 0
      BY <2>8, Zenon DEF SettleEff, CurInv, CurOK
    <3>3. \A y \in Record : y.part = x.part /\ y.off < x.off + 1 => settled'[y] > 0
      BY <2>8, <3>1, <3>2, Zenon DEF SettleEff
    <3>4. QED
      BY <2>8, <3>2, <3>3, SMTT(30) DEF SettleEff, PendInv, PendOK
  <2>9. QED
    BY <1>1, <2>1, <2>2, <2>3, <2>4, <2>5, <2>6, <2>7, <2>8, <2>10, <2>11, Zenon DEF Step
<1>4. QED
  BY <1>2, <1>3, Zenon DEF PendInv

----------------------------------------------------------------------------
Running == {"poll", "batch", "handle", "park", "commit"}

Held(m) == batch[m] \union current[m]

\* What the fetch position has passed is settled or still in the batch.
PosOK(m) ==
  /\ pc[m] \in Running =>
       \A y \in Record : y.part \in owned[m] /\ y.off < position[m][y.part]
                           => settled[y] > 0 \/ y \in Held(m)
  /\ \A x \in Held(m) : x.part \in owned[m] => x.off < position[m][x.part]

\* A member that was not expelled is never behind the committed offset.
AheadOK(m) ==
  m \notin expelled => \A p \in owned[m] :
    /\ pending[m][p] > 0 => committed[p] <= pending[m][p]
    /\ committed[p] <= position[m][p] /\ pending[m][p] <= position[m][p]
    /\ \A x \in Held(m) : x.part = p => committed[p] <= x.off /\ pending[m][p] <= x.off

PosInv   == \A m \in Members : PosOK(m)
AheadInv == \A m \in Members : AheadOK(m)

IInv ==
  /\ TypeOK /\ OwnInv /\ LoopInv /\ PosInv /\ CurInv /\ PendInv /\ AheadInv
  /\ NoRecordSkipped /\ SettledInOrder

\* The loop takes the lowest offset of the batch, so what precedes the record
\* in hand is settled.
LEMMA CurStep ==
  ASSUME TypeOK, OwnInv, LoopInv, PosInv, CurInv, NEW m \in Members, MemberNext(m)
  PROVE  CurInv'
<1>1. Step(m) /\ Frame(m) /\ Points(m)
  BY Steps, FrameStep, TypePoints, Zenon
<1>2. ASSUME NEW q \in Members, q # m PROVE CurOK(q)'
  BY <1>1, <1>2 DEF Frame, Others, CurInv, CurOK
<1>3. CurOK(m)'
  <2>1. CASE CommitPendingEff(m)
    <3>1. current'[m] = {}
      BY <2>1, Zenon DEF CommitPendingEff, LoopInv, LoopOK
    <3>2. QED
      BY <3>1, Zenon DEF CurOK
  <2>2. CASE PollReturnsEff(m)
    <3>1. current'[m] = {}
      BY <2>2, Zenon DEF PollReturnsEff, LoopInv, LoopOK
    <3>2. QED
      BY <3>1, Zenon DEF CurOK
  <2>3. CASE LoseEff(m)
    <3>1. current'[m] = {}
      BY <2>3, Zenon DEF LoseEff, LoopInv, LoopOK
    <3>2. QED
      BY <3>1 DEF CurOK
  <2>4. CASE EndBatchEff(m) \/ FailureEff(m) \/ IdleEff(m) \/ RestartEff(m) \/ ExpelEff(m)
    BY <2>4, Zenon DEF EndBatchEff, FailureEff, IdleEff, RestartEff, ExpelEff, Released, CurInv,
       CurOK
  <2>5. CASE CloseEff(m)
    <3>1. current'[m] = {}
      BY <2>5, Zenon DEF CloseEff, LoopInv, LoopOK
    <3>2. QED
      BY <3>1 DEF CurOK
  <2>6. CASE CrashEff(m)
    <3>1. current'[m] = {}
      BY <2>6, Zenon DEF CrashEff, LoopInv, LoopOK
    <3>2. QED
      BY <3>1 DEF CurOK
  <2>7. ASSUME NEW p \in Partitions, AssignEff(m, p) PROVE CurOK(m)'
    <3>1. current'[m] = {}
      BY <2>7, Zenon DEF AssignEff, LoopInv, LoopOK
    <3>2. QED
      BY <3>1, Zenon DEF CurOK
  <2>8. ASSUME NEW x \in Record, FetchEff(m, x) PROVE CurOK(m)'
    <3>1. current'[m] = {}
      BY <2>8, Zenon DEF FetchEff, LoopInv, LoopOK
    <3>2. QED
      BY <3>1, Zenon DEF CurOK
  <2>9. ASSUME NEW R \in SUBSET Partitions, RevokeEff(m, R) PROVE CurOK(m)'
    <3>1. current'[m] = {}
      BY <2>9, Zenon DEF RevokeEff, LoopInv, LoopOK
    <3>2. QED
      BY <3>1, Zenon DEF CurOK
  <2>10. ASSUME NEW x \in Record, TakeEff(m, x) PROVE CurOK(m)'
    <3>1. CASE x.part \notin owned[m]
      BY <2>10, <3>1, Zenon DEF TakeEff, LoopInv, LoopOK, CurOK
    <3>2. CASE x.part \in owned[m]
      <4>1. /\ current'[m] = {x} /\ batch'[m] = batch[m] \ {x} /\ current[m] = {}
            /\ owned' = owned /\ settled' = settled /\ pc[m] = "batch" /\ x \in batch[m]
            /\ \A y \in batch[m] : y.part = x.part => x.off <= y.off
        BY <2>10, <3>2, Zenon DEF TakeEff, First, LoopInv, LoopOK
      <4>2. x.off < position[m][x.part]
        BY <3>2, <4>1, Zenon DEF PosInv, PosOK, Held
      <4>3. \A y \in Record : y.part = x.part /\ y.off < x.off => settled[y] > 0
        BY <1>1, <3>2, <4>1, <4>2 DEF PosInv, PosOK, Running, Held, Points
      <4>4. \A y \in Record : y.part = x.part /\ y.off = x.off => y = x
        BY SMTT(30) DEF Record
      <4>5. \A y \in batch[m] \ {x} : y.part = x.part => x.off < y.off
        BY <1>1, <4>1, <4>4 DEF Points
      <4>6. QED
        BY <3>2, <4>1, <4>3, <4>5, Zenon DEF CurOK
    <3>3. QED
      BY <3>1, <3>2, Zenon
  <2>11. ASSUME NEW x \in Record, SettleEff(m, x) PROVE CurOK(m)'
    <3>1. current'[m] = {}
      BY <2>11, Zenon DEF SettleEff, LoopInv, LoopOK
    <3>2. QED
      BY <3>1 DEF CurOK
  <2>12. QED
    BY <1>1, <2>1, <2>2, <2>3, <2>4, <2>5, <2>6, <2>7, <2>8, <2>9, <2>10, <2>11, Zenon DEF Step
<1>4. QED
  BY <1>2, <1>3, Zenon DEF CurInv

\* What the fetch position passes is in the batch until it is settled or its
\* partition is no longer owned.
LEMMA PosStep ==
  ASSUME TypeOK, OwnInv, LoopInv, PosInv, NoRecordSkipped, NEW m \in Members, MemberNext(m)
  PROVE  PosInv'
<1>1. Step(m) /\ Frame(m) /\ Points(m)
  BY Steps, FrameStep, TypePoints, Zenon
<1>2. ASSUME NEW q \in Members, q # m PROVE PosOK(q)'
  <2>1. \A x \in Record : x.part \in Partitions
    BY <1>1, Zenon DEF Points
  <2>2. Held(q)' = Held(q) /\ Held(q) \subseteq Record
    BY <1>1, <1>2, TypePoints, Zenon DEF Frame, Others, Held, Points
  <2>3. QED
    BY <1>1, <1>2, <2>1, <2>2 DEF Frame, Others, PosInv, PosOK
<1>3. PosOK(m)'
  <2>1. CASE CommitPendingEff(m)
    BY <2>1, Zenon DEF CommitPendingEff, PosInv, PosOK, Held, Running
  <2>2. CASE PollReturnsEff(m) \/ EndBatchEff(m) \/ FailureEff(m) \/ IdleEff(m) \/ ExpelEff(m)
    BY <2>2, Zenon DEF PollReturnsEff, EndBatchEff, FailureEff, IdleEff, ExpelEff, Released,
       PosInv, PosOK, Held, Running
  <2>3. CASE LoseEff(m) \/ CloseEff(m) \/ CrashEff(m)
    BY <2>3, Zenon DEF LoseEff, CloseEff, CrashEff, Released, PosInv, PosOK, Held, Running
  <2>4. CASE RestartEff(m)
    <3>1. owned'[m] = {}
      BY <2>4, Zenon DEF RestartEff, LoopInv, LoopOK
    <3>2. QED
      BY <3>1, Zenon DEF PosOK
  <2>5. ASSUME NEW p \in Partitions, AssignEff(m, p) PROVE PosOK(m)'
    <3>1. p \notin owned[m]
      BY <2>5, NobodyAssumption, Zenon DEF AssignEff, OwnInv, OwnOK
    <3>2. current[m] = {} /\ \A y \in batch[m] : y.part \in owned[m]
      BY <2>5, Zenon DEF AssignEff, LoopInv, LoopOK
    <3>3. ASSUME NEW y \in Record, y.part \in owned'[m], y.off < position'[m][y.part]
          PROVE  settled'[y] > 0 \/ y \in Held(m)'
      <4>1. CASE y.part = p
        BY <2>5, <3>3, <4>1, Zenon DEF AssignEff, NoRecordSkipped
      <4>2. CASE y.part # p
        BY <1>1, <2>5, <3>3, <4>2, Zenon DEF AssignEff, PosInv, PosOK, Held, Running, Points
      <4>3. QED
        BY <4>1, <4>2, Zenon
    <3>4. ASSUME NEW y \in batch[m] PROVE y.off < position'[m][y.part]
      <4>1. y.part \in owned[m] /\ y.part \in Partitions /\ y.part # p
        BY <1>1, <3>1, <3>2, Zenon DEF Points
      <4>2. QED
        BY <2>5, <4>1, Zenon DEF AssignEff, PosInv, PosOK, Held
    <3>5. QED
      BY <2>5, <3>2, <3>3, <3>4, Zenon DEF AssignEff, PosOK, Held
  <2>6. ASSUME NEW x \in Record, FetchEff(m, x) PROVE PosOK(m)'
    <3>1. ASSUME NEW y \in Record, y.part \in owned[m], y.off < position'[m][y.part]
          PROVE  settled[y] > 0 \/ y \in Held(m) \union {x}
      <4>1. CASE y.off < position[m][y.part]
        BY <2>6, <3>1, <4>1, Zenon DEF FetchEff, PosInv, PosOK, Running
      <4>2. CASE ~ (y.off < position[m][y.part])
        BY <1>1, <2>6, <3>1, <4>2, SMTT(30) DEF FetchEff, Points
      <4>3. QED
        BY <4>1, <4>2, Zenon
    <3>2. ASSUME NEW y \in Held(m) \union {x}, y.part \in owned[m] PROVE y.off < position'[m][y.part]
      <4>1. y = x \/ y.off < position[m][y.part]
        BY <3>2, Zenon DEF PosInv, PosOK
      <4>2. QED
        BY <1>1, <2>6, <3>2, <4>1 DEF FetchEff, Points, Held
    <3>3. QED
      BY <2>6, <3>1, <3>2, Zenon DEF FetchEff, PosOK, Held
  <2>7. ASSUME NEW R \in SUBSET Partitions, RevokeEff(m, R) PROVE PosOK(m)'
    BY <2>7, Zenon DEF RevokeEff, Without, PosInv, PosOK, Held, Running
  <2>8. ASSUME NEW x \in Record, TakeEff(m, x) PROVE PosOK(m)'
    <3>1. current[m] = {} /\ x \in batch[m] /\ pc[m] \in Running
      BY <2>8, Zenon DEF TakeEff, First, LoopInv, LoopOK, Running
    <3>2. QED
      BY <2>8, <3>1, Zenon DEF TakeEff, PosInv, PosOK, Held
  <2>9. ASSUME NEW x \in Record, SettleEff(m, x) PROVE PosOK(m)'
    <3>1. current[m] = {x} /\ pc[m] \in Running
      BY <2>9, Zenon DEF SettleEff, LoopInv, LoopOK, Running
    <3>2. QED
      BY <2>9, <3>1, Zenon DEF SettleEff, PosInv, PosOK, Held
  <2>10. QED
    BY <1>1, <2>1, <2>2, <2>3, <2>4, <2>5, <2>6, <2>7, <2>8, <2>9, Zenon DEF Step
<1>4. QED
  BY <1>2, <1>3, Zenon DEF PosInv

\* The committed offset of a partition moves only with its one assigned owner,
\* which never holds anything older than it.
LEMMA AheadStep ==
  ASSUME TypeOK, OwnInv, LoopInv, PosInv, CurInv, PendInv, AheadInv, NEW m \in Members, MemberNext(m)
  PROVE  AheadInv'
<1>1. Step(m) /\ Frame(m) /\ Points(m)
  BY Steps, FrameStep, TypePoints, Zenon
<1>2. ASSUME NEW q \in Members, q # m PROVE AheadOK(q)'
  <2>1. ASSUME q \notin expelled, NEW p \in owned[q] PROVE p \in Partitions /\ committed'[p] = committed[p]
    <3>1. p \in Partitions
      BY TypePoints, Zenon DEF Points
    <3>2. QED
      BY <1>1, <1>2, <2>1, <3>1, SMTT(30) DEF Frame, Committed, OwnInv, OwnOK
  <2>2. Held(q)' = Held(q)
    BY <1>1, <1>2, Zenon DEF Frame, Others, Held
  <2>3. QED
    BY <1>1, <1>2, <2>1, <2>2, SMTT(30) DEF Frame, Others, AheadInv, AheadOK
<1>3. AheadOK(m)'
  <2>1. CASE CommitPendingEff(m)
    <3>1. SUFFICES ASSUME m \notin expelled, NEW p \in owned[m]
                   PROVE  /\ pending'[m][p] > 0 => committed'[p] <= pending'[m][p]
                          /\ committed'[p] <= position[m][p] /\ pending'[m][p] <= position[m][p]
                          /\ \A y \in Held(m) : y.part = p =>
                               committed'[p] <= y.off /\ pending'[m][p] <= y.off
      BY <2>1, Zenon DEF CommitPendingEff, AheadOK, Held
    <3>2. /\ pending'[m][p] = pending[m][p] \/ pending'[m][p] = 0
          /\ committed'[p] = committed[p] \/ (pending[m][p] > 0 /\ committed'[p] = pending[m][p])
      BY <1>1, <2>1, Zenon DEF CommitPendingEff, Committed, Points
    <3>3. /\ pending[m][p] > 0 => committed[p] <= pending[m][p]
          /\ committed[p] <= position[m][p] /\ pending[m][p] <= position[m][p]
          /\ \A y \in Held(m) : y.part = p => committed[p] <= y.off /\ pending[m][p] <= y.off
      BY <3>1, Zenon DEF AheadInv, AheadOK
    <3>4. QED
      BY <1>1, <3>2, <3>3, SMTT(30) DEF Held, Points
  <2>2. CASE PollReturnsEff(m) \/ EndBatchEff(m) \/ FailureEff(m) \/ IdleEff(m) \/ RestartEff(m) \/ ExpelEff(m)
    BY <2>2, Zenon DEF PollReturnsEff, EndBatchEff, FailureEff, IdleEff, RestartEff, ExpelEff,
       Released, AheadInv, AheadOK, Held
  <2>3. CASE LoseEff(m) \/ CloseEff(m) \/ CrashEff(m)
    BY <2>3, Zenon DEF LoseEff, CloseEff, CrashEff, Released, AheadInv, AheadOK, Held
  <2>4. ASSUME NEW p \in Partitions, AssignEff(m, p) PROVE AheadOK(m)'
    <3>1. p \notin owned[m]
      BY <2>4, NobodyAssumption, Zenon DEF AssignEff, OwnInv, OwnOK
    <3>2. current[m] = {} /\ \A y \in batch[m] : y.part \in owned[m]
      BY <2>4, Zenon DEF AssignEff, LoopInv, LoopOK
    <3>3. pending[m][p] = 0
      BY <1>1, <3>1, SMTT(30) DEF PendInv, PendOK, Points
    <3>4. ASSUME NEW r \in owned'[m]
          PROVE  /\ pending[m][r] > 0 => committed[r] <= pending[m][r]
                 /\ committed[r] <= position'[m][r] /\ pending[m][r] <= position'[m][r]
                 /\ \A y \in batch[m] : y.part = r => committed[r] <= y.off /\ pending[m][r] <= y.off
      <4>1. CASE r = p
        BY <1>1, <2>4, <3>1, <3>2, <3>3, <4>1, SMTT(30) DEF AssignEff, Points
      <4>2. CASE r # p
        BY <1>1, <2>4, <3>4, <4>2, Zenon DEF AssignEff, AheadInv, AheadOK, Held, Points
      <4>3. QED
        BY <4>1, <4>2, Zenon
    <3>5. QED
      BY <2>4, <3>2, <3>4, Zenon DEF AssignEff, AheadOK, Held
  <2>5. ASSUME NEW x \in Record, FetchEff(m, x) PROVE AheadOK(m)'
    <3>1. ASSUME m \notin expelled, NEW p \in owned[m]
          PROVE  /\ pending[m][p] > 0 => committed[p] <= pending[m][p]
                 /\ committed[p] <= position'[m][p] /\ pending[m][p] <= position'[m][p]
                 /\ \A y \in Held(m) \union {x} : y.part = p =>
                      committed[p] <= y.off /\ pending[m][p] <= y.off
      <4>1. /\ pending[m][p] > 0 => committed[p] <= pending[m][p]
            /\ committed[p] <= position[m][p] /\ pending[m][p] <= position[m][p]
            /\ \A y \in Held(m) : y.part = p => committed[p] <= y.off /\ pending[m][p] <= y.off
        BY <3>1, Zenon DEF AheadInv, AheadOK
      <4>2. QED
        BY <1>1, <2>5, <4>1, SMTT(30) DEF FetchEff, Points
    <3>2. QED
      BY <2>5, <3>1, Zenon DEF FetchEff, AheadOK, Held
  <2>6. ASSUME NEW R \in SUBSET Partitions, RevokeEff(m, R) PROVE AheadOK(m)'
    <3>1. ASSUME NEW p \in owned'[m]
          PROVE  p \in owned[m] /\ pending'[m][p] = pending[m][p] /\ committed'[p] = committed[p]
      BY <1>1, <2>6, <3>1, Zenon DEF RevokeEff, Points
    <3>2. Held(m)' \subseteq Held(m)
      BY <2>6, Zenon DEF RevokeEff, Without, Held
    <3>3. QED
      BY <2>6, <3>1, <3>2, Zenon DEF RevokeEff, AheadInv, AheadOK
  <2>7. ASSUME NEW x \in Record, TakeEff(m, x) PROVE AheadOK(m)'
    BY <2>7 DEF TakeEff, First, AheadInv, AheadOK, Held
  <2>8. ASSUME NEW x \in Record, SettleEff(m, x) PROVE AheadOK(m)'
    <3>1. x.part \in owned[m] /\ \A y \in batch[m] : y.part = x.part => x.off < y.off
      BY <2>8, Zenon DEF SettleEff, CurInv, CurOK
    <3>2. x \in Held(m) /\ x.off < position[m][x.part]
      BY <2>8, <3>1, Zenon DEF SettleEff, PosInv, PosOK, Held
    <3>3. ASSUME m \notin expelled, NEW p \in owned[m]
          PROVE  /\ pending'[m][p] > 0 => committed[p] <= pending'[m][p]
                 /\ committed[p] <= position[m][p] /\ pending'[m][p] <= position[m][p]
                 /\ \A y \in batch[m] : y.part = p => committed[p] <= y.off /\ pending'[m][p] <= y.off
      <4>1. /\ pending[m][p] > 0 => committed[p] <= pending[m][p]
            /\ committed[p] <= position[m][p] /\ pending[m][p] <= position[m][p]
            /\ \A y \in Held(m) : y.part = p => committed[p] <= y.off /\ pending[m][p] <= y.off
        BY <3>3 DEF AheadInv, AheadOK
      <4>2. pending'[m][p] = IF p = x.part THEN x.off + 1 ELSE pending[m][p]
        BY <1>1, <2>8, Zenon DEF SettleEff, Points
      <4>3. CASE p # x.part
        BY <4>1, <4>2, <4>3, Zenon DEF Held
      <4>4. CASE p = x.part
        BY <1>1, <3>1, <3>2, <4>1, <4>2, <4>4 DEF Held, Points
      <4>5. QED
        BY <4>3, <4>4, Zenon
    <3>4. QED
      BY <2>8, <3>3, Zenon DEF SettleEff, AheadOK, Held
  <2>9. QED
    BY <1>1, <2>1, <2>2, <2>3, <2>4, <2>5, <2>6, <2>7, <2>8, Zenon DEF Step
<1>4. QED
  BY <1>2, <1>3, Zenon DEF AheadInv

\* A commit covers pending offsets only, so it passes no unsettled record.
LEMMA SkipStep ==
  ASSUME TypeOK, OwnInv, PendInv, NoRecordSkipped, NEW m \in Members, MemberNext(m)
  PROVE  NoRecordSkipped'
<1>1. Frame(m) /\ Points(m)
  BY FrameStep, TypePoints, Zenon
<1>2. QED
  BY <1>1, Zenon DEF Frame, Committed, Points, PendInv, PendOK, NoRecordSkipped

\* A record is settled only after everything before it in its partition.
LEMMA OrderStep ==
  ASSUME TypeOK, OwnInv, CurInv, SettledInOrder, NEW m \in Members, MemberNext(m)
  PROVE  SettledInOrder'
<1>1. Frame(m)
  BY FrameStep, Zenon
<1>2. QED
  BY <1>1, Zenon DEF Frame, CurInv, CurOK, SettledInOrder

----------------------------------------------------------------------------
(* The theorems.                                                           *)

\* The initial group, with nobody assigned anything, satisfies the invariant.
LEMMA InitInv == Init => IInv
<1> SUFFICES ASSUME Init PROVE IInv
  OBVIOUS
<1> USE NobodyAssumption, SizesAssumption DEF Init
<1>1. TypeOK
  <2>1. "poll" \in PCs
    BY Zenon DEF PCs
  <2>2. QED
    BY <2>1, SMTT(30) DEF TypeOK, BrokerType, LoopType, GroupType, RestType
<1>2. OwnInv /\ LoopInv /\ PosInv /\ CurInv
  BY Zenon DEF OwnInv, OwnOK, LoopInv, LoopOK, PosInv, PosOK, CurInv, CurOK, Held
<1>3. PendInv /\ AheadInv
  BY SMTT(30) DEF PendInv, PendOK, AheadInv, AheadOK
<1>4. NoRecordSkipped /\ SettledInOrder
  BY DEF NoRecordSkipped, SettledInOrder, Record
<1>5. QED
  BY <1>1, <1>2, <1>3, <1>4, Zenon DEF IInv

\* Every step of the group preserves the invariant.
LEMMA StepInv == IInv /\ [Next]_vars => IInv'
<1>1. ASSUME IInv, UNCHANGED vars PROVE IInv'
  <2> USE <1>1 DEF vars, broker, loop, group, shut, bounds
  <2>1. TypeOK'
    BY Zenon DEF IInv, TypeOK, BrokerType, LoopType, GroupType, RestType
  <2>2. OwnInv' /\ LoopInv' /\ CurInv' /\ PendInv'
    BY SMTT(30) DEF IInv, OwnInv, OwnOK, LoopInv, LoopOK, CurInv, CurOK, PendInv, PendOK
  <2>3. PosInv' /\ AheadInv'
    BY SMTT(30) DEF IInv, PosInv, PosOK, AheadInv, AheadOK, Held
  <2>4. NoRecordSkipped' /\ SettledInOrder'
    BY Zenon DEF IInv, NoRecordSkipped, SettledInOrder
  <2>5. QED
    BY <2>1, <2>2, <2>3, <2>4, Zenon DEF IInv
<1>2. ASSUME IInv, NEW m \in Members, MemberNext(m) PROVE IInv'
  BY <1>2, TypeStep, OwnStep, LoopStep, PosStep, CurStep, PendStep, AheadStep, SkipStep, OrderStep, Zenon
  DEF IInv
<1>3. QED
  BY <1>1, <1>2, Zenon DEF Next

\* The invariant holds of every behaviour of the consumer group.
THEOREM Inductive == Spec => []IInv
BY InitInv, StepInv, PTL DEF Spec

\* At-least-once: whatever the interleaving of rebalances, failures, crashes and
\* shutdowns, everything below a committed offset was handled or dead-lettered.
THEOREM NoRecordSkippedProved == Spec => []NoRecordSkipped
<1>1. IInv => NoRecordSkipped
  BY Zenon DEF IInv
<1>2. QED
  BY <1>1, Inductive, PTL

\* Order: a record is first settled only after every earlier one of its
\* partition, across members and rebalances.
THEOREM SettledInOrderProved == Spec => []SettledInOrder
<1>1. IInv => SettledInOrder
  BY Zenon DEF IInv
<1>2. QED
  BY <1>1, Inductive, PTL

\* No step of any member, slow and expelled ones included, moves a committed
\* offset back: what a member has pending is never behind the committed offset
\* while the coordinator still accepts its commits.
THEOREM NeverRewindsProved == Spec => NeverRewinds
<1>1. ASSUME IInv, NEW m \in Members, MemberNext(m), NEW p \in Partitions
      PROVE  committed'[p] >= committed[p]
  <2>1. TypeOK /\ OwnInv /\ AheadInv
    BY <1>1, Zenon DEF IInv
  <2>2. Frame(m) /\ Points(m)
    BY <1>1, <2>1, FrameStep, TypePoints, Zenon
  <2>3. QED
    BY <2>1, <2>2 DEF Frame, Committed, Points, AheadInv, AheadOK
<1>2. IInv /\ [Next]_vars => [\A p \in Partitions : committed'[p] >= committed[p]]_vars
  BY <1>1, Zenon DEF Next
<1>3. QED
  BY <1>2, Inductive, PTL DEF Spec, NeverRewinds

----------------------------------------------------------------------------
(* A group in which nothing fails.                                         *)

\* As long as nothing has failed nobody is expelled, no record was settled
\* twice, and what is settled is committed or pending.
OnceInv ==
  faults = 0 =>
    /\ expelled = {}
    /\ \A x \in Record : settled[x] <= 1
    /\ \A x \in Record : settled[x] > 0 =>
         x.off < committed[x.part] \/ \E q \in Members : x.off < pending[q][x.part]

\* What a step of a member does when nothing fails in it: it settles at most the
\* record in hand, and gives up no pending offset that it does not commit.
Orderly(m) ==
  /\ expelled' \subseteq expelled
  /\ \A y \in Record :
       \/ settled'[y] = settled[y]
       \/ y \in current[m] /\ settled'[y] = settled[y] + 1 /\ pending'[m][y.part] = y.off + 1
  /\ \A p \in Partitions : pending[m][p] <= pending'[m][p] \/ pending[m][p] <= committed'[p]

\* No step takes a failure back.
LEMMA FaultsStay ==
  ASSUME TypeOK, NEW m \in Members, MemberNext(m), faults' = 0
  PROVE  faults = 0 /\ ~ Fault
<1>1. faults \in Nat
  BY Zenon DEF TypeOK, RestType
<1>2. ~ Fault /\ \A only \in SUBSET Partitions : CommitFails(m, only) => faults = 0
  BY <1>1 DEF Fault, CommitFails
<1>3. owned[m] \in SUBSET Partitions
  BY TypePoints, Zenon DEF Points
<1>4. QED
  BY <1>2, <1>3, Zenon
  DEF MemberNext, CommitPending, CommitOK, PollReturns, ClientFails, Lose, EndBatch, HandlerFails,
      ParkFails, Cancel, DrainTimeout, Close, Crash, Restart, Expel, Assign, Fetch, Revoke, Take,
      Settle, bounds

\* A commit that did not fail covers every pending offset of its partitions,
\* and these can be forgotten.
LEMMA CommitThenForget ==
  ASSUME TypeOK, PendInv, expelled = {}, faults = 0, faults' = 0, settled' = settled,
         NEW m \in Members, NEW only \in SUBSET Partitions, NEW lost, Forget(m, lost),
         CommitOK(m, only) \/ CommitFails(m, only), \A p \in owned[m] : p \in lost => p \in only,
         expelled' \subseteq expelled
  PROVE  Orderly(m)
<1>1. \A p \in Partitions : pending[m][p] \in Nat /\ committed'[p] \in Nat
  BY TypePoints, CommitEffect, SizesAssumption DEF Points, TypeOK, RestType
<1>2. CommitOK(m, only)
  BY DEF CommitFails
<1>3. \A p \in Partitions : p \in lost /\ pending[m][p] > 0 => committed'[p] = pending[m][p]
  BY <1>2, Zenon DEF CommitOK, Applied, Offsets, PendInv, PendOK
<1>4. \A p \in Partitions : pending'[m][p] = IF p \in lost THEN 0 ELSE pending[m][p]
  BY ForgetEffect DEF TypeOK
<1>5. ASSUME NEW p \in Partitions
      PROVE  pending[m][p] <= pending'[m][p] \/ pending[m][p] <= committed'[p]
  BY <1>1, <1>3, <1>4
<1>6. QED
  BY <1>5, Zenon DEF Orderly

\* A step in which nothing fails is orderly.
LEMMA OrderlyStep ==
  ASSUME IInv, OnceInv, NEW m \in Members, MemberNext(m), faults' = 0
  PROVE  faults = 0 /\ expelled = {} /\ Orderly(m)
<1>1. TypeOK /\ OwnInv /\ PendInv /\ Points(m)
  BY TypePoints, Zenon DEF IInv
<1>2. faults = 0 /\ expelled = {} /\ ~ Fault
  BY <1>1, FaultsStay, Zenon DEF OnceInv
<1>3. expelled' \subseteq expelled /\ settled' = settled /\ pending' = pending => Orderly(m)
  BY <1>1 DEF Orderly, Points
<1>4. CASE CommitPending(m)
  <2>1. CommitOK(m, Partitions) /\ Forget(m, Partitions)
    BY <1>2, <1>4 DEF CommitPending, CommitFails
  <2>2. QED
    BY <1>1, <1>2, <1>4, <2>1, CommitThenForget, Zenon DEF CommitPending
<1>5. CASE Close(m)
  <2>1. CommitOK(m, owned[m]) \/ CommitFails(m, owned[m])
    BY <1>2, <1>5, Zenon DEF Close
  <2>2. QED
    BY <1>1, <1>2, <1>5, <2>1, CommitThenForget, Zenon DEF Close, Gone, Points
<1>6. ASSUME NEW R \in SUBSET Partitions, Revoke(m, R) PROVE Orderly(m)
  BY <1>1, <1>2, <1>6, CommitThenForget, Zenon DEF Revoke
<1>7. ASSUME NEW x \in Record, Settle(m, x) PROVE Orderly(m)
  <2>1. SettleEff(m, x)
    BY <1>1, <1>7, Effects, Zenon
  <2>2. settled' = [settled EXCEPT ![x] = @ + 1] /\ settled \in [Record -> Nat]
    BY <1>1, <1>7, Zenon DEF Settle, TypeOK, RestType
  <2>3. pending[m][x.part] <= x.off /\ x.part \in Partitions
    BY <1>1, <1>2, <2>1, Zenon DEF IInv, CurInv, CurOK, AheadInv, AheadOK, SettleEff, Held, Points
  <2>4. ASSUME NEW y \in Record
        PROVE  \/ settled'[y] = settled[y]
               \/ y \in current[m] /\ settled'[y] = settled[y] + 1 /\ pending'[m][y.part] = y.off + 1
    BY <2>1, <2>2, <2>3, Zenon DEF SettleEff
  <2>5. ASSUME NEW p \in Partitions PROVE pending[m][p] <= pending'[m][p]
    BY <1>1, <2>1, <2>3 DEF SettleEff, Points
  <2>6. QED
    BY <2>1, <2>4, <2>5, Zenon DEF Orderly, SettleEff
<1>8. CASE ~ \/ CommitPending(m) \/ Close(m) \/ \E R \in SUBSET Partitions : Revoke(m, R)
             \/ \E x \in Record : Settle(m, x)
  <2>1. expelled' \subseteq expelled /\ settled' = settled /\ pending' = pending
    BY <1>2, <1>8, Zenon
    DEF MemberNext, PollReturns, ClientFails, Lose, EndBatch, HandlerFails, ParkFails, Cancel,
        DrainTimeout, Crash, Restart, Expel, Assign, Fetch, Take, broker, group
  <2>2. QED
    BY <1>2, <1>3, <2>1, Zenon
<1>9. QED
  BY <1>2, <1>4, <1>5, <1>6, <1>7, <1>8, Zenon

\* The record in hand was not settled before, and what is settled stays covered
\* by an offset.
LEMMA OnceStep ==
  ASSUME IInv, OnceInv, NEW m \in Members, MemberNext(m)
  PROVE  OnceInv'
<1>1. SUFFICES ASSUME faults' = 0
               PROVE  /\ expelled' = {}
                      /\ \A y \in Record : settled'[y] <= 1
                      /\ \A y \in Record : settled'[y] > 0 =>
                           \/ y.off < committed'[y.part]
                           \/ \E q \in Members : y.off < pending'[q][y.part]
  BY Zenon DEF OnceInv
<1>2. faults = 0 /\ expelled = {} /\ Orderly(m)
  BY <1>1, OrderlyStep, Zenon
<1>3. TypeOK /\ TypeOK' /\ OwnInv /\ CurInv /\ PendInv /\ AheadInv /\ Frame(m) /\ Points(m)
  BY TypeStep, FrameStep, TypePoints, Zenon DEF IInv
<1>4. \A y \in Record : settled[y] \in Nat /\ settled'[y] \in Nat
  BY <1>3, Zenon DEF TypeOK, RestType
<1>5. ASSUME NEW y \in Record, y \in current[m] PROVE settled[y] = 0
  <2>1. /\ y.part \in owned[m] /\ y.part \in Partitions
        /\ committed[y.part] <= y.off /\ pending[m][y.part] <= y.off
    BY <1>2, <1>3, <1>5, Zenon DEF CurInv, CurOK, AheadInv, AheadOK, Held, Points
  <2>2. ~ (y.off < committed[y.part])
    BY <1>3, <2>1 DEF Points
  <2>3. ASSUME NEW q \in Members, y.off < pending[q][y.part] PROVE FALSE
    <3>1. pending[q][y.part] > 0
      BY <1>3, <2>1, <2>3, TypePoints DEF Points
    <3>2. y.part \in owned[q] /\ q = m
      BY <1>2, <1>3, <2>1, <3>1, Zenon DEF PendInv, PendOK, OwnInv, OwnOK
    <3>3. QED
      BY <1>3, <2>1, <2>3, <3>2 DEF Points
  <2>4. ~ (settled[y] > 0)
    BY <1>2, <2>2, <2>3, Zenon DEF OnceInv
  <2>5. QED
    BY <1>4, <2>4
<1>6. ASSUME NEW y \in Record PROVE settled'[y] <= 1
  <2>1. settled[y] <= 1
    BY <1>2, Zenon DEF OnceInv
  <2>2. CASE settled'[y] = settled[y]
    BY <2>1, <2>2, Zenon
  <2>3. CASE y \in current[m] /\ settled'[y] = settled[y] + 1
    BY <1>5, <2>3
  <2>4. QED
    BY <1>2, <2>2, <2>3, Zenon DEF Orderly
<1>7. ASSUME NEW y \in Record, settled'[y] > 0
      PROVE  y.off < committed'[y.part] \/ \E q \in Members : y.off < pending'[q][y.part]
  <2>1. /\ y.part \in Partitions /\ y.off \in Nat /\ committed[y.part] \in Nat
        /\ committed'[y.part] \in Nat /\ pending[m][y.part] \in Nat /\ pending'[m][y.part] \in Nat
    BY <1>3, SizesAssumption DEF Points, TypeOK, BrokerType, GroupType
  <2>2. committed[y.part] <= committed'[y.part]
    BY <1>2, <1>3, <2>1 DEF Frame, Committed, AheadInv, AheadOK
  <2>3. CASE settled'[y] = settled[y] /\ y.off < committed[y.part]
    BY <2>1, <2>2, <2>3
  <2>4. ASSUME NEW q \in Members, y.off < pending[q][y.part]
        PROVE  y.off < committed'[y.part] \/ \E r \in Members : y.off < pending'[r][y.part]
    <3>1. CASE q # m
      BY <1>3, <2>1, <2>4, <3>1, Zenon DEF Frame, Others
    <3>2. CASE q = m
      <4>1. pending[m][y.part] <= pending'[m][y.part] \/ pending[m][y.part] <= committed'[y.part]
        BY <1>2, <2>1, Zenon DEF Orderly
      <4>2. y.off < committed'[y.part] \/ y.off < pending'[m][y.part]
        BY <2>1, <2>4, <3>2, <4>1
      <4>3. QED
        BY <4>2, Zenon
    <3>3. QED
      BY <3>1, <3>2, Zenon
  <2>5. CASE y \in current[m] /\ pending'[m][y.part] = y.off + 1
    <3>1. y.off < pending'[m][y.part]
      BY <2>1, <2>5
    <3>2. QED
      BY <3>1, Zenon
  <2>6. QED
    BY <1>2, <1>7, <2>3, <2>4, <2>5, Zenon DEF Orderly, OnceInv
<1>8. expelled' = {}
  BY <1>2 DEF Orderly
<1>9. QED
  BY <1>6, <1>7, <1>8, Zenon

\* Exactly once without failures: orderly rebalances and shutdowns, in the
\* middle of a batch too, redeliver nothing that was handled or parked.
THEOREM OnceWithoutFaultsProved == Spec => []OnceWithoutFaults
<1>1. Init => OnceInv
  BY DEF Init, OnceInv
<1>2. IInv /\ OnceInv /\ [Next]_vars => OnceInv'
  <2>1. ASSUME OnceInv, UNCHANGED vars PROVE OnceInv'
    BY <2>1, Zenon DEF OnceInv, vars, broker, group, bounds
  <2>2. QED
    BY <2>1, OnceStep, Zenon DEF Next
<1>3. OnceInv => OnceWithoutFaults
  BY Zenon DEF OnceInv, OnceWithoutFaults
<1>4. QED
  BY <1>1, <1>2, <1>3, Inductive, PTL DEF Spec
=============================================================================
