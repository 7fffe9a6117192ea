---------------------------- MODULE EventStream ----------------------------
(***************************************************************************)
(* What the outbox promises to the readers of the topic: events appear     *)
(* there some time after their transaction committed, none before the      *)
(* earlier events of its task, except the ones the broker refused.         *)
(***************************************************************************)
EXTENDS Naturals

CONSTANT Event    \* records with an id (a number) and a task

VARIABLES committed,   \* events whose transaction committed
          delivered,   \* events in the topic
          excused      \* events refused at least once: they lost their order

streamVars == <<committed, delivered, excused>>

Init == committed = {} /\ delivered = {} /\ excused = {}

\* Commit order is id order within a task.
Commit(e) ==
  /\ \A f \in committed : f.id # e.id /\ (f.task = e.task => f.id < e.id)
  /\ committed' = committed \union {e}
  /\ UNCHANGED <<delivered, excused>>

Deliver(e) ==
  /\ e \in committed
  /\ \A f \in committed :
       f.task = e.task /\ f.id < e.id => f \in delivered \union excused
  /\ delivered' = delivered \union {e}
  /\ UNCHANGED <<committed, excused>>

Refuse(e) ==
  /\ e \in committed
  /\ excused' = excused \union {e}
  /\ UNCHANGED <<committed, delivered>>

Next == \E e \in Event : Commit(e) \/ Deliver(e) \/ Refuse(e)

Spec == Init /\ [][Next]_streamVars
=============================================================================
