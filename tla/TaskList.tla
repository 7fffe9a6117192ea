----------------------------- MODULE TaskList -----------------------------
(***************************************************************************)
(* GET /tasks: a client that follows the cursors through the pages while   *)
(* tasks are created and deleted.  created_at is the time the creating     *)
(* transaction began, so a task may appear behind newer ones.              *)
(***************************************************************************)
EXTENDS Integers, FiniteSets, Sequences

CONSTANTS
  Times,        \* values of created_at
  Ids,          \* ids of tasks, in their order (uuids: no relation to time)
  Limits,       \* values of the limit parameter, valid ones and others
  DefaultPageSize, MaxPageSize,
  MaxChanges    \* bound: creates and deletes

ASSUME ListSizes ==
  /\ Times \subseteq Nat /\ Ids \subseteq Nat
  /\ DefaultPageSize \in Nat \ {0} /\ MaxPageSize \in Nat \ {0}

VARIABLES
  table,     \* the committed tasks: created_at and id
  cursor,    \* what the client sends: {} (none), or the task it points at
  done,      \* the last page had no next cursor
  listed,    \* the tasks the client has got, in order
  stable,    \* history: the tasks that were there when it began and are still
  deleted,   \* ids deleted: an id is never used again
  changes    \* bound counter

listVars == <<table, cursor, done, listed, stable, deleted, changes>>

Tasks == [at : Times, id : Ids]

ListInit ==
  /\ table \in {t \in SUBSET Tasks : IsFiniteSet(t) /\ \A x, y \in t : x.id = y.id => x = y}
  /\ stable = table /\ cursor = {} /\ done = FALSE /\ listed = << >> /\ deleted = {} /\ changes = 0

\* ORDER BY created_at DESC, id DESC.
Newer(x, y) == x.at > y.at \/ (x.at = y.at /\ x.id > y.id)

\* A comparison that knows only the time.
AfterMutant(t, c) == t.at < c.at

\* WHERE (created_at, id) < (cursor): the rows after the one it points at.
After(t, c) == t.at < c.at \/ (t.at = c.at /\ t.id < c.id)

\* The rows of a query with LIMIT n, in order.
Query(rows, k) ==
  LET sorted == CHOOSE s \in [1..Cardinality(rows) -> rows] :
                  \A i, j \in 1..Cardinality(rows) : i < j => Newer(s[i], s[j])
  IN SubSeq(sorted, 1, IF k < Cardinality(rows) THEN k ELSE Cardinality(rows))

\* Store.List: one row more than asked for tells whether there is a next page.
List(limit) ==
  LET rows == Query({t \in table : \A c \in cursor : After(t, c)}, limit + 1)
  IN IF Len(rows) > limit
       THEN [tasks |-> SubSeq(rows, 1, limit), next |-> {rows[limit]}]
       ELSE [tasks |-> rows, next |-> {}]

\* The list handler: a limit outside the range is refused; none means the default.
list(limit) ==
  /\ ~done
  /\ \/ limit \in 1..MaxPageSize
     \/ limit = 0
  /\ LET page == List(IF limit = 0 THEN DefaultPageSize ELSE limit)
     IN listed' = listed \o page.tasks /\ cursor' = page.next /\ done' = (page.next = {})
  /\ UNCHANGED <<table, stable, deleted, changes>>

CreateTask(t) ==
  /\ changes < MaxChanges /\ changes' = changes + 1
  /\ t.id \notin deleted /\ \A x \in table : x.id # t.id
  /\ table' = table \union {t}
  /\ UNCHANGED <<cursor, done, listed, stable, deleted>>

DeleteTask(t) ==
  /\ changes < MaxChanges /\ changes' = changes + 1
  /\ t \in table /\ table' = table \ {t} /\ stable' = stable \ {t} /\ deleted' = deleted \union {t.id}
  /\ UNCHANGED <<cursor, done, listed>>

ListNext ==
  \/ \E limit \in Limits : list(limit)
  \/ \E t \in Tasks : CreateTask(t) \/ DeleteTask(t)

ListSpec == ListInit /\ [][ListNext]_listVars

----------------------------------------------------------------------------
\* Whatever is created or deleted meanwhile, the pages hold no task twice, are
\* in order, and by the last one hold every task that was there all the time
\* (store.go List, page.go CursorAfter, api.go list).
PagesComplete ==
  /\ \A i, j \in DOMAIN listed : i < j => Newer(listed[i], listed[j])
  /\ done => \A t \in stable : \E i \in DOMAIN listed : listed[i] = t
============================================================================
