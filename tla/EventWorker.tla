---------------------------- MODULE EventWorker ----------------------------
(***************************************************************************)
(* The consumer service's worker: Handle, and the bounded set of event ids *)
(* it has applied.  Records come in any order and any number of times, as  *)
(* KafkaConsumer allows; a restart forgets the ids.                        *)
(***************************************************************************)
EXTENDS Naturals, Sequences, Functions, FiniteSets

CONSTANTS
  Events,      \* event ids
  DedupeSize,  \* Options.DedupeSize
  MaxHandled   \* bound: records handled

ASSUME DedupeSizeIsASize == DedupeSize \in Nat

VARIABLES
  seen,      \* lru.order, the most recent id first
  applied,   \* how often each event was applied by this process
  since,     \* history: the ids met since each applied event was last met
  attempted, \* history: the events whose last attempt failed
  rejected,  \* records refused as permanent failures
  handled    \* bound counter

workerVars == <<seen, applied, since, attempted, rejected, handled>>

WorkerInit ==
  /\ seen = << >> /\ applied = [e \in Events |-> 0] /\ since = [e \in Events |-> {}]
  /\ attempted = {} /\ rejected = 0 /\ handled = 0

\* A lookup that does not refresh the id.
containsMutant(e) == [found |-> e \in Range(seen), order |-> seen]

\* lru.contains moves an id it finds to the front.
Place(e) == CHOOSE i \in 1..Len(seen) : seen[i] = e
ToFront(e) == <<e>> \o SubSeq(seen, 1, Place(e) - 1) \o SubSeq(seen, Place(e) + 1, Len(seen))
contains(e) == [found |-> e \in Range(seen), order |-> IF e \in Range(seen) THEN ToFront(e) ELSE seen]

\* lru.add, of an id that is not in the set, drops the oldest of too many
add(e) == IF Len(seen) + 1 > DedupeSize THEN SubSeq(<<e>> \o seen, 1, Len(seen)) ELSE <<e>> \o seen

Meets(e) == since' = [d \in Events |-> IF d = e THEN {} ELSE since[d] \union {e}]
Count == handled < MaxHandled /\ handled' = handled + 1

\* Handle: an undecodable payload or an unknown type is a permanent failure.
Reject ==
  /\ Count /\ rejected' = rejected + 1
  /\ UNCHANGED <<seen, applied, since, attempted>>

\* An event without an id is applied each time.
ApplyUnnamed ==
  /\ Count /\ UNCHANGED <<seen, applied, since, attempted, rejected>>

\* An id that is in the set is skipped.
Skip(e) ==
  /\ contains(e).found /\ Count
  /\ seen' = contains(e).order /\ Meets(e)
  /\ attempted' = attempted \ {e}
  /\ UNCHANGED <<applied, rejected>>

\* Any other is applied, then remembered,
Apply(e) ==
  /\ ~contains(e).found /\ Count
  /\ seen' = add(e) /\ applied' = [applied EXCEPT ![e] = @ + 1] /\ Meets(e)
  /\ attempted' = attempted \ {e}
  /\ UNCHANGED rejected

\* unless applying it fails (Inject).
Fail(e) ==
  /\ ~contains(e).found /\ Count
  /\ attempted' = attempted \union {e}
  /\ UNCHANGED <<seen, applied, since, rejected>>

Restart ==
  /\ handled > 0
  /\ seen' = << >> /\ applied' = [e \in Events |-> 0] /\ since' = [e \in Events |-> {}]
  /\ attempted' = {} /\ UNCHANGED <<rejected, handled>>

WorkerNext ==
  \/ Reject \/ ApplyUnnamed \/ Restart
  \/ \E e \in Events : Skip(e) \/ Apply(e) \/ Fail(e)

WorkerSpec == WorkerInit /\ [][WorkerNext]_workerVars

----------------------------------------------------------------------------
\* A process applies an event a second time only after DedupeSize other ids
\* since it last met it, and it skips one only if it has applied it, so a failed
\* attempt is never taken for a duplicate (worker.go Handle, lru.go).
DuplicatesNeedEviction ==
  [][\A e \in Events :
       /\ applied'[e] > applied[e] /\ applied[e] > 0 => Cardinality(since[e]) >= DedupeSize
       /\ e \in attempted /\ e \notin attempted' /\ applied' # [d \in Events |-> 0]
            => applied'[e] > 0]_workerVars
=============================================================================
