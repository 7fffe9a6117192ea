---------------------------- MODULE RecordProofs ----------------------------
(***************************************************************************)
(* What fetches, applies, stores and lists records, each for any constants *)
(* and any number of steps: Poll, the librdkafka clients, the worker's set *)
(* of ids, the migrations of the schema and the pages of tasks; and the    *)
(* process around them.  A section has a component's inductive invariant,  *)
(* the lemmas about its steps and the theorem they are for.                *)
(***************************************************************************)
EXTENDS RdkafkaPoll, RdkafkaClients, EventWorker, Migrate, TaskList, ServiceLife,
        FiniteSetTheorems, TLAPS

----------------------------------------------------------------------------
\* A nonempty set of natural numbers has a least element.
LEMMA LeastExists ==
  ASSUME NEW T, T \subseteq Nat, T # {}
  PROVE  \E x \in T : \A y \in T : x =< y
<1> DEFINE R == {ss \in Nat \X Nat : ss[1] < ss[2]}
<1>1. OpToRel(<, Nat) = R
  BY Zenon DEF OpToRel
<1>2. IsWellFoundedOn(R, Nat)
  BY <1>1, NatLessThanWellFounded, Zenon
<1> HIDE DEF R
<1>3. PICK x \in T : \A y \in T : ~(<<y, x>> \in R)
  BY <1>2, WFMin, Zenon
<1>4. ASSUME NEW y \in T PROVE x =< y
  <2>1. y \in Nat /\ x \in Nat /\ <<y, x>> \in Nat \X Nat
    OBVIOUS
  <2>2. <<y, x>>[1] = y /\ <<y, x>>[2] = x
    OBVIOUS
  <2>3. ~(<<y, x>>[1] < <<y, x>>[2])
    BY <1>3, <2>1, Zenon DEF R
  <2>4. ~(y < x)
    BY <2>2, <2>3, Zenon
  <2>5. QED
    BY <2>1, <2>4
<1>5. QED
  BY <1>4, Zenon

----------------------------------------------------------------------------
(* The worker's set of ids.                                                *)

Positions == 1..Len(seen)

\* The ids before one in the list were met since it was, and one that was applied
\* and is no longer in the list was pushed out of it by as many others.
WorkerInv ==
  /\ seen \in Seq(Events) /\ Len(seen) <= DedupeSize
  /\ \A i, j \in Positions : seen[i] = seen[j] => i = j
  /\ applied \in [Events -> Nat] /\ since \in [Events -> SUBSET Events]
  /\ \A e \in Events : IsFiniteSet(since[e])
  /\ \A i \in Positions : applied[seen[i]] > 0 /\ \A j \in 1..(i - 1) : seen[j] \in since[seen[i]]
  /\ \A e \in Events : applied[e] > 0 /\ e \notin Range(seen) => Cardinality(since[e]) >= DedupeSize

\* What an id that moves to the front does to the others.
LEMMA FrontIs ==
  ASSUME NEW e \in Events, seen \in Seq(Events), e \in Range(seen)
  PROVE  /\ Place(e) \in Positions /\ seen[Place(e)] = e
         /\ ToFront(e) \in Seq(Events) /\ Len(ToFront(e)) = Len(seen)
         /\ \A i \in Positions : ToFront(e)[i] = IF i = 1 THEN e ELSE IF i <= Place(e) THEN seen[i - 1] ELSE seen[i]
<1>1. Place(e) \in Positions /\ seen[Place(e)] = e
  BY DEF Place, Range, Positions
<1> DEFINE k == Place(e)
<1> DEFINE a == SubSeq(seen, 1, k - 1)
<1> DEFINE b == SubSeq(seen, k + 1, Len(seen))
<1>2. ToFront(e) = <<e>> \o a \o b
  BY Zenon DEF ToFront
<1> HIDE DEF k
<1>3. k \in Positions
  BY <1>1, Zenon DEF k
<1>4. /\ a \in Seq(Events) /\ Len(a) = k - 1 /\ \A i \in 1..(k - 1) : a[i] = seen[i]
  BY <1>3 DEF Positions
<1>5. /\ b \in Seq(Events) /\ Len(b) = Len(seen) - k /\ \A i \in 1..(Len(seen) - k) : b[i] = seen[k + i]
  BY <1>3 DEF Positions
<1> HIDE DEF a, b
<1>6. /\ a \o b \in Seq(Events) /\ Len(a \o b) = Len(seen) - 1
      /\ \A i \in 1..(Len(seen) - 1) : (a \o b)[i] = IF i < k THEN seen[i] ELSE seen[i + 1]
  <2>1. /\ a \o b \in Seq(Events) /\ Len(a \o b) = Len(a) + Len(b)
        /\ \A i \in 1..(Len(a) + Len(b)) : (a \o b)[i] = IF i <= Len(a) THEN a[i] ELSE b[i - Len(a)]
    <3>1. a \in Seq(Events) /\ b \in Seq(Events)
      BY <1>4, <1>5, Zenon
    <3>2. QED
      BY <3>1
  <2>2. Len(a) + Len(b) = Len(seen) - 1 /\ k \in Nat /\ Len(seen) \in Nat
    BY <1>3, <1>4, <1>5 DEF Positions
  <2>3. ASSUME NEW i \in 1..(Len(seen) - 1) PROVE (a \o b)[i] = IF i < k THEN seen[i] ELSE seen[i + 1]
    <3>1. CASE i < k
      BY <1>4, <2>1, <2>2, <3>1
    <3>2. CASE ~(i < k)
      <4>1. i - Len(a) \in 1..(Len(seen) - k) /\ k + (i - Len(a)) = i + 1 /\ ~(i <= Len(a))
        BY <1>3, <1>4, <2>2, <3>2
      <4>2. (a \o b)[i] = b[i - Len(a)]
        BY <2>1, <2>2, <4>1, Zenon
      <4>3. b[i - Len(a)] = seen[i + 1]
        BY <1>5, <4>1, Zenon
      <4>4. QED
        BY <3>2, <4>2, <4>3, Zenon
    <3>3. QED
      BY <3>1, <3>2, Zenon
  <2>4. QED
    BY <2>1, <2>2, <2>3, Zenon
<1> DEFINE c == a \o b
<1> HIDE DEF c
<1>7. /\ <<e>> \o c \in Seq(Events) /\ Len(<<e>> \o c) = Len(seen)
      /\ \A i \in Positions : (<<e>> \o c)[i] = IF i = 1 THEN e ELSE c[i - 1]
  BY <1>3, <1>6 DEF Positions, c
<1>8. ASSUME NEW i \in Positions, i # 1 PROVE c[i - 1] = IF i <= k THEN seen[i - 1] ELSE seen[i]
  <2>1. i - 1 \in 1..(Len(seen) - 1) /\ (i - 1 < k <=> i <= k) /\ (i - 1) + 1 = i
    BY <1>3, <1>8 DEF Positions
  <2>2. c[i - 1] = IF i - 1 < k THEN seen[i - 1] ELSE seen[(i - 1) + 1]
    BY <1>6, <2>1, Zenon DEF c
  <2>3. QED
    BY <2>1, <2>2, Zenon
<1>9. QED
  <2>1. <<e>> \o a \o b = <<e>> \o c
    BY <1>4, <1>5 DEF c
  <2>2. ToFront(e) = <<e>> \o c /\ k = Place(e)
    BY <1>2, <2>1, Zenon DEF k
  <2>3. QED
    BY <1>1, <1>7, <1>8, <2>2, Zenon

\* What a new id does to the others.
LEMMA AddedIs ==
  ASSUME NEW e \in Events, seen \in Seq(Events), Len(seen) <= DedupeSize
  PROVE  /\ add(e) \in Seq(Events) /\ Len(add(e)) \in {Len(seen), Len(seen) + 1} /\ Len(add(e)) <= DedupeSize
         /\ Len(add(e)) = Len(seen) => Len(seen) = DedupeSize
         /\ \A i \in 1..Len(add(e)) : add(e)[i] = IF i = 1 THEN e ELSE seen[i - 1]
<1> DEFINE s == <<e>> \o seen
<1>1. s \in Seq(Events) /\ Len(s) = Len(seen) + 1 /\ \A i \in 1..(Len(seen) + 1) : s[i] = IF i = 1 THEN e ELSE seen[i - 1]
  OBVIOUS
<1> HIDE DEF s
<1>2. /\ SubSeq(s, 1, Len(seen)) \in Seq(Events) /\ Len(SubSeq(s, 1, Len(seen))) = Len(seen)
      /\ \A i \in 1..Len(seen) : SubSeq(s, 1, Len(seen))[i] = s[i]
  BY <1>1
<1>3. add(e) = IF Len(seen) + 1 > DedupeSize THEN SubSeq(s, 1, Len(seen)) ELSE s
  BY Zenon DEF add, s
<1>4. QED
  BY <1>1, <1>2, <1>3, DedupeSizeIsASize

\* A list without repetitions has as many ids as positions.
LEMMA AsManyAsPositions ==
  ASSUME NEW s \in Seq(Events), \A i, j \in 1..Len(s) : s[i] = s[j] => i = j,
         NEW T, IsFiniteSet(T), \A i \in 1..Len(s) : s[i] \in T
  PROVE  Cardinality(T) >= Len(s)
<1>1. s \in Injection(1..Len(s), T)
  BY DEF Injection, IsInjective
<1>2. Cardinality(1..Len(s)) <= Cardinality(T)
  BY <1>1, FS_Injection, Zenon
<1>3. Cardinality(1..Len(s)) = Len(s)
  <2>1. 1 \in Int /\ Len(s) \in Int /\ Len(s) \in Nat
    OBVIOUS
  <2>2. Cardinality(1..Len(s)) = IF 1 > Len(s) THEN 0 ELSE Len(s) - 1 + 1
    BY <2>1, FS_Interval, Zenon
  <2>3. QED
    BY <2>1, <2>2
<1>4. QED
  BY <1>2, <1>3, FS_CardinalityType, Zenon

\* An id that is met is met by every other.
LEMMA MeetsGrows ==
  ASSUME WorkerInv, NEW e \in Events, Meets(e)
  PROVE  /\ since' \in [Events -> SUBSET Events] /\ since'[e] = {} /\ Cardinality(since'[e]) = 0
         /\ \A d \in Events \ {e} : since'[d] = since[d] \union {e}
         /\ \A d \in Events : IsFiniteSet(since'[d])
         /\ \A d \in Events \ {e} : Cardinality(since[d]) >= DedupeSize => Cardinality(since'[d]) >= DedupeSize
<1>1. /\ since' \in [Events -> SUBSET Events] /\ since'[e] = {}
      /\ \A d \in Events \ {e} : since'[d] = since[d] \union {e}
  BY Zenon DEF WorkerInv, Meets
<1>2. \A d \in Events : IsFiniteSet(since'[d])
  <2>1. \A d \in Events : IsFiniteSet(since[d])
    BY Zenon DEF WorkerInv
  <2>2. ASSUME NEW d \in Events \ {e} PROVE IsFiniteSet(since'[d])
    <3>1. IsFiniteSet(since[d] \union {e})
      BY <2>1, FS_AddElement, Zenon
    <3>2. QED
      BY <1>1, <3>1, Zenon
  <2>3. QED
    BY <1>1, <2>2, FS_EmptySet, Zenon
<1>3. ASSUME NEW d \in Events \ {e}, Cardinality(since[d]) >= DedupeSize PROVE Cardinality(since'[d]) >= DedupeSize
  <2>1. since[d] \in SUBSET since'[d] /\ IsFiniteSet(since'[d]) /\ IsFiniteSet(since[d])
    BY <1>1, <1>2, Zenon DEF WorkerInv
  <2>2. Cardinality(since[d]) <= Cardinality(since'[d]) /\ Cardinality(since[d]) \in Nat /\ Cardinality(since'[d]) \in Nat
    BY <2>1, FS_Subset, FS_CardinalityType, Zenon
  <2>3. QED
    BY <1>3, <2>2, DedupeSizeIsASize
<1>4. QED
  BY <1>1, <1>2, <1>3, FS_EmptySet, Zenon

\* An id that is skipped moves to the front.
LEMMA SkipStep ==
  ASSUME WorkerInv, NEW e \in Events, Skip(e)
  PROVE  WorkerInv'
<1>1. e \in Range(seen) /\ seen' = ToFront(e) /\ Meets(e) /\ applied' = applied
  BY Zenon DEF Skip, contains
<1> DEFINE k == Place(e)
<1>2. /\ k \in Positions /\ seen[k] = e /\ seen' \in Seq(Events) /\ Len(seen') = Len(seen)
      /\ \A i \in Positions : seen'[i] = IF i = 1 THEN e ELSE IF i <= k THEN seen[i - 1] ELSE seen[i]
  BY <1>1, FrontIs, Zenon DEF WorkerInv
<1> HIDE DEF k
<1> DEFINE From(i) == IF i = 1 THEN k ELSE IF i <= k THEN i - 1 ELSE i
<1>3. \A i \in Positions : From(i) \in Positions /\ seen'[i] = seen[From(i)]
  BY <1>2 DEF Positions
<1>4. \A i, j \in Positions : From(i) = From(j) => i = j
  BY <1>2 DEF Positions
<1>5. Positions' = Positions
  BY <1>2, Zenon DEF Positions
<1>6. \A i, j \in Positions : seen'[i] = seen'[j] => i = j
  BY <1>3, <1>4 DEF WorkerInv
<1>7. ASSUME NEW i \in Positions
      PROVE  applied'[seen'[i]] > 0 /\ \A j \in 1..(i - 1) : seen'[j] \in since'[seen'[i]]
  <2>1. applied'[seen'[i]] > 0
    BY <1>1, <1>3, Zenon DEF WorkerInv
  <2>2. ASSUME NEW j \in 1..(i - 1) PROVE seen'[j] \in since'[seen'[i]]
    <3>1. j \in Positions /\ i # 1 /\ i \in Nat /\ j < i /\ k \in Nat
      BY <1>2 DEF Positions
    <3>2. seen'[i] \in Events /\ seen'[i] # e
      BY <1>2, <1>6, <3>1 DEF Positions
    <3>3. since'[seen'[i]] = since[seen'[i]] \union {e}
      BY <1>1, <3>2, MeetsGrows, Zenon
    <3>4. CASE j = 1
      BY <1>2, <3>1, <3>3, <3>4, Zenon
    <3>5. CASE j # 1
      <4>1. From(j) \in 1..(From(i) - 1)
        <5>1. j >= 2 /\ From(j) = (IF j <= k THEN j - 1 ELSE j) /\ From(i) = (IF i <= k THEN i - 1 ELSE i)
          BY <3>1, <3>5
        <5>2. QED
          BY <3>1, <3>5, <5>1
      <4>2. seen[From(j)] \in since[seen[From(i)]]
        BY <1>3, <4>1, Zenon DEF WorkerInv
      <4>3. QED
        BY <1>3, <3>1, <3>3, <4>2, Zenon
    <3>6. QED
      BY <3>4, <3>5, Zenon
  <2>3. QED
    BY <2>1, <2>2, Zenon
<1>8. ASSUME NEW d \in Events, applied'[d] > 0, d \notin Range(seen') PROVE Cardinality(since'[d]) >= DedupeSize
  <2>1. d \notin Range(seen)
    <3> SUFFICES ASSUME NEW i \in Positions, seen[i] = d PROVE FALSE
      BY DEF Range, Positions
    <3>1. PICK n \in Positions : From(n) = i
      <4>1. CASE i = k
        BY <1>2, <4>1 DEF Positions
      <4>2. CASE i < k
        <5>1. i + 1 \in Positions /\ From(i + 1) = i
          BY <1>2, <4>2 DEF Positions
        <5>2. QED
          BY <5>1, Zenon
      <4>3. CASE i > k
        BY <1>2, <4>3 DEF Positions
      <4>4. QED
        BY <1>2, <4>1, <4>2, <4>3 DEF Positions
    <3>2. seen'[n] = d
      BY <1>3, <3>1, Zenon
    <3>3. QED
      BY <1>2, <1>8, <3>2 DEF Range, Positions
  <2>2. d # e
    BY <1>1, <2>1, Zenon
  <2>3. QED
    BY <1>1, <1>8, <2>1, <2>2, MeetsGrows, Zenon DEF WorkerInv
<1>9. seen' \in Seq(Events) /\ Len(seen') <= DedupeSize /\ applied' \in [Events -> Nat]
  BY <1>1, <1>2, Zenon DEF WorkerInv
<1>10. since' \in [Events -> SUBSET Events] /\ \A d \in Events : IsFiniteSet(since'[d])
  BY <1>1, MeetsGrows, Zenon
<1>11. QED
  BY <1>5, <1>6, <1>7, <1>8, <1>9, <1>10, Zenon DEF WorkerInv

\* An id that is applied is put in front, and pushes out the last one of a full list.
LEMMA ApplyStep ==
  ASSUME WorkerInv, NEW e \in Events, Apply(e)
  PROVE  WorkerInv'
<1>1. e \notin Range(seen) /\ seen' = add(e) /\ Meets(e) /\ applied' = [applied EXCEPT ![e] = @ + 1]
  BY Zenon DEF Apply, contains
<1>2. /\ seen' \in Seq(Events) /\ Len(seen') \in {Len(seen), Len(seen) + 1} /\ Len(seen') <= DedupeSize
      /\ Len(seen') = Len(seen) => Len(seen) = DedupeSize
      /\ \A i \in Positions' : seen'[i] = IF i = 1 THEN e ELSE seen[i - 1]
  BY <1>1, AddedIs, Zenon DEF WorkerInv, Positions
<1>3. /\ Len(seen) \in Nat /\ Len(seen') \in Nat /\ \A i \in Positions' : i \in Nat /\ (i = 1 \/ i - 1 \in Positions)
      /\ \A i \in Positions : seen[i] # e /\ seen[i] \in Events
  <2>1. Len(seen) \in Nat /\ Len(seen') \in Nat
    BY <1>2 DEF WorkerInv
  <2>2. \A i \in Positions' : i \in Nat /\ (i = 1 \/ i - 1 \in Positions)
    BY <1>2, <2>1 DEF Positions
  <2>3. \A i \in Positions : seen[i] # e /\ seen[i] \in Events
    BY <1>1 DEF WorkerInv, Positions, Range
  <2>4. QED
    BY <2>1, <2>2, <2>3, Zenon
<1>4. ASSUME NEW i \in Positions', NEW j \in Positions', seen'[i] = seen'[j] PROVE i = j
  <2>1. CASE i = 1 \/ j = 1
    BY <1>2, <1>3, <1>4, <2>1, Zenon
  <2>2. CASE i # 1 /\ j # 1
    <3>1. i - 1 \in Positions /\ j - 1 \in Positions /\ seen[i - 1] = seen[j - 1]
      BY <1>2, <1>3, <1>4, <2>2, Zenon
    <3>2. i - 1 = j - 1
      BY <3>1, Zenon DEF WorkerInv
    <3>3. QED
      BY <1>3, <3>2
  <2>3. QED
    BY <2>1, <2>2, Zenon
<1>5. applied' \in [Events -> Nat] /\ applied'[e] > 0 /\ \A d \in Events : d # e => applied'[d] = applied[d]
  BY <1>1 DEF WorkerInv
<1>6. ASSUME NEW i \in Positions'
      PROVE  applied'[seen'[i]] > 0 /\ \A j \in 1..(i - 1) : seen'[j] \in since'[seen'[i]]
  <2>1. CASE i = 1
    BY <1>2, <1>5, <2>1
  <2>2. CASE i # 1
    <3>1. i - 1 \in Positions /\ seen'[i] = seen[i - 1] /\ seen'[i] \in Events /\ seen'[i] # e
      BY <1>2, <1>3, <2>2, Zenon
    <3>2. applied'[seen'[i]] > 0
      BY <1>5, <3>1, Zenon DEF WorkerInv
    <3>3. since'[seen'[i]] = since[seen'[i]] \union {e}
      BY <1>1, <3>1, MeetsGrows, Zenon
    <3>4. ASSUME NEW j \in 1..(i - 1) PROVE seen'[j] \in since'[seen'[i]]
      <4>1. j \in Positions' /\ (j = 1 \/ j - 1 \in 1..((i - 1) - 1))
        BY <1>3 DEF Positions
      <4>2. CASE j = 1
        BY <1>2, <3>3, <4>1, <4>2, Zenon
      <4>3. CASE j # 1
        <5>1. seen'[j] = seen[j - 1] /\ seen[j - 1] \in since[seen[i - 1]]
          BY <1>2, <3>1, <4>1, <4>3, Zenon DEF WorkerInv
        <5>2. QED
          BY <3>1, <3>3, <5>1, Zenon
      <4>4. QED
        BY <4>2, <4>3, Zenon
    <3>5. QED
      BY <3>2, <3>4, Zenon
  <2>3. QED
    BY <2>1, <2>2, Zenon
<1>7. since' \in [Events -> SUBSET Events] /\ \A d \in Events : IsFiniteSet(since'[d])
  BY <1>1, MeetsGrows, Zenon
<1>8. ASSUME NEW d \in Events, applied'[d] > 0, d \notin Range(seen') PROVE Cardinality(since'[d]) >= DedupeSize
  <2>1. CASE d # e /\ d \notin Range(seen)
    <3>1. applied[d] > 0
      BY <1>5, <1>8, <2>1, Zenon
    <3>2. \A x \in Events : applied[x] > 0 /\ x \notin Range(seen) => Cardinality(since[x]) >= DedupeSize
      BY Zenon DEF WorkerInv
    <3>3. Cardinality(since[d]) >= DedupeSize
      BY <2>1, <3>1, <3>2, Zenon
    <3>4. QED
      BY <1>1, <2>1, <3>3, MeetsGrows, Zenon
  <2>2. CASE d = e
    <3>1. Len(seen') = 0
      BY <1>2, <1>3, <1>8, <2>2 DEF Range, Positions
    <3>2. DedupeSize = 0
      BY <1>2, <1>3, <3>1, DedupeSizeIsASize
    <3>3. QED
      BY <1>1, <2>2, <3>2, MeetsGrows
  <2>3. CASE d # e /\ d \in Range(seen)
    <3>0. DOMAIN seen = Positions
      BY DEF WorkerInv, Positions
    <3>1. PICK i \in Positions : seen[i] = d
      BY <2>3, <3>0, Zenon DEF Range
    <3>2. ASSUME i + 1 \in Positions' PROVE FALSE
      <4>1. i + 1 # 1 /\ (i + 1) - 1 = i
        BY DEF Positions
      <4>2. seen'[i + 1] = d /\ DOMAIN seen' = Positions'
        <5>1. DOMAIN seen' = Positions'
          BY <1>2 DEF Positions
        <5>2. QED
          BY <1>2, <3>1, <3>2, <4>1, <5>1, Zenon
      <4>3. QED
        BY <1>8, <3>2, <4>2, Zenon DEF Range
    <3>3. i = Len(seen) /\ Len(seen') = Len(seen) /\ Len(seen') = DedupeSize
      <4>1. /\ Len(seen) \in Nat /\ Len(seen') \in {Len(seen), Len(seen) + 1}
            /\ Len(seen') = Len(seen) => Len(seen') = DedupeSize
        BY <1>2, <1>3, Zenon
      <4>2. QED
        BY <3>2, <4>1 DEF Positions
    <3>4. since'[d] = since[d] \union {e}
      BY <1>1, <2>3, MeetsGrows, Zenon
    <3>5. ASSUME NEW j \in 1..Len(seen') PROVE seen'[j] \in since'[d]
      <4>1. CASE j = 1
        BY <1>2, <3>4, <4>1, Zenon DEF Positions
      <4>2. CASE j # 1
        <5>1. j - 1 \in 1..(i - 1) /\ seen'[j] = seen[j - 1]
          BY <1>2, <1>3, <3>3, <4>2 DEF Positions
        <5>2. QED
          BY <3>1, <3>4, <5>1, Zenon DEF WorkerInv
      <4>3. QED
        BY <4>1, <4>2, Zenon
    <3>6. Cardinality(since'[d]) >= Len(seen')
      BY <1>2, <1>4, <1>7, <3>5, AsManyAsPositions, Zenon DEF Positions
    <3>7. QED
      BY <3>3, <3>6, Zenon
  <2>4. QED
    BY <2>1, <2>2, <2>3, Zenon
<1>9. QED
  BY <1>2, <1>4, <1>5, <1>6, <1>7, <1>8, Zenon DEF WorkerInv

\* Every record, and a restart.
LEMMA WorkerSteps == WorkerInv /\ [WorkerNext]_workerVars => WorkerInv'
<1> SUFFICES ASSUME WorkerInv, [WorkerNext]_workerVars PROVE WorkerInv'
  OBVIOUS
<1>1. CASE UNCHANGED <<seen, applied, since>>
  BY <1>1, Zenon DEF WorkerInv, Positions
<1>2. CASE Restart
  BY <1>2, FS_EmptySet, DedupeSizeIsASize DEF Restart, WorkerInv, Positions
<1>3. CASE Reject \/ ApplyUnnamed \/ UNCHANGED workerVars
  BY <1>1, <1>3, Zenon DEF Reject, ApplyUnnamed, workerVars
<1>4. ASSUME NEW e \in Events, Fail(e) PROVE WorkerInv'
  BY <1>1, <1>4, Zenon DEF Fail
<1>5. QED
  BY <1>2, <1>3, <1>4, SkipStep, ApplyStep, Zenon DEF WorkerNext

\* For any ids, any size of the set and any records in any order and number, a process
\* applies an event again only after as many other ids as the set holds, and skips one
\* only if it has applied it (worker.go Handle, lru.go).
THEOREM DuplicatesNeedEvictionProved == WorkerSpec => DuplicatesNeedEviction
<1> DEFINE Needs ==
      \A e \in Events :
        /\ applied'[e] > applied[e] /\ applied[e] > 0 => Cardinality(since[e]) >= DedupeSize
        /\ e \in attempted /\ e \notin attempted' /\ applied' # [d \in Events |-> 0] => applied'[e] > 0
<1>1. WorkerInit => WorkerInv
  BY FS_EmptySet, DedupeSizeIsASize DEF WorkerInit, WorkerInv, Positions
<1>2. WorkerInv /\ [WorkerNext]_workerVars => [Needs]_workerVars
  <2> SUFFICES ASSUME WorkerInv, WorkerNext PROVE Needs
    BY Zenon
  <2>0. ASSUME NEW e \in Events, applied'[e] > applied[e], applied' = applied PROVE FALSE
    BY <2>0 DEF WorkerInv
  <2>1. ASSUME NEW e \in Events, Apply(e) PROVE Needs
    <3>1. e \notin Range(seen) /\ applied' = [applied EXCEPT ![e] = @ + 1] /\ attempted' = attempted \ {e}
      BY <2>1, Zenon DEF Apply, contains
    <3>2. applied'[e] > 0 /\ \A d \in Events \ {e} : ~(applied'[d] > applied[d])
      BY <3>1 DEF WorkerInv
    <3>3. applied[e] > 0 => Cardinality(since[e]) >= DedupeSize
      BY <3>1, Zenon DEF WorkerInv
    <3>4. QED
      BY <3>1, <3>2, <3>3, Zenon
  <2>2. ASSUME NEW e \in Events, Skip(e) PROVE Needs
    <3>1. e \in Range(seen) /\ applied' = applied /\ attempted' = attempted \ {e}
      BY <2>2, Zenon DEF Skip, contains
    <3>2. applied[e] > 0
      BY <3>1 DEF WorkerInv, Range, Positions
    <3>3. QED
      BY <2>0, <3>1, <3>2, Zenon
  <2>3. ASSUME NEW e \in Events, Fail(e) PROVE Needs
    BY <2>0, <2>3, Zenon DEF Fail
  <2>4. CASE Reject \/ ApplyUnnamed
    BY <2>0, <2>4, Zenon DEF Reject, ApplyUnnamed
  <2>5. CASE Restart
    <3>1. applied' = [d \in Events |-> 0]
      BY <2>5, Zenon DEF Restart
    <3>2. \A e \in Events : ~(applied'[e] > applied[e])
      BY <3>1 DEF WorkerInv
    <3>3. QED
      BY <3>1, <3>2, Zenon
  <2>6. QED
    BY <2>1, <2>2, <2>3, <2>4, <2>5, Zenon DEF WorkerNext
<1>3. QED
  BY <1>1, <1>2, WorkerSteps, PTL DEF WorkerSpec, DuplicatesNeedEviction

----------------------------------------------------------------------------
(* The pages of tasks.                                                     *)

\* The order of the list is one: two tasks, no more than once.
LEMMA NewerOrders ==
  ASSUME NEW x \in Tasks, NEW y \in Tasks
  PROVE  /\ ~Newer(x, x) /\ (Newer(x, y) <=> After(y, x)) /\ (x # y => Newer(x, y) \/ Newer(y, x))
         /\ \A z \in Tasks : Newer(x, y) /\ Newer(y, z) => Newer(x, z)
<1>1. ASSUME NEW t \in Tasks PROVE t.at \in Nat /\ t.id \in Nat /\ t = [at |-> t.at, id |-> t.id]
  BY <1>1, ListSizes, Zenon DEF Tasks
<1>2. x.at = y.at /\ x.id = y.id => x = y
  BY <1>1
<1>3. ~Newer(x, x) /\ (Newer(x, y) <=> After(y, x)) /\ (x # y => Newer(x, y) \/ Newer(y, x))
  BY <1>1, <1>2 DEF Newer, After
<1>4. ASSUME NEW z \in Tasks, Newer(x, y), Newer(y, z) PROVE Newer(x, z)
  BY <1>1, <1>4 DEF Newer
<1>5. QED
  BY <1>3, <1>4, Zenon

\* Some task is the oldest.
LEMMA OldestExists ==
  ASSUME NEW rows \in SUBSET Tasks, rows # {}
  PROVE  \E x \in rows : \A y \in rows \ {x} : Newer(y, x)
<1>1. ASSUME NEW t \in rows PROVE t \in Tasks /\ t.at \in Nat /\ t.id \in Nat
  BY <1>1, ListSizes, Zenon DEF Tasks
<1> DEFINE T == {t.at : t \in rows}
<1>2. PICK a \in T : \A b \in T : a =< b
  <2>1. T \subseteq Nat /\ T # {}
    BY <1>1
  <2>2. QED
    BY <2>1, LeastExists, Zenon
<1> DEFINE first == {t \in rows : t.at = a}
           I == {t.id : t \in first}
<1>3. PICK i \in I : \A j \in I : i =< j
  <2>1. I \subseteq Nat /\ I # {}
    BY <1>1
  <2>2. QED
    BY <2>1, LeastExists, Zenon
<1>4. PICK x \in first : x.id = i
  OBVIOUS
<1>5. ASSUME NEW y \in rows \ {x} PROVE Newer(y, x)
  <2>1. y.at \in Nat /\ x.at \in Nat /\ y.id \in Nat /\ x.id \in Nat /\ x.at =< y.at
    BY <1>1, <1>2, <1>4
  <2>2. y.at = x.at => x.id =< y.id
    BY <1>3, <1>4
  <2>3. ~After(y, x)
    BY <2>1, <2>2 DEF After
  <2>4. QED
    BY <1>1, <2>3, NewerOrders
<1>6. QED
  BY <1>4, <1>5

\* s lists the rows, newest first.
Sorts(s, rows) ==
  s \in [1..Cardinality(rows) -> rows] /\ \A i, j \in 1..Cardinality(rows) : i < j => Newer(s[i], s[j])

\* The rows but the oldest, then the oldest.
LEMMA SortedMore ==
  ASSUME NEW rows \in SUBSET Tasks, IsFiniteSet(rows), NEW x \in rows, \A y \in rows \ {x} : Newer(y, x),
         NEW s, Sorts(s, rows \ {x})
  PROVE  \E r : Sorts(r, rows)
<1> DEFINE n == Cardinality(rows)
           r == [i \in 1..n |-> IF i < n THEN s[i] ELSE x]
<1>1. n \in Nat /\ Cardinality(rows \ {x}) = n - 1
  BY FS_CardinalityType, FS_RemoveElement
<1>2. s \in [1..(n - 1) -> rows \ {x}] /\ \A i, j \in 1..(n - 1) : i < j => Newer(s[i], s[j])
  BY <1>1, Zenon DEF Sorts
<1> HIDE DEF n
<1>3. r \in [1..n -> rows]
  BY <1>1, <1>2
<1>4. ASSUME NEW i \in 1..n, NEW j \in 1..n, i < j PROVE Newer(r[i], r[j])
  BY <1>1, <1>2, <1>4
<1> HIDE DEF r
<1>5. QED
  BY <1>3, <1>4, Zenon DEF Sorts, n

\* Any finite set of rows can be sorted.
LEMMA SortedExists ==
  ASSUME NEW rows \in SUBSET Tasks, IsFiniteSet(rows)
  PROVE  \E s : Sorts(s, rows)
<1> DEFINE T == {n \in Nat : \E q \in SUBSET Tasks : IsFiniteSet(q) /\ Cardinality(q) = n /\ ~\E s : Sorts(s, q)}
<1>1. ASSUME NEW n \in T, \A m \in T : n =< m PROVE FALSE
  <2>1. PICK q \in SUBSET Tasks : IsFiniteSet(q) /\ Cardinality(q) = n /\ ~\E s : Sorts(s, q)
    BY <1>1, Zenon
  <2>2. CASE q = {}
    <3>1. Cardinality(q) = 0
      BY <2>2, FS_EmptySet
    <3>2. << >> \in [1..0 -> q] /\ \A i, j \in 1..0 : i < j => Newer(<< >>[i], << >>[j])
      OBVIOUS
    <3>3. Sorts(<< >>, q)
      BY <3>1, <3>2, Zenon DEF Sorts
    <3>4. QED
      BY <2>1, <3>3, Zenon
  <2>3. CASE q # {}
    <3>1. PICK x \in q : \A y \in q \ {x} : Newer(y, x)
      BY <2>3, OldestExists, Zenon
    <3>2. IsFiniteSet(q \ {x}) /\ Cardinality(q \ {x}) = n - 1 /\ n \in Nat /\ Cardinality(q \ {x}) \in Nat
      BY <2>1, FS_RemoveElement, FS_CardinalityType
    <3>3. n - 1 \notin T
      BY <1>1, <3>2
    <3>4. PICK s : Sorts(s, q \ {x})
      BY <3>2, <3>3, Zenon
    <3>5. QED
      BY <2>1, <3>1, <3>4, SortedMore, Zenon
  <2>4. QED
    BY <2>2, <2>3, Zenon
<1>2. CASE T # {}
  <2>1. T \subseteq Nat
    OBVIOUS
  <2>2. QED
    BY <1>1, <1>2, <2>1, LeastExists, Zenon
<1>3. CASE T = {}
  <2>1. Cardinality(rows) \in Nat
    BY FS_CardinalityType
  <2>2. QED
    BY <1>3, <2>1, Zenon
<1>4. QED
  BY <1>2, <1>3, Zenon

\* What lists as many rows as there are, none twice, lists them all.
LEMMA SortsAll ==
  ASSUME NEW rows \in SUBSET Tasks, IsFiniteSet(rows), NEW s, Sorts(s, rows)
  PROVE  /\ Cardinality(rows) \in Nat /\ s \in Seq(rows) /\ Len(s) = Cardinality(rows)
         /\ \A t \in rows : \E i \in 1..Cardinality(rows) : s[i] = t
<1> DEFINE n == Cardinality(rows)
<1>1. n \in Nat
  BY FS_CardinalityType
<1>2. s \in [1..n -> rows] /\ \A i, j \in 1..n : i < j => Newer(s[i], s[j])
  BY Zenon DEF Sorts
<1> HIDE DEF n
<1>3. IsFiniteSet(1..n) /\ Cardinality(1..n) = n
  BY <1>1, FS_Interval
<1>4. ASSUME NEW i \in 1..n, NEW j \in 1..n, s[i] = s[j] PROVE i = j
  <2>1. s[i] \in Tasks /\ ~Newer(s[i], s[j]) /\ ~Newer(s[j], s[i])
    BY <1>2, <1>4, NewerOrders, Zenon
  <2>2. ~(i < j) /\ ~(j < i)
    BY <1>2, <2>1, Zenon
  <2>3. QED
    BY <1>1, <2>2
<1>5. s \in Injection(1..n, rows)
  BY <1>2, <1>4, Zenon DEF Injection, IsInjective
<1>6. s \in Surjection(1..n, rows)
  BY <1>3, <1>5, FS_Injection, Zenon DEF n
<1>7. \A t \in rows : \E i \in 1..n : s[i] = t
  BY <1>6, Zenon DEF Surjection
<1>8. s \in Seq(rows) /\ Len(s) = n
  BY <1>1, <1>2
<1>9. QED
  BY <1>1, <1>7, <1>8, Zenon DEF n

\* A page of rows: in order, and if it is the last one it has them all, else all
\* but those after its last.
IsPage(page, rows) ==
  /\ page.tasks \in Seq(rows)
  /\ \A i, j \in 1..Len(page.tasks) : i < j => Newer(page.tasks[i], page.tasks[j])
  /\ page.next = {} => \A t \in rows : \E i \in 1..Len(page.tasks) : page.tasks[i] = t
  /\ page.next # {} =>
       /\ page.tasks # << >> /\ page.next = {page.tasks[Len(page.tasks)]}
       /\ \A t \in rows : \/ \E i \in 1..Len(page.tasks) : page.tasks[i] = t
                          \/ After(t, page.tasks[Len(page.tasks)])

Following == {t \in table : \A c \in cursor : After(t, c)}

\* List asks for one row more than the page holds.
LEMMA ListIsPage ==
  ASSUME NEW limit \in Nat \ {0}, table \subseteq Tasks, IsFiniteSet(table)
  PROVE  IsPage(List(limit), Following)
<1> DEFINE n == Cardinality(Following)
           s == CHOOSE s \in [1..n -> Following] : \A i, j \in 1..n : i < j => Newer(s[i], s[j])
           rows == Query(Following, limit + 1)
           m == IF limit + 1 < n THEN limit + 1 ELSE n
<1>1. Following \in SUBSET Tasks /\ IsFiniteSet(Following)
  <2>1. Following \in SUBSET table
    BY Zenon DEF Following
  <2>2. QED
    BY <2>1, FS_Subset
<1>2. Sorts(s, Following)
  <2>1. \E r \in [1..n -> Following] : \A i, j \in 1..n : i < j => Newer(r[i], r[j])
    BY <1>1, SortedExists, Zenon DEF Sorts
  <2>2. QED
    BY <2>1, Zenon DEF Sorts
<1>3. rows = SubSeq(s, 1, m)
  BY Zenon DEF Query
<1> HIDE DEF s
<1>4. /\ n \in Nat /\ s \in Seq(Following) /\ Len(s) = n
      /\ \A t \in Following : \E i \in 1..n : s[i] = t
  BY <1>1, <1>2, SortsAll, Zenon
<1>5. \A i, j \in 1..n : i < j => Newer(s[i], s[j])
  BY <1>2, Zenon DEF Sorts
<1>6. List(limit) = IF Len(rows) > limit THEN [tasks |-> SubSeq(rows, 1, limit), next |-> {rows[limit]}]
                    ELSE [tasks |-> rows, next |-> {}]
  BY Zenon DEF List, Following
<1> HIDE DEF n, rows
<1>7. rows \in Seq(Following) /\ Len(rows) = m /\ \A i \in 1..m : rows[i] = s[i]
  BY <1>3, <1>4
<1> HIDE DEF m
<1>8. CASE n =< limit
  <2>1. m = n /\ ~(Len(rows) > limit)
    BY <1>4, <1>7, <1>8 DEF m
  <2>2. List(limit).tasks = rows /\ List(limit).next = {}
    BY <1>6, <2>1
  <2>3. QED
    BY <1>4, <1>5, <1>7, <2>1, <2>2, Zenon DEF IsPage
<1>9. CASE n > limit
  <2> DEFINE tasks == SubSeq(rows, 1, limit)
  <2>1. Len(rows) > limit /\ m >= limit + 1 /\ m =< n /\ m \in Nat
    BY <1>4, <1>7, <1>9 DEF m
  <2>2. List(limit).tasks = tasks /\ List(limit).next = {rows[limit]}
    BY <1>6, <2>1
  <2>3. tasks \in Seq(Following) /\ Len(tasks) = limit /\ \A i \in 1..limit : tasks[i] = s[i]
    BY <1>7, <2>1
  <2>4. rows[limit] = s[limit] /\ limit \in 1..n /\ limit \in 1..limit
    BY <1>4, <1>7, <2>1
  <2> HIDE DEF tasks
  <2>5. \A i, j \in 1..limit : i < j => Newer(tasks[i], tasks[j])
    <3>1. \A i \in 1..limit : i \in 1..n
      BY <1>4, <1>9
    <3>2. QED
      BY <1>5, <2>3, <3>1, Zenon
  <2>6. ASSUME NEW t \in Following
        PROVE  (\E i \in 1..limit : tasks[i] = t) \/ After(t, tasks[limit])
    <3>1. PICK i \in 1..n : s[i] = t
      BY <1>4, <2>6, Zenon
    <3>2. CASE i =< limit
      <4>1. i \in 1..limit
        BY <3>2
      <4>2. QED
        BY <2>3, <3>1, <4>1, Zenon
    <3>3. CASE ~(i =< limit)
      <4>1. limit < i
        BY <3>3
      <4>2. Newer(s[limit], s[i]) /\ s[limit] \in Tasks /\ s[i] \in Tasks
        BY <1>1, <1>4, <1>5, <2>4, <4>1
      <4>3. QED
        BY <2>3, <2>4, <3>1, <4>2, NewerOrders, Zenon
    <3>4. QED
      BY <3>2, <3>3, Zenon
  <2>7. tasks # << >>
    BY <2>3
  <2>8. List(limit).next # {} /\ List(limit).next = {tasks[limit]}
    BY <2>2, <2>3, <2>4, Zenon
  <2>9. QED
    BY <2>2, <2>3, <2>5, <2>6, <2>7, <2>8, Zenon DEF IsPage
<1>10. QED
  BY <1>4, <1>8, <1>9

Listed(t) == \E i \in DOMAIN listed : listed[i] = t

\* What the client does not have yet is after its cursor, which points at the
\* last task it has.
ListInv ==
  /\ table \subseteq Tasks /\ IsFiniteSet(table) /\ stable \subseteq table
  /\ listed \in Seq(Tasks) /\ \A i, j \in 1..Len(listed) : i < j => Newer(listed[i], listed[j])
  /\ ~done => \/ cursor = {} /\ listed = << >>
              \/ listed # << >> /\ cursor = {listed[Len(listed)]}
  /\ \A t \in stable : Listed(t) \/ (~done /\ \A c \in cursor : After(t, c))

\* A page goes after what the client has.
LEMMA PageKeeps ==
  ASSUME ListInv, NEW limit, list(limit)
  PROVE  ListInv'
<1> DEFINE page == List(IF limit = 0 THEN DefaultPageSize ELSE limit)
           tasks == page.tasks
<1>1. /\ ~done /\ listed' = listed \o tasks /\ cursor' = page.next /\ done' = (page.next = {})
      /\ UNCHANGED <<table, stable>>
  BY Zenon DEF list
<1>2. IsPage(page, Following)
  <2>1. IF limit = 0 THEN DefaultPageSize \in Nat \ {0} ELSE limit \in Nat \ {0}
    BY ListSizes DEF list
  <2>2. QED
    BY <2>1, ListIsPage, Zenon DEF ListInv
<1> HIDE DEF page
<1>3. Following \subseteq Tasks /\ tasks \in Seq(Following) /\ tasks \in Seq(Tasks)
  <2>1. Following \subseteq Tasks /\ tasks \in Seq(Following)
    BY <1>2, Zenon DEF Following, IsPage, ListInv
  <2>2. QED
    BY <2>1
<1>4. /\ listed \in Seq(Tasks) /\ \A i, j \in 1..Len(listed) : i < j => Newer(listed[i], listed[j])
      /\ \/ cursor = {} /\ listed = << >>
         \/ listed # << >> /\ cursor = {listed[Len(listed)]}
  BY <1>1, Zenon DEF ListInv
<1>5. \A i, j \in 1..Len(tasks) : i < j => Newer(tasks[i], tasks[j])
  BY <1>2, Zenon DEF IsPage
<1> HIDE DEF tasks
<1> DEFINE n == Len(listed)
           all == listed \o tasks
<1>6. /\ n \in Nat /\ Len(tasks) \in Nat /\ all \in Seq(Tasks) /\ Len(all) = n + Len(tasks)
      /\ \A i \in 1..n : all[i] = listed[i] /\ all[i] \in Tasks
      /\ \A i \in 1..Len(tasks) : all[n + i] = tasks[i] /\ tasks[i] \in Following
  BY <1>3, <1>4
<1>7. ASSUME NEW i \in 1..n, NEW t \in Following PROVE Newer(listed[i], t)
  <2>1. listed # << >> /\ n \in 1..n
    BY <1>4, <1>6
  <2>2. cursor = {listed[n]} /\ listed[i] \in Tasks /\ listed[n] \in Tasks /\ t \in Tasks
    BY <1>3, <1>4, <2>1
  <2>3. Newer(listed[n], t)
    BY <2>2, NewerOrders, Zenon DEF Following
  <2>4. CASE i = n
    BY <2>3, <2>4, Zenon
  <2>5. CASE i # n
    <3>1. i < n
      BY <1>6, <2>5
    <3>2. QED
      BY <1>4, <2>1, <2>2, <2>3, <3>1, NewerOrders, Zenon
  <2>6. QED
    BY <2>4, <2>5, Zenon
<1> HIDE DEF n, all
<1>8. ASSUME NEW i \in 1..Len(all), NEW j \in 1..Len(all), i < j PROVE Newer(all[i], all[j])
  <2>1. CASE j =< n
    <3>1. i \in 1..n /\ j \in 1..n
      BY <1>6, <1>8, <2>1
    <3>2. QED
      BY <1>4, <1>6, <1>8, <3>1, Zenon DEF n
  <2>2. CASE ~(j =< n)
    <3>1. j - n \in 1..Len(tasks) /\ j = n + (j - n)
      BY <1>6, <1>8, <2>2
    <3>2. all[j] = tasks[j - n] /\ tasks[j - n] \in Following
      BY <1>6, <3>1, Zenon
    <3>3. CASE i =< n
      <4>1. i \in 1..n
        BY <1>6, <1>8, <3>3
      <4>2. QED
        BY <1>6, <1>7, <3>2, <4>1, Zenon
    <3>4. CASE ~(i =< n)
      <4>1. i - n \in 1..Len(tasks) /\ i = n + (i - n) /\ i - n < j - n
        BY <1>6, <1>8, <3>4
      <4>2. QED
        BY <1>5, <1>6, <3>1, <3>2, <4>1, Zenon
    <3>5. QED
      BY <3>3, <3>4, Zenon
  <2>3. QED
    BY <2>1, <2>2, Zenon
<1>9. /\ \A i \in 1..n : i \in DOMAIN all
      /\ \A i \in 1..Len(tasks) : n + i \in DOMAIN all
  BY <1>6
<1>10. /\ \A t : Listed(t) => Listed(t)'
       /\ \A i \in 1..Len(tasks) : \E j \in DOMAIN listed' : listed'[j] = tasks[i]
  <2>1. DOMAIN listed = 1..n /\ listed' = all
    BY <1>1, <1>4 DEF n, all
  <2>2. QED
    BY <1>6, <1>9, <2>1, Zenon DEF Listed
<1>11. ASSUME NEW t \in stable' PROVE Listed(t)' \/ (~done' /\ \A c \in cursor' : After(t, c))
  <2>1. t \in stable /\ t \in table
    BY <1>1, Zenon DEF ListInv
  <2>2. CASE Listed(t)
    BY <1>10, <2>2, Zenon
  <2>3. CASE t \in Following
    <3>1. CASE \E i \in 1..Len(tasks) : tasks[i] = t
      BY <1>10, <3>1, Zenon DEF Listed
    <3>2. CASE ~\E i \in 1..Len(tasks) : tasks[i] = t
      BY <1>1, <1>2, <2>3, <3>2, Zenon DEF IsPage, tasks
    <3>3. QED
      BY <3>1, <3>2, Zenon
  <2>4. QED
    BY <2>1, <2>2, <2>3, Zenon DEF ListInv, Following
<1>12. ASSUME ~done' PROVE listed' # << >> /\ cursor' = {listed'[Len(listed')]}
  <2>1. tasks # << >> /\ cursor' = {tasks[Len(tasks)]}
    BY <1>1, <1>2, <1>12, Zenon DEF IsPage, tasks
  <2>2. Len(tasks) \in 1..Len(tasks) /\ Len(all) = n + Len(tasks) /\ Len(all) > 0
    BY <1>3, <1>6, <2>1
  <2>3. all # << >> /\ all[Len(all)] = tasks[Len(tasks)]
    BY <1>6, <2>2
  <2>4. QED
    BY <1>1, <2>1, <2>3, Zenon DEF all
<1>13. QED
  <2>1. listed' \in Seq(Tasks) /\ \A i, j \in 1..Len(listed') : i < j => Newer(listed'[i], listed'[j])
    BY <1>1, <1>6, <1>8, Zenon DEF all
  <2>2. table' \subseteq Tasks /\ IsFiniteSet(table') /\ stable' \subseteq table'
    BY <1>1, Zenon DEF ListInv
  <2>3. QED
    BY <1>11, <1>12, <2>1, <2>2, Zenon DEF ListInv

LEMMA ListSteps == ListInv /\ [ListNext]_listVars => ListInv'
<1> SUFFICES ASSUME ListInv, [ListNext]_listVars PROVE ListInv'
  OBVIOUS
<1>1. ASSUME NEW t \in Tasks, CreateTask(t) PROVE ListInv'
  <2>1. table' = table \union {t} /\ UNCHANGED <<cursor, done, listed, stable>>
    BY <1>1, Zenon DEF CreateTask
  <2>2. IsFiniteSet(table') /\ table' \subseteq Tasks /\ stable' \subseteq table'
    BY <2>1, FS_AddElement DEF ListInv
  <2>3. QED
    BY <2>1, <2>2, Zenon DEF ListInv, Listed
<1>2. ASSUME NEW t \in Tasks, DeleteTask(t) PROVE ListInv'
  <2>1. table' = table \ {t} /\ stable' = stable \ {t} /\ UNCHANGED <<cursor, done, listed>>
    BY <1>2, Zenon DEF DeleteTask
  <2>2. IsFiniteSet(table') /\ table' \subseteq Tasks /\ stable' \subseteq table'
    BY <2>1, FS_RemoveElement DEF ListInv
  <2>3. QED
    BY <2>1, <2>2, Zenon DEF ListInv, Listed
<1>3. CASE UNCHANGED listVars
  BY <1>3, Zenon DEF listVars, ListInv, Listed
<1>4. QED
  BY <1>1, <1>2, <1>3, PageKeeps, Zenon DEF ListNext

\* For any page sizes, tables, times and ids, and however many tasks are created
\* and deleted meanwhile, the pages are in order, without a task twice, and the
\* last one completes the tasks that were there all the time.
THEOREM PagesCompleteProved == ListSpec => []PagesComplete
<1>1. ListInit => ListInv
  <2>1. ASSUME ListInit PROVE << >> \in Seq(Tasks) /\ \A i, j \in 1..Len(<< >>) : i < j => Newer(<< >>[i], << >>[j])
    OBVIOUS
  <2>2. QED
    BY <2>1, Zenon DEF ListInit, ListInv
<1>2. ListInv => PagesComplete
  <2>1. ListInv => DOMAIN listed = 1..Len(listed)
    BY DEF ListInv
  <2>2. QED
    BY <2>1, Zenon DEF ListInv, PagesComplete, Listed
<1>3. QED
  BY <1>1, <1>2, ListSteps, PTL DEF ListSpec

----------------------------------------------------------------------------
(* Migrations.                                                             *)

Holding == {"locked", "run", "inserted"}

MigrateTypes ==
  /\ recorded \in SUBSET Versions /\ effects \in [Versions -> Nat]
  /\ tx \in [Replicas -> {"none", "begun"} \union Holding]
  /\ todo \in [Replicas -> SUBSET Nat]
  /\ boot \in [Replicas -> {"down", "migrating", "ready", "failed"}]
  /\ \A r \in Replicas : todo[r] \subseteq Files[r]

\* One transaction at a time holds the lock, and what it found missing stays so.
Locks(r) ==
  /\ tx[r] \in Holding <=> holder = r
  /\ tx[r] # "none" => todo[r] # {}
  /\ tx[r] \in {"run", "inserted"} => version(r) \notin recorded
LockInv == \A r \in Replicas : Locks(r)

\* A replica under way has found or applied the files it has passed.
Passed(r) == boot[r] = "migrating" \/ tx[r] # "none" => Files[r] \ todo[r] \subseteq recorded
PassedInv == \A r \in Replicas : Passed(r)

MigrateInv == MigrateTypes /\ LockInv /\ PassedInv /\ MigratedOnceInOrder

\* The next version is the least one left.
LEMMA VersionIsLeast ==
  ASSUME MigrateTypes, NEW r \in Replicas, todo[r] # {}
  PROVE  /\ version(r) \in todo[r] /\ version(r) \in Files[r] /\ version(r) \in Versions
         /\ version(r) \in Nat
         /\ \A w \in Files[r] : w < version(r) => w \notin todo[r]
<1>1. todo[r] \subseteq Nat /\ todo[r] \subseteq Files[r]
  BY Zenon DEF MigrateTypes
<1>2. \E x \in todo[r] : \A y \in todo[r] : x =< y
  BY <1>1, LeastExists, Zenon
<1>3. version(r) \in todo[r] /\ \A y \in todo[r] : version(r) =< y
  BY <1>2, Zenon DEF version, Min
<1>4. QED
  BY <1>1, <1>3, VersionsAreNumbers, FreeIsNoReplica DEF Versions

\* The only transaction that commits is the holder's, of a version that is
\* not recorded yet and whose predecessors are.
LEMMA CommittedStep ==
  ASSUME MigrateInv, NEW r \in Replicas, tx[r] = "inserted", Committed(r),
         tx' = [tx EXCEPT ![r] = "none"],
         todo' \in {todo, [todo EXCEPT ![r] = @ \ {version(r)}]},
         boot' \in {boot, [boot EXCEPT ![r] = "failed"]},
         todo' = todo => boot'[r] \in {"failed", "down"}
  PROVE  MigrateInv'
<1> DEFINE v == version(r)
<1>1. /\ v \in todo[r] /\ v \in Files[r] /\ v \in Versions /\ v \in Nat
      /\ \A w \in Files[r] : w < v => w \notin todo[r]
  <2>1. todo[r] # {}
    BY Zenon DEF MigrateInv, LockInv, Locks
  <2>2. QED
    BY <2>1, VersionIsLeast, Zenon DEF MigrateInv
<1>2. v \notin recorded /\ holder = r /\ Files[r] \ todo[r] \subseteq recorded
  BY Zenon DEF MigrateInv, LockInv, Locks, PassedInv, Passed, Holding
<1>3. \A q \in Replicas \ {r} : tx'[q] = tx[q] /\ tx[q] \notin Holding /\ todo'[q] = todo[q] /\ boot'[q] = boot[q]
  BY <1>2, Zenon DEF MigrateInv, MigrateTypes, LockInv, Locks
<1>4. recorded' = recorded \union {v} /\ holder' = "free" /\ tx'[r] = "none"
  BY Zenon DEF Committed, MigrateInv, MigrateTypes
<1>5. MigrateTypes'
  BY <1>1, <1>4 DEF MigrateInv, MigrateTypes, Committed, Holding
<1>6. LockInv'
  BY <1>3, <1>4, VersionsAreNumbers, FreeIsNoReplica DEF MigrateInv, LockInv, Locks, Holding, version
<1>7. PassedInv'
  <2>1. ASSUME NEW q \in Replicas, q # r, boot'[q] = "migrating" \/ tx'[q] # "none"
        PROVE  Files[q] \ todo'[q] \subseteq recorded'
    BY <1>3, <1>4, <2>1, Zenon DEF MigrateInv, PassedInv, Passed
  <2>2. ASSUME boot'[r] = "migrating" \/ tx'[r] # "none"
        PROVE  Files[r] \ todo'[r] \subseteq recorded'
    BY <1>1, <1>2, <1>4, <2>2 DEF MigrateInv, MigrateTypes
  <2>3. QED
    BY <2>1, <2>2, Zenon DEF PassedInv, Passed
<1>8. MigratedOnceInOrder'
  <2>1. \A w \in Versions : effects'[w] = IF w \in recorded' THEN 1 ELSE 0
    BY <1>1, <1>2, <1>4 DEF MigrateInv, MigrateTypes, MigratedOnceInOrder, Committed
  <2>2. ASSUME NEW w \in recorded'
        PROVE  \E q \in Replicas : w \in Files[q] /\ {u \in Files[q] : u < w} \subseteq order'[w]
    <3>1. CASE w \in recorded
      BY <3>1, <2>2, Zenon DEF MigrateInv, MigratedOnceInOrder, Committed
    <3>2. CASE w \notin recorded
      <4>1. w = v /\ order'[w] = recorded
        BY <1>4, <2>2, <3>2, Zenon DEF Committed
      <4>2. {u \in Files[r] : u < w} \subseteq recorded
        BY <1>1, <1>2, <4>1, Zenon
      <4>3. QED
        BY <1>1, <4>1, <4>2, Zenon
    <3>3. QED
      BY <3>1, <3>2, Zenon
  <2>3. \A q \in Replicas : boot'[q] = "ready" => Files[q] \subseteq recorded'
    BY <1>4 DEF MigrateInv, MigrateTypes, MigratedOnceInOrder
  <2>4. QED
    BY <2>1, <2>2, <2>3, Zenon DEF MigratedOnceInOrder
<1>9. QED
  BY <1>5, <1>6, <1>7, <1>8, Zenon DEF MigrateInv

\* The steps that leave schema_migrations alone.
LEMMA UncommittedSteps ==
  ASSUME MigrateInv, NEW r \in Replicas,
         \/ Boot(r) \/ begin(r) \/ lock(r) \/ skip(r) \/ run(r) \/ insert(r) \/ Crash(r) \/ ready(r)
  PROVE  MigrateInv'
<1>1. recorded' = recorded /\ effects' = effects /\ order' = order
  BY Zenon DEF Boot, begin, lock, skip, run, insert, Crash, ready
<1>2. \A q \in Replicas : todo'[q] = todo[q] => version(q)' = version(q)
  BY Zenon DEF version
<1> DEFINE HasItsOwn == \A q \in Replicas : boot'[q] = "ready" => Files[q] \subseteq recorded
<1>3. ASSUME HasItsOwn PROVE MigratedOnceInOrder'
  <2>1. \A v \in Versions : effects'[v] = IF v \in recorded' THEN 1 ELSE 0
    BY <1>1, Zenon DEF MigrateInv, MigratedOnceInOrder
  <2>2. \A v \in recorded' : \E q \in Replicas : v \in Files[q] /\ {w \in Files[q] : w < v} \subseteq order'[v]
    BY <1>1, Zenon DEF MigrateInv, MigratedOnceInOrder
  <2>3. QED
    BY <1>1, <1>3, <2>1, <2>2, Zenon DEF MigratedOnceInOrder
<1>4. ASSUME NEW q \in Replicas, q # r PROVE Locks(q)' /\ Passed(q)' /\ boot'[q] = boot[q]
  <2>1. tx'[q] = tx[q] /\ todo'[q] = todo[q] /\ boot'[q] = boot[q]
    BY <1>4, Zenon DEF MigrateInv, MigrateTypes, Boot, begin, lock, skip, run, insert, Crash, ready, Steps
  <2>2. holder' = holder \/ (holder \in {r, "free"} /\ holder' \in {r, "free"})
    BY Zenon DEF Boot, begin, lock, skip, run, insert, Crash, ready, Steps, MigrateInv, LockInv, Locks, Holding
  <2>3. q # "free"
    BY FreeIsNoReplica, Zenon
  <2>4. holder' = q <=> holder = q
    BY <1>4, <2>2, <2>3, Zenon
  <2>5. QED
    BY <1>1, <1>2, <2>1, <2>4, Zenon DEF MigrateInv, LockInv, PassedInv, Locks, Passed
<1>5. ASSUME MigrateTypes', Locks(r)', Passed(r)', boot'[r] = "ready" => Files[r] \subseteq recorded
      PROVE  MigrateInv'
  <2>1. LockInv' /\ PassedInv'
    BY <1>4, <1>5, Zenon DEF LockInv, PassedInv
  <2>2. HasItsOwn
    BY <1>4, <1>5, Zenon DEF MigrateInv, MigratedOnceInOrder
  <2>3. QED
    BY <1>3, <1>5, <2>1, <2>2, Zenon DEF MigrateInv
<1>6. Locks(r) /\ Passed(r)
  BY Zenon DEF MigrateInv, LockInv, PassedInv
<1>7. CASE Boot(r)
  <2>1. /\ boot' = [boot EXCEPT ![r] = "migrating"] /\ tx[r] = "none"
        /\ todo' = [todo EXCEPT ![r] = Files[r]] /\ tx' = tx /\ holder' = holder
    BY <1>7, Zenon DEF Boot
  <2>2. MigrateTypes' /\ boot'[r] = "migrating" /\ todo'[r] = Files[r]
    BY <1>1, <2>1, VersionsAreNumbers, Zenon DEF MigrateInv, MigrateTypes
  <2>3. QED
    BY <1>5, <1>6, <2>1, <2>2, Zenon DEF Locks, Passed
<1>8. CASE skip(r)
  <2>1. /\ boot[r] = "migrating" /\ tx[r] = "locked" /\ tx' = [tx EXCEPT ![r] = "none"] /\ version(r) \in recorded
        /\ todo' = [todo EXCEPT ![r] = @ \ {version(r)}] /\ boot' = boot /\ holder' = "free"
    BY <1>8, Zenon DEF skip, Steps
  <2>2. MigrateTypes' /\ tx'[r] = "none" /\ todo'[r] = todo[r] \ {version(r)}
    BY <1>1, <2>1, Zenon DEF MigrateInv, MigrateTypes
  <2>3. Locks(r)'
    BY <2>1, <2>2, FreeIsNoReplica, Zenon DEF Locks, Holding
  <2>4. Passed(r)'
    BY <1>1, <1>6, <2>1, <2>2, Zenon DEF Passed
  <2>5. QED
    BY <1>5, <2>1, <2>2, <2>3, <2>4, Zenon
<1>9. CASE begin(r) \/ lock(r) \/ run(r) \/ insert(r)
  <2>1. /\ boot[r] = "migrating" /\ boot' = boot /\ todo' = todo
        /\ \/ tx' = [tx EXCEPT ![r] = "begun"] /\ todo[r] # {} /\ holder' = holder /\ tx[r] = "none"
           \/ tx' = [tx EXCEPT ![r] = "locked"] /\ tx[r] = "begun" /\ holder = "free" /\ holder' = r
           \/ /\ tx' = [tx EXCEPT ![r] = "run"] \/ tx' = [tx EXCEPT ![r] = "inserted"]
              /\ tx[r] \in {"locked", "run"} /\ version(r) \notin recorded /\ holder' = holder
    BY <1>9, Zenon DEF begin, lock, run, insert, Steps
  <2>2. MigrateTypes' /\ tx'[r] \in {"begun", "locked", "run", "inserted"}
    BY <1>1, <2>1, Zenon DEF MigrateInv, MigrateTypes, Holding
  <2>3. /\ tx'[r] \in Holding <=> holder' = r
        /\ tx'[r] \in {"run", "inserted"} => version(r) \notin recorded
    BY <1>6, <2>1, FreeIsNoReplica, Zenon DEF MigrateInv, MigrateTypes, Locks, Holding
  <2>4. todo'[r] # {} /\ version(r)' = version(r)
    BY <1>2, <1>6, <2>1, Zenon DEF Locks
  <2>5. Locks(r)' /\ Passed(r)'
    BY <1>1, <1>6, <2>1, <2>3, <2>4, Zenon DEF Locks, Passed
  <2>6. QED
    BY <1>5, <2>1, <2>2, <2>5, Zenon
<1>10. CASE Crash(r) \/ ready(r)
  <2>1. /\ tx' = tx /\ todo' = todo /\ holder' = holder
        /\ \/ boot' = [boot EXCEPT ![r] = "down"]
           \/ boot' = [boot EXCEPT ![r] = "ready"] /\ boot[r] = "migrating" /\ todo[r] = {}
    BY <1>10, Zenon DEF Crash, ready
  <2>2. MigrateTypes' /\ boot'[r] \in {"down", "ready"} /\ (boot'[r] = "ready" => todo[r] = {} /\ boot[r] = "migrating")
    BY <1>1, <2>1, Zenon DEF MigrateInv, MigrateTypes
  <2>3. Locks(r)' /\ Passed(r)'
    BY <1>1, <1>2, <1>6, <2>1, <2>2, Zenon DEF Locks, Passed
  <2>4. boot'[r] = "ready" => Files[r] \subseteq recorded
    BY <1>6, <2>2, Zenon DEF Passed
  <2>5. QED
    BY <1>5, <2>2, <2>3, <2>4, Zenon
<1>11. QED
  BY <1>7, <1>8, <1>9, <1>10, Zenon

\* A transaction that ends without Migrate going on: rolled back, or applied.
LEMMA EndedStep ==
  ASSUME MigrateInv, NEW r \in Replicas, fails(r) \/ Ends(r)
  PROVE  MigrateInv'
<1>1. /\ tx[r] # "none" /\ tx' = [tx EXCEPT ![r] = "none"] /\ todo' = todo
      /\ boot' \in {boot, [boot EXCEPT ![r] = "failed"]} /\ boot'[r] \in {"failed", "down"}
  BY Zenon DEF fails, Ends, Ended, MigrateInv, MigrateTypes
<1>2. CASE tx[r] = "inserted" /\ Committed(r)
  BY <1>1, <1>2, CommittedStep, Zenon
<1>3. CASE holder' = (IF holder = r THEN "free" ELSE holder) /\ UNCHANGED <<recorded, effects, order>>
  <2>1. MigrateTypes' /\ LockInv'
    BY <1>1, <1>3, VersionsAreNumbers, FreeIsNoReplica, Zenon DEF MigrateInv, MigrateTypes, LockInv, Locks, Holding, version
  <2>2. PassedInv' /\ MigratedOnceInOrder'
    BY <1>1, <1>3 DEF MigrateInv, MigrateTypes, PassedInv, Passed, MigratedOnceInOrder
  <2>3. QED
    BY <2>1, <2>2, Zenon DEF MigrateInv
<1>4. QED
  BY <1>2, <1>3, Zenon DEF fails, Ends, Ended

\* Replicas of any builds that boot at any time, fail and die apply each
\* migration once, exactly when it is recorded, and after the earlier ones of
\* their build; a replica that is ready has all of its own (migrate.go Migrate,
\* applyOne).
THEOREM MigratedOnceInOrderProved == MigrateSpec => []MigratedOnceInOrder
<1>1. MigrateInit => MigrateInv
  BY VersionsAreNumbers, FreeIsNoReplica DEF MigrateInit, MigrateInv, MigrateTypes, LockInv, Locks, PassedInv, Passed, MigratedOnceInOrder, Holding, Versions
<1>2. MigrateInv /\ [MigrateNext]_migrateVars => MigrateInv'
  <2> SUFFICES ASSUME MigrateInv, [MigrateNext]_migrateVars PROVE MigrateInv'
    OBVIOUS
  <2>1. ASSUME NEW r \in Replicas, commit(r) PROVE MigrateInv'
    <3>1. tx[r] = "inserted" /\ tx' = [tx EXCEPT ![r] = "none"] /\ Committed(r) /\ boot' = boot
      BY <2>1, Zenon DEF commit, Steps
    <3>2. version(r) \in todo[r]
      BY <3>1, VersionIsLeast, Zenon DEF MigrateInv, LockInv, Locks
    <3>3. todo' = [todo EXCEPT ![r] = @ \ {version(r)}] /\ todo' # todo
      BY <2>1, <3>2, Zenon DEF commit, MigrateInv, MigrateTypes
    <3>4. QED
      BY <3>1, <3>3, CommittedStep, Zenon
  <2>2. CASE UNCHANGED migrateVars
    BY <2>2, Zenon DEF migrateVars, MigrateInv, MigrateTypes, LockInv, Locks, PassedInv, Passed, MigratedOnceInOrder, version
  <2>3. QED
    BY <2>1, <2>2, UncommittedSteps, EndedStep, Zenon DEF MigrateNext
<1>3. MigrateInv => MigratedOnceInOrder
  BY Zenon DEF MigrateInv
<1>4. QED
  BY <1>1, <1>2, <1>3, PTL DEF MigrateSpec

----------------------------------------------------------------------------
(* Poll.                                                                   *)

\* A partition that has not bounced: out has the records between the committed
\* offset and the fetch position while the member owns it, and otherwise only
\* records that the end of the loop's body drops.
Steady(p) ==
  /\ \A o \in 0..(Records - 1) : o < committed[p] => [part |-> p, off |-> o] \in settled
  /\ IF p \in assigned
       THEN /\ position[p] \in committed[p]..Records /\ p \notin revoked
            /\ \A o \in 0..(Records - 1) :
                 [part |-> p, off |-> o] \in out <=> o \in committed[p]..(position[p] - 1)
       ELSE p \in revoked \/ \A x \in out : x.part # p

PollInv ==
  /\ committed \in [Partitions -> 0..Records] /\ position \in [Partitions -> 0..Records]
  /\ out \subseteq Record /\ assigned \subseteq Partitions
  /\ poll = "loop" => out = {}
  /\ \A p \in Partitions : p \notin bounced => Steady(p)

\* Nothing is assigned, polled or committed.
LEMMA PollStarts == PollInit => PollInv
BY RecordsIsACount DEF PollInit, PollInv, Steady

\* A partition about which a step changes nothing that matters.
LEMMA StaysSteady ==
  ASSUME NEW p \in Partitions, Steady(p), committed'[p] = committed[p], settled \subseteq settled',
         p \in assigned' <=> p \in assigned,
         p \in assigned => position'[p] = position[p] /\ p \notin revoked'
                           /\ \A x \in Record : x.part = p => (x \in out' <=> x \in out),
         p \notin assigned => p \in revoked' \/ \A x \in out' : x.part # p
  PROVE  Steady(p)'
<1>1. \A o \in 0..(Records - 1) : [part |-> p, off |-> o] \in Record /\ [part |-> p, off |-> o].part = p
  BY Zenon DEF Record
<1>2. QED
  BY <1>1, Zenon DEF Steady

\* A batch commits one past the last record it handled.
LEMMA BatchTyped ==
  ASSUME PollInv, Batch
  PROVE  committed' \in [Partitions -> 0..Records]
<1> DEFINE IsNext(p, n) == [part |-> p, off |-> n - 1] \in Owned /\ \A x \in Owned : x.part = p => x.off < n
<1>1. ASSUME NEW p \in Partitions, \E x \in Owned : x.part = p
      PROVE  \E n \in 1..Records : IsNext(p, n)
  <2> DEFINE Beyond == {n \in Nat : \A x \in Owned : x.part = p => x.off < n}
  <2>1. \A x \in Owned : x.off \in 0..(Records - 1) /\ x = [part |-> x.part, off |-> x.off]
    BY DEF PollInv, Owned, Record
  <2>2. Records \in Beyond
    BY <2>1, RecordsIsACount
  <2>3. PICK n \in Beyond : \A k \in Beyond : n <= k
    BY <2>2, LeastExists, Zenon
  <2>4. n \in 1..Records /\ n - 1 \in Nat
    BY <1>1, <2>1, <2>2, <2>3, RecordsIsACount
  <2>5. PICK x \in Owned : x.part = p /\ ~(x.off < n - 1)
    BY <2>3, <2>4
  <2>6. x.off = n - 1
    BY <2>1, <2>3, <2>4, <2>5
  <2>7. QED
    BY <2>1, <2>3, <2>4, <2>5, <2>6
<1> HIDE DEF IsNext
<1>2. committed' = [p \in Partitions |->
        IF \E x \in Owned : x.part = p THEN CHOOSE n \in 1..Records : IsNext(p, n) ELSE committed[p]]
  BY Zenon DEF Batch, IsNext
<1>3. 1..Records \subseteq 0..Records
  BY RecordsIsACount
<1>4. QED
  BY <1>1, <1>2, <1>3, Zenon DEF PollInv

\* Where the fetch position is, and that nothing lies between it and itself.
LEMMA Between ==
  ASSUME NEW n \in Nat, NEW c \in 0..n, NEW k \in c..n
  PROVE  k \in 0..n /\ k \in k..n /\ \A o : o \notin k..(k - 1)
OBVIOUS

\* The records handled of a partition that has not bounced are those from the
\* committed offset up to the fetch position.
LEMMA BatchSteady ==
  ASSUME PollInv, Batch, NEW p \in Partitions, p \notin bounced
  PROVE  Steady(p)'
<1> DEFINE IsNext(n) == [part |-> p, off |-> n - 1] \in Owned /\ \A x \in Owned : x.part = p => x.off < n
<1>1. Steady(p) /\ out \subseteq Record
  BY Zenon DEF PollInv
<1>2. /\ settled' = settled \union Owned /\ out' = {} /\ UNCHANGED <<assigned, position, revoked>>
      /\ committed'[p] = IF \E x \in Owned : x.part = p THEN CHOOSE n \in 1..Records : IsNext(n) ELSE committed[p]
  BY Zenon DEF Batch
<1>3. CASE p \notin assigned
  <2>1. ~ \E x \in Owned : x.part = p
    BY <1>3, Zenon DEF Owned
  <2>2. QED
    BY <1>1, <1>2, <1>3, <2>1, Zenon DEF Steady
<1>4. CASE p \in assigned
  <2>1. \A o \in 0..(Records - 1) : [part |-> p, off |-> o] \in Owned <=> o \in committed[p]..(position[p] - 1)
    BY <1>1, <1>4, Zenon DEF Steady, Owned
  <2>2. \A x \in Owned : x.part = p => x = [part |-> p, off |-> x.off] /\ x.off \in 0..(Records - 1)
    BY <1>1 DEF Owned, Record
  <2>3. committed[p] \in 0..Records /\ position[p] \in committed[p]..Records
    BY <1>1, <1>4, Zenon DEF PollInv, Steady
  <2>4. committed'[p] = position[p]
    <3>1. CASE \E x \in Owned : x.part = p
      <4>1. committed[p] < position[p]
        BY <2>1, <2>2, <2>3, <3>1, RecordsIsACount
      <4>2. position[p] \in 1..Records /\ IsNext(position[p])
        BY <2>1, <2>2, <2>3, <4>1, RecordsIsACount
      <4>3. ASSUME NEW n \in 1..Records, IsNext(n) PROVE n = position[p]
        BY <2>1, <2>3, <4>1, <4>2, <4>3, RecordsIsACount
      <4>4. QED
        BY <1>2, <3>1, <4>2, <4>3, Zenon
    <3>2. CASE ~ \E x \in Owned : x.part = p
      <4>1. committed[p] = position[p]
        <5>1. SUFFICES ASSUME committed[p] < position[p] PROVE FALSE
          BY <2>3, RecordsIsACount
        <5>2. committed[p] \in 0..(Records - 1) /\ committed[p] \in committed[p]..(position[p] - 1)
          BY <2>3, <5>1, RecordsIsACount
        <5>3. [part |-> p, off |-> committed[p]] \in Owned
          BY <2>1, <5>2, Zenon
        <5>4. QED
          BY <3>2, <5>3, Zenon
      <4>2. QED
        BY <1>2, <3>2, <4>1, Zenon
    <3>3. QED
      BY <3>1, <3>2, Zenon
  <2>5. ASSUME NEW o \in 0..(Records - 1), o < position[p] PROVE [part |-> p, off |-> o] \in settled'
    BY <1>1, <1>2, <2>1, <2>3, <2>5, RecordsIsACount DEF Steady
  <2>6. QED
    <3>1. committed'[p] = position[p] /\ position'[p] = position[p] /\ p \notin revoked'
      BY <1>1, <1>2, <1>4, <2>4, Zenon DEF Steady
    <3>2. /\ committed'[p] \in 0..Records /\ position'[p] \in committed'[p]..Records
          /\ \A o : o \notin committed'[p]..(position'[p] - 1)
      BY <2>3, <3>1, Between, RecordsIsACount, Zenon
    <3>3. QED
      BY <1>2, <1>4, <2>4, <2>5, <3>1, <3>2, Zenon DEF Steady
<1>5. QED
  BY <1>3, <1>4, Zenon

\* One more record is out, that at the fetch position.
LEMMA OneFurther ==
  ASSUME NEW n \in Nat, NEW c \in 0..n, NEW k \in c..n, k < n
  PROVE  /\ k + 1 \in c..n /\ (k + 1) - 1 = k
         /\ \A o \in 0..(n - 1) : o \in c..k <=> o \in c..(k - 1) \/ o = k
OBVIOUS

\* A partition that is fetched from, assigned, or worked on elsewhere.
LEMMA PartitionSteps ==
  ASSUME PollInv, NEW p \in Partitions, Message(p) \/ Assign(p) \/ Elsewhere(p),
         NEW q \in Partitions, q \notin bounced'
  PROVE  Steady(q)'
<1>1. Steady(q) /\ out \subseteq Record
  BY Zenon DEF PollInv, Message, Assign, Elsewhere
<1>2. CASE Message(p)
  <2>1. /\ p \in assigned /\ position[p] < Records /\ revoked' = {} /\ UNCHANGED <<committed, assigned, settled>>
        /\ out' = Kept(out \union {[part |-> p, off |-> position[p]]}, revoked)
        /\ position' = [position EXCEPT ![p] = @ + 1]
    BY <1>2, Zenon DEF Message
  <2>2. CASE q = p
    <3>1. /\ committed[p] \in 0..Records /\ position[p] \in committed[p]..Records /\ p \notin revoked
          /\ position'[p] = position[p] + 1
      BY <1>1, <2>1, <2>2, Zenon DEF Steady, PollInv
    <3>a. /\ position[p] + 1 \in committed[p]..Records /\ (position[p] + 1) - 1 = position[p]
          /\ \A o \in 0..(Records - 1) :
               o \in committed[p]..position[p] <=> o \in committed[p]..(position[p] - 1) \/ o = position[p]
      BY <2>1, <3>1, OneFurther, RecordsIsACount, Zenon
    <3>2. ASSUME NEW o \in 0..(Records - 1)
          PROVE  [part |-> p, off |-> o] \in out' <=> o \in committed[p]..position[p]
      <4>1. [part |-> p, off |-> o] \in out' <=> [part |-> p, off |-> o] \in out \/ o = position[p]
        BY <2>1, <3>1, Zenon DEF Kept
      <4>2. [part |-> p, off |-> o] \in out <=> o \in committed[p]..(position[p] - 1)
        BY <1>1, <2>1, <2>2, Zenon DEF Steady
      <4>3. QED
        BY <3>a, <4>1, <4>2, Zenon
    <3>3. QED
      <4>1. position'[p] \in committed[p]..Records /\ position'[p] - 1 = position[p]
        BY <3>1, <3>a, Zenon
      <4>2. QED
        BY <1>1, <2>1, <2>2, <3>2, <4>1, Zenon DEF Steady
  <2>3. CASE q # p
    <3>1. \A x \in Record : x.part = q /\ q \notin revoked => (x \in out' <=> x \in out)
      BY <2>1, <2>3 DEF Kept
    <3>2. q \in revoked => \A x \in out' : x.part # q
      BY <2>1, Zenon DEF Kept
    <3>3. (\A x \in out : x.part # q) => \A x \in out' : x.part # q
      BY <2>1, <2>3 DEF Kept
    <3>4. q \in assigned => q \notin revoked /\ q \notin revoked' /\ position'[q] = position[q]
      BY <1>1, <2>1, <2>3, Zenon DEF Steady, PollInv
    <3>5. q \notin assigned => \A x \in out' : x.part # q
      BY <1>1, <3>2, <3>3, Zenon DEF Steady
    <3>6. QED
      BY <1>1, <2>1, <3>1, <3>4, <3>5, StaysSteady, Zenon
  <2>4. QED
    BY <2>2, <2>3, Zenon
<1>3. CASE Assign(p)
  <2>1. /\ p \notin assigned /\ assigned' = assigned \union {p} /\ UNCHANGED <<committed, out, revoked, settled>>
        /\ position' = [position EXCEPT ![p] = committed[p]] /\ bounced' = bounced \union ({p} \cap revoked)
    BY <1>3, Zenon DEF Assign
  <2>2. CASE q = p
    <3>1. p \notin revoked /\ \A x \in out : x.part # p
      BY <1>1, <2>1, <2>2, Zenon DEF Steady
    <3>2. position'[p] = committed[p] /\ committed[p] \in 0..Records
      BY <1>1, <2>1, <2>2, Zenon DEF Steady, PollInv
    <3>3. QED
      BY <1>1, <2>1, <2>2, <3>1, <3>2, RecordsIsACount DEF Steady
  <2>3. CASE q # p
    BY <1>1, <2>1, <2>3, StaysSteady, Zenon DEF Steady, PollInv
  <2>4. QED
    BY <2>2, <2>3
<1>4. CASE Elsewhere(p)
  <2>1. /\ p \notin assigned /\ committed[p] < Records
        /\ settled' = settled \union {[part |-> p, off |-> committed[p]]}
        /\ committed' = [committed EXCEPT ![p] = @ + 1]
        /\ UNCHANGED <<assigned, position, out, revoked>>
    BY <1>4, Zenon DEF Elsewhere
  <2>2. CASE q = p
    <3>1. committed'[p] = committed[p] + 1 /\ committed[p] \in 0..Records
      BY <1>1, <2>1, <2>2, Zenon DEF Steady, PollInv
    <3>2. QED
      BY <1>1, <2>1, <2>2, <3>1, RecordsIsACount DEF Steady
  <2>3. CASE q # p
    BY <1>1, <2>1, <2>3, StaysSteady, Zenon DEF Steady, PollInv
  <2>4. QED
    BY <2>2, <2>3
<1>5. QED
  BY <1>2, <1>3, <1>4, Zenon

\* The steps of Poll and of the loop.
LEMMA PollSteps == PollInv /\ [PollNext]_pollVars => PollInv'
<1> SUFFICES ASSUME PollInv, [PollNext]_pollVars PROVE PollInv'
  OBVIOUS
<1>1. CASE UNCHANGED pollVars
  BY <1>1, Zenon DEF pollVars, PollInv, Steady
<1>2. CASE BeginPoll
  <2>1. /\ out = {} /\ out' = {} /\ revoked' = {} /\ poll' = "poll"
        /\ UNCHANGED <<committed, assigned, position, settled, bounced>>
    BY <1>2, Zenon DEF BeginPoll, PollInv
  <2>2. \A p \in Partitions : p \notin bounced => Steady(p)'
    BY <2>1, StaysSteady, Zenon DEF PollInv
  <2>3. QED
    BY <2>1, <2>2, Zenon DEF PollInv
<1>3. CASE OtherEvent
  <2>1. /\ out' = Kept(out, revoked) /\ revoked' = {} /\ poll' = poll /\ poll = "poll"
        /\ UNCHANGED <<committed, assigned, position, settled, bounced>>
    BY <1>3, Zenon DEF OtherEvent, Polling
  <2>2. ASSUME NEW p \in Partitions, p \notin bounced PROVE Steady(p)'
    <3>1. Steady(p)
      BY <2>2, Zenon DEF PollInv
    <3>2. p \in assigned => p \notin revoked /\ \A x \in Record : x.part = p => (x \in out' <=> x \in out)
      BY <2>1, <3>1, Zenon DEF Steady, Kept
    <3>3. p \notin assigned => \A x \in out' : x.part # p
      BY <2>1, <3>1, Zenon DEF Steady, Kept
    <3>4. QED
      BY <2>1, <3>1, <3>2, <3>3, StaysSteady, Zenon
  <2>3. out' \subseteq Record
    BY <2>1, Zenon DEF Kept, PollInv
  <2>4. QED
    BY <2>1, <2>2, <2>3, Zenon DEF PollInv
<1>4. CASE PollReturns
  BY <1>4, Zenon DEF PollReturns, PollInv, Steady
<1>5. CASE Fatal
  <2>1. /\ poll' = "loop" /\ out' = {} /\ assigned' = {}
        /\ UNCHANGED <<committed, position, revoked, settled, bounced>>
    BY <1>5, Zenon DEF Fatal
  <2>2. \A p \in Partitions : Steady(p) => Steady(p)'
    BY <2>1, Zenon DEF Steady
  <2>3. QED
    BY <2>1, <2>2, Zenon DEF PollInv
<1>6. CASE Batch
  <2>1. \A p \in Partitions : p \notin bounced' => Steady(p)'
    BY <1>6, BatchSteady, Zenon DEF Batch
  <2>2. /\ committed' \in [Partitions -> 0..Records] /\ out' = {} /\ UNCHANGED <<position, assigned>>
    BY <1>6, BatchTyped, Zenon DEF Batch
  <2>3. QED
    BY <2>1, <2>2, Zenon DEF PollInv
<1>7. ASSUME NEW p \in Partitions, Message(p) \/ Assign(p) \/ Elsewhere(p) PROVE PollInv'
  <2>1. \A q \in Partitions : q \notin bounced' => Steady(q)'
    BY <1>7, PartitionSteps, Zenon
  <2>2. /\ committed' \in [Partitions -> 0..Records] /\ position' \in [Partitions -> 0..Records]
        /\ assigned' \subseteq Partitions
    BY <1>7, RecordsIsACount DEF Message, Assign, Elsewhere, PollInv
  <2>3. out' \subseteq Record
    <3>1. CASE Message(p)
      <4>1. [part |-> p, off |-> position[p]] \in Record
        BY <3>1, RecordsIsACount DEF Message, PollInv, Record
      <4>2. QED
        BY <3>1, <4>1, Zenon DEF Message, Kept, PollInv
    <3>2. CASE ~Message(p)
      BY <1>7, <3>2, Zenon DEF Assign, Elsewhere, PollInv
    <3>3. QED
      BY <3>1, <3>2, Zenon
  <2>4. poll' = "loop" => out' = {}
    BY <1>7, Zenon DEF Message, Assign, Elsewhere, PollInv, Polling, NoEvent
  <2>5. QED
    BY <2>1, <2>2, <2>3, <2>4, Zenon DEF PollInv
<1>8. ASSUME NEW R \in SUBSET Partitions, Revoke(R) PROVE PollInv'
  <2>1. /\ R \subseteq assigned /\ assigned' = assigned \ R /\ revoked' = revoked \union R /\ poll' # "loop"
        /\ UNCHANGED <<committed, position, out, settled, bounced>>
    BY <1>8, Zenon DEF Revoke, NoEvent
  <2>2. ASSUME NEW p \in Partitions, Steady(p) PROVE Steady(p)'
    BY <2>1, <2>2, Zenon DEF Steady
  <2>3. QED
    BY <2>1, <2>2, Zenon DEF PollInv
<1>9. QED
  BY <1>1, <1>2, <1>3, <1>4, <1>5, <1>6, <1>7, <1>8, Zenon DEF PollNext

\* For any number of partitions and records, any size of a poll and any rebalances,
\* the group's offset passes a record that was not handled only in a partition that
\* left and came back within one Poll (rdkafka.go Poll, the rebalance callback).
THEOREM SkipsNeedABounceProved == PollSpec => []SkipsNeedABounce
<1>1. PollInv => SkipsNeedABounce
  <2> SUFFICES ASSUME PollInv, NEW x \in Record, x.off < committed[x.part], x.part \notin bounced
               PROVE  x \in settled
    BY Zenon DEF SkipsNeedABounce
  <2>1. x.part \in Partitions /\ x.off \in 0..(Records - 1) /\ x = [part |-> x.part, off |-> x.off]
    BY Zenon DEF Record
  <2>2. QED
    BY <2>1, Zenon DEF PollInv, Steady
<1>2. QED
  BY <1>1, PollStarts, PollSteps, PTL DEF PollSpec

----------------------------------------------------------------------------
(* librdkafka's producer.                                                  *)

\* A call is inside the present client, which is neither retired nor, before
\* Close, destroyed; only clients that were created can be.
ProducerInv ==
  /\ made \in Nat /\ client \in 1..made /\ gone \subseteq 1..made /\ retiring \subseteq 1..made
  /\ producerClosed \in BOOLEAN /\ client \notin retiring
  /\ client \in gone => producerClosed
  /\ closer # "none" => producerClosed
  /\ inside \in [Callers -> {0, client}]
  /\ producerClosed => NoReaders

\* The first client has just been created.
LEMMA ProducerStarts == ProducerInit => ProducerInv
<1>1. ProducerInit => 1 \in Nat /\ 1 \in 1..1 /\ inside \in [Callers -> {0, client}]
  BY DEF ProducerInit
<1>2. QED
  BY <1>1, Zenon DEF ProducerInit, ProducerInv

\* A client is replaced, and the producer closed, only while no call is inside.
LEMMA ProducerSteps == ProducerInv /\ [ProducerNext]_producerVars => ProducerInv'
<1> SUFFICES ASSUME ProducerInv, [ProducerNext]_producerVars PROVE ProducerInv'
  OBVIOUS
<1> USE DEF ProducerInv, NoReaders
<1>1. CASE UNCHANGED producerVars
  BY <1>1 DEF producerVars
<1>2. ASSUME NEW c \in Callers, Call(c) PROVE ProducerInv'
  BY <1>2 DEF Call
<1>3. ASSUME NEW c \in Callers, Return(c) PROVE ProducerInv'
  BY <1>3 DEF Return
<1>4. ASSUME NEW k, fatalError(k) \/ startReplace(k) PROVE ProducerInv'
  BY <1>4 DEF fatalError, startReplace
<1>5. ASSUME NEW k, replace(k) PROVE ProducerInv'
  <2>1. CASE UNCHANGED <<client, made, retiring>>
    BY <1>5, <2>1, Zenon DEF replace
  <2>2. CASE /\ ~producerClosed /\ client = k
             /\ made' = made + 1 /\ client' = made + 1 /\ retiring' = retiring \union {k}
    <3>1. /\ made' \in Nat /\ client' \in 1..made'
          /\ 1..made \subseteq 1..made' /\ client' \notin 1..made
      BY <2>2
    <3>2. inside' \in [Callers -> {0, client'}]
      BY <1>5, Zenon DEF replace
    <3>3. UNCHANGED <<gone, producerClosed, closer>>
      BY <1>5, Zenon DEF replace
    <3>4. QED
      BY <2>2, <3>1, <3>2, <3>3, Zenon
  <2>3. QED
    BY <1>5, <2>1, <2>2, Zenon DEF replace
<1>6. ASSUME NEW k, retire(k) PROVE ProducerInv'
  BY <1>6 DEF retire
<1>7. CASE producerClose
  BY <1>7 DEF producerClose
<1>8. CASE closeClient \/ producerCloseReturns
  BY <1>8, Zenon DEF closeClient, producerCloseReturns
<1>9. QED
  BY <1>1, <1>2, <1>3, <1>4, <1>5, <1>6, <1>7, <1>8, Zenon
  DEF ProducerNext, ProducerStep

\* So no call is inside a destroyed client.
LEMMA ProducerSafe == ProducerInv => NoCallInDestroyedProducer
BY DEF ProducerInv, NoCallInDestroyedProducer, NoReaders

----------------------------------------------------------------------------
(* librdkafka's consumer.                                                  *)

\* Once Close has drained the calls none is left and none comes: a Ping looks at
\* closing, and the loop that commits has returned.
ConsumerInv ==
  /\ commits \in Nat
  /\ stage \in {"none", "drain", "leave", "commit", "destroyed", "done"}
  /\ stage # "none" => closing
  /\ stage \in {"leave", "commit", "destroyed"} \/ destroyed => pinging = {} /\ commits = 0
  /\ destroyed => stage \in {"destroyed", "done"}

\* Nothing is under way at first.
LEMMA ConsumerStarts == ConsumerInit => ConsumerInv
BY DEF ConsumerInit, ConsumerInv

\* Close waits until the count of the calls is zero before it destroys.
LEMMA ConsumerSteps == ConsumerInv /\ [ConsumerNext]_consumerVars => ConsumerInv'
<1> SUFFICES ASSUME ConsumerInv, [ConsumerNext]_consumerVars PROVE ConsumerInv'
  OBVIOUS
<1> USE DEF ConsumerInv
<1>1. CASE UNCHANGED consumerVars
  BY <1>1 DEF consumerVars
<1>2. ASSUME NEW c \in Pingers, Ping(c) PROVE ConsumerInv'
  BY <1>2 DEF Ping
<1>3. ASSUME NEW c \in Pingers, pingReturns(c) PROVE ConsumerInv'
  BY <1>3 DEF pingReturns
<1>4. CASE fail \/ commitAbandoned
  BY <1>4 DEF fail, commitAbandoned
<1>5. CASE Commit \/ commitReturns
  BY <1>5 DEF Commit, commitReturns
<1>6. CASE consumerClose \/ abandon
  BY <1>6 DEF consumerClose, abandon
<1>7. CASE callsDone
  BY <1>7 DEF callsDone, callsInside
<1>8. CASE callbackCommit \/ destroy \/ consumerCloseReturns
  BY <1>8 DEF callbackCommit, destroy, consumerCloseReturns
<1>9. QED
  BY <1>1, <1>2, <1>3, <1>4, <1>5, <1>6, <1>7, <1>8, Zenon DEF ConsumerNext

\* So no call is inside the client when it is destroyed, or later.
LEMMA ConsumerSafe == ConsumerInv => NoCallInDestroyedConsumer
BY DEF ConsumerInv, NoCallInDestroyedConsumer, callsInside

\* No call is inside a librdkafka client that has been destroyed, however calls,
\* fatal errors, replacements, abandoned commits and Close interleave.
THEOREM NoCallInDestroyedClientProved == ClientsSpec => []NoCallInDestroyedClient
<1>1. ClientsInit => ProducerInv /\ ConsumerInv
  BY ProducerStarts, ConsumerStarts, Zenon DEF ClientsInit
<1>2. ProducerInv /\ ConsumerInv /\ [ClientsNext]_clientsVars => (ProducerInv /\ ConsumerInv)'
  BY ProducerSteps, ConsumerSteps, Zenon DEF ClientsNext, clientsVars
<1>3. ProducerInv /\ ConsumerInv => NoCallInDestroyedClient
  BY ProducerSafe, ConsumerSafe, Zenon DEF NoCallInDestroyedClient
<1>4. QED
  BY <1>1, <1>2, <1>3, PTL DEF ClientsSpec

----------------------------------------------------------------------------
(* The process of a service.                                               *)

Among(d, s) == \E i \in DOMAIN s : s[i] = d

\* What Append, Head and Tail do to the elements of the two lists.
LEMMA Moved ==
  ASSUME NEW D, NEW s \in Seq(D), NEW t \in Seq(D), t # << >>, NEW h \in D, h = Head(t)
  PROVE  /\ Tail(t) \in Seq(D) /\ Append(s, h) \in Seq(D)
         /\ \A d : Among(d, t) => d = h \/ Among(d, Tail(t))
         /\ \A d : Among(d, s) => Among(d, Append(s, h))
         /\ Among(h, Append(s, h))
<1>1. h = t[1] /\ Tail(t) \in Seq(D) /\ Append(s, h) \in Seq(D)
  OBVIOUS
<1>2. ASSUME NEW i \in DOMAIN t, i # 1
      PROVE  i - 1 \in DOMAIN Tail(t) /\ Tail(t)[i - 1] = t[i]
  BY <1>2
<1>3. ASSUME NEW i \in DOMAIN s
      PROVE  i \in DOMAIN Append(s, h) /\ Append(s, h)[i] = s[i]
  BY <1>1
<1>4. Len(s) + 1 \in DOMAIN Append(s, h) /\ Append(s, h)[Len(s) + 1] = h
  BY <1>1
<1>5. QED
  BY <1>1, <1>2, <1>3, <1>4, Zenon DEF Among

Dependencies == {"db", "valkey", "producer", "consumer"}

\* What run has yet to come to.
Pending(d) == Among(d, toOpen)

\* Loops run, and requests are served, only while the group does; until it has
\* returned, what is configured is open or about to be.
ProcessInv ==
  /\ loop \in [Loops[svc] -> {"off", "running", "returned"}]
  /\ request \in [Requests -> {"none", "running", "cut", "done"}]
  /\ main \in {"config", "open", "serve"} =>
       /\ opened \in Seq(Dependencies) /\ toOpen \in Seq(Dependencies)
       /\ \A d \in on : Open(d) \/ Pending(d)
  /\ main = "serve" => toOpen = << >>
  /\ \A l \in Loops[svc] : loop[l] = "running" => main \in {"serve", "killed"}
  /\ \A r \in Requests : request[r] = "running" =>
       /\ main \in {"serve", "killed"}
       /\ server \in {"refresh", "serving", "delay", "drain"}

\* A new process has opened nothing.
LEMMA ProcessStarts == LifeInit => ProcessInv
<1> SUFFICES ASSUME LifeInit PROVE ProcessInv
  OBVIOUS
<1>1. opened \in Seq(Dependencies) /\ toOpen \in Seq(Dependencies)
  <2>1. Opens["tasks"] = <<"db", "valkey", "producer">>
    BY Zenon DEF Opens
  <2>2. Opens["consumer"] = <<"consumer">> /\ Opens["heartbeat"] = << >> /\ Opens["ping"] = << >>
    BY Zenon DEF Opens
  <2>3. <<"db", "valkey", "producer">> \in Seq(Dependencies)
    BY DEF Dependencies
  <2>4. <<"consumer">> \in Seq(Dependencies) /\ << >> \in Seq(Dependencies)
    BY DEF Dependencies
  <2>5. QED
    BY <2>1, <2>2, <2>3, <2>4, Zenon DEF LifeInit, Services
<1>2. \A d \in on : Pending(d)
  BY Zenon DEF LifeInit, Pending, Among
<1>3. /\ loop \in [Loops[svc] -> {"off", "running", "returned"}]
      /\ request \in [Requests -> {"none", "running", "cut", "done"}]
      /\ \A l \in Loops[svc] : loop[l] = "off"
      /\ \A r \in Requests : request[r] = "none"
  BY Zenon DEF LifeInit
<1>4. QED
  BY <1>1, <1>2, <1>3, Zenon DEF LifeInit, ProcessInv

\* Opening moves a dependency from the one list to the other; the group returns
\* only when its loops and the server have, and the server only drained.
LEMMA ProcessSteps == ProcessInv /\ [LifeNext]_lifeVars => ProcessInv'
<1> SUFFICES ASSUME ProcessInv, [LifeNext]_lifeVars PROVE ProcessInv'
  OBVIOUS
<1> USE DEF fixed, serving, group
<1>1. UNCHANGED <<svc, on>>
  BY Zenon DEF LifeNext, lifeVars, bootConfig, openNext, serve, Signal, SecondSignal, bind,
     refreshed, shutdownBegins, delayOver, drained, adminStops, accept, handlerReturns, loopReturns,
     workerFails, waited, closeNext
<1>2. UNCHANGED <<opened, toOpen>> => (\A d : Open(d)' = Open(d)) /\ (\A d : Pending(d)' = Pending(d))
  BY Zenon DEF Open, Pending, Among
<1>3. CASE UNCHANGED lifeVars
  BY <1>1, <1>2, <1>3, Zenon DEF ProcessInv, lifeVars
<1>4. CASE bootConfig \/ Signal \/ SecondSignal
  BY <1>1, <1>2, <1>4, Zenon DEF ProcessInv, bootConfig, Signal, SecondSignal
<1>5. CASE openNext
  <2>1. CASE /\ opened' = IF Head(toOpen) \in on THEN Append(opened, Head(toOpen)) ELSE opened
             /\ toOpen' = Tail(toOpen) /\ UNCHANGED main
    <3>1. opened \in Seq(Dependencies) /\ toOpen \in Seq(Dependencies) /\ toOpen # << >>
      BY <1>5, Zenon DEF ProcessInv, openNext
    <3>2. PICK h \in Dependencies : h = Head(toOpen)
      BY <3>1
    <3>3. /\ Tail(toOpen) \in Seq(Dependencies) /\ Append(opened, h) \in Seq(Dependencies)
          /\ \A d : Among(d, toOpen) => d = h \/ Among(d, Tail(toOpen))
          /\ \A d : Among(d, opened) => Among(d, Append(opened, h))
          /\ Among(h, Append(opened, h))
      BY <3>1, <3>2, Moved, Zenon
    <3>4. \A d : Open(d) => Open(d)'
      BY <2>1, <3>2, <3>3, Zenon DEF Open, Among
    <3>5. h \in on => Open(h)'
      BY <2>1, <3>2, <3>3, Zenon DEF Open, Among
    <3>6. \A d : Pending(d) => d = h \/ Pending(d)'
      BY <2>1, <3>3, Zenon DEF Pending, Among
    <3>7. opened' \in Seq(Dependencies) /\ toOpen' \in Seq(Dependencies)
      BY <2>1, <3>1, <3>2, <3>3, Zenon
    <3>8. main = "open" /\ UNCHANGED <<server, loop, request>>
      BY <1>5, Zenon DEF openNext
    <3>9. \A d \in on : Open(d)' \/ Pending(d)'
      BY <3>4, <3>5, <3>6, <3>8, Zenon DEF ProcessInv
    <3>10. QED
      BY <1>1, <2>1, <3>7, <3>8, <3>9, Zenon DEF ProcessInv
  <2>2. CASE main' = "close"
    BY <1>1, <1>5, <2>2, Zenon DEF ProcessInv, openNext
  <2>3. QED
    BY <1>5, <2>1, <2>2, Zenon DEF openNext
<1>6. CASE serve
  BY <1>1, <1>2, <1>6, Zenon DEF ProcessInv, serve
<1>7. CASE bind \/ refreshed \/ shutdownBegins \/ delayOver
  BY <1>1, <1>2, <1>7, Zenon DEF ProcessInv, bind, returns, refreshed, shutdownBegins, delayOver
<1>8. CASE drained
  <2>1. request' \in [Requests -> {"none", "running", "cut", "done"}] /\ \A r \in Requests : request'[r] # "running"
    BY <1>8, Zenon DEF ProcessInv, drained
  <2>2. QED
    BY <1>1, <1>2, <1>8, <2>1, Zenon DEF ProcessInv, drained
<1>9. ASSUME NEW r \in Requests, accept(r) \/ handlerReturns(r) PROVE ProcessInv'
  BY <1>1, <1>2, <1>9, Zenon DEF ProcessInv, accept, handlerReturns
<1>10. ASSUME NEW l \in Loops[svc], loopReturns(l) PROVE ProcessInv'
  BY <1>1, <1>2, <1>10, Zenon DEF ProcessInv, loopReturns
<1>11. CASE workerFails
  BY <1>1, <1>2, <1>11, Zenon DEF ProcessInv, workerFails
<1>12. CASE waited
  BY <1>1, <1>2, <1>12, Zenon DEF ProcessInv, waited, Wait
<1>13. CASE closeNext
  BY <1>1, <1>13, Zenon DEF ProcessInv, closeNext
<1>14. CASE adminStops
  BY <1>1, <1>2, <1>14, Zenon DEF ProcessInv, adminStops, returns
<1>15. QED
  BY <1>3, <1>4, <1>5, <1>6, <1>7, <1>8, <1>9, <1>10, <1>11, <1>12, <1>13, <1>14, Zenon DEF LifeNext

\* What a loop or a request uses is open.
LEMMA ProcessSafe == ProcessInv => NothingUsedAfterClose
<1> SUFFICES ASSUME ProcessInv, Alive PROVE NothingUsedAfterClose
  BY Zenon DEF NothingUsedAfterClose
<1>1. main = "serve" => \A d \in on : Open(d)
  <2>1. toOpen = << >> => \A d : ~ Pending(d)
    BY DEF Pending, Among
  <2>2. QED
    BY <2>1, Zenon DEF ProcessInv
<1>2. QED
  BY <1>1, Zenon DEF ProcessInv, NothingUsedAfterClose, Alive

\* While the process of any service closes what it opened, no loop runs and no
\* request is served that uses it, whatever was configured, however many
\* requests it serves and wherever its start or its shutdown fails.
THEOREM NothingUsedAfterCloseProved == LifeSpec => []NothingUsedAfterClose
BY ProcessStarts, ProcessSteps, ProcessSafe, PTL DEF LifeSpec
=============================================================================
