----------------------------- MODULE CountProofs -----------------------------
(***************************************************************************)
(* What the proofs about windows and budgets use about numbers and finite  *)
(* sets: least elements, sums over a set, quotients.  The log level        *)
(* and the sampling of its records come last, as the first to use them.    *)
(***************************************************************************)
EXTENDS LogLevel, FiniteSets, FiniteSetTheorems, WellFoundedInduction, TLAPS

\* A nonempty set of natural numbers has a least element.
LEMMA LeastExists ==
  ASSUME NEW T, T \subseteq Nat, T # {}
  PROVE  \E x \in T : \A y \in T : x =< y
<1> DEFINE R == {ss \in Nat \X Nat : ss[1] < ss[2]}
<1>1. OpToRel(<, Nat) = R
  BY Zenon DEF OpToRel
<1>2. IsWellFoundedOn(R, Nat)
  BY <1>1, NatLessThanWellFounded, Zenon
<1> HIDE DEF R
<1>3. PICK x \in T : \A y \in T : ~(<<y, x>> \in R)
  BY <1>2, WFMin, Zenon
<1>4. ASSUME NEW y \in T PROVE x =< y
  <2>1. y \in Nat /\ x \in Nat /\ <<y, x>> \in Nat \X Nat
    OBVIOUS
  <2>2. <<y, x>>[1] = y /\ <<y, x>>[2] = x
    OBVIOUS
  <2>3. ~(<<y, x>>[1] < <<y, x>>[2])
    BY <1>3, <2>1, Zenon DEF R
  <2>4. ~(y < x)
    BY <2>2, <2>3, Zenon
  <2>5. QED
    BY <2>1, <2>4
<1>5. QED
  BY <1>4, Zenon

----------------------------------------------------------------------------
(* Sums.  SumFunctionOnSet takes the elements out of the set in the order  *)
(* in which CHOOSE names them, through a recursive function on subsets.    *)

Some(s) == CHOOSE x \in s : TRUE

\* g computes the sums of f over the sets of D.
Sums(f, D, g) == g = [s \in D |-> IF s = {} THEN 0 ELSE f[Some(s)] + g[s \ {Some(s)}]]

\* Sums of f are those of any function that computes them.
LEMMA SumIsChosen ==
  ASSUME NEW f, NEW S
  PROVE  SumFunctionOnSet(f, S) = (CHOOSE g : Sums(f, SUBSET S, g))[S]
  BY DEF SumFunctionOnSet, FoldFunctionOnSet, MapThenFoldSet, Sums, Some

\* The rest of a finite set is smaller by one.
LEMMA SomeOf ==
  ASSUME NEW s, IsFiniteSet(s), s # {}
  PROVE  /\ Some(s) \in s /\ IsFiniteSet(s \ {Some(s)})
         /\ Cardinality(s) \in Nat \ {0} /\ Cardinality(s \ {Some(s)}) = Cardinality(s) - 1
<1>1. Some(s) \in s
  BY Zenon DEF Some
<1>2. Cardinality(s) \in Nat /\ Cardinality(s) # 0
  BY FS_CardinalityType, FS_EmptySet, Zenon
<1>3. IsFiniteSet(s \ {Some(s)}) /\ Cardinality(s \ {Some(s)}) = Cardinality(s) - 1
  BY <1>1, FS_RemoveElement, Zenon
<1>4. QED
  BY <1>1, <1>2, <1>3

\* The subsets of a finite set have such a function: one for those of at most n
\* elements gives one for those of at most n + 1.
LEMMA SumsExist ==
  ASSUME NEW f, NEW S, IsFiniteSet(S)
  PROVE  \E g : Sums(f, SUBSET S, g)
<1> DEFINE Small(n) == {s \in SUBSET S : Cardinality(s) =< n}
           T == {n \in Nat : \A g : ~Sums(f, Small(n), g)}
<1>1. ASSUME NEW s \in SUBSET S PROVE IsFiniteSet(s) /\ Cardinality(s) \in Nat
  BY FS_Subset, FS_CardinalityType, Zenon
<1>2. ASSUME NEW n \in T, \A m \in T : n =< m PROVE FALSE
  <2> DEFINE ext(g) == [s \in Small(n) |-> IF s = {} THEN 0 ELSE f[Some(s)] + g[s \ {Some(s)}]]
  <2>1. n \in Nat
    OBVIOUS
  <2>2. ASSUME NEW s \in Small(n), s # {}
        PROVE  n # 0 /\ n - 1 \in Nat /\ s \ {Some(s)} \in Small(n - 1) /\ s \ {Some(s)} \in Small(n)
    BY <1>1, <2>1, <2>2, SomeOf
  <2>3. \E g : \A s \in Small(n) : s # {} => g[s \ {Some(s)}] = ext(g)[s \ {Some(s)}]
    <3>1. CASE n = 0
      <4>1. \A s \in Small(n) : s = {}
        BY <2>2, <3>1
      <4>2. QED
        BY <4>1, Zenon
    <3>2. CASE n # 0
      <4>1. n - 1 \in Nat /\ n - 1 \notin T
        BY <1>2, <2>1, <3>2
      <4>2. PICK g : Sums(f, Small(n - 1), g)
        BY <4>1, Zenon
      <4>3. ASSUME NEW s \in Small(n - 1), s \in Small(n) PROVE g[s] = ext(g)[s]
        <5>1. g[s] = IF s = {} THEN 0 ELSE f[Some(s)] + g[s \ {Some(s)}]
          BY <4>2, <4>3, Zenon DEF Sums
        <5>2. QED
          BY <4>3, <5>1, Zenon
      <4>4. QED
        BY <2>2, <4>3, Zenon
    <3>3. QED
      BY <3>1, <3>2, Zenon
  <2>4. PICK g : \A s \in Small(n) : s # {} => g[s \ {Some(s)}] = ext(g)[s \ {Some(s)}]
    BY <2>3, Zenon
  <2>5. Sums(f, Small(n), ext(g))
    <3> HIDE DEF Small
    <3>1. ext(g) = [s \in Small(n) |-> IF s = {} THEN 0 ELSE f[Some(s)] + ext(g)[s \ {Some(s)}]]
      BY <2>4
    <3>2. QED
      BY <3>1, Zenon DEF Sums
  <2>6. QED
    BY <2>5, Zenon
<1>3. T = {}
  <2>1. T \subseteq Nat
    OBVIOUS
  <2>2. QED
    BY <1>2, <2>1, LeastExists, Zenon
<1>4. Cardinality(S) \in Nat /\ Small(Cardinality(S)) = SUBSET S
  <2>1. \A s \in SUBSET S : Cardinality(s) =< Cardinality(S)
    BY FS_Subset, Zenon
  <2>2. QED
    BY <1>1, <2>1, FS_CardinalityType, Zenon
<1>5. QED
  BY <1>3, <1>4, Zenon

\* Two such functions agree where both are defined.
LEMMA SumsAgree ==
  ASSUME NEW f, NEW S, IsFiniteSet(S), NEW S2 \in SUBSET S, NEW g, NEW h,
         Sums(f, SUBSET S, g), Sums(f, SUBSET S2, h), NEW s \in SUBSET S2
  PROVE  g[s] = h[s]
<1> DEFINE T == {n \in Nat : \E r \in SUBSET S2 : Cardinality(r) = n /\ g[r] # h[r]}
<1>1. ASSUME NEW n \in T, \A m \in T : n =< m PROVE FALSE
  <2>1. PICK r \in SUBSET S2 : Cardinality(r) = n /\ g[r] # h[r]
    OBVIOUS
  <2>2. IsFiniteSet(r) /\ r \in SUBSET S
    BY FS_Subset, Zenon
  <2>3. /\ g[r] = IF r = {} THEN 0 ELSE f[Some(r)] + g[r \ {Some(r)}]
        /\ h[r] = IF r = {} THEN 0 ELSE f[Some(r)] + h[r \ {Some(r)}]
    <3>1. g[r] = IF r = {} THEN 0 ELSE f[Some(r)] + g[r \ {Some(r)}]
      BY <2>2, Zenon DEF Sums
    <3>2. h[r] = IF r = {} THEN 0 ELSE f[Some(r)] + h[r \ {Some(r)}]
      BY Zenon DEF Sums
    <3>3. QED
      BY <3>1, <3>2, Zenon
  <2>4. r # {} /\ g[r \ {Some(r)}] # h[r \ {Some(r)}]
    BY <2>1, <2>3, Zenon
  <2>5. Cardinality(r) \in Nat \ {0} /\ Cardinality(r \ {Some(r)}) = Cardinality(r) - 1
    BY <2>2, <2>4, SomeOf, Zenon
  <2>6. n - 1 \in T
    <3>1. n - 1 \in Nat /\ Cardinality(r \ {Some(r)}) = n - 1 /\ r \ {Some(r)} \in SUBSET S2
      BY <2>1, <2>5
    <3>2. QED
      BY <2>4, <3>1, Zenon
  <2>7. QED
    BY <1>1, <2>1, <2>5, <2>6
<1>2. T = {}
  <2>1. T \subseteq Nat
    OBVIOUS
  <2>2. QED
    BY <1>1, <2>1, LeastExists, Zenon
<1>3. Cardinality(s) \in Nat
  BY FS_Subset, FS_CardinalityType, Zenon
<1>4. QED
  BY <1>2, <1>3, Zenon

\* The sum over a subset is what the function for the whole set says.
LEMMA SumOfSubset ==
  ASSUME NEW f, NEW S, IsFiniteSet(S), NEW g, Sums(f, SUBSET S, g), NEW s \in SUBSET S
  PROVE  SumFunctionOnSet(f, s) = g[s]
<1> DEFINE h == CHOOSE h : Sums(f, SUBSET s, h)
<1>1. IsFiniteSet(s)
  BY FS_Subset, Zenon
<1>2. Sums(f, SUBSET s, h)
  BY <1>1, SumsExist, Zenon
<1>3. SumFunctionOnSet(f, s) = h[s]
  BY SumIsChosen, Zenon
<1> HIDE DEF h
<1>4. s \in SUBSET s
  OBVIOUS
<1>5. g[s] = h[s]
  BY <1>2, <1>4, SumsAgree
<1>6. QED
  BY <1>3, <1>5, Zenon

\* The sum over no elements is 0, and that over others takes one out.
LEMMA SumUnfolds ==
  ASSUME NEW f, NEW S, IsFiniteSet(S)
  PROVE  SumFunctionOnSet(f, S) =
           IF S = {} THEN 0 ELSE f[Some(S)] + SumFunctionOnSet(f, S \ {Some(S)})
<1>1. PICK g : Sums(f, SUBSET S, g)
  BY SumsExist, Zenon
<1>2. S \in SUBSET S /\ S \ {Some(S)} \in SUBSET S
  OBVIOUS
<1>3. g[S] = IF S = {} THEN 0 ELSE f[Some(S)] + g[S \ {Some(S)}]
  BY <1>1, <1>2, Zenon DEF Sums
<1>4. SumFunctionOnSet(f, S) = g[S] /\ SumFunctionOnSet(f, S \ {Some(S)}) = g[S \ {Some(S)}]
  BY <1>1, <1>2, SumOfSubset
<1>5. QED
  BY <1>3, <1>4, Zenon

LEMMA SumEmpty == ASSUME NEW f PROVE SumFunctionOnSet(f, {}) = 0
  BY SumUnfolds, FS_EmptySet, Zenon

\* A sum of natural numbers is one.
LEMMA SumNat ==
  ASSUME NEW S, IsFiniteSet(S), NEW f, \A x \in S : f[x] \in Nat
  PROVE  SumFunctionOnSet(f, S) \in Nat
<1> DEFINE T == {n \in Nat : \E s \in SUBSET S : Cardinality(s) = n /\ SumFunctionOnSet(f, s) \notin Nat}
<1>1. ASSUME NEW n \in T, \A m \in T : n =< m PROVE FALSE
  <2>1. PICK s \in SUBSET S : Cardinality(s) = n /\ SumFunctionOnSet(f, s) \notin Nat
    OBVIOUS
  <2>2. IsFiniteSet(s)
    BY FS_Subset, Zenon
  <2>3. s # {}
    BY <2>1, SumEmpty
  <2>4. SumFunctionOnSet(f, s) = f[Some(s)] + SumFunctionOnSet(f, s \ {Some(s)})
    BY <2>2, <2>3, SumUnfolds, Zenon
  <2>5. Some(s) \in s /\ Cardinality(s) \in Nat \ {0} /\ Cardinality(s \ {Some(s)}) = Cardinality(s) - 1
    BY <2>2, <2>3, SomeOf, Zenon
  <2>6. n - 1 \in T
    <3>1. SumFunctionOnSet(f, s \ {Some(s)}) \notin Nat
      BY <2>1, <2>4, <2>5
    <3>2. n - 1 \in Nat /\ Cardinality(s \ {Some(s)}) = n - 1 /\ s \ {Some(s)} \in SUBSET S
      BY <2>1, <2>5
    <3>3. QED
      BY <3>1, <3>2, Zenon
  <2>7. QED
    BY <1>1, <2>1, <2>5, <2>6
<1>2. T = {}
  <2>1. T \subseteq Nat
    OBVIOUS
  <2>2. QED
    BY <1>1, <2>1, LeastExists, Zenon
<1>3. Cardinality(S) \in Nat
  BY FS_CardinalityType, Zenon
<1>4. QED
  BY <1>2, <1>3, Zenon

\* Any element may be the one taken out.
LEMMA SumTakeOut ==
  ASSUME NEW S, IsFiniteSet(S), NEW f, \A x \in S : f[x] \in Nat, NEW x \in S
  PROVE  SumFunctionOnSet(f, S) = f[x] + SumFunctionOnSet(f, S \ {x})
<1> DEFINE Taken(s, y) == SumFunctionOnSet(f, s) = f[y] + SumFunctionOnSet(f, s \ {y})
           T == {n \in Nat : \E s \in SUBSET S : \E y \in s : Cardinality(s) = n /\ ~Taken(s, y)}
<1>1. ASSUME NEW s \in SUBSET S
      PROVE  IsFiniteSet(s) /\ SumFunctionOnSet(f, s) \in Nat /\ Cardinality(s) \in Nat
  <2>1. IsFiniteSet(s) /\ \A y \in s : f[y] \in Nat
    BY FS_Subset, Zenon
  <2>2. QED
    BY <2>1, SumNat, FS_CardinalityType, Zenon
<1>2. ASSUME NEW n \in T, \A m \in T : n =< m PROVE FALSE
  <2>1. PICK s \in SUBSET S : \E y \in s : Cardinality(s) = n /\ ~Taken(s, y)
    OBVIOUS
  <2>2. PICK y \in s : Cardinality(s) = n /\ ~Taken(s, y)
    BY <2>1, Zenon
  <2> DEFINE z == Some(s)
  <2>3. z \in s /\ n \in Nat \ {0} /\ IsFiniteSet(s) /\ Cardinality(s \ {z}) = n - 1
    BY <1>1, <2>2, SomeOf, Zenon
  <2>4. Taken(s, z)
    BY <2>2, <2>3, SumUnfolds, Zenon
  <2> HIDE DEF z
  <2>5. y # z
    BY <2>2, <2>4, Zenon
  <2>6. Cardinality(s \ {y}) = n - 1
    BY <2>2, <2>3, FS_RemoveElement, Zenon
  <2>7. n - 1 \in Nat /\ ~(n =< n - 1)
    BY <2>3
  <2>8. n - 1 \notin T
    BY <1>2, <2>7, Zenon
  <2>9. s \ {y} \in SUBSET S /\ s \ {z} \in SUBSET S /\ y \in s \ {z} /\ z \in s \ {y}
    BY <2>2, <2>3, <2>5, Zenon
  <2>10. Taken(s \ {z}, y) /\ Taken(s \ {y}, z)
    BY <2>3, <2>6, <2>7, <2>8, <2>9, Zenon
  <2>11. (s \ {z}) \ {y} = (s \ {y}) \ {z} /\ (s \ {y}) \ {z} \in SUBSET S
    BY <2>9, Zenon
  <2>12. f[y] \in Nat /\ f[z] \in Nat /\ SumFunctionOnSet(f, (s \ {y}) \ {z}) \in Nat
    BY <1>1, <2>9, <2>11, Zenon
  <2>13. /\ SumFunctionOnSet(f, s) = f[z] + SumFunctionOnSet(f, s \ {z})
         /\ SumFunctionOnSet(f, s \ {z}) = f[y] + SumFunctionOnSet(f, (s \ {y}) \ {z})
         /\ SumFunctionOnSet(f, s \ {y}) = f[z] + SumFunctionOnSet(f, (s \ {y}) \ {z})
    BY <2>4, <2>10, <2>11, Zenon
  <2>14. SumFunctionOnSet(f, s) = f[y] + SumFunctionOnSet(f, s \ {y})
    BY <2>12, <2>13
  <2>15. QED
    BY <2>2, <2>14, Zenon
<1>3. T = {}
  <2>1. T \subseteq Nat
    OBVIOUS
  <2>2. QED
    BY <1>2, <2>1, LeastExists, Zenon
<1>4. Taken(S, x)
  <2>1. S \in SUBSET S
    OBVIOUS
  <2>2. Cardinality(S) \in Nat
    BY <1>1, <2>1, Zenon
  <2>3. QED
    BY <1>3, <2>1, <2>2, Zenon
<1>5. QED
  BY <1>4, Zenon

\* One element more adds its value.
LEMMA SumPutIn ==
  ASSUME NEW S, IsFiniteSet(S), NEW f, NEW x, x \notin S, \A y \in S \union {x} : f[y] \in Nat
  PROVE  SumFunctionOnSet(f, S \union {x}) = f[x] + SumFunctionOnSet(f, S)
<1>1. IsFiniteSet(S \union {x}) /\ x \in S \union {x} /\ (S \union {x}) \ {x} = S
  BY FS_AddElement, Zenon
<1>2. QED
  BY <1>1, SumTakeOut

\* A sum is that over a part and that over the rest.
LEMMA SumSplit ==
  ASSUME NEW S, IsFiniteSet(S), NEW f, \A x \in S : f[x] \in Nat, NEW P \in SUBSET S
  PROVE  SumFunctionOnSet(f, S) = SumFunctionOnSet(f, P) + SumFunctionOnSet(f, S \ P)
<1> DEFINE Splits(s) == SumFunctionOnSet(f, S) = SumFunctionOnSet(f, s) + SumFunctionOnSet(f, S \ s)
           T == {n \in Nat : \E s \in SUBSET S : Cardinality(s) = n /\ ~Splits(s)}
<1>1. ASSUME NEW s \in SUBSET S
      PROVE  IsFiniteSet(s) /\ SumFunctionOnSet(f, s) \in Nat /\ Cardinality(s) \in Nat
  <2>1. IsFiniteSet(s) /\ \A y \in s : f[y] \in Nat
    BY FS_Subset, Zenon
  <2>2. QED
    BY <2>1, SumNat, FS_CardinalityType, Zenon
<1>2. ASSUME NEW n \in T, \A m \in T : n =< m PROVE FALSE
  <2>1. PICK s \in SUBSET S : Cardinality(s) = n /\ ~Splits(s)
    OBVIOUS
  <2>2. s # {}
    <3>1. S \ {} = S /\ S \in SUBSET S
      OBVIOUS
    <3>2. SumFunctionOnSet(f, S) \in Nat
      BY <1>1, <3>1, Zenon
    <3>3. Splits({})
      BY <3>1, <3>2, SumEmpty
    <3>4. QED
      BY <2>1, <3>3, Zenon
  <2> DEFINE z == Some(s)
  <2>3. z \in s /\ n \in Nat \ {0} /\ IsFiniteSet(s) /\ Cardinality(s \ {z}) = n - 1
    BY <1>1, <2>1, <2>2, SomeOf, Zenon
  <2> HIDE DEF z
  <2>4. n - 1 \in Nat /\ ~(n =< n - 1)
    BY <2>3
  <2>5. s \ {z} \in SUBSET S /\ z \in S /\ z \in S \ (s \ {z}) /\ (S \ (s \ {z})) \ {z} = S \ s
    BY <2>3
  <2>6. Splits(s \ {z})
    BY <1>2, <2>3, <2>4, <2>5, Zenon
  <2>7. S \ s \in SUBSET S /\ S \ (s \ {z}) \in SUBSET S
    OBVIOUS
  <2>8. IsFiniteSet(S \ (s \ {z})) /\ \A y \in S \ (s \ {z}) : f[y] \in Nat
    BY <1>1, <2>7, Zenon
  <2>9. SumFunctionOnSet(f, S \ (s \ {z})) = f[z] + SumFunctionOnSet(f, S \ s)
    BY <2>5, <2>8, SumTakeOut
  <2>10. \A y \in s : f[y] \in Nat
    OBVIOUS
  <2>11. SumFunctionOnSet(f, s) = f[z] + SumFunctionOnSet(f, s \ {z})
    BY <2>3, <2>10, SumTakeOut, Zenon
  <2>12. /\ f[z] \in Nat /\ SumFunctionOnSet(f, s \ {z}) \in Nat
         /\ SumFunctionOnSet(f, S \ s) \in Nat
    BY <1>1, <2>5, <2>7, Zenon
  <2>13. SumFunctionOnSet(f, S) = SumFunctionOnSet(f, s \ {z}) + SumFunctionOnSet(f, S \ (s \ {z}))
    BY <2>6, Zenon
  <2>14. SumFunctionOnSet(f, S) = SumFunctionOnSet(f, s) + SumFunctionOnSet(f, S \ s)
    BY <2>9, <2>11, <2>12, <2>13
  <2>15. QED
    BY <2>1, <2>14, Zenon
<1>3. T = {}
  <2>1. T \subseteq Nat
    OBVIOUS
  <2>2. QED
    BY <1>2, <2>1, LeastExists, Zenon
<1>4. QED
  BY <1>1, <1>3, Zenon

\* Sums of functions that agree are the same, in particular after a change of
\* the index: h numbers the elements of S by those of T.
LEMMA SumReindexed ==
  ASSUME NEW T, IsFiniteSet(T), NEW h, \A t, u \in T : h[t] = h[u] => t = u,
         NEW f, NEW g, \A t \in T : f[h[t]] = g[t] /\ g[t] \in Nat
  PROVE  SumFunctionOnSet(f, {h[t] : t \in T}) = SumFunctionOnSet(g, T)
<1> DEFINE Image(s) == {h[t] : t \in s}
           Same(s) == SumFunctionOnSet(f, Image(s)) = SumFunctionOnSet(g, s)
           N == {n \in Nat : \E s \in SUBSET T : Cardinality(s) = n /\ ~Same(s)}
<1>1. ASSUME NEW s \in SUBSET T
      PROVE  IsFiniteSet(s) /\ IsFiniteSet(Image(s)) /\ Cardinality(s) \in Nat
  <2>1. IsFiniteSet(s)
    BY FS_Subset, Zenon
  <2> DEFINE k == [t \in s |-> h[t]]
  <2>2. k \in Surjection(s, Image(s))
    BY DEF Surjection
  <2> HIDE DEF k
  <2>3. IsFiniteSet(Image(s))
    BY <2>1, <2>2, FS_Surjection, Zenon
  <2>4. QED
    BY <2>1, <2>3, FS_CardinalityType, Zenon
<1>2. ASSUME NEW n \in N, \A m \in N : n =< m PROVE FALSE
  <2>1. PICK s \in SUBSET T : Cardinality(s) = n /\ ~Same(s)
    OBVIOUS
  <2>2. s # {}
    <3>1. Image({}) = {}
      OBVIOUS
    <3>2. Same({})
      BY <3>1, SumEmpty, Zenon
    <3>3. QED
      BY <2>1, <3>2, Zenon
  <2> DEFINE z == Some(s)
  <2>3. z \in s /\ n \in Nat \ {0} /\ IsFiniteSet(s) /\ Cardinality(s \ {z}) = n - 1
    BY <1>1, <2>1, <2>2, SomeOf, Zenon
  <2> HIDE DEF z
  <2>4. n - 1 \in Nat /\ ~(n =< n - 1)
    BY <2>3
  <2>5. h[z] \in Image(s) /\ Image(s) \ {h[z]} = Image(s \ {z})
    BY <2>3
  <2>6. Same(s \ {z})
    <3>1. s \ {z} \in SUBSET T
      OBVIOUS
    <3>2. QED
      BY <1>2, <2>3, <2>4, <3>1, Zenon
  <2>7. \A y \in s : g[y] \in Nat
    OBVIOUS
  <2>8. \A y \in Image(s) : f[y] \in Nat
    OBVIOUS
  <2>9. SumFunctionOnSet(g, s) = g[z] + SumFunctionOnSet(g, s \ {z})
    BY <2>3, <2>7, SumTakeOut, Zenon
  <2>10. IsFiniteSet(Image(s))
    BY <1>1, Zenon
  <2> HIDE DEF Image
  <2>11. SumFunctionOnSet(f, Image(s)) = f[h[z]] + SumFunctionOnSet(f, Image(s) \ {h[z]})
    BY <2>5, <2>8, <2>10, SumTakeOut, Zenon
  <2>12. f[h[z]] = g[z]
    BY <2>3, Zenon
  <2>13. QED
    BY <2>1, <2>5, <2>6, <2>9, <2>11, <2>12, Zenon
<1>3. N = {}
  <2>1. N \subseteq Nat
    OBVIOUS
  <2>2. QED
    BY <1>2, <2>1, LeastExists, Zenon
<1>4. T \in SUBSET T
  OBVIOUS
<1>5. QED
  BY <1>1, <1>3, <1>4, Zenon

LEMMA SumSame ==
  ASSUME NEW S, IsFiniteSet(S), NEW f, NEW g, \A x \in S : f[x] = g[x] /\ g[x] \in Nat
  PROVE  SumFunctionOnSet(f, S) = SumFunctionOnSet(g, S)
<1> DEFINE h == [x \in S |-> x]
<1>1. /\ {h[t] : t \in S} = S
      /\ \A t, u \in S : h[t] = h[u] => t = u
      /\ \A t \in S : f[h[t]] = g[t] /\ g[t] \in Nat
  OBVIOUS
<1> HIDE DEF h
<1>2. SumFunctionOnSet(f, {h[t] : t \in S}) = SumFunctionOnSet(g, S)
  BY <1>1, SumReindexed
<1>3. QED
  BY <1>1, <1>2, Zenon

\* A sum of zeros is 0.
LEMMA SumZero ==
  ASSUME NEW S, IsFiniteSet(S), NEW f, \A x \in S : f[x] = 0
  PROVE  SumFunctionOnSet(f, S) = 0
<1> DEFINE T == {n \in Nat : \E s \in SUBSET S : Cardinality(s) = n /\ SumFunctionOnSet(f, s) # 0}
<1>1. ASSUME NEW n \in T, \A m \in T : n =< m PROVE FALSE
  <2>1. PICK s \in SUBSET S : Cardinality(s) = n /\ SumFunctionOnSet(f, s) # 0
    OBVIOUS
  <2>2. IsFiniteSet(s) /\ s # {}
    BY <2>1, FS_Subset, SumEmpty, Zenon
  <2>3. SumFunctionOnSet(f, s) = f[Some(s)] + SumFunctionOnSet(f, s \ {Some(s)})
    BY <2>2, SumUnfolds, Zenon
  <2>4. Some(s) \in s /\ Cardinality(s) \in Nat \ {0} /\ Cardinality(s \ {Some(s)}) = Cardinality(s) - 1
    BY <2>2, SomeOf, Zenon
  <2>5. n - 1 \in T
    <3>1. SumFunctionOnSet(f, s \ {Some(s)}) # 0
      BY <2>1, <2>3, <2>4
    <3>2. n - 1 \in Nat /\ Cardinality(s \ {Some(s)}) = n - 1 /\ s \ {Some(s)} \in SUBSET S
      BY <2>1, <2>4
    <3>3. QED
      BY <3>1, <3>2, Zenon
  <2>6. QED
    BY <1>1, <2>1, <2>4, <2>5
<1>2. T = {}
  <2>1. T \subseteq Nat
    OBVIOUS
  <2>2. QED
    BY <1>1, <2>1, LeastExists, Zenon
<1>3. Cardinality(S) \in Nat
  BY FS_CardinalityType, Zenon
<1>4. QED
  BY <1>2, <1>3, Zenon

\* A change of one value changes the sum by as much.
LEMMA SumChanged ==
  ASSUME NEW S, IsFiniteSet(S), NEW f, NEW g, NEW x \in S,
         \A y \in S : f[y] \in Nat /\ g[y] \in Nat, \A y \in S \ {x} : f[y] = g[y]
  PROVE  SumFunctionOnSet(g, S) = SumFunctionOnSet(f, S) - f[x] + g[x]
<1>1. IsFiniteSet(S \ {x})
  BY FS_RemoveElement, Zenon
<1>2. SumFunctionOnSet(g, S \ {x}) = SumFunctionOnSet(f, S \ {x})
  BY <1>1, SumSame, Zenon
<1>3. /\ SumFunctionOnSet(g, S) = g[x] + SumFunctionOnSet(g, S \ {x})
      /\ SumFunctionOnSet(f, S) = f[x] + SumFunctionOnSet(f, S \ {x})
  BY SumTakeOut, Zenon
<1>4. SumFunctionOnSet(f, S \ {x}) \in Nat
  BY <1>1, SumNat, Zenon
<1>5. QED
  BY <1>2, <1>3, <1>4

\* The sum over a part is no larger, and as large when the rest is zero.
LEMMA SumOfPart ==
  ASSUME NEW S, IsFiniteSet(S), NEW f, \A x \in S : f[x] \in Nat, NEW P \in SUBSET S
  PROVE  /\ SumFunctionOnSet(f, P) =< SumFunctionOnSet(f, S)
         /\ (\A x \in S \ P : f[x] = 0) => SumFunctionOnSet(f, P) = SumFunctionOnSet(f, S)
<1>1. IsFiniteSet(P) /\ IsFiniteSet(S \ P)
  BY FS_Subset, FS_Difference, Zenon
<1>2. SumFunctionOnSet(f, P) \in Nat /\ SumFunctionOnSet(f, S \ P) \in Nat
  BY <1>1, SumNat, Zenon
<1>3. SumFunctionOnSet(f, S) = SumFunctionOnSet(f, P) + SumFunctionOnSet(f, S \ P)
  BY SumSplit, Zenon
<1>4. (\A x \in S \ P : f[x] = 0) => SumFunctionOnSet(f, S \ P) = 0
  BY <1>1, SumZero, Zenon
<1>5. QED
  BY <1>2, <1>3, <1>4

----------------------------------------------------------------------------
(* Division.                                                               *)

LEMMA DivisionPositive ==
  ASSUME NEW n \in Int, NEW d \in Nat, d > 0
  PROVE  n = d * (n \div d) + (n % d)
  OBVIOUS

\* Quotient and remainder.
LEMMA Division ==
  ASSUME NEW n \in Int, NEW d \in Nat \ {0}
  PROVE  n \div d \in Int /\ n % d \in 0..(d - 1) /\ n = d * (n \div d) + (n % d)
<1>1. d \in Nat /\ d > 0
  OBVIOUS
<1>2. n = d * (n \div d) + (n % d)
  BY <1>1, DivisionPositive
<1>3. QED
  BY <1>1, <1>2

\* No multiple of d but 0 is nearer to 0 than d.
LEMMA Multiples ==
  ASSUME NEW d \in Nat \ {0}, NEW k \in Int, k # 0
  PROVE  d * k >= d \/ d * k =< -d
  OBVIOUS

\* One more in the quotient when the remainder comes round.
LEMMA DivNext ==
  ASSUME NEW n \in Nat, NEW d \in Nat \ {0}
  PROVE  (n + 1) \div d = (n \div d) + (IF (n + 1) % d = 0 THEN 1 ELSE 0)
<1> DEFINE p == n \div d
           q == (n + 1) \div d
           r == n % d
           s == (n + 1) % d
<1>1. p \in Int /\ r \in 0..(d - 1) /\ n = d * p + r
  BY Division
<1>2. q \in Int /\ s \in 0..(d - 1) /\ n + 1 = d * q + s
  BY Division
<1> HIDE DEF p, q, r, s
<1>3. q - p \in Int /\ d * (q - p) = (r - s) + 1
  BY <1>1, <1>2
<1>4. CASE s = 0
  <2> DEFINE k == (q - p) - 1
  <2>1. k \in Int /\ d * k = (r - d) + 1
    BY <1>1, <1>2, <1>3, <1>4
  <2>2. d * k < d /\ d * k > -d
    BY <1>1, <2>1
  <2> HIDE DEF k
  <2>3. k = 0
    BY <2>1, <2>2, Multiples
  <2>4. QED
    BY <1>1, <1>2, <1>4, <2>3 DEF p, q, s, k
<1>5. CASE s # 0
  <2>1. q - p = 0
    BY <1>1, <1>2, <1>3, <1>5, Multiples
  <2>2. QED
    BY <1>1, <1>2, <1>5, <2>1 DEF p, q, s
<1>6. QED
  BY <1>4, <1>5

\* Quotients of parts are no more than that of the whole.
LEMMA DivParts ==
  ASSUME NEW x \in Nat, NEW y \in Nat, NEW z \in Nat, x + y =< z, NEW d \in Nat \ {0}
  PROVE  x \div d \in Nat /\ y \div d \in Nat /\ z \div d \in Nat /\ (x \div d) + (y \div d) =< z \div d
<1> DEFINE p == x \div d
           q == y \div d
           w == z \div d
<1>1. /\ p \in Int /\ x % d \in 0..(d - 1) /\ x = d * p + (x % d)
      /\ q \in Int /\ y % d \in 0..(d - 1) /\ y = d * q + (y % d)
      /\ w \in Int /\ z % d \in 0..(d - 1) /\ z = d * w + (z % d)
  BY Division
<1> HIDE DEF p, q, w
<1>2. ASSUME NEW k \in Int, k < 0 PROVE d * k =< -d
  BY <1>2
<1>3. p >= 0 /\ q >= 0 /\ w >= 0
  BY <1>1, <1>2
<1>4. ~(w - (p + q) < 0)
  <2>1. w - (p + q) \in Int /\ d * (w - (p + q)) = d * w - d * p - d * q
    BY <1>1
  <2>2. d * (w - (p + q)) > -d
    BY <1>1, <2>1
  <2>3. QED
    BY <1>2, <2>1, <2>2
<1>5. QED
  BY <1>1, <1>3, <1>4 DEF p, q, w

----------------------------------------------------------------------------
(* The log level.                                                          *)

\* The timer of the change in effect, armed or fired, is due when it ends, and
\* no other timer has its generation.
LevelInv ==
  /\ now \in Nat /\ gen \in Nat /\ armed \subseteq [gen : Nat, at : Nat] /\ fired \subseteq Nat
  /\ asked.end \in Nat
  /\ \A t \in armed : t.gen <= gen
  /\ \A g \in fired : g <= gen
  /\ \A t \in armed : t.gen = gen => t.at = asked.end /\ asked.end > 0
  /\ gen \in fired => asked.end > 0 /\ asked.end <= now
  /\ expires \in Nat
  /\ NoStaleRevert

\* A change takes a generation of its own, which only its own timer has.
LEMMA SetStep ==
  ASSUME LevelInv, NEW level, NEW ttl \in Nat, Set(level, ttl)
  PROVE  LevelInv'
<1> USE DEF LevelInv
<1> DEFINE end == IF ttl > 0 THEN now + ttl ELSE 0
<1> DEFINE timers == IF ttl > 0 THEN {[gen |-> gen + 1, at |-> now + ttl]} ELSE {}
<1>1. /\ gen' = gen + 1 /\ lv' = level /\ now' = now /\ fired' = fired
      /\ expires' = end /\ timer' = IF ttl > 0 THEN gen + 1 ELSE 0
      /\ asked' = [level |-> level, end |-> end]
      /\ armed' = {t \in armed : t.gen # timer} \union timers
  BY Zenon DEF Set
<1>2. asked'.end = end /\ asked'.level = level /\ end \in Nat
  BY <1>1
<1>3. \A t \in armed' : \/ t \in armed
                        \/ ttl > 0 /\ t = [gen |-> gen + 1, at |-> end]
  BY <1>1, Zenon
<1>4. armed' \subseteq [gen : Nat, at : Nat]
  BY <1>3
<1>5. \A t \in armed' : t.gen <= gen'
  BY <1>1, <1>3
<1>6. \A t \in armed' : t.gen = gen' => t.at = end /\ end > 0
  <2>1. ASSUME NEW t \in armed, t.gen = gen + 1 PROVE FALSE
    BY <2>1
  <2>2. QED
    BY <1>1, <1>3, <2>1
<1>7. \A g \in fired' : g <= gen' /\ g # gen'
  BY <1>1
<1>8. NoStaleRevert'
  <2>1. end > 0 => [gen |-> gen', at |-> end] \in armed'
    BY <1>1
  <2>2. QED
    BY <1>1, <1>2, <2>1 DEF NoStaleRevert
<1>9. QED
  BY <1>1, <1>2, <1>4, <1>5, <1>6, <1>7, <1>8

\* The callback of an older change finds another generation and leaves the level.
LEMMA LevelSteps == LevelInv /\ [LogNext]_logVars => LevelInv'
<1> SUFFICES ASSUME LevelInv, [LogNext]_logVars PROVE LevelInv'
  OBVIOUS
<1>1. CASE UNCHANGED levelVars /\ now' \in Nat /\ now' >= now
  BY <1>1 DEF levelVars, LevelInv, NoStaleRevert
<1>2. CASE UNCHANGED logVars
  BY <1>1, <1>2 DEF logVars, LevelInv
<1>3. ASSUME NEW level \in Levels, NEW ttl \in 0..(MaxTTL + 1), putLogLevel(level, ttl)
      PROVE  LevelInv'
  <2>1. (IF ttl = 0 THEN MaxTTL ELSE Min2(ttl, MaxTTL)) \in Nat
    BY MaxTTLIsADuration DEF Min2
  <2>2. QED
    BY <1>3, <2>1, SetStep, Zenon DEF putLogLevel
<1>4. ASSUME NEW level, Set(level, 0) PROVE LevelInv'
  <2>1. 0 \in Nat
    OBVIOUS
  <2>2. QED
    BY <1>4, <2>1, SetStep, Zenon
<1>5. ASSUME NEW level \in Levels, NEW debug \in BOOLEAN, Log(level, debug) PROVE LevelInv'
  <2>1. UNCHANGED levelVars /\ now' = now
    BY <1>5, Zenon DEF Log, Handle, logVars
  <2>2. now \in Nat /\ now >= now
    BY DEF LevelInv
  <2>3. QED
    BY <1>1, <2>1, <2>2, Zenon
<1>6. CASE TimePasses
  <2>1. UNCHANGED levelVars /\ now' = now + 1
    BY <1>6, Zenon DEF TimePasses
  <2>2. QED
    BY <1>1, <2>1 DEF LevelInv
<1>7. ASSUME NEW t \in armed, Fire(t) PROVE LevelInv'
  <2>1. /\ armed' = armed \ {t} /\ fired' = fired \union {t.gen} /\ t.at <= now
        /\ UNCHANGED <<now, lv, gen, expires, timer, asked>>
    BY <1>7, Zenon DEF Fire
  <2>2. t.gen \in Nat /\ t.at \in Nat /\ t.gen <= gen /\ (t.gen = gen => t.at = asked.end /\ asked.end > 0)
    BY Zenon DEF LevelInv
  <2>3. NoStaleRevert'
    <3>1. [gen |-> gen, at |-> asked.end].gen = gen
      OBVIOUS
    <3>2. [gen |-> gen, at |-> asked.end] \in armed => [gen |-> gen, at |-> asked.end] \in armed' \/ gen \in fired'
      BY <2>1, <3>1, Zenon
    <3>3. QED
      BY <2>1, <3>2, Zenon DEF LevelInv, NoStaleRevert
  <2>4. QED
    BY <2>1, <2>2, <2>3, Zenon DEF LevelInv
<1>8. ASSUME NEW g \in fired, revert(g) PROVE LevelInv'
  <2>1. fired' = fired \ {g} /\ UNCHANGED <<now, gen, armed, asked>>
    BY <1>8, Zenon DEF revert
  <2>2. CASE g = gen
    <3>1. lv' = Base /\ expires' = 0 /\ timer' = 0
      BY <1>8, <2>2, Zenon DEF revert, current
    <3>2. asked.end > 0 /\ asked.end <= now
      BY <2>2, Zenon DEF LevelInv
    <3>3. QED
      BY <2>1, <3>1, <3>2 DEF LevelInv, NoStaleRevert
  <2>3. CASE g # gen
    <3>1. UNCHANGED <<lv, expires, timer>>
      BY <1>8, <2>3, Zenon DEF revert, current
    <3>2. QED
      BY <2>1, <2>3, <3>1, Zenon DEF LevelInv, NoStaleRevert
  <2>4. QED
    BY <2>2, <2>3, Zenon
<1>9. QED
  BY <1>2, <1>3, <1>4, <1>5, <1>6, <1>7, <1>8, Zenon DEF LogNext, Reset

\* For any levels, durations and timers that fire early, late or while a newer
\* change is being made, the level in effect is the one last asked for until its
\* time is up, and then a callback that reverts it is on its way (loglevel.go Set,
\* revert; admin.go putLogLevel, deleteLogLevel).
THEOREM NoStaleRevertProved == LogSpec => []NoStaleRevert
<1>1. LogInit => LevelInv
  BY DEF LogInit, LevelInv, NoStaleRevert
<1>2. LevelInv => NoStaleRevert
  BY Zenon DEF LevelInv
<1>3. QED
  BY <1>1, <1>2, LevelSteps, PTL DEF LogSpec

----------------------------------------------------------------------------
(* Sampling.                                                               *)

\* How many of the first c records of a window pass.
Pass(c) == IF c <= Initial THEN c ELSE Initial + ((c - Initial) \div Thereafter)
\* The c-th record of a window passes.
Kept(c) == c <= Initial \/ (c - Initial) % Thereafter = 0

LEMMA PassNext ==
  ASSUME NEW c \in Nat
  PROVE  Pass(c) \in Nat /\ Pass(c + 1) = Pass(c) + (IF Kept(c + 1) THEN 1 ELSE 0)
<1>1. CASE c + 1 <= Initial
  BY <1>1, SamplingSizes DEF Pass, Kept
<1>2. CASE ~(c + 1 <= Initial)
  <2> DEFINE n == c - Initial
  <2>1. n \in Nat /\ c = Initial + n /\ (c + 1) - Initial = n + 1
    BY <1>2, SamplingSizes
  <2>2. n \div Thereafter \in Nat /\ (0 \div Thereafter) = 0
    <3>1. n + 0 =< n /\ 0 \in Nat /\ n \in Nat
      BY <2>1
    <3>2. (0 \div Thereafter) = 0 /\ n \div Thereafter \in Nat
      BY <3>1, DivParts, SamplingSizes
    <3>3. QED
      BY <3>2
  <2>3. (n + 1) \div Thereafter = (n \div Thereafter) + (IF (n + 1) % Thereafter = 0 THEN 1 ELSE 0)
    BY <2>1, DivNext, SamplingSizes
  <2> HIDE DEF n
  <2>4. Pass(c) = Initial + (n \div Thereafter)
    BY <2>1, <2>2, SamplingSizes DEF Pass, n
  <2>5. Pass(c + 1) = Initial + ((n + 1) \div Thereafter)
    BY <1>2, <2>1 DEF Pass
  <2>6. Kept(c + 1) <=> (n + 1) % Thereafter = 0
    BY <1>2, <2>1 DEF Kept
  <2>7. QED
    BY <2>2, <2>3, <2>4, <2>5, <2>6, SamplingSizes
<1>3. QED
  BY <1>1, <1>2

\* Two windows together pass at most twice the first ones and their share of
\* all records.
LEMMA TwoWindows ==
  ASSUME NEW c \in Nat, NEW e \in Nat, NEW n \in Nat, c + e =< n
  PROVE  Pass(c) + Pass(e) =< 2 * Initial + (n \div Thereafter)
<1> DEFINE x == IF c <= Initial THEN 0 ELSE c - Initial
           y == IF e <= Initial THEN 0 ELSE e - Initial
<1>1. x \in Nat /\ y \in Nat /\ x + y =< n
  BY SamplingSizes
<1>2. /\ x \div Thereafter \in Nat /\ y \div Thereafter \in Nat
      /\ (x \div Thereafter) + (y \div Thereafter) =< n \div Thereafter /\ n \div Thereafter \in Nat
  BY <1>1, DivParts, SamplingSizes
<1>3. Pass(c) =< Initial + (x \div Thereafter) /\ Pass(c) \in Nat
  BY <1>2, PassNext, SamplingSizes DEF Pass
<1>4. Pass(e) =< Initial + (y \div Thereafter) /\ Pass(e) \in Nat
  BY <1>2, PassNext, SamplingSizes DEF Pass
<1> HIDE DEF x, y
<1>5. QED
  BY <1>2, <1>3, <1>4, SamplingSizes

Clock == 0..MaxNow
\* The times from t on.
From(t) == {u \in Clock : u >= t}

LEMMA TimesFinite == ASSUME NEW S \in SUBSET Clock PROVE IsFiniteSet(S)
<1>1. IsFiniteSet(Clock)
  BY FS_Interval, SamplingSizes DEF Clock
<1>2. QED
  BY <1>1, FS_Subset

\* One record more at time t that passes, k = 1, or does not, k = 0.
Adds(f, g, t, k) ==
  f \in [Clock -> Nat] /\ g \in [Clock -> Nat] /\ g[t] = f[t] + k /\ \A u \in Clock \ {t} : g[u] = f[u]

SumAdds(f, g, t, k, S) ==
  /\ SumFunctionOnSet(f, S) \in Nat /\ SumFunctionOnSet(g, S) \in Nat
  /\ t \in S => SumFunctionOnSet(g, S) = SumFunctionOnSet(f, S) + k
  /\ t \notin S => SumFunctionOnSet(g, S) = SumFunctionOnSet(f, S)

LEMMA OneMore ==
  ASSUME NEW t \in Clock, NEW k \in Nat, NEW S \in SUBSET Clock, NEW f, NEW g, Adds(f, g, t, k)
  PROVE  SumAdds(f, g, t, k, S)
<1>1. IsFiniteSet(S)
  BY TimesFinite, Zenon
<1>2. /\ \A u \in S : f[u] \in Nat /\ g[u] \in Nat
      /\ \A u \in S \ {t} : f[u] = g[u]
      /\ g[t] = f[t] + k /\ f[t] \in Nat
  BY DEF Adds
<1>3. SumFunctionOnSet(f, S) \in Nat /\ SumFunctionOnSet(g, S) \in Nat
  BY <1>1, <1>2, SumNat, Zenon
<1>4. CASE t \in S
  <2>1. SumFunctionOnSet(g, S) = SumFunctionOnSet(f, S) - f[t] + g[t]
    BY <1>1, <1>2, <1>4, SumChanged
  <2>2. QED
    BY <1>2, <1>3, <1>4, <2>1 DEF SumAdds
<1>5. CASE t \notin S
  <2>1. \A u \in S : g[u] = f[u] /\ f[u] \in Nat
    BY <1>2, <1>5, Zenon
  <2>2. SumFunctionOnSet(g, S) = SumFunctionOnSet(f, S)
    BY <1>1, <2>1, SumSame, Zenon
  <2>3. QED
    BY <1>3, <1>5, <2>2 DEF SumAdds
<1>6. QED
  BY <1>4, <1>5

\* At most n records from time t on have passed.
AtMost(f, t, n) == SumFunctionOnSet(f, From(t)) =< n

\* Records from the start of the window on passed in it; those from one window
\* earlier passed in it or in the one before, which counted c records.
SampleInv ==
  /\ now \in 1..MaxNow /\ resetAt \in Nat /\ count \in Nat /\ offered \in Nat /\ dropped \in Nat
  /\ passed \in [Clock -> Nat] /\ resetAt =< now + Window
  /\ \A u \in Clock : u >= resetAt => passed[u] = 0
  /\ \A t \in Int : t >= resetAt - Window => AtMost(passed, t, Pass(count))
  /\ \E c \in Nat : /\ c + count =< offered
                    /\ \A t \in Int : t >= resetAt - 2 * Window => AtMost(passed, t, Pass(c) + Pass(count))
  /\ SamplingBounds

LEMMA SampleStarts == LogInit => SampleInv
<1> SUFFICES ASSUME LogInit PROVE SampleInv
  OBVIOUS
<1>1. /\ now = 1 /\ resetAt = 0 /\ count = 0 /\ offered = 0 /\ dropped = 0
      /\ passed = [t \in 0..MaxNow |-> 0]
  BY Zenon DEF LogInit
<1>2. passed \in [Clock -> Nat] /\ \A u \in Clock : passed[u] = 0
  BY <1>1 DEF Clock
<1>3. ASSUME NEW S \in SUBSET Clock PROVE SumFunctionOnSet(passed, S) = 0
  <2>1. IsFiniteSet(S)
    BY TimesFinite, Zenon
  <2>2. QED
    BY <1>2, <2>1, SumZero, Zenon
<1>4. 0 \in Nat /\ Pass(0) = 0
  BY SamplingSizes DEF Pass
<1>5. \A t \in Int : AtMost(passed, t, 0)
  BY <1>3 DEF AtMost, From
<1>6. SamplingBounds
  <2>1. 0 + 0 =< 0 /\ 0 \in Nat
    OBVIOUS
  <2>2. 0 =< 2 * Initial + (0 \div Thereafter)
    BY <2>1, DivParts, SamplingSizes
  <2>3. ASSUME NEW t \in 0..MaxNow PROVE t..Min2(t + Window - 1, MaxNow) \in SUBSET Clock
    BY SamplingSizes DEF Clock, Min2
  <2>4. SumFunctionOnSet(passed, 0..MaxNow) = 0
    BY <1>3, Zenon DEF Clock
  <2>5. ASSUME NEW t \in 0..MaxNow
        PROVE  SumFunctionOnSet(passed, t..Min2(t + Window - 1, MaxNow)) =< 2 * Initial + (0 \div Thereafter)
    BY <1>3, <2>2, <2>3
  <2>6. 0 + dropped = offered
    BY <1>1
  <2>7. QED
    BY <1>1, <2>4, <2>5, <2>6, Zenon DEF SamplingBounds
<1>7. \E c \in Nat : /\ c + count =< offered
                     /\ \A t \in Int : t >= resetAt - 2 * Window => AtMost(passed, t, Pass(c) + Pass(count))
  <2>1. Pass(0) + Pass(0) = 0 /\ 0 + count =< offered
    BY <1>1, <1>4
  <2>2. QED
    BY <1>1, <1>4, <1>5, <2>1, Zenon
<1>8. QED
  BY <1>1, <1>2, <1>4, <1>5, <1>6, <1>7, SamplingSizes DEF SampleInv

\* A record of the window that ends at r comes after any window's length that
\* begins before the window before.
LEMMA NotSoOld ==
  ASSUME NEW u \in Int, NEW r \in Int, NEW t \in Int, NEW w \in Int,
         ~(u >= r - 2 * w), t >= r - w - 1
  PROVE  t > u + (w - 1)
  OBVIOUS

\* A record that is counted into the window in progress, or begins a new one.
LEMMA HandleStep ==
  ASSUME SampleInv, NEW t \in {now - 1, now}, Handle(t)
  PROVE  SampleInv'
<1> DEFINE k == IF Kept(count') THEN 1 ELSE 0
           bound == 2 * Initial + (offered \div Thereafter)
           In(u) == u..Min2(u + Window - 1, MaxNow)
<1>1. /\ now \in 1..MaxNow /\ resetAt \in Nat /\ count \in Nat /\ offered \in Nat /\ dropped \in Nat
      /\ passed \in [Clock -> Nat] /\ resetAt =< now + Window
  BY DEF SampleInv
<1>2. t \in Clock /\ t >= resetAt - Window - 1 /\ t =< now /\ t \in Nat
  BY <1>1, SamplingSizes DEF Clock
<1>3. offered' = offered + 1 /\ now' = now /\ k \in {0, 1} /\ dropped' = dropped + (1 - k)
  BY <1>1 DEF Handle, Kept
<1>4. Adds(passed, passed', t, k) /\ passed' \in [Clock -> Nat]
  <2>1. CASE Kept(count')
    <3>1. passed' = [passed EXCEPT ![t] = passed[t] + 1]
      BY <2>1, Zenon DEF Handle, Kept
    <3>2. QED
      BY <1>1, <1>2, <2>1, <3>1 DEF Adds
  <2>2. CASE ~Kept(count')
    <3>1. passed' = passed
      BY <2>2, Zenon DEF Handle, Kept
    <3>2. QED
      BY <1>1, <1>2, <2>2, <3>1 DEF Adds
  <2>3. QED
    BY <2>1, <2>2
<1> HIDE DEF k
<1>5. ASSUME NEW S \in SUBSET Clock
      PROVE  /\ SumFunctionOnSet(passed, S) \in Nat /\ SumFunctionOnSet(passed', S) \in Nat
             /\ t \in S => SumFunctionOnSet(passed', S) = SumFunctionOnSet(passed, S) + k
             /\ t \notin S => SumFunctionOnSet(passed', S) = SumFunctionOnSet(passed, S)
  <2>1. k \in Nat /\ t \in Clock /\ Adds(passed, passed', t, k)
    BY <1>2, <1>3, <1>4
  <2>2. SumAdds(passed, passed', t, k, S)
    BY <2>1, OneMore, Zenon
  <2>3. QED
    BY <2>2, Zenon DEF SumAdds
<1>6. ASSUME NEW u \in Int PROVE From(u) \in SUBSET Clock
  BY DEF From
<1>7. ASSUME NEW u \in Int, NEW n \in Nat, AtMost(passed, u, n) PROVE AtMost(passed', u, n + k)
  <2>1. From(u) \in SUBSET Clock
    BY <1>6, Zenon
  <2>2. /\ SumFunctionOnSet(passed, From(u)) \in Nat
        /\ \/ SumFunctionOnSet(passed', From(u)) = SumFunctionOnSet(passed, From(u)) + k
           \/ SumFunctionOnSet(passed', From(u)) = SumFunctionOnSet(passed, From(u))
    BY <1>5, <2>1, Zenon
  <2>3. QED
    BY <1>3, <1>7, <2>2 DEF AtMost
<1>8. SumFunctionOnSet(passed', 0..MaxNow) + dropped' = offered'
  <2>1. 0..MaxNow \in SUBSET Clock /\ t \in 0..MaxNow
    BY <1>2 DEF Clock
  <2>2. SumFunctionOnSet(passed, 0..MaxNow) + dropped = offered
    BY DEF SampleInv, SamplingBounds
  <2>3. /\ SumFunctionOnSet(passed, 0..MaxNow) \in Nat
        /\ SumFunctionOnSet(passed', 0..MaxNow) = SumFunctionOnSet(passed, 0..MaxNow) + k
    BY <1>5, <2>1, Zenon
  <2>4. QED
    BY <1>1, <1>3, <2>2, <2>3
<1>9. Pass(count) \in Nat
  BY <1>1, PassNext, Zenon
<1>10. PICK c \in Nat : /\ c + count =< offered
                        /\ \A u \in Int : u >= resetAt - 2 * Window => AtMost(passed, u, Pass(c) + Pass(count))
  BY Zenon DEF SampleInv
<1>11. Pass(c) \in Nat
  BY PassNext, Zenon
<1> DEFINE Counts ==
       /\ resetAt' \in Nat /\ count' \in Nat /\ resetAt' =< now + Window
       /\ \A u \in Clock : u >= resetAt' => passed'[u] = 0
       /\ \A u \in Int : u >= resetAt' - Window => AtMost(passed', u, Pass(count'))
       /\ \E e \in Nat : /\ e + count' =< offered'
                         /\ \A u \in Int : u >= resetAt' - 2 * Window => AtMost(passed', u, Pass(e) + Pass(count'))
       /\ t >= resetAt' - Window - 1
<1>12. ASSUME t >= resetAt PROVE Counts
  <2>1. resetAt' = t + Window /\ count' = 1
    BY <1>12, Zenon DEF Handle, inc
  <2>2. Pass(1) = k
    <3>1. Pass(0) = 0
      BY SamplingSizes DEF Pass
    <3>2. Pass(0 + 1) = Pass(0) + (IF Kept(0 + 1) THEN 1 ELSE 0)
      BY PassNext
    <3>3. QED
      BY <2>1, <3>1, <3>2 DEF k
  <2>3. ASSUME NEW u \in Int, u >= t PROVE AtMost(passed', u, Pass(count'))
    <3>1. \A v \in From(u) : passed[v] = 0
      <4>1. ASSUME NEW v \in From(u) PROVE v \in Clock /\ v >= resetAt
        BY <1>1, <1>2, <1>12, <2>3, <4>1 DEF From, Clock
      <4>2. QED
        BY <4>1, Zenon DEF SampleInv
    <3>2. SumFunctionOnSet(passed, From(u)) = 0
      BY <1>6, <3>1, TimesFinite, SumZero, Zenon
    <3>3. AtMost(passed, u, 0)
      BY <3>2 DEF AtMost
    <3>4. AtMost(passed', u, 0 + k)
      BY <1>7, <3>3
    <3>5. QED
      BY <1>3, <2>1, <2>2, <3>4
  <2>4. ASSUME NEW u \in Int, u >= t - Window PROVE AtMost(passed', u, Pass(count) + k)
    <3>1. u >= resetAt - Window
      BY <1>1, <1>2, <1>12, <2>4, SamplingSizes
    <3>2. QED
      BY <1>7, <1>9, <3>1 DEF SampleInv
  <2>5. \A u \in Clock : u >= resetAt' => passed'[u] = 0
    <3>1. ASSUME NEW u \in Clock, u >= t + Window PROVE u # t /\ u >= resetAt
      BY <1>1, <1>2, <1>12, <3>1, SamplingSizes DEF Clock
    <3>2. QED
      BY <1>4, <2>1, <3>1, Zenon DEF SampleInv, Adds
  <2>6. count + count' =< offered' /\ count' \in Nat
    BY <1>1, <1>3, <1>10, <2>1
  <2>7. /\ \A u \in Int : u >= resetAt' - Window => AtMost(passed', u, Pass(count'))
        /\ \A u \in Int : u >= resetAt' - 2 * Window => AtMost(passed', u, Pass(count) + Pass(count'))
    <3>1. (t + Window) - Window = t /\ (t + Window) - 2 * Window = t - Window
      BY <1>2, SamplingSizes
    <3>2. QED
      BY <2>1, <2>2, <2>3, <2>4, <3>1
  <2>8. t + Window \in Nat /\ t + Window =< now + Window /\ t >= (t + Window) - Window - 1
    BY <1>1, <1>2, SamplingSizes
  <2>9. QED
    BY <1>1, <2>1, <2>5, <2>6, <2>7, <2>8, Zenon
<1>13. ASSUME ~(t >= resetAt) PROVE Counts
  <2>1. resetAt' = resetAt /\ count' = count + 1
    BY <1>13, Zenon DEF Handle, inc
  <2>2. Pass(count') = Pass(count) + k
    BY <1>1, <2>1, PassNext DEF k
  <2>3. ASSUME NEW u \in Int, u >= resetAt - Window PROVE AtMost(passed', u, Pass(count'))
    BY <1>7, <1>9, <2>2, <2>3 DEF SampleInv
  <2>4. ASSUME NEW u \in Int, u >= resetAt - 2 * Window PROVE AtMost(passed', u, Pass(c) + Pass(count'))
    <3>1. AtMost(passed', u, (Pass(c) + Pass(count)) + k)
      BY <1>7, <1>9, <1>10, <1>11, <2>4
    <3>2. QED
      BY <1>3, <1>9, <1>11, <2>2, <3>1
  <2>5. \A u \in Clock : u >= resetAt' => passed'[u] = 0
    <3>1. ASSUME NEW u \in Clock, u >= resetAt PROVE u # t
      BY <1>1, <1>2, <1>13, <3>1 DEF Clock
    <3>2. QED
      BY <1>4, <2>1, <3>1, Zenon DEF SampleInv, Adds
  <2>6. c + count' =< offered' /\ count' \in Nat
    BY <1>1, <1>3, <1>10, <2>1
  <2>7. QED
    BY <1>1, <1>2, <2>1, <2>3, <2>4, <2>5, <2>6, Zenon
<1>14. Counts
  BY <1>12, <1>13, Zenon
<1> HIDE DEF Counts
<1>15. PICK e \in Nat : /\ e + count' =< offered'
                        /\ \A u \in Int : u >= resetAt' - 2 * Window => AtMost(passed', u, Pass(e) + Pass(count'))
  BY <1>14, Zenon DEF Counts
<1>16. count' \in Nat /\ offered' \in Nat /\ resetAt' \in Nat /\ t >= resetAt' - Window - 1
  BY <1>1, <1>3, <1>14 DEF Counts
<1>17. ASSUME NEW u \in 0..MaxNow
       PROVE  SumFunctionOnSet(passed', In(u)) =< 2 * Initial + (offered' \div Thereafter)
  <2>1. In(u) \in SUBSET Clock /\ In(u) \in SUBSET From(u)
    BY SamplingSizes DEF Clock, From, Min2
  <2>2. CASE u >= resetAt' - 2 * Window
    <3>1. SumFunctionOnSet(passed', In(u)) =< SumFunctionOnSet(passed', From(u))
      <4>1. IsFiniteSet(From(u)) /\ \A v \in From(u) : passed'[v] \in Nat
        BY <1>4, TimesFinite DEF From
      <4>2. QED
        BY <2>1, <4>1, SumOfPart, Zenon
    <3>2. SumFunctionOnSet(passed', From(u)) =< Pass(e) + Pass(count')
      BY <1>15, <2>2 DEF AtMost
    <3>3. Pass(e) + Pass(count') =< 2 * Initial + (offered' \div Thereafter)
      BY <1>15, <1>16, TwoWindows, Zenon
    <3>4. /\ SumFunctionOnSet(passed', In(u)) \in Int /\ SumFunctionOnSet(passed', From(u)) \in Int
          /\ Pass(e) \in Nat /\ Pass(count') \in Nat /\ offered' \div Thereafter \in Int
      <4>1. From(u) \in SUBSET Clock
        BY <1>6
      <4>2. SumFunctionOnSet(passed', In(u)) \in Nat /\ SumFunctionOnSet(passed', From(u)) \in Nat
        BY <1>5, <2>1, <4>1, Zenon
      <4>3. Pass(e) \in Nat /\ Pass(count') \in Nat
        BY <1>16, PassNext, Zenon
      <4>4. offered' \div Thereafter \in Int
        BY <1>16, Division, SamplingSizes
      <4>5. QED
        BY <4>2, <4>3, <4>4
    <3>5. QED
      BY <3>1, <3>2, <3>3, <3>4, SamplingSizes
  <2>3. CASE ~(u >= resetAt' - 2 * Window)
    <3>1. t \notin In(u)
      <4>1. t > u + (Window - 1)
        <5>1. u \in Int /\ Window \in Int /\ resetAt' \in Int /\ t \in Int
          BY <1>2, <1>16, SamplingSizes
        <5>2. QED
          BY <1>16, <2>3, <5>1, NotSoOld, Zenon
      <4>2. QED
        BY <1>2, <4>1, SamplingSizes DEF Min2
    <3>2. SumFunctionOnSet(passed', In(u)) = SumFunctionOnSet(passed, In(u)) /\ SumFunctionOnSet(passed, In(u)) \in Nat
      BY <1>5, <2>1, <3>1
    <3>3. SumFunctionOnSet(passed, In(u)) =< bound
      BY DEF SampleInv, SamplingBounds
    <3>4. offered \div Thereafter =< offered' \div Thereafter /\ offered \div Thereafter \in Nat /\ offered' \div Thereafter \in Nat
      BY <1>1, <1>3, DivParts, SamplingSizes
    <3>5. QED
      BY <3>2, <3>3, <3>4, SamplingSizes
  <2>4. QED
    BY <2>2, <2>3
<1>18. SamplingBounds'
  BY <1>8, <1>17 DEF SamplingBounds
<1>19. QED
  <2>1. now' \in 1..MaxNow /\ dropped' \in Nat /\ resetAt' =< now' + Window
    BY <1>1, <1>3, <1>14 DEF Counts
  <2>2. QED
    BY <1>4, <1>14, <1>18, <1>16, <2>1, Zenon DEF SampleInv, Counts

LEMMA SampleSteps == SampleInv /\ [LogNext]_logVars => SampleInv'
<1> SUFFICES ASSUME SampleInv, [LogNext]_logVars PROVE SampleInv'
  OBVIOUS
<1>1. CASE UNCHANGED <<now, sampleVars>>
  BY <1>1, Zenon DEF sampleVars, SampleInv, AtMost, SamplingBounds
<1>2. CASE TimePasses
  <2>1. now < MaxNow /\ now' = now + 1 /\ UNCHANGED <<resetAt, count, offered, passed, dropped>>
    BY <1>2, Zenon DEF TimePasses, sampleVars
  <2>2. now' \in 1..MaxNow /\ resetAt =< now' + Window
    BY <2>1, SamplingSizes DEF SampleInv
  <2>3. QED
    BY <2>1, <2>2, Zenon DEF SampleInv, SamplingBounds
<1>3. ASSUME NEW level \in Levels, NEW debug \in BOOLEAN, Log(level, debug) PROVE SampleInv'
  BY <1>1, <1>3, HandleStep, Zenon DEF Log, logVars
<1>4. ASSUME NEW level, NEW ttl, Set(level, ttl) PROVE UNCHANGED <<now, sampleVars>>
  BY <1>4, Zenon DEF Set
<1>5. ASSUME NEW t, Fire(t) \/ revert(t) PROVE UNCHANGED <<now, sampleVars>>
  BY <1>5, Zenon DEF Fire, revert
<1>6. QED
  BY <1>1, <1>2, <1>3, <1>4, <1>5, Zenon DEF LogNext, Reset, putLogLevel, logVars

\* However the records of a message fall and for any rates, at most what two
\* windows allow passes in a window's length, and every record that does not is
\* counted as dropped (sampling.go inc, Handle).
THEOREM SamplingBoundsProved == LogSpec => []SamplingBounds
<1>1. SampleInv => SamplingBounds
  BY Zenon DEF SampleInv
<1>2. QED
  BY <1>1, SampleStarts, SampleSteps, PTL DEF LogSpec
=============================================================================
