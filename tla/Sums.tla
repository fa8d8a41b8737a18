-------------------------------- MODULE Sums --------------------------------
(***************************************************************************)
(* Sums over finite sets, for the proofs about the quantities of orders    *)
(* and cycles.  MapThenSumSet is a recursive function over the subsets of  *)
(* a set; that it exists, and what it computes, goes by induction on the   *)
(* size of the set.  The induction is that of SetInduction, over the set   *)
(* of the numbers for which a fact holds.                                  *)
(***************************************************************************)
EXTENDS Integers, FiniteSets, FiniteSetsExt, FiniteSetTheorems, WellFoundedInduction, TLAPS

SumOf(f, S) == MapThenSumSet(LAMBDA x : f[x], S)
Chosen(S) == CHOOSE x \in S : TRUE
SumStep(f, S, g) ==
    [s \in SUBSET S |-> IF s = {} THEN 0 ELSE f[Chosen(s)] + g[s \ {Chosen(s)}]]
SumOfLaw(f, S) ==
    SumOf(f, S) = IF S = {} THEN 0 ELSE f[Chosen(S)] + SumOf(f, S \ {Chosen(S)})

\* A set of natural numbers has a least element.
LEMMA LeastElement ==
  ASSUME NEW T, T \subseteq Nat, T # {}
  PROVE  \E x \in T : \A y \in T : x <= y
<1> DEFINE R == OpToRel(<, Nat)
<1>1. IsWellFoundedOn(R, Nat)
  BY NatLessThanWellFounded
<1>2. R = {ss \in Nat \X Nat : ss[1] < ss[2]}
  BY DEF OpToRel
<1>3. \A x, y \in Nat : <<x, y>> \in R <=> x < y
  BY <1>2
<1> HIDE DEF R
<1>4. PICK x \in T : \A y \in T : ~ (<<y, x>> \in R)
  BY <1>1, WFMin
<1>5. \A y \in T : x \in Nat /\ y \in Nat
  OBVIOUS
<1>6. ASSUME NEW y \in T PROVE x <= y
  <2>1. ~ (y < x)
    BY <1>3, <1>4, <1>5
  <2> QED  BY <1>5, <2>1
<1> QED  BY <1>6

\* Induction over the natural numbers, for the set of those that have a property.
LEMMA SetInduction ==
  ASSUME NEW T, T \subseteq Nat, 0 \in T, \A n \in T : n + 1 \in T
  PROVE  T = Nat
<1> SUFFICES ASSUME Nat \ T # {} PROVE FALSE
  OBVIOUS
<1>1. PICK x \in Nat \ T : \A y \in Nat \ T : x <= y
  BY LeastElement
<1>2. x # 0 /\ x - 1 \in Nat
  OBVIOUS
<1>3. x - 1 \in T
  BY <1>1, <1>2
<1> QED  BY <1>2, <1>3

\* The sum is defined by a recursive function, the one that Step describes.
LEMMA SumIsStep ==
  ASSUME NEW f, NEW S
  PROVE  SumOf(f, S) = (CHOOSE h : h = SumStep(f, S, h))[S]
BY DEF SumOf, MapThenSumSet, MapThenFoldSet, SumStep, Chosen

\* One element less.
LEMMA SmallerSet ==
  ASSUME NEW S, IsFiniteSet(S), S # {}
  PROVE  /\ Chosen(S) \in S
         /\ IsFiniteSet(S \ {Chosen(S)})
         /\ Cardinality(S) \in Nat
         /\ Cardinality(S \ {Chosen(S)}) = Cardinality(S) - 1
         /\ Cardinality(S \ {Chosen(S)}) \in Nat
<1>1. Chosen(S) \in S
  BY DEF Chosen
<1> QED  BY <1>1, FS_RemoveElement, FS_CardinalityType

\* One element less, for a set whose size is given.
LEMMA OneLess ==
  ASSUME NEW n \in Nat, NEW S, IsFiniteSet(S), Cardinality(S) = n + 1
  PROVE  /\ S # {}
         /\ Chosen(S) \in S
         /\ IsFiniteSet(S \ {Chosen(S)})
         /\ Cardinality(S \ {Chosen(S)}) = n
<1>1. S # {}
  BY FS_EmptySet
<1> QED  BY <1>1, SmallerSet

\* There is nothing to add.
LEMMA EmptySum == ASSUME NEW f PROVE SumOf(f, {}) = 0
<1> DEFINE h == [s \in SUBSET {} |-> 0]
<1>1. h = SumStep(f, {}, h)
  BY DEF SumStep
<1> HIDE DEF h
<1> DEFINE g == CHOOSE k : k = SumStep(f, {}, k)
<1>2. g = SumStep(f, {}, g)
  BY <1>1
<1> HIDE DEF g
<1>3. g[{}] = 0
  BY <1>2 DEF SumStep
<1>4. SumOf(f, {}) = g[{}]
  BY SumIsStep DEF g
<1> QED  BY <1>3, <1>4

\* Every function that Step describes computes the sums, as far as the law of
\* the sum is known.
LEMMA SumUnique ==
  ASSUME NEW f, NEW n \in Nat,
         \A u : IsFiniteSet(u) /\ Cardinality(u) <= n => SumOfLaw(f, u)
  PROVE  \A S, h : h = SumStep(f, S, h) =>
            \A t \in SUBSET S : IsFiniteSet(t) /\ Cardinality(t) <= n => h[t] = SumOf(f, t)
<1> SUFFICES ASSUME NEW S, NEW h, h = SumStep(f, S, h)
             PROVE  \A t \in SUBSET S : IsFiniteSet(t) /\ Cardinality(t) <= n => h[t] = SumOf(f, t)
  OBVIOUS
<1> DEFINE T == {k \in Nat : \A t \in SUBSET S : IsFiniteSet(t) /\ Cardinality(t) = k /\ k <= n => h[t] = SumOf(f, t)}
<1>1. 0 \in T
  <2> SUFFICES ASSUME NEW t \in SUBSET S, IsFiniteSet(t), Cardinality(t) = 0
               PROVE  h[t] = SumOf(f, t)
    OBVIOUS
  <2>1. t = {}
    BY FS_EmptySet
  <2>2. h[t] = 0
    BY <2>1 DEF SumStep
  <2> QED  BY <2>1, <2>2, EmptySum
<1>2. ASSUME NEW k \in T PROVE k + 1 \in T
  <2> SUFFICES ASSUME NEW t \in SUBSET S, IsFiniteSet(t), Cardinality(t) = k + 1, k + 1 <= n
               PROVE  h[t] = SumOf(f, t)
    OBVIOUS
  <2>1. t # {}
    BY FS_EmptySet
  <2> DEFINE u == t \ {Chosen(t)}
  <2>2. IsFiniteSet(u) /\ Cardinality(u) = k /\ u \in SUBSET S
    BY <2>1, SmallerSet
  <2>3. h[u] = SumOf(f, u)
    BY <2>2
  <2>4. h[t] = f[Chosen(t)] + h[u]
    BY <2>1 DEF SumStep
  <2>5. SumOfLaw(f, t)
    BY <2>1
  <2> QED  BY <2>1, <2>3, <2>4, <2>5 DEF SumOfLaw
<1>3. T = Nat
  <2> HIDE DEF T
  <2>1. T \subseteq Nat
    BY DEF T
  <2> QED  BY <1>1, <1>2, <2>1, SetInduction
<1>4. ASSUME NEW t \in SUBSET S, IsFiniteSet(t), Cardinality(t) <= n
      PROVE h[t] = SumOf(f, t)
  <2>1. Cardinality(t) \in T
    BY <1>3, <1>4, FS_CardinalityType
  <2> QED  BY <1>4, <2>1
<1> QED  BY <1>4

\* The recursive function exists, so the sum of a finite set is one of its
\* summands and the sum of the others.
LEMMA SumIsLaw == ASSUME NEW f, NEW S, IsFiniteSet(S) PROVE SumOfLaw(f, S)
<1> DEFINE T == {n \in Nat : \A u : IsFiniteSet(u) /\ Cardinality(u) <= n => SumOfLaw(f, u)}
<1>1. 0 \in T
  <2> SUFFICES ASSUME NEW u, IsFiniteSet(u), Cardinality(u) <= 0 PROVE SumOfLaw(f, u)
    OBVIOUS
  <2>1. u = {}
    BY FS_EmptySet, FS_CardinalityType
  <2> QED  BY <2>1, EmptySum DEF SumOfLaw
<1>2. ASSUME NEW n \in T PROVE n + 1 \in T
  <2>1. \A u : IsFiniteSet(u) /\ Cardinality(u) <= n => SumOfLaw(f, u)
    OBVIOUS
  <2> SUFFICES ASSUME NEW u, IsFiniteSet(u), Cardinality(u) = n + 1 PROVE SumOfLaw(f, u)
    BY <2>1, FS_CardinalityType
  <2>2. u # {}
    BY FS_EmptySet
  <2> DEFINE h == [t \in SUBSET u |-> IF t = {} THEN 0 ELSE f[Chosen(t)] + SumOf(f, t \ {Chosen(t)})]
             g == CHOOSE k : k = SumStep(f, u, k)
  <2>3. ASSUME NEW t \in SUBSET u, t # {}
        PROVE  /\ t \ {Chosen(t)} \in SUBSET u
               /\ h[t \ {Chosen(t)}] = SumOf(f, t \ {Chosen(t)})
    <3> DEFINE s == t \ {Chosen(t)}
    <3>1. IsFiniteSet(t) /\ Cardinality(t) <= n + 1
      BY FS_Subset
    <3>2. IsFiniteSet(s) /\ Cardinality(s) <= n /\ s \in SUBSET u
      <4>1. /\ IsFiniteSet(s) /\ Cardinality(s) \in Nat /\ Cardinality(t) \in Nat
            /\ Cardinality(s) = Cardinality(t) - 1
        BY <2>3, <3>1, SmallerSet
      <4>2. n \in Nat
        OBVIOUS
      <4> QED  BY <3>1, <4>1, <4>2
    <3>3. SumOfLaw(f, s)
      BY <2>1, <3>2
    <3>4. h[s] = IF s = {} THEN 0 ELSE f[Chosen(s)] + SumOf(f, s \ {Chosen(s)})
      BY <3>2
    <3> QED  BY <3>2, <3>3, <3>4 DEF SumOfLaw
  <2>4. h = SumStep(f, u, h)
    <3> HIDE DEF h
    <3>1. h = [t \in SUBSET u |-> IF t = {} THEN 0 ELSE f[Chosen(t)] + SumOf(f, t \ {Chosen(t)})]
      BY DEF h
    <3>2. \A t \in SUBSET u : h[t] = IF t = {} THEN 0 ELSE f[Chosen(t)] + h[t \ {Chosen(t)}]
      BY <2>3, <3>1
    <3> QED  BY <3>1, <3>2 DEF SumStep
  <2>5. g = SumStep(f, u, g)
    <3> HIDE DEF h
    <3> QED  BY <2>4
  <2>6. SumOf(f, u) = g[u]
    BY SumIsStep
  <2> HIDE DEF g
  <2>7. g[u] = f[Chosen(u)] + g[u \ {Chosen(u)}]
    BY <2>2, <2>5 DEF SumStep
  <2>8. g[u \ {Chosen(u)}] = SumOf(f, u \ {Chosen(u)})
    <3>1. /\ u \ {Chosen(u)} \in SUBSET u
          /\ IsFiniteSet(u \ {Chosen(u)})
          /\ Cardinality(u \ {Chosen(u)}) <= n
      BY <2>2, SmallerSet
    <3>2. n \in Nat
      BY <1>2
    <3>3. \A t \in SUBSET u : IsFiniteSet(t) /\ Cardinality(t) <= n => g[t] = SumOf(f, t)
      <4>1. \A R, h_1 : h_1 = SumStep(f, R, h_1) =>
               \A t \in SUBSET R : IsFiniteSet(t) /\ Cardinality(t) <= n => h_1[t] = SumOf(f, t)
        BY <2>1, <3>2, SumUnique
      <4> QED  BY <2>5, <4>1
    <3> QED  BY <3>1, <3>3
  <2> QED  BY <2>2, <2>6, <2>7, <2>8 DEF SumOfLaw
<1>3. T = Nat
  <2> HIDE DEF T
  <2>1. T \subseteq Nat
    BY DEF T
  <2> QED  BY <1>1, <1>2, <2>1, SetInduction
<1>4. Cardinality(S) \in T
  BY <1>3, FS_CardinalityType
<1> QED  BY <1>4

\* A sum of integers is one.
LEMMA SumOfInts ==
  ASSUME NEW f, NEW S, IsFiniteSet(S), \A x \in S : f[x] \in Int
  PROVE  SumOf(f, S) \in Int
<1> DEFINE T == {n \in Nat : \A u \in SUBSET S : Cardinality(u) = n => SumOf(f, u) \in Int}
<1>1. 0 \in T
  <2> SUFFICES ASSUME NEW u \in SUBSET S, Cardinality(u) = 0 PROVE SumOf(f, u) \in Int
    OBVIOUS
  <2>1. u = {}
    BY FS_Subset, FS_EmptySet
  <2> QED  BY <2>1, EmptySum
<1>2. ASSUME NEW n \in T PROVE n + 1 \in T
  <2> SUFFICES ASSUME NEW u \in SUBSET S, Cardinality(u) = n + 1 PROVE SumOf(f, u) \in Int
    OBVIOUS
  <2>1. IsFiniteSet(u) /\ u # {}
    BY FS_Subset, FS_EmptySet
  <2>2. /\ Chosen(u) \in S /\ u \ {Chosen(u)} \in SUBSET S
        /\ Cardinality(u \ {Chosen(u)}) = n
    <3>1. n \in Nat
      OBVIOUS
    <3> QED  BY <2>1, <3>1, OneLess
  <2>3. SumOf(f, u \ {Chosen(u)}) \in Int
    BY <2>2
  <2> QED  BY <2>1, <2>2, <2>3, SumIsLaw DEF SumOfLaw
<1>3. T = Nat
  <2> HIDE DEF T
  <2>1. T \subseteq Nat
    BY DEF T
  <2> QED  BY <1>1, <1>2, <2>1, SetInduction
<1>4. Cardinality(S) \in T
  BY <1>3, FS_CardinalityType
<1> QED  BY <1>4

\* A sum changes by what one summand changes.
LEMMA SumChanges ==
  ASSUME NEW f, NEW g, NEW S, NEW o, IsFiniteSet(S),
         \A x \in S : f[x] \in Int /\ g[x] \in Int,
         \A x \in S \ {o} : g[x] = f[x]
  PROVE  SumOf(g, S) = SumOf(f, S) + IF o \in S THEN g[o] - f[o] ELSE 0
<1> DEFINE Change(u) == IF o \in u THEN g[o] - f[o] ELSE 0
           T == {n \in Nat : \A u \in SUBSET S : Cardinality(u) = n =>
                    SumOf(g, u) = SumOf(f, u) + Change(u)}
<1>1. 0 \in T
  <2> SUFFICES ASSUME NEW u \in SUBSET S, Cardinality(u) = 0
               PROVE  SumOf(g, u) = SumOf(f, u) + Change(u)
    OBVIOUS
  <2>1. u = {}
    BY FS_Subset, FS_EmptySet
  <2> QED  BY <2>1, EmptySum
<1>2. ASSUME NEW n \in T PROVE n + 1 \in T
  <2> SUFFICES ASSUME NEW u \in SUBSET S, Cardinality(u) = n + 1
               PROVE  SumOf(g, u) = SumOf(f, u) + Change(u)
    OBVIOUS
  <2>1. IsFiniteSet(u) /\ u # {}
    BY FS_Subset, FS_EmptySet
  <2> DEFINE x == Chosen(u)  v == u \ {x}
  <2>2. x \in u /\ x \in S /\ v \in SUBSET S /\ Cardinality(v) = n
    <3>1. n \in Nat
      OBVIOUS
    <3> QED  BY <2>1, <3>1, OneLess
  <2>3. SumOf(g, v) = SumOf(f, v) + Change(v)
    BY <2>2
  <2>4. /\ SumOf(g, u) = g[x] + SumOf(g, v)
        /\ SumOf(f, u) = f[x] + SumOf(f, v)
    BY <2>1, SumIsLaw DEF SumOfLaw
  <2>5. SumOf(f, v) \in Int /\ SumOf(g, v) \in Int
    BY <2>1, <2>2, FS_Subset, SumOfInts
  <2>6. f[x] \in Int /\ g[x] \in Int
    BY <2>2
  <2> HIDE DEF x, v
  <2>7. v = u \ {x}
    BY DEF x, v
  <2>8. CASE x = o
    <3>1. Change(v) = 0 /\ Change(u) = g[x] - f[x]
      BY <2>2, <2>7, <2>8
    <3> QED  BY <2>3, <2>4, <2>5, <2>6, <3>1
  <2>9. CASE x # o
    <3>1. Change(v) = Change(u) /\ g[x] = f[x]
      BY <2>2, <2>7, <2>9
    <3>2. Change(u) \in Int
      OBVIOUS
    <3> HIDE DEF Change
    <3> QED  BY <2>3, <2>4, <2>5, <2>6, <3>1, <3>2
  <2> QED  BY <2>8, <2>9
<1>3. T = Nat
  <2> HIDE DEF T
  <2>1. T \subseteq Nat
    BY DEF T
  <2> QED  BY <1>1, <1>2, <2>1, SetInduction
<1>4. Cardinality(S) \in T
  BY <1>3, FS_CardinalityType
<1> QED  BY <1>4

\* A positive sum has a positive summand.
LEMMA PositiveSum ==
  ASSUME NEW f, NEW S, IsFiniteSet(S), \A x \in S : f[x] \in Int,
         SumOf(f, S) > 0
  PROVE  \E x \in S : f[x] > 0
<1> SUFFICES ASSUME \A x \in S : f[x] <= 0 PROVE SumOf(f, S) <= 0
  BY SumOfInts
<1> DEFINE T == {n \in Nat : \A u \in SUBSET S : Cardinality(u) = n => SumOf(f, u) <= 0}
<1>1. 0 \in T
  <2> SUFFICES ASSUME NEW u \in SUBSET S, Cardinality(u) = 0 PROVE SumOf(f, u) <= 0
    OBVIOUS
  <2>1. u = {}
    BY FS_Subset, FS_EmptySet
  <2> QED  BY <2>1, EmptySum
<1>2. ASSUME NEW n \in T PROVE n + 1 \in T
  <2> SUFFICES ASSUME NEW u \in SUBSET S, Cardinality(u) = n + 1 PROVE SumOf(f, u) <= 0
    OBVIOUS
  <2>1. IsFiniteSet(u) /\ u # {}
    BY FS_Subset, FS_EmptySet
  <2> DEFINE v == u \ {Chosen(u)}
  <2>2. /\ Chosen(u) \in S /\ v \in SUBSET S
        /\ Cardinality(v) = n
    <3>1. n \in Nat
      OBVIOUS
    <3> QED  BY <2>1, <3>1, OneLess
  <2>3. SumOf(f, v) <= 0 /\ SumOf(f, v) \in Int
    BY <2>1, <2>2, FS_Subset, SumOfInts
  <2>4. f[Chosen(u)] \in Int /\ f[Chosen(u)] <= 0
    BY <2>2
  <2> QED  BY <2>1, <2>3, <2>4, SumIsLaw DEF SumOfLaw
<1>3. T = Nat
  <2> HIDE DEF T
  <2>1. T \subseteq Nat
    BY DEF T
  <2> QED  BY <1>1, <1>2, <2>1, SetInduction
<1>4. Cardinality(S) \in T
  BY <1>3, FS_CardinalityType
<1> QED  BY <1>4

\* A sum of numbers that are not negative is not negative.
LEMMA NonNegativeSum ==
  ASSUME NEW f, NEW S, IsFiniteSet(S), \A x \in S : f[x] \in Int /\ f[x] >= 0
  PROVE  SumOf(f, S) \in Int /\ SumOf(f, S) >= 0
<1> DEFINE T == {n \in Nat : \A u \in SUBSET S : Cardinality(u) = n => SumOf(f, u) >= 0}
<1>1. 0 \in T
  <2> SUFFICES ASSUME NEW u \in SUBSET S, Cardinality(u) = 0 PROVE SumOf(f, u) >= 0
    OBVIOUS
  <2>1. u = {}
    BY FS_Subset, FS_EmptySet
  <2> QED  BY <2>1, EmptySum
<1>2. ASSUME NEW n \in T PROVE n + 1 \in T
  <2> SUFFICES ASSUME NEW u \in SUBSET S, Cardinality(u) = n + 1 PROVE SumOf(f, u) >= 0
    OBVIOUS
  <2>1. IsFiniteSet(u) /\ u # {}
    BY FS_Subset, FS_EmptySet
  <2> DEFINE v == u \ {Chosen(u)}
  <2>2. /\ Chosen(u) \in S /\ v \in SUBSET S
        /\ Cardinality(v) = n
    <3>1. n \in Nat
      OBVIOUS
    <3> QED  BY <2>1, <3>1, OneLess
  <2>3. SumOf(f, v) >= 0 /\ SumOf(f, v) \in Int
    BY <2>1, <2>2, FS_Subset, SumOfInts
  <2>4. f[Chosen(u)] \in Int /\ f[Chosen(u)] >= 0
    BY <2>2
  <2> QED  BY <2>1, <2>3, <2>4, SumIsLaw DEF SumOfLaw
<1>3. T = Nat
  <2> HIDE DEF T
  <2>1. T \subseteq Nat
    BY DEF T
  <2> QED  BY <1>1, <1>2, <2>1, SetInduction
<1>4. Cardinality(S) \in T
  BY <1>3, FS_CardinalityType
<1> QED  BY <1>4, SumOfInts

\* An integer function has a maximum on a finite set.
LEMMA Maximum ==
  ASSUME NEW S, IsFiniteSet(S), S # {}, NEW f, \A x \in S : f[x] \in Int
  PROVE  \E x \in S : \A y \in S : f[y] <= f[x]
<1> DEFINE T == {n \in Nat : \A u \in SUBSET S : Cardinality(u) = n /\ u # {} =>
                    \E x \in u : \A y \in u : f[y] <= f[x]}
<1>1. 0 \in T
  <2> SUFFICES ASSUME NEW u \in SUBSET S, Cardinality(u) = 0, u # {} PROVE FALSE
    OBVIOUS
  <2> QED  BY FS_Subset, FS_EmptySet
<1>2. ASSUME NEW n \in T PROVE n + 1 \in T
  <2> SUFFICES ASSUME NEW u \in SUBSET S, Cardinality(u) = n + 1, u # {}
               PROVE  \E x \in u : \A y \in u : f[y] <= f[x]
    OBVIOUS
  <2> DEFINE z == Chosen(u)  v == u \ {z}
  <2>1. z \in u /\ v \in SUBSET S /\ Cardinality(v) = n
    <3>1. n \in Nat /\ IsFiniteSet(u)
      BY FS_Subset
    <3> QED  BY <3>1, OneLess
  <2>2. CASE v = {}
    BY <2>1, <2>2
  <2>3. CASE v # {}
    <3>1. PICK x \in v : \A y \in v : f[y] <= f[x]
      BY <2>1, <2>3
    <3> HIDE DEF z, v
    <3>2. u = v \cup {z} /\ x \in u /\ x \in S /\ z \in S
      BY <2>1, <3>1 DEF v
    <3>3. CASE f[z] <= f[x]
      BY <3>1, <3>2, <3>3
    <3>4. CASE f[x] <= f[z]
      <4>1. \A y \in u : y \in S
        OBVIOUS
      <4>2. ASSUME NEW y \in u PROVE f[y] <= f[z]
        BY <3>1, <3>2, <3>4, <4>1
      <4> QED  BY <2>1, <4>2
    <3> QED  BY <3>2, <3>3, <3>4
  <2> QED  BY <2>2, <2>3
<1>3. T = Nat
  <2> HIDE DEF T
  <2>1. T \subseteq Nat
    BY DEF T
  <2> QED  BY <1>1, <1>2, <2>1, SetInduction
<1>4. Cardinality(S) \in T
  BY <1>3, FS_CardinalityType
<1> QED  BY <1>4

\* A sum grows with its summands.
LEMMA GrowingSum ==
  ASSUME NEW f, NEW g, NEW S, IsFiniteSet(S),
         \A x \in S : f[x] \in Int /\ g[x] \in Int /\ f[x] <= g[x]
  PROVE  SumOf(f, S) <= SumOf(g, S)
<1> DEFINE T == {n \in Nat : \A u \in SUBSET S : Cardinality(u) = n => SumOf(f, u) <= SumOf(g, u)}
<1>1. 0 \in T
  <2> SUFFICES ASSUME NEW u \in SUBSET S, Cardinality(u) = 0 PROVE SumOf(f, u) <= SumOf(g, u)
    OBVIOUS
  <2>1. u = {}
    BY FS_Subset, FS_EmptySet
  <2> QED  BY <2>1, EmptySum
<1>2. ASSUME NEW n \in T PROVE n + 1 \in T
  <2> SUFFICES ASSUME NEW u \in SUBSET S, Cardinality(u) = n + 1 PROVE SumOf(f, u) <= SumOf(g, u)
    OBVIOUS
  <2>1. IsFiniteSet(u) /\ u # {}
    BY FS_Subset, FS_EmptySet
  <2> DEFINE v == u \ {Chosen(u)}
  <2>2. /\ Chosen(u) \in S /\ v \in SUBSET S
        /\ Cardinality(v) = n
    <3>1. n \in Nat
      OBVIOUS
    <3> QED  BY <2>1, <3>1, OneLess
  <2>3. SumOf(f, v) <= SumOf(g, v) /\ SumOf(f, v) \in Int /\ SumOf(g, v) \in Int
    BY <2>1, <2>2, FS_Subset, SumOfInts
  <2>4. /\ SumOf(f, u) = f[Chosen(u)] + SumOf(f, v)
        /\ SumOf(g, u) = g[Chosen(u)] + SumOf(g, v)
    BY <2>1, SumIsLaw DEF SumOfLaw
  <2>5. f[Chosen(u)] \in Int /\ g[Chosen(u)] \in Int /\ f[Chosen(u)] <= g[Chosen(u)]
    BY <2>2
  <2> HIDE DEF v
  <2> QED  BY <2>3, <2>4, <2>5
<1>3. T = Nat
  <2> HIDE DEF T
  <2>1. T \subseteq Nat
    BY DEF T
  <2> QED  BY <1>1, <1>2, <2>1, SetInduction
<1>4. Cardinality(S) \in T
  BY <1>3, FS_CardinalityType
<1> QED  BY <1>4

\* A sum depends on its summands only.
LEMMA SameSum ==
  ASSUME NEW f, NEW g, NEW S, IsFiniteSet(S),
         \A x \in S : f[x] \in Int /\ f[x] = g[x]
  PROVE  SumOf(f, S) = SumOf(g, S)
<1>1. SumOf(f, S) <= SumOf(g, S) /\ SumOf(g, S) <= SumOf(f, S)
  <2>1. \A x \in S : f[x] \in Int /\ g[x] \in Int /\ f[x] <= g[x] /\ g[x] <= f[x]
    OBVIOUS
  <2> QED  BY <2>1, GrowingSum
<1>2. SumOf(f, S) \in Int /\ SumOf(g, S) \in Int
  BY SumOfInts
<1> QED  BY <1>1, <1>2

\* One more summand.
LEMMA SumAdds ==
  ASSUME NEW f, NEW S, NEW x, IsFiniteSet(S), x \notin S, f[x] \in Int,
         \A y \in S : f[y] \in Int
  PROVE  SumOf(f, S \cup {x}) = f[x] + SumOf(f, S)
<1> DEFINE D == S \cup {x}
           T == {n \in Nat : \A u \in SUBSET D : \A y \in D \ u : Cardinality(u) = n =>
                    SumOf(f, u \cup {y}) = f[y] + SumOf(f, u)}
<1>1. IsFiniteSet(D) /\ \A y \in D : f[y] \in Int
  BY FS_AddElement
<1> HIDE DEF D
<1>2. 0 \in T
  <2> SUFFICES ASSUME NEW u \in SUBSET D, NEW y \in D \ u, Cardinality(u) = 0
               PROVE  SumOf(f, u \cup {y}) = f[y] + SumOf(f, u)
    OBVIOUS
  <2>1. u = {}
    BY <1>1, FS_Subset, FS_EmptySet
  <2>2. IsFiniteSet({y}) /\ Chosen({y}) = y /\ {y} \ {y} = {}
    BY FS_Singleton DEF Chosen
  <2>3. SumOf(f, {y}) = f[y] + SumOf(f, {})
    BY <2>2, SumIsLaw DEF SumOfLaw
  <2> QED  BY <2>1, <2>3
<1>3. ASSUME NEW n \in T PROVE n + 1 \in T
  <2> SUFFICES ASSUME NEW u \in SUBSET D, NEW y \in D \ u, Cardinality(u) = n + 1
               PROVE  SumOf(f, u \cup {y}) = f[y] + SumOf(f, u)
    OBVIOUS
  <2> DEFINE w == u \cup {y}
             z == Chosen(w)
             v == u \ {z}
  <2>0. n \in Nat
    OBVIOUS
  <2>1. IsFiniteSet(u) /\ IsFiniteSet(w) /\ w # {} /\ z \in w
    BY <1>1, FS_Subset, FS_AddElement DEF Chosen
  <2>2. SumOf(f, w) = f[z] + SumOf(f, w \ {z})
    BY <2>1, SumIsLaw DEF SumOfLaw
  <2> HIDE DEF z
  <2>3. CASE z = y
    <3>1. w \ {z} = u
      BY <2>3
    <3> QED  BY <2>2, <2>3, <3>1
  <2>4. CASE z # y
    <3>1. z \in u /\ w \ {z} = v \cup {y} /\ u = v \cup {z} /\ v \in SUBSET D
          /\ y \in D \ v /\ z \in D \ v
      BY <2>1, <2>4
    <3>2. Cardinality(v) = n
      <4>1. Cardinality(v) = Cardinality(u) - 1
        BY <2>1, <3>1, FS_RemoveElement
      <4> QED  BY <2>0, <4>1
    <3>3. SumOf(f, v \cup {y}) = f[y] + SumOf(f, v) /\ SumOf(f, v \cup {z}) = f[z] + SumOf(f, v)
      BY <3>1, <3>2
    <3>4. IsFiniteSet(v) /\ \A i \in v : f[i] \in Int
      BY <1>1, <2>1, <3>1, FS_Subset
    <3>5. SumOf(f, v) \in Int /\ f[y] \in Int /\ f[z] \in Int
      BY <1>1, <3>1, <3>4, SumOfInts
    <3>6. SumOf(f, w) = f[z] + (f[y] + SumOf(f, v)) /\ SumOf(f, u) = f[z] + SumOf(f, v)
      BY <2>2, <3>1, <3>3
    <3> QED  BY <3>5, <3>6
  <2> QED  BY <2>3, <2>4
<1>4. T = Nat
  <2> HIDE DEF T
  <2>1. T \subseteq Nat
    BY DEF T
  <2> QED  BY <1>2, <1>3, <2>1, SetInduction
<1>5. Cardinality(S) \in T /\ S \in SUBSET D /\ x \in D \ S
  BY <1>4, FS_CardinalityType DEF D
<1> QED  BY <1>5

\* The sum of sums.
LEMMA SumsAdd ==
  ASSUME NEW f, NEW g, NEW h, NEW S, IsFiniteSet(S),
         \A x \in S : f[x] \in Int /\ g[x] \in Int /\ h[x] = f[x] + g[x]
  PROVE  SumOf(h, S) = SumOf(f, S) + SumOf(g, S)
<1> DEFINE T == {n \in Nat : \A u \in SUBSET S : Cardinality(u) = n =>
                    SumOf(h, u) = SumOf(f, u) + SumOf(g, u)}
<1>1. 0 \in T
  <2> SUFFICES ASSUME NEW u \in SUBSET S, Cardinality(u) = 0
               PROVE  SumOf(h, u) = SumOf(f, u) + SumOf(g, u)
    OBVIOUS
  <2>1. u = {}
    BY FS_Subset, FS_EmptySet
  <2> QED  BY <2>1, EmptySum
<1>2. ASSUME NEW n \in T PROVE n + 1 \in T
  <2> SUFFICES ASSUME NEW u \in SUBSET S, Cardinality(u) = n + 1
               PROVE  SumOf(h, u) = SumOf(f, u) + SumOf(g, u)
    OBVIOUS
  <2>1. IsFiniteSet(u) /\ u # {}
    BY FS_Subset, FS_EmptySet
  <2> DEFINE v == u \ {Chosen(u)}
  <2>2. /\ Chosen(u) \in S /\ v \in SUBSET S
        /\ Cardinality(v) = n
    <3>1. n \in Nat
      OBVIOUS
    <3> QED  BY <2>1, <3>1, OneLess
  <2>3. SumOf(h, v) = SumOf(f, v) + SumOf(g, v) /\ SumOf(f, v) \in Int /\ SumOf(g, v) \in Int
    BY <2>1, <2>2, FS_Subset, SumOfInts
  <2>4. /\ SumOf(f, u) = f[Chosen(u)] + SumOf(f, v)
        /\ SumOf(g, u) = g[Chosen(u)] + SumOf(g, v)
        /\ SumOf(h, u) = h[Chosen(u)] + SumOf(h, v)
    BY <2>1, SumIsLaw DEF SumOfLaw
  <2>5. /\ f[Chosen(u)] \in Int /\ g[Chosen(u)] \in Int
        /\ h[Chosen(u)] = f[Chosen(u)] + g[Chosen(u)]
    BY <2>2
  <2> HIDE DEF v
  <2> QED  BY <2>3, <2>4, <2>5
<1>3. T = Nat
  <2> HIDE DEF T
  <2>1. T \subseteq Nat
    BY DEF T
  <2> QED  BY <1>1, <1>2, <2>1, SetInduction
<1>4. Cardinality(S) \in T
  BY <1>3, FS_CardinalityType
<1> QED  BY <1>4

-----------------------------------------------------------------------------
(* The fills of a set of orders *)

FilledSum(r, S) == MapThenSumSet(LAMBDA o : r[o].filled, S)

\* They are sums as above.
LEMMA FilledIsSum ==
  ASSUME NEW r, NEW S
  PROVE  FilledSum(r, S) = SumOf([o \in S |-> r[o].filled], S)
<1> DEFINE F == [o \in S |-> r[o].filled]
           Fill(h) == [s \in SUBSET S |-> IF s = {} THEN 0 ELSE r[Chosen(s)].filled + h[s \ {Chosen(s)}]]
<1>1. ASSUME NEW h PROVE Fill(h) = SumStep(F, S, h)
  <2>1. \A s \in SUBSET S : s # {} => Chosen(s) \in S
    BY DEF Chosen
  <2> QED  BY <2>1 DEF SumStep
<1>2. FilledSum(r, S) = (CHOOSE h : h = Fill(h))[S]
  BY DEF FilledSum, MapThenSumSet, MapThenFoldSet, Chosen
<1> HIDE DEF F, Fill
<1>3. (CHOOSE h : h = Fill(h)) = (CHOOSE h : h = SumStep(F, S, h))
  BY <1>1
<1> QED  BY <1>2, <1>3, SumIsStep DEF F

\* A sum of integers is one.
LEMMA SumInt ==
  ASSUME NEW r, NEW S, IsFiniteSet(S), \A x \in S : r[x].filled \in Int
  PROVE  FilledSum(r, S) \in Int
<1> DEFINE F == [o \in S |-> r[o].filled]
<1>1. \A x \in S : F[x] \in Int
  OBVIOUS
<1> HIDE DEF F
<1>2. SumOf(F, S) \in Int
  BY <1>1, SumOfInts
<1> QED  BY <1>2, FilledIsSum DEF F

\* A sum changes by what one fill changes.
LEMMA SumChange ==
  ASSUME NEW r, NEW q, NEW S, NEW o, IsFiniteSet(S),
         \A x \in S : r[x].filled \in Int /\ q[x].filled \in Int,
         \A x \in S \ {o} : q[x].filled = r[x].filled
  PROVE  FilledSum(q, S) = FilledSum(r, S) + IF o \in S THEN q[o].filled - r[o].filled ELSE 0
<1> DEFINE F == [x \in S |-> r[x].filled]
           G == [x \in S |-> q[x].filled]
<1>1. /\ \A x \in S : F[x] \in Int /\ G[x] \in Int
      /\ \A x \in S \ {o} : G[x] = F[x]
      /\ o \in S => G[o] = q[o].filled /\ F[o] = r[o].filled
  OBVIOUS
<1>2. FilledSum(q, S) = SumOf(G, S) /\ FilledSum(r, S) = SumOf(F, S)
  BY FilledIsSum
<1> HIDE DEF F, G
<1>3. SumOf(G, S) = SumOf(F, S) + IF o \in S THEN G[o] - F[o] ELSE 0
  BY <1>1, SumChanges
<1> QED  BY <1>1, <1>2, <1>3

\* A positive sum has a positive fill.
LEMMA SumPositive ==
  ASSUME NEW r, NEW S, IsFiniteSet(S), \A x \in S : r[x].filled \in Int,
         FilledSum(r, S) > 0
  PROVE  \E x \in S : r[x].filled > 0
<1> DEFINE F == [o \in S |-> r[o].filled]
<1>1. \A x \in S : F[x] \in Int /\ F[x] = r[x].filled
  OBVIOUS
<1>2. FilledSum(r, S) = SumOf(F, S)
  BY FilledIsSum
<1> HIDE DEF F
<1>3. \E x \in S : F[x] > 0
  BY <1>1, <1>2, PositiveSum
<1> QED  BY <1>1, <1>3

\* A sum of fills that are not negative is not negative.
LEMMA SumNonNegative ==
  ASSUME NEW r, NEW S, IsFiniteSet(S), \A x \in S : r[x].filled \in Int /\ r[x].filled >= 0
  PROVE  FilledSum(r, S) \in Int /\ FilledSum(r, S) >= 0
<1> DEFINE F == [o \in S |-> r[o].filled]
<1>1. \A x \in S : F[x] \in Int /\ F[x] >= 0
  OBVIOUS
<1> HIDE DEF F
<1>2. SumOf(F, S) \in Int /\ SumOf(F, S) >= 0
  BY <1>1, NonNegativeSum
<1> QED  BY <1>2, FilledIsSum DEF F

\* A sum of fills grows with the fills.
LEMMA SumGrows ==
  ASSUME NEW r, NEW q, NEW S, IsFiniteSet(S),
         \A x \in S : r[x].filled \in Int /\ q[x].filled \in Int /\ r[x].filled <= q[x].filled
  PROVE  FilledSum(r, S) <= FilledSum(q, S)
<1> DEFINE F == [x \in S |-> r[x].filled]
           G == [x \in S |-> q[x].filled]
<1>1. \A x \in S : F[x] \in Int /\ G[x] \in Int /\ F[x] <= G[x]
  OBVIOUS
<1>2. FilledSum(q, S) = SumOf(G, S) /\ FilledSum(r, S) = SumOf(F, S)
  BY FilledIsSum
<1> HIDE DEF F, G
<1> QED  BY <1>1, <1>2, GrowingSum
=============================================================================
