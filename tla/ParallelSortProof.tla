-------------------------- MODULE ParallelSortProof --------------------------
(***************************************************************************)
(* Proofs about parallel_sort.c for any number of ranks, any length of     *)
(* their arrays and any numbers in them.                                   *)
(***************************************************************************)
EXTENDS ParallelSort, OffsetsProof, FunctionTheorems, SequenceTheorems

-----------------------------------------------------------------------------
(* Loops: functions defined from their own value at the number before.     *)

IsLoop(f, a, n, c, G) == f = [i \in a..n |-> IF i = a THEN c ELSE G[i][f[i-1]]]

LEMMA LoopExists ==
  ASSUME NEW a \in Int, NEW n \in Int, a <= n, NEW c, NEW G
  PROVE  \E f : IsLoop(f, a, n, c, G)
<1> DEFINE Upto(m) == \E f : IsLoop(f, a, a+m, c, G)
           T == {m \in 0..n-a : Upto(m)}
<1>1. 0 \in T
  <2> DEFINE f == [i \in a..a |-> c]
  <2>1. f = [i \in a..a |-> IF i = a THEN c ELSE G[i][f[i-1]]]
    OBVIOUS
  <2>2. a + 0 = a /\ 0 \in 0..n-a
    OBVIOUS
  <2> HIDE DEF f
  <2> QED
    BY <2>1, <2>2 DEF IsLoop
<1>2. ASSUME NEW m \in 1..n-a, m-1 \in T
      PROVE  m \in T
  <2>1. PICK f : IsLoop(f, a, a+(m-1), c, G)
    BY <1>2
  <2> DEFINE g == [i \in a..a+m |-> IF i = a+m THEN G[a+m][f[a+(m-1)]] ELSE f[i]]
  <2>2. a + (m-1) \in a..a+m /\ a+(m-1) # a+m /\ (a+m)-1 = a+(m-1)
    OBVIOUS
  <2>3. ASSUME NEW i \in a..a+m
        PROVE  g[i] = IF i = a THEN c ELSE G[i][g[i-1]]
    <3>1. CASE i = a+m
      BY <2>2, <3>1
    <3>2. CASE i # a+m
      <4>1. i \in a..a+(m-1) /\ i-1 # a+m /\ (i # a => i-1 \in a..a+m)
        BY <3>2
      <4>2. f[i] = IF i = a THEN c ELSE G[i][f[i-1]]
        BY <2>1, <4>1 DEF IsLoop
      <4> QED
        BY <4>1, <4>2
    <3> QED
      BY <3>1, <3>2
  <2>4. IsLoop(g, a, a+m, c, G)
    <3> DEFINE h == [i \in a..a+m |-> IF i = a THEN c ELSE G[i][g[i-1]]]
    <3>1. \A i \in a..a+m : h[i] = g[i]
      BY <2>3
    <3>2. g = h
      BY <3>1
    <3> HIDE DEF g
    <3> QED
      BY <3>2 DEF IsLoop
  <2> QED
    BY <2>4
<1>3. n-a \in T
  <2> HIDE DEF T
  <2>1. \A i \in 0..n-a : i \in T
    BY <1>1, <1>2, Induction
  <2> QED
    BY <2>1
<1>4. a + (n-a) = n
  OBVIOUS
<1> QED
  BY <1>3, <1>4

\* What holds at the start and is kept by every turn holds at every number.
LEMMA LoopKeeps ==
  ASSUME NEW a \in Int, NEW n \in Int, NEW c, NEW G, NEW f, IsLoop(f, a, n, c, G),
         NEW I, c \in I[a], \A i \in a+1..n : \A x \in I[i-1] : G[i][x] \in I[i]
  PROVE  \A i \in a..n : f[i] \in I[i]
<1> DEFINE T == {m \in 0..n-a : f[a+m] \in I[a+m]}
<1> SUFFICES ASSUME a <= n
             PROVE  \A i \in a..n : f[i] \in I[i]
  OBVIOUS
<1>1. 0 \in T
  <2>1. f[a] = c
    BY DEF IsLoop
  <2>2. a + 0 = a /\ 0 \in 0..n-a
    OBVIOUS
  <2> QED
    BY <2>1, <2>2
<1>2. ASSUME NEW m \in 1..n-a, m-1 \in T
      PROVE  m \in T
  <2>1. a+m \in a+1..n /\ a+m \in a..n /\ a+m # a /\ (a+m)-1 = a+(m-1)
    OBVIOUS
  <2>2. f[a+m] = G[a+m][f[(a+m)-1]]
    BY <2>1 DEF IsLoop
  <2> QED
    BY <1>2, <2>1, <2>2
<1>3. \A m \in 0..n-a : m \in T
  <2> HIDE DEF T
  <2> QED
    BY <1>1, <1>2, Induction
<1> QED
  <2> SUFFICES ASSUME NEW i \in a..n
               PROVE  f[i] \in I[i]
    OBVIOUS
  <2>1. i-a \in 0..n-a /\ a + (i-a) = i
    OBVIOUS
  <2> QED
    BY <1>3, <2>1

-----------------------------------------------------------------------------
(* How often a number occurs.                                              *)

Places(s, x) == {i \in DOMAIN s : s[i] = x}
Occ(s, x) == Cardinality(Places(s, x))

SameNumbers(s, t) == \A x : Occ(s, x) = Occ(t, x)

LEMMA OccType ==
  ASSUME NEW n \in Nat, NEW s, DOMAIN s = 1..n, NEW x
  PROVE  IsFiniteSet(Places(s, x)) /\ Occ(s, x) \in Nat
<1>1. IsFiniteSet(1..n) /\ Places(s, x) \in SUBSET (1..n)
  BY FS_Interval DEF Places
<1>2. IsFiniteSet(Places(s, x))
  BY <1>1, FS_Subset
<1> QED
  BY <1>2, FS_CardinalityType DEF Occ

\* A bijection between the places of two sets of numbers.
LEMMA SameSize ==
  ASSUME NEW S, IsFiniteSet(S), NEW T, NEW p \in [S -> T],
         \A a, b \in S : p[a] = p[b] => a = b, \A t \in T : \E a \in S : p[a] = t
  PROVE  IsFiniteSet(T) /\ Cardinality(T) = Cardinality(S)
<1>1. p \in Bijection(S, T)
  BY Fun_IsBij
<1>2. ExistsBijection(S, T)
  BY <1>1 DEF ExistsBijection
<1> QED
  BY <1>2, FS_Bijection

\* p moves the numbers of s to other places in t, no two to the same one.
Moves(p, n, s, t) ==
  /\ DOMAIN s = 1..n /\ DOMAIN t = 1..n
  /\ p \in [1..n -> 1..n]
  /\ \A a, b \in 1..n : p[a] = p[b] => a = b
  /\ \A i \in 1..n : t[p[i]] = s[i]

Onto(p, n) == \A k \in 1..n : \E i \in 1..n : p[i] = k

LEMMA OntoItself ==
  ASSUME NEW S, IsFiniteSet(S), NEW p \in [S -> S], \A a, b \in S : p[a] = p[b] => a = b
  PROVE  \A k \in S : \E i \in S : p[i] = k
<1>1. p \in Injection(S, S)
  BY Fun_IsInj
<1>2. p \in Surjection(S, S)
  BY <1>1, FS_Injection
<1> QED
  BY <1>2, Fun_SurjectionProperties

LEMMA Rearranged ==
  ASSUME NEW n \in Nat, NEW s, NEW t, NEW p, Moves(p, n, s, t)
  PROVE  SameNumbers(t, s) /\ Onto(p, n)
<1> USE DEF Moves
<1>1. \A k \in 1..n : \E i \in 1..n : p[i] = k
  <2> DEFINE S == 1..n
  <2>1. IsFiniteSet(S)
    BY FS_Interval
  <2>2. p \in [S -> S] /\ \A a, b \in S : p[a] = p[b] => a = b
    OBVIOUS
  <2> HIDE DEF S
  <2>3. \A k \in S : \E i \in S : p[i] = k
    BY <2>1, <2>2, OntoItself
  <2> QED
    BY <2>3 DEF S
<1>2. ASSUME NEW x
      PROVE  Occ(t, x) = Occ(s, x)
  <2> DEFINE q == [i \in Places(s, x) |-> p[i]]
  <2>1. \A i : i \in Places(s, x) <=> i \in 1..n /\ s[i] = x
    BY DEF Places
  <2>2. \A i : i \in Places(t, x) <=> i \in 1..n /\ t[i] = x
    BY DEF Places
  <2>3. q \in [Places(s, x) -> Places(t, x)]
    BY <2>1, <2>2
  <2>4. \A a, b \in Places(s, x) : q[a] = q[b] => a = b
    BY <2>1
  <2>5. \A k \in Places(t, x) : \E i \in Places(s, x) : q[i] = k
    <3> SUFFICES ASSUME NEW k \in Places(t, x)
                 PROVE  \E i \in Places(s, x) : q[i] = k
      OBVIOUS
    <3>1. PICK i \in 1..n : p[i] = k
      BY <1>1, <2>2
    <3>2. i \in Places(s, x)
      BY <2>1, <2>2, <3>1
    <3> QED
      BY <3>1, <3>2
  <2>6. IsFiniteSet(Places(s, x))
    BY OccType
  <2> HIDE DEF q
  <2> QED
    BY <2>3, <2>4, <2>5, <2>6, SameSize DEF Occ
<1> QED
  BY <1>1, <1>2 DEF SameNumbers, Onto

-----------------------------------------------------------------------------
(* qsort.                                                                  *)

Less(s, x) == {i \in DOMAIN s : s[i] < x}
UpTo(s, x) == {i \in DOMAIN s : s[i] <= x}
IsKth(s, k, x) == x \in Range(s) /\ Cardinality(Less(s, x)) < k /\ k <= Cardinality(UpTo(s, x))

\* Where number i comes to stand: behind the smaller ones and the equal ones
\* before it.
Ahead(s, i) == {j \in DOMAIN s : s[j] < s[i] \/ (s[j] = s[i] /\ j <= i)}
Place(s) == [i \in DOMAIN s |-> Cardinality(Ahead(s, i))]

LEMMA Ranked ==
  ASSUME NEW n \in Nat, NEW s \in [1..n -> Int]
  PROVE  /\ Place(s) \in [1..n -> 1..n]
         /\ \A i, j \in 1..n : Place(s)[i] = Place(s)[j] => i = j
         /\ \A i \in 1..n : IsKth(s, Place(s)[i], s[i])
<1>1. IsFiniteSet(1..n) /\ Cardinality(1..n) = n
  BY FS_Interval
<1>2. ASSUME NEW U \in SUBSET (1..n), NEW V \in SUBSET U
      PROVE  /\ IsFiniteSet(U) /\ Cardinality(U) \in Nat /\ Cardinality(V) \in Nat
             /\ Cardinality(V) <= Cardinality(U) /\ Cardinality(U) <= n
             /\ V # U => Cardinality(V) < Cardinality(U)
  <2>1. IsFiniteSet(U) /\ Cardinality(U) <= n
    <3> DEFINE R == 1..n
    <3>1. U \in SUBSET R /\ IsFiniteSet(R) /\ Cardinality(R) = n
      BY <1>1
    <3> HIDE DEF R
    <3> QED
      BY <3>1, FS_Subset
  <2>2. IsFiniteSet(V) /\ Cardinality(V) <= Cardinality(U) /\ (Cardinality(U) = Cardinality(V) => U = V)
    BY <2>1, FS_Subset
  <2>3. Cardinality(U) \in Nat /\ Cardinality(V) \in Nat
    BY <2>1, <2>2, FS_CardinalityType
  <2> QED
    BY <2>1, <2>2, <2>3
<1>3. \A i, j \in 1..n : /\ Ahead(s, i) \in SUBSET (1..n)
                         /\ j \in Ahead(s, i) <=> s[j] < s[i] \/ (s[j] = s[i] /\ j <= i)
  BY DEF Ahead
<1>4. \A i \in 1..n : Place(s)[i] = Cardinality(Ahead(s, i))
  BY DEF Place
<1>5. ASSUME NEW i \in 1..n
      PROVE  Place(s)[i] \in 1..n /\ IsKth(s, Place(s)[i], s[i])
  <2>1. Less(s, s[i]) \in SUBSET Ahead(s, i) /\ Ahead(s, i) \in SUBSET UpTo(s, s[i])
    BY DEF Less, UpTo, Ahead
  <2>2. i \in Ahead(s, i) /\ i \notin Less(s, s[i]) /\ UpTo(s, s[i]) \in SUBSET (1..n)
    BY DEF Less, UpTo, Ahead
  <2>3. Less(s, s[i]) # Ahead(s, i)
    BY <2>2
  <2>4. Cardinality(Less(s, s[i])) \in Nat /\ Cardinality(Less(s, s[i])) < Cardinality(Ahead(s, i))
    BY <1>2, <1>3, <2>1, <2>3
  <2>5. Cardinality(Ahead(s, i)) \in Nat /\ Cardinality(Ahead(s, i)) <= Cardinality(UpTo(s, s[i]))
    BY <1>2, <2>1, <2>2
  <2>6. Cardinality(Ahead(s, i)) <= n
    BY <1>2, <1>3
  <2>7. s[i] \in Range(s)
    BY DEF Range
  <2> QED
    BY <1>4, <2>4, <2>5, <2>6, <2>7 DEF IsKth
<1>6. ASSUME NEW i \in 1..n, NEW j \in 1..n, s[i] < s[j] \/ (s[i] = s[j] /\ i < j)
      PROVE  Place(s)[i] < Place(s)[j]
  <2>1. \A k \in 1..n : k \in Ahead(s, i) => k \in Ahead(s, j)
    <3> SUFFICES ASSUME NEW k \in 1..n, k \in Ahead(s, i)
                 PROVE  k \in Ahead(s, j)
      OBVIOUS
    <3>1. s[i] \in Int /\ s[j] \in Int /\ s[k] \in Int
      OBVIOUS
    <3>2. s[k] < s[i] \/ (s[k] = s[i] /\ k <= i)
      BY <1>3
    <3>3. s[k] < s[j] \/ (s[k] = s[j] /\ k <= j)
      BY <1>6, <3>1, <3>2
    <3> QED
      BY <1>3, <3>3
  <2>2. j \in Ahead(s, j) /\ j \notin Ahead(s, i)
    <3>1. s[i] \in Int /\ s[j] \in Int
      OBVIOUS
    <3>2. ~(s[j] < s[i]) /\ ~(s[j] = s[i] /\ j <= i)
      BY <1>6, <3>1
    <3> QED
      BY <1>3, <3>2
  <2>3. Ahead(s, i) \in SUBSET Ahead(s, j) /\ Ahead(s, i) # Ahead(s, j)
    BY <1>3, <2>1, <2>2
  <2>4. Cardinality(Ahead(s, i)) < Cardinality(Ahead(s, j))
    BY <1>2, <1>3, <2>3
  <2> QED
    BY <1>4, <2>4
<1>7. ASSUME NEW i \in 1..n, NEW j \in 1..n, Place(s)[i] = Place(s)[j]
      PROVE  i = j
  <2>1. s[i] \in Int /\ s[j] \in Int /\ Place(s)[i] \in Int /\ Place(s)[j] \in Int
    BY <1>5
  <2>2. ~(Place(s)[i] < Place(s)[j]) /\ ~(Place(s)[j] < Place(s)[i])
    BY <1>7, <2>1
  <2>3. ~(s[i] < s[j] \/ (s[i] = s[j] /\ i < j)) /\ ~(s[j] < s[i] \/ (s[j] = s[i] /\ j < i))
    BY <1>6, <2>2
  <2> QED
    BY <2>1, <2>3
<1>8. Place(s) \in [1..n -> 1..n]
  <2>1. \A i \in 1..n : Cardinality(Ahead(s, i)) \in 1..n
    BY <1>4, <1>5
  <2>2. DOMAIN s = 1..n
    OBVIOUS
  <2> QED
    BY <2>1, <2>2 DEF Place
<1> QED
  BY <1>5, <1>7, <1>8

LEMMA OneKth ==
  ASSUME NEW n \in Nat, NEW s \in [1..n -> Int], NEW k \in 1..n, NEW l \in 1..n, k <= l,
         NEW x, IsKth(s, k, x), NEW y, IsKth(s, l, y)
  PROVE  x <= y /\ x \in Int /\ y \in Int
<1>1. x \in Int /\ y \in Int
  BY DEF IsKth, Range
<1>2. ASSUME y < x
      PROVE  FALSE
  <2>1. UpTo(s, y) \in SUBSET Less(s, x) /\ Less(s, x) \in SUBSET (1..n)
    BY <1>1, <1>2 DEF UpTo, Less
  <2>2. IsFiniteSet(Less(s, x))
    <3> DEFINE R == 1..n
    <3>1. Less(s, x) \in SUBSET R /\ IsFiniteSet(R)
      BY <2>1, FS_Interval
    <3> HIDE DEF R
    <3> QED
      BY <3>1, FS_Subset
  <2>3. IsFiniteSet(UpTo(s, y)) /\ Cardinality(UpTo(s, y)) <= Cardinality(Less(s, x))
    BY <2>1, <2>2, FS_Subset
  <2>4. Cardinality(UpTo(s, y)) \in Nat /\ Cardinality(Less(s, x)) \in Nat
    BY <2>2, <2>3, FS_CardinalityType
  <2> QED
    BY <2>3, <2>4 DEF IsKth
<1> QED
  BY <1>1, <1>2

(* qsort gives the same numbers, each as often, in order.                  *)
LEMMA Sorts ==
  ASSUME NEW n \in Nat, NEW s \in [1..n -> Int], Len(s) = n
  PROVE  /\ qsort(s) \in [1..n -> Int]
         /\ SameNumbers(qsort(s), s)
         /\ \A k, l \in 1..n : k <= l => qsort(s)[k] <= qsort(s)[l]
<1>1. /\ DOMAIN qsort(s) = 1..n
      /\ \A k \in 1..n : qsort(s)[k] = CHOOSE x \in Range(s) :
            Cardinality({i \in DOMAIN s : s[i] < x}) < k /\ k <= Cardinality({i \in DOMAIN s : s[i] <= x})
  BY DEF qsort
<1>2. \A k \in 1..n : (\E x : IsKth(s, k, x)) => IsKth(s, k, qsort(s)[k])
  BY <1>1 DEF IsKth, Less, UpTo
<1> DEFINE p == Place(s)
<1>3. /\ p \in [1..n -> 1..n]
      /\ \A i, j \in 1..n : p[i] = p[j] => i = j
      /\ \A i \in 1..n : IsKth(s, p[i], s[i])
  BY Ranked
<1> HIDE DEF p
<1>4. \A i \in 1..n : qsort(s)[p[i]] = s[i]
  <2> SUFFICES ASSUME NEW i \in 1..n
               PROVE  qsort(s)[p[i]] = s[i]
    OBVIOUS
  <2>1. p[i] \in 1..n /\ IsKth(s, p[i], s[i])
    BY <1>3
  <2>2. IsKth(s, p[i], qsort(s)[p[i]])
    BY <1>2, <2>1
  <2>3. p[i] <= p[i]
    BY <2>1
  <2>4. /\ qsort(s)[p[i]] <= s[i] /\ s[i] <= qsort(s)[p[i]]
        /\ qsort(s)[p[i]] \in Int /\ s[i] \in Int
    BY <2>1, <2>2, <2>3, OneKth
  <2> QED
    BY <2>4
<1>5. DOMAIN s = 1..n
  OBVIOUS
<1>6. SameNumbers(qsort(s), s) /\ Onto(p, n)
  <2>1. Moves(p, n, s, qsort(s))
    BY <1>1, <1>3, <1>4, <1>5 DEF Moves
  <2> QED
    BY <2>1, Rearranged
<1>7. \A k \in 1..n : IsKth(s, k, qsort(s)[k])
  BY <1>2, <1>3, <1>6 DEF Onto
<1>8. \A k, l \in 1..n : k <= l => qsort(s)[k] <= qsort(s)[l] /\ qsort(s)[k] \in Int
  BY <1>7, OneKth
<1>9. \A k \in 1..n : qsort(s)[k] \in Int
  BY <1>8
<1>10. qsort(s) = [k \in 1..n |-> qsort(s)[k]]
  <2> DEFINE C(k) == CHOOSE x \in Range(s) : Cardinality({i \in DOMAIN s : s[i] < x}) < k
                        /\ k <= Cardinality({i \in DOMAIN s : s[i] <= x})
  <2>1. qsort(s) = [k \in 1..n |-> C(k)]
    BY DEF qsort
  <2> HIDE DEF C
  <2> QED
    BY <2>1
<1> QED
  BY <1>6, <1>8, <1>9, <1>10

-----------------------------------------------------------------------------
(* partition.                                                              *)

LEMMA Sizes ==
  /\ N \in Nat \ {0, 1} /\ size \in Nat \ {0}
  /\ \A s \in [1..N -> Int] : DOMAIN s = 1..N
BY SortAssumption

LEMMA Swapped ==
  ASSUME NEW s \in [1..N -> Int], NEW i \in 1..N, NEW j \in 1..N
  PROVE  /\ Swap(s, i, j) \in [1..N -> Int]
         /\ SameNumbers(Swap(s, i, j), s)
         /\ Swap(s, i, j)[i] = s[j] /\ Swap(s, i, j)[j] = s[i]
         /\ \A k \in 1..N \ {i, j} : Swap(s, i, j)[k] = s[k]
<1> DEFINE t == Swap(s, i, j)
           p == [k \in 1..N |-> IF k = i THEN j ELSE IF k = j THEN i ELSE k]
<1>1. /\ t \in [1..N -> Int] /\ t[i] = s[j] /\ t[j] = s[i]
      /\ \A k \in 1..N \ {i, j} : t[k] = s[k]
  BY DEF Swap
<1>2. /\ p \in [1..N -> 1..N] /\ p[i] = j /\ p[j] = i
      /\ \A k \in 1..N \ {i, j} : p[k] = k
  OBVIOUS
<1> HIDE DEF t, p
<1>3. Moves(p, N, s, t)
  <2>1. \A a, b \in 1..N : p[a] = p[b] => a = b
    BY <1>2
  <2>2. \A k \in 1..N : t[p[k]] = s[k]
    BY <1>1, <1>2
  <2> QED
    BY <1>1, <1>2, <2>1, <2>2 DEF Moves
<1>4. SameNumbers(t, s)
  BY <1>3, Rearranged, Sizes
<1> QED
  BY <1>1, <1>4 DEF t

\* What cutting the part that begins at b leaves of an array.
Kept(t, s, b) ==
  /\ SameNumbers(t, s)
  /\ \A k \in 1..b-1 : t[k] = s[k]
  /\ \A k \in b..N : \E l \in b..N : t[k] = s[l]

LEMMA SwapKeeps ==
  ASSUME NEW s \in [1..N -> Int], NEW b \in 1..N+1, NEW t \in [1..N -> Int], Kept(t, s, b),
         NEW i \in b..N, NEW j \in b..N
  PROVE  Kept(Swap(t, i, j), s, b)
<1> DEFINE u == Swap(t, i, j)
<1>1. i \in 1..N /\ j \in 1..N
  BY Sizes
<1>2. /\ u \in [1..N -> Int] /\ SameNumbers(u, t) /\ u[i] = t[j] /\ u[j] = t[i]
      /\ \A k \in 1..N \ {i, j} : u[k] = t[k]
  BY <1>1, Swapped
<1> HIDE DEF u
<1>3. SameNumbers(u, s)
  BY <1>2 DEF Kept, SameNumbers
<1>4. \A k \in 1..b-1 : u[k] = s[k]
  <2> SUFFICES ASSUME NEW k \in 1..b-1
               PROVE  u[k] = s[k]
    OBVIOUS
  <2>1. k \in 1..N \ {i, j}
    BY Sizes
  <2> QED
    BY <1>2, <2>1 DEF Kept
<1>5. \A k \in b..N : \E l \in b..N : u[k] = s[l]
  <2> SUFFICES ASSUME NEW k \in b..N
               PROVE  \E l \in b..N : u[k] = s[l]
    OBVIOUS
  <2>1. \E m \in b..N : u[k] = t[m]
    <3>1. k \in 1..N
      BY Sizes
    <3> QED
      BY <1>2, <3>1
  <2> QED
    BY <2>1 DEF Kept
<1> QED
  BY <1>3, <1>4, <1>5 DEF Kept, u

\* The array after the turn for number i.
Turned(c, pivot, i) ==
  {d \in Cuts : /\ d.first \in c.first..i+1
                /\ Kept(d.data, c.data, c.first)
                /\ \A k \in c.first..d.first-1 : d.data[k] < pivot
                /\ \A k \in d.first..i : pivot <= d.data[k]}

LEMMA TurnKeeps ==
  ASSUME NEW c \in Cuts, NEW pivot \in Int, NEW i \in c.first..N, NEW d \in Turned(c, pivot, i-1)
  PROVE  Turn(i, pivot)[d] \in Turned(c, pivot, i)
<1> DEFINE b == c.first
           f == d.first
           t == d.data
<1>1. c \in Cuts /\ b \in 1..N+1 /\ c.data \in [1..N -> Int]
  BY DEF Cuts
<1>2. /\ d \in Cuts /\ f \in b..i /\ t \in [1..N -> Int] /\ Kept(t, c.data, b)
      /\ \A k \in b..f-1 : t[k] < pivot
      /\ \A k \in f..i-1 : pivot <= t[k]
  <2>1. i \in Int /\ (i-1)+1 = i
    BY <1>1, Sizes
  <2> QED
    BY <2>1 DEF Turned, Cuts
<1>3. Turn(i, pivot)[d] = IF t[i] < pivot THEN [data |-> Swap(t, i, f), first |-> f+1] ELSE d
  BY <1>2 DEF Turn
<1> HIDE DEF b, f, t
<1>4. CASE t[i] < pivot
  <2> DEFINE u == Swap(t, i, f)
             e == [data |-> u, first |-> f+1]
  <2>1. i \in b..N /\ f \in b..N /\ i \in 1..N /\ f \in 1..N
    BY <1>1, <1>2, Sizes DEF b
  <2>2. /\ u \in [1..N -> Int] /\ u[i] = t[f] /\ u[f] = t[i]
        /\ \A k \in 1..N \ {i, f} : u[k] = t[k]
    BY <1>2, <2>1, Swapped
  <2>3. Kept(u, c.data, b)
    BY <1>1, <1>2, <2>1, SwapKeeps
  <2> HIDE DEF u
  <2>4. \A k \in b..f : u[k] < pivot
    <3> SUFFICES ASSUME NEW k \in b..f
                 PROVE  u[k] < pivot
      OBVIOUS
    <3>1. CASE k = f
      BY <1>4, <2>2, <3>1
    <3>2. CASE k # f
      <4>1. k \in Int /\ b <= k /\ k < f /\ f <= i /\ i <= N /\ 1 <= b
        BY <1>1, <1>2, <2>1, <3>2, Sizes
      <4>2. k \in b..f-1 /\ k \in 1..N /\ k # i
        BY <1>1, <1>2, <2>1, <4>1, Sizes
      <4> QED
        BY <1>2, <2>2, <3>2, <4>2
    <3> QED
      BY <3>1, <3>2
  <2>5. \A k \in f+1..i : pivot <= u[k]
    <3> SUFFICES ASSUME NEW k \in f+1..i
                 PROVE  pivot <= u[k]
      OBVIOUS
    <3>1. CASE k = i
      <4>1. f \in f..i-1
        BY <2>1, <3>1
      <4> QED
        BY <1>2, <2>2, <3>1, <4>1
    <3>2. CASE k # i
      <4>1. k \in Int /\ f < k /\ k < i /\ i <= N /\ 1 <= f
        BY <2>1, <3>2
      <4>2. k \in f..i-1 /\ k \in 1..N /\ k # f
        BY <2>1, <4>1, Sizes
      <4> QED
        BY <1>2, <2>2, <3>2, <4>2
    <3> QED
      BY <3>1, <3>2
  <2>6. e \in Cuts /\ e.first = f+1 /\ e.data = u /\ f+1 \in b..i+1 /\ (f+1)-1 = f
    BY <1>1, <1>2, <2>1, <2>2, Sizes DEF Cuts
  <2> HIDE DEF e
  <2>7. e \in Turned(c, pivot, i)
    BY <2>3, <2>4, <2>5, <2>6 DEF Turned, b
  <2> QED
    BY <1>3, <1>4, <2>7 DEF e, u
<1>5. CASE ~(t[i] < pivot)
  <2>1. t[i] \in Int /\ f \in b..i+1
    BY <1>1, <1>2, Sizes DEF b
  <2>2. \A k \in f..i : pivot <= t[k]
    <3> SUFFICES ASSUME NEW k \in f..i
                 PROVE  pivot <= t[k]
      OBVIOUS
    <3>1. k = i \/ k \in f..i-1
      BY <1>2
    <3> QED
      BY <1>2, <1>5, <2>1, <3>1
  <2>3. d \in Turned(c, pivot, i)
    BY <1>2, <2>1, <2>2 DEF Turned, b, f, t
  <2> QED
    BY <1>3, <1>5, <2>3
<1> QED
  BY <1>4, <1>5

PartitionLoop(c, pivot) ==
  CHOOSE loop : loop = [i \in c.first-1..N |-> IF i = c.first-1 THEN c ELSE Turn(i, pivot)[loop[i-1]]]

LEMMA PartitionUnfolds ==
  ASSUME NEW c \in Cuts, NEW pivot
  PROVE  partition(pivot)[c] = PartitionLoop(c, pivot)[N]
BY DEF partition, PartitionLoop

(* The numbers below the pivot come before the others, nothing is lost,    *)
(* and what has been cut before stays as it is.                            *)
LEMMA Partitions ==
  ASSUME NEW c \in Cuts, NEW pivot \in Int
  PROVE  partition(pivot)[c] \in Turned(c, pivot, N)
<1> DEFINE a == c.first-1
           G == [i \in a+1..N |-> Turn(i, pivot)]
           f == PartitionLoop(c, pivot)
           I == [i \in a..N |-> Turned(c, pivot, i)]
<1>1. a \in Int /\ N \in Int /\ a <= N /\ a+1 = c.first /\ c.first \in 1..N+1
  BY Sizes DEF Cuts
<1>2. IsLoop(f, a, N, c, G)
  <2> DEFINE Step(g) == [i \in a..N |-> IF i = a THEN c ELSE Turn(i, pivot)[g[i-1]]]
  <2>1. ASSUME NEW g
        PROVE  Step(g) = [i \in a..N |-> IF i = a THEN c ELSE G[i][g[i-1]]]
    <3>1. \A i \in a..N : i # a => G[i] = Turn(i, pivot)
      BY <1>1
    <3> HIDE DEF G, a
    <3> QED
      BY <3>1
  <2> HIDE DEF G
  <2>2. PICK g : IsLoop(g, a, N, c, G)
    BY <1>1, LoopExists
  <2>3. g = Step(g)
    BY <2>1, <2>2 DEF IsLoop
  <2>4. f = CHOOSE g1 : g1 = Step(g1)
    BY DEF PartitionLoop
  <2> HIDE DEF f, Step
  <2>5. f = Step(f)
    BY <2>3, <2>4
  <2> QED
    BY <2>1, <2>5 DEF IsLoop
<1>3. c \in I[a]
  <2>1. c.first \in c.first..a+1 /\ \A k : k \notin c.first..c.first-1 /\ k \notin c.first..a
    BY <1>1
  <2>2. Kept(c.data, c.data, c.first)
    BY DEF Kept, SameNumbers
  <2>3. c \in Turned(c, pivot, a)
    BY <2>1, <2>2 DEF Turned
  <2>4. a \in a..N
    BY <1>1
  <2> QED
    BY <2>3, <2>4
<1>4. \A i \in a+1..N : \A d \in I[i-1] : G[i][d] \in I[i]
  <2> SUFFICES ASSUME NEW i \in a+1..N, NEW d \in I[i-1]
               PROVE  G[i][d] \in I[i]
    OBVIOUS
  <2>1. i \in a..N /\ i-1 \in a..N /\ i \in c.first..N
    BY <1>1
  <2>2. I[i] = Turned(c, pivot, i) /\ I[i-1] = Turned(c, pivot, i-1) /\ G[i] = Turn(i, pivot)
    BY <2>1
  <2> HIDE DEF I, G
  <2> QED
    BY <2>1, <2>2, TurnKeeps
<1>5. f[N] \in I[N]
  <2> HIDE DEF a, f, G, I
  <2>1. \A i \in a..N : f[i] \in I[i]
    BY <1>1, <1>2, <1>3, <1>4, LoopKeeps
  <2> QED
    BY <1>1, <2>1
<1>6. N \in a..N
  BY <1>1
<1> QED
  BY <1>5, <1>6, PartitionUnfolds

-----------------------------------------------------------------------------
(* The cuts at all pivots.                                                 *)

PivotPos(s, pivots) ==
  CHOOSE pivot_pos : pivot_pos =
    [i \in 0..size-1 |->
       IF i = 0 THEN [data |-> s, first |-> 1] ELSE partition(pivots[i])[pivot_pos[i-1]]]

Ends(f, i) == IF i = size THEN N + 1 ELSE f[i].first

LEMMA CutUnfolds ==
  ASSUME NEW s, NEW pivots
  PROVE  Cut(s, pivots) =
           [data  |-> PivotPos(s, pivots)[size-1].data,
            sizes |-> [i \in 1..size |-> Ends(PivotPos(s, pivots), i) - PivotPos(s, pivots)[i-1].first]]
BY DEF Cut, PivotPos, Ends

PivotLoop(f, s, pivots) ==
  /\ f[0] = [data |-> s, first |-> 1]
  /\ \A i \in 1..size-1 : f[i] = partition(pivots[i])[f[i-1]]

LEMMA PivotPosLoop ==
  ASSUME NEW s, NEW pivots
  PROVE  PivotLoop(PivotPos(s, pivots), s, pivots)
<1> DEFINE c == [data |-> s, first |-> 1]
           G == [i \in 1..size-1 |-> partition(pivots[i])]
           f == PivotPos(s, pivots)
           Step(g) == [i \in 0..size-1 |-> IF i = 0 THEN c ELSE partition(pivots[i])[g[i-1]]]
<1>1. size-1 \in Nat /\ 0 <= size-1
  BY Sizes
<1>2. ASSUME NEW g
      PROVE  Step(g) = [i \in 0..size-1 |-> IF i = 0 THEN c ELSE G[i][g[i-1]]]
  <2>1. \A i \in 0..size-1 : i # 0 => G[i] = partition(pivots[i])
    BY <1>1
  <2> HIDE DEF G, c
  <2> QED
    BY <2>1
<1> HIDE DEF G, c
<1>3. PICK g : IsLoop(g, 0, size-1, c, G)
  BY <1>1, LoopExists
<1>4. g = Step(g)
  BY <1>2, <1>3 DEF IsLoop
<1>5. f = CHOOSE g1 : g1 = Step(g1)
  BY DEF PivotPos, c
<1>6. f = Step(f)
  <2> HIDE DEF f, Step
  <2> QED
    BY <1>4, <1>5
<1> HIDE DEF f
<1>7. f[0] = c /\ \A i \in 1..size-1 : f[i] = partition(pivots[i])[f[i-1]]
  <2>1. 0 \in 0..size-1 /\ \A i \in 1..size-1 : i \in 0..size-1 /\ i # 0
    BY <1>1
  <2>2. \A i \in 0..size-1 : f[i] = Step(f)[i]
    BY <1>6
  <2> QED
    BY <2>1, <2>2
<1> QED
  BY <1>7 DEF f, c, PivotLoop

\* After i pivots: the pieces cut off so far are between their pivots.
CutTo(f, s, pivots, i) ==
  /\ f[i] \in Cuts
  /\ SameNumbers(f[i].data, s)
  /\ \A j \in 0..i : f[j].first \in 1..f[i].first
  /\ \A j \in 1..i : f[j-1].first <= f[j].first
  /\ \A j \in 1..i : \A k \in f[j-1].first..f[j].first-1 :
       (j > 1 => pivots[j-1] <= f[i].data[k]) /\ f[i].data[k] < pivots[j]
  /\ i > 0 => \A k \in f[i].first..N : pivots[i] <= f[i].data[k]

LEMMA CutsOne ==
  ASSUME NEW s \in [1..N -> Int], NEW pivots \in [1..size-1 -> Int], NEW f,
         PivotLoop(f, s, pivots), NEW i \in 1..size-1, CutTo(f, s, pivots, i-1)
  PROVE  CutTo(f, s, pivots, i)
<1> DEFINE c == f[i-1]
           d == f[i]
<1>1. /\ c \in Cuts /\ c.data \in [1..N -> Int] /\ c.first \in 1..N+1
      /\ d = partition(pivots[i])[c] /\ pivots[i] \in Int
  BY DEF CutTo, PivotLoop, Cuts
<1> HIDE DEF c, d
<1>2. d \in Turned(c, pivots[i], N)
  BY <1>1, Partitions
<1>3. /\ d \in Cuts /\ d.data \in [1..N -> Int] /\ d.first \in 1..N+1
      /\ c.first <= d.first /\ Kept(d.data, c.data, c.first)
      /\ \A k \in c.first..d.first-1 : d.data[k] < pivots[i]
      /\ \A k \in d.first..N : pivots[i] <= d.data[k]
  BY <1>1, <1>2, Sizes DEF Turned, Cuts
<1>4. /\ SameNumbers(c.data, s)
      /\ \A j \in 0..i-1 : f[j].first \in 1..c.first
      /\ \A j \in 1..i-1 : f[j-1].first <= f[j].first
      /\ \A j \in 1..i-1 : \A k \in f[j-1].first..f[j].first-1 :
           (j > 1 => pivots[j-1] <= c.data[k]) /\ c.data[k] < pivots[j]
      /\ i-1 > 0 => \A k \in c.first..N : pivots[i-1] <= c.data[k]
  BY DEF CutTo, c
<1>5. f[i] = d /\ f[i-1] = c
  BY DEF c, d
<1> DEFINE cf == c.first
           df == d.first
<1>10. cf \in Int /\ df \in Int /\ 1 <= cf /\ cf <= df /\ cf = c.first /\ df = d.first
  BY <1>1, <1>3, Sizes
<1> HIDE DEF cf, df
<1>6. SameNumbers(d.data, s)
  BY <1>3, <1>4 DEF Kept, SameNumbers
<1>7. \A j \in 0..i : f[j].first \in 1..d.first
  <2> SUFFICES ASSUME NEW j \in 0..i
               PROVE  f[j].first \in 1..d.first
    OBVIOUS
  <2>1. CASE j = i
    BY <1>3, <1>5, <2>1, Sizes
  <2>2. CASE j # i
    <3>1. j \in 0..i-1
      BY <2>2
    <3>2. f[j].first \in 1..c.first
      BY <1>4, <3>1
    <3> QED
      BY <1>10, <3>2
  <2> QED
    BY <2>1, <2>2
<1>8. \A j \in 1..i : f[j-1].first <= f[j].first
  <2> SUFFICES ASSUME NEW j \in 1..i
               PROVE  f[j-1].first <= f[j].first
    OBVIOUS
  <2>1. CASE j = i
    BY <1>3, <1>5, <2>1
  <2>2. CASE j # i
    <3>1. j \in 1..i-1
      BY <2>2
    <3> QED
      BY <1>4, <3>1
  <2> QED
    BY <2>1, <2>2
<1>9. ASSUME NEW j \in 1..i, NEW k \in f[j-1].first..f[j].first-1
      PROVE  (j > 1 => pivots[j-1] <= d.data[k]) /\ d.data[k] < pivots[j]
  <2>1. CASE j = i
    <3>1. k \in c.first..d.first-1
      BY <1>5, <1>9, <2>1
    <3>2. k \in c.first..N
      BY <1>1, <1>3, <3>1, Sizes
    <3>3. PICK l \in c.first..N : d.data[k] = c.data[l]
      BY <1>3, <3>2 DEF Kept
    <3> QED
      BY <1>3, <1>4, <2>1, <3>1, <3>3
  <2>2. CASE j # i
    <3>1. j \in 1..i-1 /\ j \in 0..i-1 /\ j-1 \in 0..i-1
      BY <2>2
    <3>2. f[j].first \in 1..c.first /\ f[j-1].first \in 1..c.first
      BY <1>4, <3>1
    <3>3. k \in 1..c.first-1
      <4> DEFINE a == f[j-1].first
                 b == f[j].first
      <4>1. k \in a..b-1 /\ a \in 1..cf /\ b \in 1..cf
        BY <1>9, <1>10, <3>2
      <4> HIDE DEF a, b
      <4> QED
        BY <1>10, <4>1
    <3>4. d.data[k] = c.data[k]
      BY <1>3, <3>3 DEF Kept
    <3> QED
      BY <1>4, <1>9, <3>1, <3>4
  <2> QED
    BY <2>1, <2>2
<1> QED
  BY <1>3, <1>5, <1>6, <1>7, <1>8, <1>9 DEF CutTo

\* t is s in pieces, z has their sizes and P where they begin.
IsCut(t, z, P, s, pivots) ==
  /\ t \in [1..N -> Int] /\ SameNumbers(t, s)
  /\ P \in [0..size -> 1..N+1] /\ P[0] = 1 /\ P[size] = N+1
  /\ z \in [1..size -> Nat] /\ \A i \in 1..size : P[i] = P[i-1] + z[i]
  /\ \A i \in 1..size : \A k \in P[i-1]..P[i]-1 :
       (i > 1 => pivots[i-1] <= t[k]) /\ (i < size => t[k] < pivots[i])

(* Piece i has the numbers from pivot i-1 up to, not with, pivot i, and the *)
(* pieces are the whole array.                                              *)
LEMMA CutInPieces ==
  ASSUME NEW s \in [1..N -> Int], NEW pivots \in [1..size-1 -> Int]
  PROVE  \E P : IsCut(Cut(s, pivots).data, Cut(s, pivots).sizes, P, s, pivots)
<1> DEFINE f == PivotPos(s, pivots)
           P == [i \in 0..size |-> Ends(f, i)]
           z == [i \in 1..size |-> Ends(f, i) - f[i-1].first]
           t == f[size-1].data
           T == {i \in 0..size-1 : CutTo(f, s, pivots, i)}
<1>1. size-1 \in Nat /\ size \in Nat /\ size # 0
  BY Sizes
<1>2. PivotLoop(f, s, pivots)
  BY PivotPosLoop
<1> HIDE DEF f
<1>3. 0 \in T
  <2>1. f[0] = [data |-> s, first |-> 1] /\ [data |-> s, first |-> 1] \in Cuts
    BY <1>2, Sizes DEF PivotLoop, Cuts
  <2>2. SameNumbers(s, s)
    BY DEF SameNumbers
  <2>3. CutTo(f, s, pivots, 0)
    BY <2>1, <2>2 DEF CutTo
  <2> QED
    BY <1>1, <2>3
<1>4. \A i \in 1..size-1 : i-1 \in T => i \in T
  BY <1>1, <1>2, CutsOne
<1>5. CutTo(f, s, pivots, size-1)
  <2>1. \A i \in 0..size-1 : i \in T
    <3> HIDE DEF T
    <3> QED
      BY <1>1, <1>3, <1>4, Induction
  <2> QED
    BY <1>1, <2>1
<1>6. /\ f[size-1].first \in 1..N+1 /\ t \in [1..N -> Int] /\ SameNumbers(t, s)
      /\ \A j \in 0..size-1 : f[j].first \in 1..f[size-1].first
      /\ \A j \in 1..size-1 : f[j-1].first <= f[j].first
      /\ \A j \in 1..size-1 : \A k \in f[j-1].first..f[j].first-1 :
           (j > 1 => pivots[j-1] <= t[k]) /\ t[k] < pivots[j]
      /\ size-1 > 0 => \A k \in f[size-1].first..N : pivots[size-1] <= t[k]
  BY <1>5 DEF CutTo, Cuts
<1>7. \A j \in 0..size-1 : P[j] = f[j].first /\ f[j].first \in 1..N+1
  <2> SUFFICES ASSUME NEW j \in 0..size-1
               PROVE  P[j] = f[j].first /\ f[j].first \in 1..N+1
    OBVIOUS
  <2>1. j \in 0..size /\ j # size
    BY <1>1
  <2>2. f[j].first \in 1..f[size-1].first
    BY <1>6
  <2> QED
    BY <1>6, <2>1, <2>2, Sizes DEF Ends
<1>8. P[size] = N+1 /\ N+1 \in 1..N+1
  BY <1>1, Sizes DEF Ends
<1>9. P \in [0..size -> 1..N+1]
  <2>1. \A j \in 0..size : Ends(f, j) \in 1..N+1
    <3> SUFFICES ASSUME NEW j \in 0..size
                 PROVE  Ends(f, j) \in 1..N+1
      OBVIOUS
    <3>1. j = size \/ j \in 0..size-1
      BY <1>1
    <3> QED
      BY <1>7, <1>8, <3>1 DEF Ends
  <2> QED
    BY <2>1
<1>10. \A i \in 1..size : z[i] = P[i] - P[i-1] /\ P[i-1] <= P[i]
  <2> SUFFICES ASSUME NEW i \in 1..size
               PROVE  z[i] = P[i] - P[i-1] /\ P[i-1] <= P[i]
    OBVIOUS
  <2>1. i \in 0..size /\ i-1 \in 0..size-1
    BY <1>1
  <2>2. P[i-1] = f[i-1].first /\ z[i] = P[i] - f[i-1].first
    BY <1>7, <2>1
  <2>3. P[i-1] <= P[i]
    <3>1. CASE i = size
      BY <1>7, <1>8, <2>1, <2>2, <3>1, Sizes
    <3>2. CASE i # size
      <4>1. i \in 1..size-1 /\ i \in 0..size-1
        BY <1>1, <3>2
      <4> QED
        BY <1>6, <1>7, <2>2, <4>1
    <3> QED
      BY <3>1, <3>2
  <2> QED
    BY <2>2, <2>3
<1>11. z \in [1..size -> Nat] /\ \A i \in 1..size : P[i] = P[i-1] + z[i]
  <2>1. \A i \in 1..size : P[i] \in 1..N+1 /\ P[i-1] \in 1..N+1
    <3>1. \A i \in 1..size : i \in 0..size /\ i-1 \in 0..size
      BY <1>1
    <3> HIDE DEF P
    <3> QED
      BY <1>9, <3>1
  <2>2. \A i \in 1..size : z[i] \in Nat /\ P[i] = P[i-1] + z[i]
    <3> HIDE DEF P, z
    <3> QED
      BY <1>10, <2>1, Sizes
  <2>3. z = [i \in 1..size |-> z[i]]
    OBVIOUS
  <2> HIDE DEF P, z
  <2> QED
    BY <2>2, <2>3
<1>12. ASSUME NEW i \in 1..size, NEW k \in P[i-1]..P[i]-1
       PROVE  (i > 1 => pivots[i-1] <= t[k]) /\ (i < size => t[k] < pivots[i])
  <2>1. i-1 \in 0..size-1
    BY <1>1
  <2>2. P[i-1] = f[i-1].first
    BY <1>7, <2>1
  <2> HIDE DEF P, t
  <2>3. CASE i = size
    <3>1. i-1 = size-1 /\ (N+1)-1 = N
      BY <2>3, Sizes
    <3>2. k \in f[size-1].first..N
      BY <1>8, <1>12, <2>2, <2>3, <3>1
    <3> QED
      BY <1>1, <1>6, <2>3, <3>2
  <2>4. CASE i # size
    <3>1. i \in 1..size-1 /\ i \in 0..size-1
      BY <1>1, <2>4
    <3>2. k \in f[i-1].first..f[i].first-1
      BY <1>7, <1>12, <2>2, <3>1
    <3> QED
      BY <1>6, <3>1, <3>2
  <2> QED
    BY <2>3, <2>4
<1>13. P[0] = 1
  <2>1. 0 \in 0..size-1
    BY <1>1
  <2>2. f[0].first = 1
    BY <1>2 DEF PivotLoop
  <2> QED
    BY <1>7, <2>1, <2>2
<1>14. Cut(s, pivots).data = t /\ Cut(s, pivots).sizes = z
  BY CutUnfolds DEF f
<1> HIDE DEF P, z, t
<1>15. IsCut(t, z, P, s, pivots)
  BY <1>6, <1>8, <1>9, <1>11, <1>12, <1>13 DEF IsCut
<1> QED
  BY <1>14, <1>15

-----------------------------------------------------------------------------
(* Pieces.                                                                 *)

LEMMA CutOffsets ==
  ASSUME NEW t, NEW z, NEW P, NEW s, NEW pivots, IsCut(t, z, P, s, pivots), NEW i \in Rank
  PROVE  /\ Before(z, i+1) = P[i] - 1 /\ P[i] \in 1..N+1 /\ P[i+1] \in 1..N+1
         /\ z[i+1] \in Nat /\ P[i+1] = P[i] + z[i+1]
<1> DEFINE T == {j \in 0..size-1 : Before(z, j+1) = P[j] - 1}
<1>1. /\ size \in Nat /\ size # 0 /\ N \in Nat
      /\ P \in [0..size -> 1..N+1] /\ P[0] = 1
      /\ z \in [1..size -> Nat] /\ \A j \in 1..size : P[j] = P[j-1] + z[j]
  BY Sizes DEF IsCut
<1>2. 0 \in T
  <2>1. 1 \in 1..size
    BY <1>1
  <2>2. Before(z, 1) = 0
    BY <1>1, <2>1, NextBlock
  <2> QED
    BY <1>1, <2>2
<1>3. ASSUME NEW j \in 1..size-1, j-1 \in T
      PROVE  j \in T
  <2>1. j \in 1..size /\ j-1 \in 0..size /\ (j-1)+1 = j
    BY <1>1
  <2>2. Before(z, j) = P[j-1] - 1
    BY <1>3, <2>1
  <2>3. Before(z, j+1) = Before(z, j) + z[j]
    BY <1>1, <2>1, NextBlock
  <2>4. P[j] = P[j-1] + z[j] /\ P[j-1] \in Int /\ z[j] \in Nat
    BY <1>1, <2>1
  <2>5. Before(z, j+1) = P[j] - 1
    BY <2>2, <2>3, <2>4
  <2> QED
    BY <1>1, <2>5
<1>4. \A j \in 0..size-1 : j \in T
  <2> HIDE DEF T
  <2>1. size-1 \in Nat
    BY <1>1
  <2> QED
    BY <1>2, <1>3, <2>1, Induction
<1>5. i \in 0..size-1 /\ i \in 0..size /\ i+1 \in 0..size /\ i+1 \in 1..size /\ (i+1)-1 = i
  BY <1>1 DEF Rank
<1> QED
  BY <1>1, <1>4, <1>5

\* What a rank has after the cuts, and what it then sends to rank i.
HasCut(q, P, s, pivots) == IsCut(v[q], local_block_sizes[q], P, s, pivots)

\* t is w from number a up to, not with, number b.
IsPart(t, w, a, b) ==
  /\ t \in Seq(Int) /\ Len(t) = b - a
  /\ a \in 1..N+1 /\ b \in 1..N+1 /\ a <= b
  /\ \A k \in 1..b-a : t[k] = w[a+k-1]

LEMMA PieceIs ==
  ASSUME NEW q, NEW P, NEW s, NEW pivots, HasCut(q, P, s, pivots), NEW i \in Rank
  PROVE  IsPart(Piece(q, i), v[q], P[i], P[i+1])
<1> DEFINE a == P[i]
           b == P[i+1]
<1>1. /\ Before(local_block_sizes[q], i+1) = a - 1 /\ a \in 1..N+1 /\ b \in 1..N+1
      /\ local_block_sizes[q][i+1] \in Nat /\ b = a + local_block_sizes[q][i+1]
  BY CutOffsets DEF HasCut
<1>2. v[q] \in [1..N -> Int]
  BY DEF HasCut, IsCut
<1> HIDE DEF a, b
<1>3. a \in Int /\ b \in Int /\ a <= b /\ 1 <= a /\ b-1 <= N /\ N \in Nat
  BY <1>1, Sizes
<1>4. Piece(q, i) = SubSeq(v[q], a, b-1)
  <2>1. (a-1) + 1 = a /\ (a-1) + local_block_sizes[q][i+1] = b-1
    BY <1>1, <1>3
  <2> QED
    BY <1>1, <2>1 DEF Piece
<1>5. \A k \in a..b-1 : v[q][k] \in Int
  <2>1. \A k \in a..b-1 : k \in 1..N
    BY <1>3
  <2> QED
    BY <1>2, <2>1
<1>6. /\ SubSeq(v[q], a, b-1) \in Seq(Int)
      /\ Len(SubSeq(v[q], a, b-1)) = IF a <= b-1 THEN (b-1)-a+1 ELSE 0
      /\ \A k \in 1..(b-1)-a+1 : SubSeq(v[q], a, b-1)[k] = v[q][a+k-1]
  <2>1. b-1 \in Int
    BY <1>3
  <2> QED
    BY <1>3, <1>5, <2>1, SubSeqProperties
<1>7. (b-1)-a+1 = b-a /\ (~(a <= b-1) => b-a = 0)
  BY <1>3
<1> QED
  BY <1>1, <1>3, <1>4, <1>6, <1>7 DEF a, b, IsPart

\* x is between the pivots of piece i.
Within(i, x, pivots) ==
  /\ i > 0 => pivots[i] <= x
  /\ i < size - 1 => x < pivots[i+1]

LEMMA PieceWithin ==
  ASSUME NEW q, NEW P, NEW s, NEW pivots, HasCut(q, P, s, pivots), NEW i \in Rank,
         NEW x \in Range(Piece(q, i))
  PROVE  Within(i, x, pivots) /\ x \in Int /\ x \in Range(v[q])
<1>1. /\ Piece(q, i) \in Seq(Int) /\ Len(Piece(q, i)) = P[i+1] - P[i]
      /\ P[i] \in 1..N+1 /\ P[i+1] \in 1..N+1 /\ P[i] <= P[i+1]
      /\ \A k \in 1..P[i+1]-P[i] : Piece(q, i)[k] = v[q][P[i]+k-1]
  <2>1. IsPart(Piece(q, i), v[q], P[i], P[i+1])
    BY PieceIs
  <2> QED
    BY <2>1 DEF IsPart
<1>2. DOMAIN Piece(q, i) = 1..P[i+1]-P[i]
  BY <1>1, LenProperties
<1>3. PICK k \in 1..P[i+1]-P[i] : x = Piece(q, i)[k]
  BY <1>2 DEF Range
<1> DEFINE l == P[i]+k-1
           j == i+1
<1>4. x = v[q][l]
  BY <1>1, <1>3
<1>5. i \in Int /\ j \in 1..size /\ j-1 = i /\ (i > 0 <=> j > 1) /\ (i < size-1 <=> j < size)
  BY Sizes DEF Rank
<1>6. l \in P[j-1]..P[j]-1 /\ l \in 1..N
  <2> DEFINE a == P[i]
             b == P[j]
  <2>1. a \in 1..N+1 /\ b \in 1..N+1 /\ k \in 1..b-a /\ l = a+k-1 /\ P[j-1] = a
    BY <1>1, <1>3, <1>5
  <2> HIDE DEF a, b, l, j
  <2>2. l \in a..b-1 /\ l \in 1..N
    BY <2>1, Sizes
  <2> QED
    BY <2>1, <2>2 DEF b
<1> HIDE DEF l, j
<1>7. (j > 1 => pivots[j-1] <= v[q][l]) /\ (j < size => v[q][l] < pivots[j])
  BY <1>5, <1>6 DEF HasCut, IsCut
<1>8. v[q] \in [1..N -> Int]
  BY DEF HasCut, IsCut
<1>9. Within(i, x, pivots)
  BY <1>4, <1>5, <1>7 DEF Within, j
<1> QED
  BY <1>4, <1>6, <1>8, <1>9 DEF Range

Ascending(pivots) ==
  /\ pivots \in [1..size-1 -> Int]
  /\ \A k, l \in 1..size-1 : k <= l => pivots[k] <= pivots[l]

\* Pieces of different ranks do not mix.
LEMMA PiecesApart ==
  ASSUME NEW pivots, Ascending(pivots), NEW i \in Rank, NEW j \in Rank, i < j,
         NEW x \in Int, Within(i, x, pivots), NEW y \in Int, Within(j, y, pivots)
  PROVE  x < y
<1>1. i \in Int /\ j \in Int /\ i+1 \in 1..size-1 /\ j \in 1..size-1 /\ i+1 <= j /\ j > 0 /\ i < size-1
  BY Sizes DEF Rank
<1>2. x < pivots[i+1] /\ pivots[j] <= y
  BY <1>1 DEF Within
<1>3. pivots[i+1] \in Int /\ pivots[j] \in Int /\ pivots[i+1] <= pivots[j]
  BY <1>1 DEF Ascending
<1> QED
  BY <1>2, <1>3

LEMMA OnePiece ==
  ASSUME NEW pivots, Ascending(pivots), NEW i \in Rank, NEW j \in Rank,
         NEW x \in Int, Within(i, x, pivots), Within(j, x, pivots)
  PROVE  i = j
<1>1. i \in Int /\ j \in Int
  BY Sizes DEF Rank
<1>2. ~(i < j)
  <2> SUFFICES ASSUME i < j
               PROVE  FALSE
    OBVIOUS
  <2>1. x < x
    BY PiecesApart
  <2> QED
    BY <2>1
<1>3. ~(j < i)
  <2> SUFFICES ASSUME j < i
               PROVE  FALSE
    OBVIOUS
  <2>1. x < x
    BY PiecesApart
  <2> QED
    BY <2>1
<1> QED
  BY <1>1, <1>2, <1>3

\* Every number has its piece.
LEMMA SomePiece ==
  ASSUME NEW pivots, Ascending(pivots), NEW x \in Int
  PROVE  \E i \in Rank : Within(i, x, pivots)
<1> DEFINE T == {i \in Rank : i < size-1 => x < pivots[i+1]}
<1>1. size-1 \in Nat /\ Rank \in SUBSET Nat /\ size-1 \in Rank
  BY Sizes DEF Rank
<1>2. T \in SUBSET Nat /\ size-1 \in T
  <2>1. \A i : i \in T => i \in Nat
    BY <1>1
  <2>2. size-1 \in T
    BY <1>1
  <2> HIDE DEF T
  <2> QED
    BY <2>1, <2>2
<1>3. PICK i \in T : \A j \in T : i <= j
  BY <1>2, Minimum
<1>4. i > 0 => pivots[i] <= x
  <2> SUFFICES ASSUME i > 0
               PROVE  pivots[i] <= x
    OBVIOUS
  <2>1. i \in Nat /\ i-1 \in Rank /\ i-1 < size-1 /\ (i-1)+1 = i /\ i \in 1..size-1
    BY <1>1, <1>3 DEF Rank
  <2>2. i-1 \notin T
    BY <1>3, <2>1
  <2>3. ~(x < pivots[i]) /\ pivots[i] \in Int
    BY <2>1, <2>2 DEF Ascending
  <2> QED
    BY <2>3
<1> QED
  BY <1>3, <1>4 DEF Within

\* Equal numbers are in the same piece: it has all there are.
LEMMA PieceHasAll ==
  ASSUME NEW q, NEW P, NEW s, NEW pivots, HasCut(q, P, s, pivots), Ascending(pivots),
         NEW i \in Rank, NEW x \in Int, Within(i, x, pivots)
  PROVE  Occ(Piece(q, i), x) = Occ(v[q], x)
<1> DEFINE n == P[i+1] - P[i]
           p == [k \in Places(Piece(q, i), x) |-> P[i]+k-1]
<1>1. /\ Piece(q, i) \in Seq(Int) /\ Len(Piece(q, i)) = n
      /\ P[i] \in 1..N+1 /\ P[i+1] \in 1..N+1 /\ P[i] <= P[i+1]
      /\ \A k \in 1..n : Piece(q, i)[k] = v[q][P[i]+k-1]
  <2>1. IsPart(Piece(q, i), v[q], P[i], P[i+1])
    BY PieceIs
  <2> QED
    BY <2>1 DEF IsPart
<1>2. DOMAIN Piece(q, i) = 1..n /\ n \in Nat
  BY <1>1, LenProperties, Sizes
<1>3. v[q] \in [1..N -> Int] /\ DOMAIN v[q] = 1..N
  BY DEF HasCut, IsCut
<1>4. \A k : k \in Places(Piece(q, i), x) <=> k \in 1..n /\ v[q][P[i]+k-1] = x
  BY <1>1, <1>2 DEF Places
<1>5. \A k : k \in Places(v[q], x) <=> k \in 1..N /\ v[q][k] = x
  BY <1>3 DEF Places
<1>6. \A k \in 1..n : P[i]+k-1 \in 1..N
  BY <1>1, Sizes
<1>7. p \in [Places(Piece(q, i), x) -> Places(v[q], x)]
  BY <1>4, <1>5, <1>6
<1>8. \A a, b \in Places(Piece(q, i), x) : p[a] = p[b] => a = b
  BY <1>1, <1>4
<1>9. ASSUME NEW l \in Places(v[q], x)
      PROVE  \E k \in Places(Piece(q, i), x) : p[k] = l
  <2>1. l \in 1..N /\ v[q][l] = x
    BY <1>5
  <2>2. PICK j \in Rank : l \in P[j]..P[j+1]-1
    <3> DEFINE T == {m \in 0..size : l < P[m]}
    <3>1. P \in [0..size -> 1..N+1] /\ P[0] = 1 /\ P[size] = N+1
      BY DEF HasCut, IsCut
    <3>2. size \in T /\ T \in SUBSET Nat
      BY <2>1, <3>1, Sizes
    <3>3. PICK m \in T : \A h \in T : m <= h
      BY <3>2, Minimum
    <3>4. m # 0
      BY <2>1, <3>1, <3>3
    <3>5. m-1 \in Rank /\ m-1 \in 0..size /\ (m-1)+1 = m /\ m \in 0..size /\ ~(m <= m-1)
      BY <3>3, <3>4, Sizes DEF Rank
    <3>6. ~(l < P[m-1])
      BY <3>3, <3>5
    <3>7. P[m-1] \in Int /\ P[m] \in Int /\ l < P[m]
      BY <3>1, <3>3, <3>5, Sizes
    <3>8. l \in P[m-1]..P[m]-1
      BY <2>1, <3>6, <3>7
    <3> QED
      BY <3>5, <3>8
  <2>3. Within(j, x, pivots)
    <3> DEFINE h == j+1
    <3>1. j \in Int /\ h \in 1..size /\ h-1 = j /\ (j > 0 <=> h > 1) /\ (j < size-1 <=> h < size)
      BY Sizes DEF Rank
    <3>2. l \in P[h-1]..P[h]-1
      BY <2>2, <3>1
    <3> HIDE DEF h
    <3>3. (h > 1 => pivots[h-1] <= v[q][l]) /\ (h < size => v[q][l] < pivots[h])
      BY <3>1, <3>2 DEF HasCut, IsCut
    <3> QED
      BY <2>1, <3>1, <3>3 DEF Within, h
  <2>4. j = i
    BY <2>3, OnePiece
  <2> DEFINE k == l - P[i] + 1
  <2>5. k \in 1..n /\ P[i]+k-1 = l
    BY <1>1, <2>1, <2>2, <2>4, Sizes
  <2> HIDE DEF k
  <2>6. k \in Places(Piece(q, i), x)
    BY <1>4, <2>1, <2>5
  <2> QED
    BY <2>5, <2>6
<1>10. IsFiniteSet(Places(Piece(q, i), x))
  <2> HIDE DEF n
  <2> QED
    BY <1>2, OccType
<1> HIDE DEF p
<1> QED
  BY <1>7, <1>8, <1>9, <1>10, SameSize DEF Occ

-----------------------------------------------------------------------------
(* What a rank receives.                                                   *)

LEMMA OccConcat ==
  ASSUME NEW s \in Seq(Int), NEW t \in Seq(Int), NEW x
  PROVE  /\ Occ(s \o t, x) = Occ(s, x) + Occ(t, x) /\ Occ(s, x) \in Nat /\ Occ(t, x) \in Nat
         /\ x \in Range(s \o t) => x \in Range(s) \/ x \in Range(t)
<1> DEFINE n == Len(s)
           m == Len(t)
           u == s \o t
           R == {n + k : k \in Places(t, x)}
           p == [k \in Places(t, x) |-> n + k]
<1>1. /\ n \in Nat /\ m \in Nat /\ DOMAIN s = 1..n /\ DOMAIN t = 1..m
      /\ u \in Seq(Int) /\ Len(u) = n + m
      /\ \A i \in 1..n+m : u[i] = IF i <= n THEN s[i] ELSE t[i-n]
  BY ConcatProperties, LenProperties
<1>2. DOMAIN u = 1..n+m
  BY <1>1, LenProperties
<1> HIDE DEF n, m, u
<1>3. \A i : i \in Places(s, x) <=> i \in 1..n /\ s[i] = x
  BY <1>1 DEF Places
<1>4. \A i : i \in Places(t, x) <=> i \in 1..m /\ t[i] = x
  BY <1>1 DEF Places
<1>5. \A i : i \in Places(u, x) <=> i \in 1..n+m /\ u[i] = x
  BY <1>2 DEF Places
<1>6. Places(u, x) = Places(s, x) \cup R
  <2>1. ASSUME NEW i \in Places(u, x)
        PROVE  i \in Places(s, x) \cup R
    <3>1. i \in 1..n+m /\ u[i] = x
      BY <1>5
    <3>2. CASE i <= n
      <4>1. i \in 1..n /\ s[i] = x
        BY <1>1, <3>1, <3>2
      <4> QED
        BY <1>3, <4>1
    <3>3. CASE ~(i <= n)
      <4>1. i-n \in 1..m /\ t[i-n] = x /\ n + (i-n) = i
        BY <1>1, <3>1, <3>3
      <4>2. i-n \in Places(t, x)
        BY <1>4, <4>1
      <4> QED
        BY <4>1, <4>2
    <3> QED
      BY <3>2, <3>3
  <2>2. ASSUME NEW i \in Places(s, x)
        PROVE  i \in Places(u, x)
    <3>1. i \in 1..n+m /\ i <= n /\ s[i] = x
      BY <1>1, <1>3
    <3> QED
      BY <1>1, <1>5, <3>1
  <2>3. ASSUME NEW k \in Places(t, x)
        PROVE  n + k \in Places(u, x)
    <3>1. k \in 1..m /\ t[k] = x
      BY <1>4
    <3>2. n+k \in 1..n+m /\ ~(n+k <= n) /\ (n+k)-n = k
      BY <1>1, <3>1
    <3>3. u[n+k] = t[(n+k)-n]
      BY <1>1, <3>2
    <3> QED
      BY <1>5, <3>1, <3>2, <3>3
  <2> QED
    BY <2>1, <2>2, <2>3
<1>7. Places(s, x) \cap R = {}
  <2>1. ASSUME NEW k \in Places(t, x)
        PROVE  n + k \notin Places(s, x)
    <3>1. k \in 1..m /\ n + k \notin 1..n
      BY <1>1, <1>4
    <3> QED
      BY <1>3, <3>1
  <2> QED
    BY <2>1
<1>8. /\ IsFiniteSet(Places(s, x)) /\ Occ(s, x) \in Nat
      /\ IsFiniteSet(Places(t, x)) /\ Occ(t, x) \in Nat
  BY <1>1, OccType
<1>9. IsFiniteSet(R) /\ Cardinality(R) = Occ(t, x)
  <2>1. p \in [Places(t, x) -> R] /\ \A l \in R : \E k \in Places(t, x) : p[k] = l
    OBVIOUS
  <2>2. \A a, b \in Places(t, x) : p[a] = p[b] => a = b
    BY <1>1, <1>4
  <2> HIDE DEF p, R
  <2> QED
    BY <1>8, <2>1, <2>2, SameSize DEF Occ
<1>10. Occ(u, x) = Occ(s, x) + Occ(t, x)
  <2>1. Cardinality(Places(s, x) \cup R) = Cardinality(Places(s, x)) + Cardinality(R)
                                          - Cardinality(Places(s, x) \cap R)
    BY <1>8, <1>9, FS_Union
  <2>2. Cardinality(Places(s, x) \cap R) = 0
    BY <1>7, FS_EmptySet
  <2> QED
    BY <1>6, <1>8, <1>9, <2>1, <2>2 DEF Occ
<1>11. ASSUME x \in Range(u)
       PROVE  x \in Range(s) \/ x \in Range(t)
  <2>1. PICK i \in 1..n+m : u[i] = x
    BY <1>2, <1>11 DEF Range
  <2>2. i \in Places(s, x) \/ i \in R
    BY <1>5, <1>6, <2>1
  <2>3. Places(s, x) # {} \/ Places(t, x) # {}
    BY <2>2
  <2> QED
    BY <1>1, <1>3, <1>4, <2>3 DEF Range
<1> QED
  BY <1>8, <1>10, <1>11 DEF u

ReceivedUpTo(r) ==
  CHOOSE upto : upto = [n \in 0..size |-> IF n = 0 THEN <<>> ELSE upto[n-1] \o Piece(n-1, r)]

LEMMA ReceivedUnfolds ==
  ASSUME NEW r
  PROVE  Received(r) = ReceivedUpTo(r)[size]
BY DEF Received, ReceivedUpTo

LEMMA ReceivedSteps ==
  ASSUME NEW r, \A q \in Rank : Piece(q, r) \in Seq(Int)
  PROVE  /\ ReceivedUpTo(r) \in [0..size -> Seq(Int)]
         /\ ReceivedUpTo(r)[0] = <<>>
         /\ \A n \in 1..size : n-1 \in Rank /\ ReceivedUpTo(r)[n] = ReceivedUpTo(r)[n-1] \o Piece(n-1, r)
<1> DEFINE S == Seq(Int)
           G == [n \in 1..size |-> [w \in S |-> w \o Piece(n-1, r)]]
           I == [n \in 0..size |-> S]
           f == ReceivedUpTo(r)
           Step(g) == [n \in 0..size |-> IF n = 0 THEN <<>> ELSE g[n-1] \o Piece(n-1, r)]
<1>1. size \in Nat /\ 0 <= size /\ \A n \in 1..size : n-1 \in Rank /\ n-1 \in 0..size /\ n \in 0..size
  BY Sizes DEF Rank
<1>2. <<>> \in S
  BY EmptySeq
<1>3. \A n \in 1..size : \A w \in S : G[n][w] = w \o Piece(n-1, r) /\ G[n][w] \in S
  BY <1>1, ConcatProperties
<1>4. \A n \in 0..size : I[n] = S
  OBVIOUS
<1> HIDE DEF S, G, I
<1>5. PICK g : IsLoop(g, 0, size, <<>>, G)
  BY <1>1, LoopExists
<1>6. \A n \in 0..size : g[n] \in I[n]
  <2>1. <<>> \in I[0] /\ 0 + 1 = 1 /\ 0 \in Int
    BY <1>1, <1>2, <1>4
  <2>2. \A n \in 0+1..size : \A w \in I[n-1] : G[n][w] \in I[n]
    BY <1>1, <1>3, <1>4
  <2> QED
    BY <1>1, <1>5, <2>1, <2>2, LoopKeeps
<1>7. g = Step(g)
  <2>1. ASSUME NEW n \in 0..size, n # 0
        PROVE  G[n][g[n-1]] = g[n-1] \o Piece(n-1, r)
    <3>1. n \in 1..size
      BY <1>1, <2>1
    <3>2. n-1 \in 0..size
      BY <1>1, <3>1
    <3>3. g[n-1] \in S
      BY <1>4, <1>6, <3>2
    <3> QED
      BY <1>3, <3>1, <3>3
  <2>2. g = [n \in 0..size |-> IF n = 0 THEN <<>> ELSE G[n][g[n-1]]]
    BY <1>5 DEF IsLoop
  <2> QED
    BY <2>1, <2>2
<1>8. f = Step(f)
  <2>1. f = CHOOSE g1 : g1 = Step(g1)
    BY DEF ReceivedUpTo
  <2> HIDE DEF f, Step
  <2> QED
    BY <1>7, <2>1
<1> HIDE DEF f
<1>9. f[0] = <<>> /\ \A n \in 1..size : f[n] = f[n-1] \o Piece(n-1, r)
  <2>1. \A n \in 0..size : f[n] = IF n = 0 THEN <<>> ELSE f[n-1] \o Piece(n-1, r)
    BY <1>8
  <2>2. 0 \in 0..size /\ \A n \in 1..size : n \in 0..size /\ n # 0
    BY <1>1
  <2> HIDE DEF Step
  <2> QED
    BY <2>1, <2>2, Zenon
<1> DEFINE T == {n \in 0..size : f[n] \in S}
<1>10. \A n \in 0..size : n \in T
  <2>1. 0 \in T
    BY <1>1, <1>2, <1>9
  <2>2. ASSUME NEW n \in 1..size, n-1 \in T
        PROVE  n \in T
    <3>1. f[n-1] \in S /\ n-1 \in Rank /\ n \in 0..size /\ f[n] = f[n-1] \o Piece(n-1, r)
      BY <1>1, <1>9, <2>2
    <3>2. f[n-1] \o Piece(n-1, r) \in S
      BY <3>1, ConcatProperties DEF S
    <3> QED
      BY <3>1, <3>2
  <2> HIDE DEF T
  <2> QED
    BY <1>1, <2>1, <2>2, Induction
<1>11. f \in [0..size -> S]
  <2>1. DOMAIN f = 0..size /\ f = [n \in 0..size |-> f[n]]
    BY <1>8
  <2> QED
    BY <1>10, <2>1
<1> QED
  BY <1>1, <1>9, <1>11 DEF f, S

LEMMA ReceivedIs ==
  ASSUME NEW r, \A q \in Rank : Piece(q, r) \in Seq(Int)
  PROVE  /\ Received(r) \in Seq(Int)
         /\ \A x \in Range(Received(r)) : \E q \in Rank : x \in Range(Piece(q, r))
<1> DEFINE f == ReceivedUpTo(r)
           T == {n \in 0..size : \A x \in Range(f[n]) : \E q \in Rank : x \in Range(Piece(q, r))}
<1>1. /\ f \in [0..size -> Seq(Int)] /\ f[0] = <<>>
      /\ \A n \in 1..size : n-1 \in Rank /\ f[n] = f[n-1] \o Piece(n-1, r)
  BY ReceivedSteps
<1>2. size \in Nat
  BY Sizes
<1> HIDE DEF f
<1>3. 0 \in T
  <2>1. Range(<<>>) = {}
    BY DEF Range
  <2> QED
    BY <1>1, <1>2, <2>1
<1>4. ASSUME NEW n \in 1..size, n-1 \in T
      PROVE  n \in T
  <2> SUFFICES ASSUME NEW x \in Range(f[n])
               PROVE  \E q \in Rank : x \in Range(Piece(q, r))
    BY <1>2
  <2>3. n-1 \in 0..size
    BY <1>2
  <2>1. f[n-1] \in Seq(Int) /\ n-1 \in Rank /\ f[n] = f[n-1] \o Piece(n-1, r)
    BY <1>1, <2>3, Zenon
  <2>2. x \in Range(f[n-1]) \/ x \in Range(Piece(n-1, r))
    BY <2>1, OccConcat
  <2> QED
    BY <1>4, <2>1, <2>2
<1>5. size \in T
  <2> HIDE DEF T
  <2>1. \A n \in 0..size : n \in T
    BY <1>2, <1>3, <1>4, Induction
  <2> QED
    BY <1>2, <2>1
<1> QED
  BY <1>1, <1>2, <1>5, ReceivedUnfolds DEF f

-----------------------------------------------------------------------------
(* How often a number occurs in the arrays of all ranks.                   *)

\* g adds up what the ranks contribute, one after the other.
Adds(g, f, n) ==
  /\ g \in [0..n -> Nat] /\ g[0] = 0
  /\ \A i \in 1..n : g[i] = g[i-1] + f[i-1]

LEMMA AddsSame ==
  ASSUME NEW n \in Nat, NEW f, NEW g, Adds(g, f, n), NEW e, NEW h, Adds(h, e, n),
         \A i \in 0..n-1 : f[i] = e[i]
  PROVE  g[n] = h[n]
<1> DEFINE T == {i \in 0..n : g[i] = h[i]}
<1>1. 0 \in T
  BY DEF Adds
<1>2. ASSUME NEW i \in 1..n, i-1 \in T
      PROVE  i \in T
  <2>1. i-1 \in 0..n-1 /\ i \in 0..n
    OBVIOUS
  <2>2. g[i] = g[i-1] + f[i-1] /\ h[i] = h[i-1] + e[i-1]
    BY DEF Adds
  <2> QED
    BY <1>2, <2>1, <2>2
<1>3. n \in T
  <2>1. \A i \in 0..n : i \in T
    <3> HIDE DEF T
    <3> QED
      BY <1>1, <1>2, Induction
  <2> QED
    BY <2>1
<1> QED
  BY <1>3

Occs(a, x) == [r \in Rank |-> Occ(a[r], x)]

LEMMA CountAdds ==
  ASSUME NEW a, NEW x, \A r \in Rank : IsFiniteSet(Places(a[r], x)) /\ Occ(a[r], x) \in Nat
  PROVE  \E g : Adds(g, Occs(a, x), size) /\ g[size] = Count(a, x)
<1> DEFINE Row(r) == {<<r, i>> : i \in Places(a[r], x)}
           U(n) == UNION {Row(r) : r \in 0..n-1}
           g == [n \in 0..size |-> Cardinality(U(n))]
           T == {n \in 0..size : IsFiniteSet(U(n))}
<1>1. size \in Nat /\ Rank = 0..size-1 /\ \A n \in 1..size : n-1 \in Rank
  BY Sizes DEF Rank
<1>2. ASSUME NEW r \in Rank
      PROVE  IsFiniteSet(Row(r)) /\ Cardinality(Row(r)) = Occ(a[r], x)
  <2> DEFINE p == [i \in Places(a[r], x) |-> <<r, i>>]
             R == Row(r)
  <2>1. p \in [Places(a[r], x) -> R] /\ \A t \in R : \E i \in Places(a[r], x) : p[i] = t
    OBVIOUS
  <2>2. \A i, j \in Places(a[r], x) : p[i] = p[j] => i = j
    OBVIOUS
  <2> HIDE DEF p, R
  <2>3. IsFiniteSet(R) /\ Cardinality(R) = Occ(a[r], x)
    BY <2>1, <2>2, SameSize DEF Occ
  <2> QED
    BY <2>3 DEF R
<1>3. ASSUME NEW n \in 1..size
      PROVE  U(n) = U(n-1) \cup Row(n-1) /\ U(n-1) \cap Row(n-1) = {}
  <2>1. \A r : r \in 0..n-1 <=> r \in 0..(n-1)-1 \/ r = n-1
    BY <1>1
  <2>2. n-1 \notin 0..(n-1)-1
    OBVIOUS
  <2>3. U(n) = U(n-1) \cup Row(n-1)
    BY <2>1
  <2>4. \A r, q : r # q => Row(r) \cap Row(q) = {}
    OBVIOUS
  <2>5. U(n-1) \cap Row(n-1) = {}
    <3> HIDE DEF Row
    <3> QED
      BY <2>2, <2>4
  <2> QED
    BY <2>3, <2>5
<1>4. U(0) = {}
  OBVIOUS
<1>5. Count(a, x) = Cardinality(U(size))
  BY <1>1 DEF Count, Places
<1> HIDE DEF Row, U
<1>6. ASSUME NEW n \in 1..size, IsFiniteSet(U(n-1))
      PROVE  /\ IsFiniteSet(U(n)) /\ Cardinality(U(n-1)) \in Nat
             /\ Cardinality(U(n)) = Cardinality(U(n-1)) + Occ(a[n-1], x)
  <2>1. n-1 \in Rank /\ IsFiniteSet(Row(n-1)) /\ Cardinality(Row(n-1)) = Occ(a[n-1], x)
    BY <1>1, <1>2
  <2>2. /\ IsFiniteSet(U(n-1) \cup Row(n-1))
        /\ Cardinality(U(n-1) \cup Row(n-1)) = Cardinality(U(n-1)) + Cardinality(Row(n-1))
                                               - Cardinality(U(n-1) \cap Row(n-1))
    BY <1>6, <2>1, FS_Union
  <2>3. Cardinality(U(n-1) \cap Row(n-1)) = 0
    BY <1>3, FS_EmptySet
  <2>4. Cardinality(U(n-1)) \in Nat /\ Occ(a[n-1], x) \in Nat
    BY <1>6, <2>1, FS_CardinalityType
  <2> QED
    BY <1>3, <2>1, <2>2, <2>3, <2>4
<1>7. \A n \in 0..size : n \in T
  <2>1. 0 \in T
    BY <1>1, <1>4, FS_EmptySet
  <2>2. \A n \in 1..size : n-1 \in T => n \in T
    BY <1>1, <1>6
  <2> HIDE DEF T
  <2> QED
    BY <1>1, <2>1, <2>2, Induction
<1>8. Adds(g, Occs(a, x), size)
  <2>1. \A n \in 0..size : Cardinality(U(n)) \in Nat
    BY <1>7, FS_CardinalityType
  <2>2. g \in [0..size -> Nat] /\ \A n \in 0..size : g[n] = Cardinality(U(n))
    BY <2>1
  <2>3. 0 \in 0..size /\ Cardinality(U(0)) = 0
    BY <1>1, <1>4, FS_EmptySet
  <2>4. ASSUME NEW n \in 1..size
        PROVE  Cardinality(U(n)) = Cardinality(U(n-1)) + Occs(a, x)[n-1] /\ n \in 0..size /\ n-1 \in 0..size
    <3>1. n-1 \in 0..size /\ n \in 0..size /\ n-1 \in Rank
      BY <1>1
    <3>2. IsFiniteSet(U(n-1))
      BY <1>7, <3>1
    <3> QED
      BY <1>6, <3>1, <3>2 DEF Occs
  <2> HIDE DEF g
  <2> QED
    BY <2>2, <2>3, <2>4 DEF Adds
<1>9. g[size] = Count(a, x)
  BY <1>1, <1>5
<1> HIDE DEF g
<1> QED
  BY <1>8, <1>9

LEMMA AddsOne ==
  ASSUME NEW n \in Nat, NEW f, NEW g, Adds(g, f, n), NEW r \in 0..n-1, f[r] \in Nat,
         \A i \in 0..n-1 : i # r => f[i] = 0
  PROVE  g[n] = f[r]
<1> DEFINE T == {i \in 0..n : g[i] = IF i > r THEN f[r] ELSE 0}
<1>1. 0 \in T
  BY DEF Adds
<1>2. ASSUME NEW i \in 1..n, i-1 \in T
      PROVE  i \in T
  <2>1. i-1 \in 0..n-1 /\ i \in 0..n
    OBVIOUS
  <2>2. g[i] = g[i-1] + f[i-1] /\ g[i-1] = IF i-1 > r THEN f[r] ELSE 0
    BY <1>2 DEF Adds
  <2>3. CASE i-1 = r
    BY <2>1, <2>2, <2>3
  <2>4. CASE i-1 # r
    <3>1. f[i-1] = 0
      BY <2>1, <2>4
    <3>2. i-1 > r <=> i > r
      BY <2>1, <2>4
    <3> QED
      BY <2>1, <2>2, <3>1, <3>2
  <2> QED
    BY <2>3, <2>4
<1>3. n \in T
  <2> HIDE DEF T
  <2>1. \A i \in 0..n : i \in T
    BY <1>1, <1>2, Induction
  <2> QED
    BY <2>1
<1> QED
  BY <1>3

LEMMA InRange ==
  ASSUME NEW n \in Nat, NEW s, DOMAIN s = 1..n, NEW x
  PROVE  x \in Range(s) <=> Occ(s, x) # 0
<1>1. IsFiniteSet(Places(s, x))
  BY OccType
<1>2. Occ(s, x) = 0 <=> Places(s, x) = {}
  BY <1>1, FS_EmptySet DEF Occ
<1>3. x \in Range(s) <=> Places(s, x) # {}
  BY DEF Range, Places
<1> QED
  BY <1>2, <1>3

-----------------------------------------------------------------------------
(* Looking for equal neighbours.                                           *)

InOrder(s, n) ==
  s \in [1..n -> Int] /\ Len(s) = n /\ \A k, l \in 1..n : k <= l => s[k] <= s[l]

(* In sorted data a number that occurs twice is its own neighbour.         *)
LEMMA Neighbours ==
  ASSUME NEW n \in Nat, NEW s, InOrder(s, n)
  PROVE  is_unique(s) <=> \A x \in Range(s) : ~(Occ(s, x) > 1)
<1>1. /\ s \in [1..n -> Int] /\ DOMAIN s = 1..n /\ Len(s) = n
      /\ \A k, l \in 1..n : k <= l => s[k] <= s[l]
  BY DEF InOrder
<1>2. ASSUME NEW i \in 2..n, s[i] = s[i-1]
      PROVE  \E x \in Range(s) : Occ(s, x) > 1
  <2> DEFINE x == s[i]
             D == {i-1, i}
  <2>1. i \in 1..n /\ i-1 \in 1..n /\ i # i-1
    OBVIOUS
  <2>2. D \in SUBSET Places(s, x) /\ x \in Range(s)
    BY <1>1, <1>2, <2>1 DEF Places, Range
  <2>3. IsFiniteSet(D) /\ Cardinality(D) = 2
    <3>1. IsFiniteSet({i-1}) /\ Cardinality({i-1}) = 1
      BY FS_Singleton
    <3>2. Cardinality({i-1} \cup {i}) = 2 /\ IsFiniteSet({i-1} \cup {i})
      BY <2>1, <3>1, FS_AddElement
    <3>3. D = {i-1} \cup {i}
      OBVIOUS
    <3> HIDE DEF D
    <3> QED
      BY <3>2, <3>3
  <2>4. IsFiniteSet(Places(s, x)) /\ Occ(s, x) \in Nat
    BY <1>1, OccType
  <2> HIDE DEF x, D
  <2>5. Cardinality(D) <= Occ(s, x)
    BY <2>2, <2>4, FS_Subset DEF Occ
  <2> QED
    BY <2>2, <2>3, <2>4, <2>5
<1>3. ASSUME NEW x, Occ(s, x) > 1
      PROVE  \E i \in 2..n : s[i] = s[i-1]
  <2>1. IsFiniteSet(Places(s, x)) /\ Occ(s, x) \in Nat
    BY <1>1, OccType
  <2>2. Places(s, x) # {}
    BY <1>3, <2>1, FS_EmptySet DEF Occ
  <2>3. PICK a \in Places(s, x) : TRUE
    BY <2>2
  <2>4. PICK b \in Places(s, x) : b # a
    <3> SUFFICES ASSUME Places(s, x) = {a}
                 PROVE  FALSE
      BY <2>3
    <3>1. Occ(s, x) = 1
      BY FS_Singleton DEF Occ
    <3> QED
      BY <1>3, <3>1
  <2>5. a \in 1..n /\ b \in 1..n /\ s[a] = x /\ s[b] = x
    BY <1>1 DEF Places
  <2>6. ASSUME NEW c \in 1..n, NEW d \in 1..n, c < d, s[c] = x, s[d] = x
        PROVE  \E i \in 2..n : s[i] = s[i-1]
    <3>1. d \in 2..n /\ d-1 \in 1..n /\ c <= d-1 /\ d-1 <= d
      BY <2>6
    <3>2. s[c] <= s[d-1] /\ s[d-1] <= s[d] /\ s[d-1] \in Int /\ s[d] \in Int
      BY <1>1, <3>1
    <3>3. s[d] = s[d-1]
      BY <2>6, <3>2
    <3> QED
      BY <3>1, <3>3
  <2>7. a < b \/ b < a
    BY <2>4, <2>5
  <2> QED
    BY <2>5, <2>6, <2>7
<1>4. is_unique(s) <=> ~\E i \in 2..n : s[i] = s[i-1]
  BY <1>1 DEF is_unique
<1> QED
  BY <1>2, <1>3, <1>4

-----------------------------------------------------------------------------
(* The pivots.                                                             *)

Pivots == PickedFrom(qsort(Gathered))

LEMMA IsSeq ==
  ASSUME NEW n \in Nat, NEW S, NEW s \in [1..n -> S]
  PROVE  s \in Seq(S) /\ Len(s) = n
OBVIOUS

LEMMA SamplesGathered ==
  ASSUME \A r \in Rank : samples[r] \in [1..size-1 -> Int]
  PROVE  /\ size*(size-1) \in Nat
         /\ Gathered \in [1..size*(size-1) -> Int] /\ Len(Gathered) = size*(size-1)
<1> DEFINE m == size-1
           n == size*m
<1>1. size \in Nat \ {0} /\ m \in Nat /\ size = m+1
  BY Sizes
<1>2. n \in Nat
  BY <1>1
<1>3. ASSUME NEW k \in 1..n
      PROVE  (k-1) \div m \in Rank /\ ((k-1) % m) + 1 \in 1..m
  <2> DEFINE a == (k-1) \div m
             b == (k-1) % m
  <2>1. m # 0
    <3> SUFFICES ASSUME m = 0
                 PROVE  FALSE
      OBVIOUS
    <3>1. n = 0
      BY <1>1
    <3> HIDE DEF n
    <3> QED
      BY <1>3, <3>1
  <2>2. m \in Nat \ {0} /\ k-1 \in 0..n-1 /\ n \in Nat
    BY <1>1, <1>2, <2>1
  <2> HIDE DEF m, n
  <2>3. a \in Nat /\ b \in 0..m-1 /\ k-1 = m*a + b
    BY <2>2
  <2> HIDE DEF a, b
  <2>4. a < size
    <3> SUFFICES ASSUME size <= a
                 PROVE  FALSE
      BY <1>1, <2>3
    <3>1. m*size <= m*a
      BY <1>1, <2>2, <2>3
    <3>2. n = m*size
      BY <1>1 DEF n
    <3> DEFINE ma == m*a
               ms == m*size
    <3>3. ma \in Int /\ ms \in Int /\ ms <= ma /\ k-1 = ma + b /\ n = ms
      BY <1>1, <2>2, <2>3, <3>1, <3>2
    <3> HIDE DEF ma, ms
    <3> QED
      BY <2>2, <2>3, <3>3
  <2> QED
    BY <1>1, <2>3, <2>4 DEF Rank, a, b
<1> HIDE DEF m, n
<1>4. Gathered \in [1..n -> Int]
  <2>1. Gathered = [k \in 1..n |-> samples[(k-1) \div m][((k-1) % m) + 1]]
    BY DEF Gathered, m, n
  <2>2. ASSUME NEW k \in 1..n
        PROVE  samples[(k-1) \div m][((k-1) % m) + 1] \in Int
    <3> DEFINE a == (k-1) \div m
               b == ((k-1) % m) + 1
    <3>1. a \in Rank /\ b \in 1..m
      BY <1>3
    <3> HIDE DEF a, b
    <3>2. samples[a] \in [1..m -> Int]
      BY <3>1 DEF m
    <3>3. samples[a][b] \in Int
      BY <3>1, <3>2
    <3> QED
      BY <3>3 DEF a, b
  <2> QED
    BY <2>1, <2>2
<1> QED
  BY <1>2, <1>4, IsSeq DEF n, m

LEMMA PivotsAscend ==
  ASSUME \A r \in Rank : samples[r] \in [1..size-1 -> Int]
  PROVE  Ascending(Pivots)
<1> DEFINE m == size-1
           n == size*(size-1)
           p == qsort(Gathered)
<1>1. n \in Nat /\ Gathered \in [1..n -> Int] /\ Len(Gathered) = n
  BY SamplesGathered
<1> HIDE DEF n
<1>2. p \in [1..n -> Int] /\ \A k, l \in 1..n : k <= l => p[k] <= p[l]
  BY <1>1, Sorts
<1>3. m \in Nat /\ size \in Nat /\ size = m+1
  BY Sizes
<1>4. ASSUME NEW i \in 1..m, NEW j \in 1..m, i <= j
      PROVE  i*m + 1 \in 1..n /\ j*m + 1 \in 1..n /\ i*m + 1 <= j*m + 1
  <2>1. n = m*m + m
    BY <1>3 DEF n
  <2> DEFINE a == i*m
             b == j*m
             c == m*m
  <2>2. a \in Nat /\ b \in Nat /\ c \in Nat /\ a <= b /\ b <= c /\ m >= 1
    <3> HIDE DEF m
    <3>1. m \in Nat /\ i \in Nat /\ j \in Nat /\ i <= j /\ j <= m /\ m >= 1
      BY <1>3, <1>4
    <3>2. i*m <= j*m /\ j*m <= m*m
      BY <3>1
    <3> QED
      BY <3>1, <3>2
  <2> HIDE DEF a, b, c, m
  <2>3. a + 1 \in 1..n /\ b + 1 \in 1..n /\ a + 1 <= b + 1
    BY <1>3, <2>1, <2>2 DEF c
  <2> QED
    BY <2>3 DEF a, b
<1> HIDE DEF p, m
<1>5. Pivots = [i \in 1..m |-> p[i*m + 1]]
  BY DEF Pivots, PickedFrom, p, m
<1>6. ASSUME NEW i \in 1..m, NEW j \in 1..m, i <= j
      PROVE  p[i*m + 1] <= p[j*m + 1]
  <2> DEFINE a == i*m + 1
             b == j*m + 1
  <2>1. a \in 1..n /\ b \in 1..n /\ a <= b
    BY <1>4, <1>6
  <2> HIDE DEF a, b
  <2>2. p[a] <= p[b]
    BY <1>2, <2>1
  <2> QED
    BY <2>2 DEF a, b
<1>7. \A i \in 1..m : p[i*m + 1] \in Int
  <2> SUFFICES ASSUME NEW i \in 1..m
               PROVE  p[i*m + 1] \in Int
    OBVIOUS
  <2> DEFINE a == i*m + 1
  <2>1. i <= i
    BY <1>3
  <2>2. a \in 1..n
    BY <1>4, <2>1
  <2> HIDE DEF a
  <2>3. p[a] \in Int
    BY <1>2, <2>2
  <2> QED
    BY <2>3 DEF a
<1>8. Pivots \in [1..m -> Int]
  BY <1>5, <1>7
<1>9. \A i, j \in 1..m : i <= j => Pivots[i] <= Pivots[j]
  BY <1>5, <1>6
<1> QED
  BY <1>8, <1>9 DEF Ascending, m

-----------------------------------------------------------------------------
(* The invariant.                                                          *)

Stages == {"sample", "allgather pivots", "allgather blocks", "alltoallv", "check",
           "allreduce", "print"}

HasSampled(r) == pc[r] # "sample"
HasCutData(r) == pc[r] \notin {"sample", "allgather pivots"}
IsCounted(r)  == pc[r] \in {"alltoallv", "check", "allreduce", "print"}
HasSorted(r)  == pc[r] \in {"check", "allreduce", "print"}
HasChecked(r) == pc[r] \in {"allreduce", "print"}

SortTypes ==
  /\ pc \in [Rank -> Stages]
  /\ input \in [Rank -> [1..N -> Values]]
  /\ v \in [Rank -> [1..N -> Int]]
  /\ samples \in [Rank -> Seq(Int)]
  /\ local_pivots \in [Rank -> Seq(Int)]
  /\ local_block_sizes \in [Rank -> Seq(Nat)]
  /\ v2 \in [Rank -> Seq(Int)]
  /\ i_have_dups \in [Rank -> {0, 1}]
  /\ global_dups \in [Rank -> {0, 1}]

\* What a rank has to show for the stage it is in.
Sampled(r) == HasSampled(r) => samples[r] \in [1..size-1 -> Int]

Uncut(r) == ~ HasCutData(r) =>
  v[r] = input[r] /\ local_pivots[r] = <<>> /\ local_block_sizes[r] = <<>>

CutAtPivots(r) == HasCutData(r) =>
  /\ local_pivots[r] = Pivots
  /\ v[r] = Cut(input[r], Pivots).data
  /\ local_block_sizes[r] = Cut(input[r], Pivots).sizes

Sorted(r) == HasSorted(r) => v2[r] = qsort(Received(r))

Checked(r) == HasChecked(r) => i_have_dups[r] = IF is_unique(v2[r]) THEN 0 ELSE 1

Reduced(r) == pc[r] = "print" =>
  global_dups[r] = IF \E q \in Rank : i_have_dups[q] = 1 THEN 1 ELSE 0

\* The collectives keep the ranks together.
Together(q, r) ==
  /\ HasCutData(r) => HasSampled(q)
  /\ IsCounted(r) => HasCutData(q)
  /\ pc[r] = "print" => HasChecked(q)

SortInv ==
  /\ SortTypes
  /\ \A r \in Rank : /\ Sampled(r) /\ Uncut(r) /\ CutAtPivots(r)
                     /\ Sorted(r) /\ Checked(r) /\ Reduced(r)
  /\ \A q, r \in Rank : Together(q, r)

LEMMA SortStarts == SortInit => SortInv
<1> SUFFICES ASSUME SortInit
             PROVE  SortInv
  OBVIOUS
<1>1. input \in [Rank -> [1..N -> Values]] /\ input \in [Rank -> [1..N -> Int]]
  BY SortAssumption DEF SortInit, Filled
<1>2. <<>> \in Seq(Int) /\ <<>> \in Seq(Nat)
  OBVIOUS
<1>3. SortTypes
  BY <1>1, <1>2 DEF SortInit, SortTypes, Stages
<1>4. \A r \in Rank : pc[r] = "sample" /\ v[r] = input[r]
                      /\ local_pivots[r] = <<>> /\ local_block_sizes[r] = <<>>
  BY DEF SortInit
<1>5. ASSUME NEW r \in Rank
      PROVE  /\ Sampled(r) /\ Uncut(r) /\ CutAtPivots(r)
             /\ Sorted(r) /\ Checked(r) /\ Reduced(r)
  BY <1>4 DEF Sampled, Uncut, CutAtPivots, Sorted, Checked, Reduced,
              HasSampled, HasCutData, HasSorted, HasChecked
<1>6. ASSUME NEW q \in Rank, NEW r \in Rank
      PROVE  Together(q, r)
  BY <1>4 DEF Together, HasSampled, HasCutData, IsCounted, HasChecked
<1> QED
  BY <1>3, <1>5, <1>6 DEF SortInv

LEMMA SameReceived ==
  ASSUME UNCHANGED <<v, local_block_sizes>>
  PROVE  \A r \in Rank : Received(r)' = Received(r)
BY DEF Received, Piece

LEMMA SamePivots ==
  ASSUME UNCHANGED samples
  PROVE  Pivots' = Pivots
BY DEF Pivots, Gathered

LEMMA HasItsCut ==
  ASSUME SortInv, NEW q \in Rank, HasCutData(q)
  PROVE  Ascending(Pivots) /\ \E P : HasCut(q, P, input[q], Pivots)
<1>1. \A r \in Rank : samples[r] \in [1..size-1 -> Int]
  BY DEF SortInv, Sampled, Together
<1>2. Ascending(Pivots) /\ Pivots \in [1..size-1 -> Int]
  BY <1>1, PivotsAscend DEF Ascending
<1>3. input[q] \in [1..N -> Int]
  <2>1. input[q] \in [1..N -> Values]
    BY DEF SortInv, SortTypes
  <2> QED
    BY <2>1, SortAssumption
<1>4. v[q] = Cut(input[q], Pivots).data /\ local_block_sizes[q] = Cut(input[q], Pivots).sizes
  BY DEF SortInv, CutAtPivots
<1>5. \E P : HasCut(q, P, input[q], Pivots)
  BY <1>2, <1>3, <1>4, CutInPieces DEF HasCut
<1> QED
  BY <1>2, <1>5

LEMMA AllCut ==
  ASSUME SortInv, \A q \in Rank : HasCutData(q)
  PROVE  /\ Ascending(Pivots)
         /\ \A q \in Rank : \E P : HasCut(q, P, input[q], Pivots)
<1>1. 0 \in Rank
  BY Sizes DEF Rank
<1> QED
  BY <1>1, HasItsCut

LEMMA PiecesTyped ==
  ASSUME SortInv, \A q \in Rank : HasCutData(q), NEW r \in Rank
  PROVE  \A q \in Rank : Piece(q, r) \in Seq(Int)
<1>1. ASSUME NEW q \in Rank
      PROVE  Piece(q, r) \in Seq(Int)
  <2>1. PICK P : HasCut(q, P, input[q], Pivots)
    BY AllCut
  <2>2. IsPart(Piece(q, r), v[q], P[r], P[r+1])
    BY <2>1, PieceIs
  <2> QED
    BY <2>2 DEF IsPart
<1> QED
  BY <1>1

\* What a rank sorts.
LEMMA SortsReceived ==
  ASSUME SortInv, \A q \in Rank : HasCutData(q), NEW r \in Rank
  PROVE  /\ Received(r) \in Seq(Int)
         /\ InOrder(qsort(Received(r)), Len(Received(r)))
         /\ SameNumbers(qsort(Received(r)), Received(r))
         /\ qsort(Received(r)) \in Seq(Int)
<1> DEFINE s == Received(r)
           n == Len(Received(r))
<1>1. s \in Seq(Int)
  BY PiecesTyped, ReceivedIs
<1>2. n \in Nat /\ s \in [1..n -> Int]
  BY <1>1
<1> HIDE DEF s, n
<1>3. Len(s) = n
  BY DEF s, n
<1>4. /\ qsort(s) \in [1..n -> Int] /\ SameNumbers(qsort(s), s)
      /\ \A k, l \in 1..n : k <= l => qsort(s)[k] <= qsort(s)[l]
  BY <1>2, <1>3, Sorts
<1>5. qsort(s) \in Seq(Int) /\ Len(qsort(s)) = n
  BY <1>2, <1>4, IsSeq
<1> QED
  BY <1>1, <1>4, <1>5 DEF InOrder, s, n

-----------------------------------------------------------------------------
(* Every action keeps the invariant.                                       *)

LEMMA SampleKeeps ==
  ASSUME SortInv, NEW r \in Rank, Sample(r)
  PROVE  SortInv'
<1>1. SortTypes /\ pc[r] = "sample" /\ \A q \in Rank : ~ HasCutData(q)
  BY DEF SortInv, Sample, Together, HasSampled
<1>2. PICK draw \in [1..size-1 -> 1..N] :
        samples' = [samples EXCEPT ![r] = [i \in 1..size-1 |-> v[r][draw[i]]]]
  BY DEF Sample
<1>3. /\ pc' = [pc EXCEPT ![r] = "allgather pivots"]
      /\ UNCHANGED <<input, v, local_pivots, local_block_sizes, v2, i_have_dups, global_dups>>
  BY DEF Sample
<1> DEFINE w == [i \in 1..size-1 |-> v[r][draw[i]]]
<1>4. w \in [1..size-1 -> Int] /\ w \in Seq(Int)
  <2>1. v[r] \in [1..N -> Int]
    BY <1>1 DEF SortTypes
  <2>2. w \in [1..size-1 -> Int]
    BY <2>1
  <2>3. size-1 \in Nat
    BY Sizes
  <2> QED
    BY <2>2, <2>3, IsSeq
<1> HIDE DEF w
<1>5. samples' = [samples EXCEPT ![r] = w]
  BY <1>2 DEF w
<1>6. SortTypes'
  BY <1>1, <1>3, <1>4, <1>5 DEF SortTypes, Stages
<1>7. ASSUME NEW q \in Rank
      PROVE  /\ ~ HasCutData(q)' /\ ~ IsCounted(q)' /\ ~ HasSorted(q)' /\ ~ HasChecked(q)'
             /\ pc'[q] # "print"
  BY <1>1, <1>3 DEF SortTypes, HasCutData, IsCounted, HasSorted, HasChecked
<1>8. ASSUME NEW q \in Rank
      PROVE  Sampled(q)'
  BY <1>1, <1>3, <1>4, <1>5 DEF SortInv, SortTypes, Sampled, HasSampled
<1>9. ASSUME NEW q \in Rank
      PROVE  Uncut(q)'
  BY <1>1, <1>3 DEF SortInv, Uncut
<1>10. ASSUME NEW q \in Rank
       PROVE  /\ CutAtPivots(q)' /\ Sorted(q)' /\ Checked(q)' /\ Reduced(q)'
  BY <1>7 DEF CutAtPivots, Sorted, Checked, Reduced
<1>11. ASSUME NEW p \in Rank, NEW q \in Rank
       PROVE  Together(p, q)'
  BY <1>7 DEF Together
<1> QED
  BY <1>6, <1>8, <1>9, <1>10, <1>11 DEF SortInv

LEMMA CutLocalKeeps ==
  ASSUME SortInv, NEW r \in Rank, CutLocal(r)
  PROVE  SortInv'
<1>1. /\ SortTypes /\ pc[r] = "allgather pivots" /\ \A q \in Rank : HasSampled(q)
      /\ pc' = [pc EXCEPT ![r] = "allgather blocks"]
      /\ UNCHANGED <<input, samples, v2, i_have_dups, global_dups>>
  BY DEF SortInv, CutLocal, HasSampled
<1>2. \A q \in Rank : ~ IsCounted(q)
  BY <1>1 DEF SortInv, Together, HasCutData
<1> DEFINE c == Cut(v[r], Pivots)
<1>3. /\ local_pivots' = [local_pivots EXCEPT ![r] = Pivots]
      /\ v' = [v EXCEPT ![r] = c.data]
      /\ local_block_sizes' = [local_block_sizes EXCEPT ![r] = c.sizes]
  BY DEF CutLocal, Pivots
<1>4. v[r] = input[r] /\ v[r] \in [1..N -> Int]
  BY <1>1 DEF SortInv, SortTypes, Uncut, HasCutData
<1>5. Pivots \in [1..size-1 -> Int] /\ Pivots \in Seq(Int)
  <2>1. \A q \in Rank : samples[q] \in [1..size-1 -> Int]
    BY <1>1 DEF SortInv, Sampled
  <2>2. Pivots \in [1..size-1 -> Int]
    BY <2>1, PivotsAscend DEF Ascending
  <2>3. size-1 \in Nat
    BY Sizes
  <2> QED
    BY <2>2, <2>3, IsSeq
<1>6. c.data \in [1..N -> Int] /\ c.sizes \in Seq(Nat)
  <2>1. PICK P : IsCut(c.data, c.sizes, P, v[r], Pivots)
    BY <1>4, <1>5, CutInPieces
  <2> HIDE DEF c
  <2>2. c.data \in [1..N -> Int] /\ c.sizes \in [1..size -> Nat] /\ size \in Nat
    BY <2>1, Sizes DEF IsCut
  <2> QED
    BY <2>2, IsSeq
<1>7. Pivots' = Pivots
  BY <1>1, SamePivots
<1>8. c = Cut(input[r], Pivots)
  BY <1>4
<1> HIDE DEF c
<1>9. SortTypes'
  BY <1>1, <1>3, <1>5, <1>6 DEF SortTypes, Stages
<1>10. ASSUME NEW q \in Rank
       PROVE  /\ ~ IsCounted(q)' /\ ~ HasSorted(q)' /\ ~ HasChecked(q)' /\ pc'[q] # "print"
              /\ HasSampled(q)'
  BY <1>1, <1>2 DEF SortTypes, IsCounted, HasSorted, HasChecked, HasSampled
<1>11. ASSUME NEW q \in Rank
       PROVE  Sampled(q)' /\ Sorted(q)' /\ Checked(q)' /\ Reduced(q)'
  BY <1>1, <1>10 DEF SortInv, Sampled, Sorted, Checked, Reduced
<1>12. ASSUME NEW q \in Rank
       PROVE  Uncut(q)' /\ CutAtPivots(q)'
  <2>1. CASE q = r
    <3>1. /\ HasCutData(q)' /\ input'[q] = input[q] /\ v'[q] = c.data
          /\ local_pivots'[q] = Pivots /\ local_block_sizes'[q] = c.sizes
      BY <1>1, <1>3, <2>1 DEF SortTypes, HasCutData
    <3> QED
      BY <1>7, <1>8, <2>1, <3>1 DEF Uncut, CutAtPivots
  <2>2. CASE q # r
    <3>1. /\ (HasCutData(q)' <=> HasCutData(q)) /\ input'[q] = input[q] /\ v'[q] = v[q]
          /\ local_pivots'[q] = local_pivots[q] /\ local_block_sizes'[q] = local_block_sizes[q]
      BY <1>1, <1>3, <2>2 DEF SortTypes, HasCutData
    <3> QED
      BY <1>7, <3>1 DEF SortInv, Uncut, CutAtPivots
  <2> QED
    BY <2>1, <2>2
<1>13. ASSUME NEW p \in Rank, NEW q \in Rank
       PROVE  Together(p, q)'
  BY <1>10 DEF Together
<1> QED
  BY <1>9, <1>11, <1>12, <1>13 DEF SortInv

\* The steps after the data are cut leave them, the samples and the pivots alone.
LEMMA DataStay ==
  ASSUME SortInv, NEW r \in Rank, HasCutData(r),
         pc' \in [Rank -> Stages], \A q \in Rank : q # r => pc'[q] = pc[q], HasCutData(r)',
         UNCHANGED <<input, v, samples, local_pivots, local_block_sizes>>
  PROVE  \A q \in Rank : Sampled(q)' /\ Uncut(q)' /\ CutAtPivots(q)'
<1>1. Pivots' = Pivots
  BY SamePivots
<1>2. ASSUME NEW q \in Rank
      PROVE  /\ (HasCutData(q)' <=> HasCutData(q))
             /\ (HasSampled(q)' <=> HasSampled(q))
  <2>1. CASE q = r
    BY <2>1 DEF HasCutData, HasSampled
  <2>2. CASE q # r
    BY <2>2 DEF HasCutData, HasSampled
  <2> QED
    BY <2>1, <2>2
<1>3. ASSUME NEW q \in Rank
      PROVE  Sampled(q)' /\ Uncut(q)'
  BY <1>2 DEF SortInv, Sampled, Uncut
<1>4. ASSUME NEW q \in Rank
      PROVE  CutAtPivots(q)'
  BY <1>1, <1>2 DEF SortInv, CutAtPivots
<1> QED
  BY <1>3, <1>4

LEMMA CountedKeeps ==
  ASSUME SortInv, NEW r \in Rank, Counted(r)
  PROVE  SortInv'
<1>1. /\ SortTypes /\ pc[r] = "allgather blocks" /\ \A q \in Rank : HasCutData(q)
      /\ pc' = [pc EXCEPT ![r] = "alltoallv"]
      /\ UNCHANGED <<input, v, samples, local_pivots, local_block_sizes, v2,
                     i_have_dups, global_dups>>
  BY DEF SortInv, Counted, HasCutData
<1>2. SortTypes'
  BY <1>1 DEF SortTypes, Stages
<1>3. /\ pc' \in [Rank -> Stages] /\ pc'[r] = "alltoallv" /\ HasCutData(r)'
      /\ \A q \in Rank : q # r => pc'[q] = pc[q]
  BY <1>1, <1>2 DEF SortTypes, HasCutData
<1>4. \A q \in Rank : Sampled(q)' /\ Uncut(q)' /\ CutAtPivots(q)'
  BY <1>1, <1>3, DataStay
<1>5. ASSUME NEW q \in Rank
      PROVE  /\ (HasSorted(q)' <=> HasSorted(q)) /\ (HasChecked(q)' <=> HasChecked(q))
             /\ (pc'[q] = "print" <=> pc[q] = "print")
             /\ HasCutData(q)' /\ HasSampled(q)'
  <2>1. CASE q = r
    <3>1. pc[q] = "allgather blocks" /\ pc'[q] = "alltoallv"
      BY <1>1, <1>3, <2>1
    <3> QED
      BY <3>1 DEF HasSorted, HasChecked, HasCutData, HasSampled
  <2>2. CASE q # r
    BY <1>1, <1>3, <2>2 DEF HasSorted, HasChecked, HasCutData, HasSampled
  <2> QED
    BY <2>1, <2>2
<1>6. \A q \in Rank : Received(q)' = Received(q)
  BY <1>1, SameReceived
<1>7. ASSUME NEW q \in Rank
      PROVE  Sorted(q)' /\ Checked(q)' /\ Reduced(q)'
  BY <1>1, <1>5, <1>6 DEF SortInv, Sorted, Checked, Reduced
<1>8. ASSUME NEW p \in Rank, NEW q \in Rank
      PROVE  Together(p, q)'
  BY <1>5 DEF SortInv, Together
<1> QED
  BY <1>2, <1>4, <1>7, <1>8 DEF SortInv

LEMMA RedistributeKeeps ==
  ASSUME SortInv, NEW r \in Rank, Redistribute(r)
  PROVE  SortInv'
<1>1. /\ SortTypes /\ pc[r] = "alltoallv" /\ HasCutData(r) /\ IsCounted(r)
      /\ v2' = [v2 EXCEPT ![r] = qsort(Received(r))]
      /\ pc' = [pc EXCEPT ![r] = "check"]
      /\ UNCHANGED <<input, v, samples, local_pivots, local_block_sizes, i_have_dups, global_dups>>
  BY DEF SortInv, Redistribute, HasCutData, IsCounted
<1>2. \A q \in Rank : HasCutData(q)
  BY <1>1 DEF SortInv, Together
<1>3. qsort(Received(r)) \in Seq(Int)
  BY <1>2, SortsReceived
<1>4. SortTypes'
  BY <1>1, <1>3 DEF SortTypes, Stages
<1>5. /\ pc' \in [Rank -> Stages] /\ pc'[r] = "check" /\ HasCutData(r)'
      /\ \A q \in Rank : q # r => pc'[q] = pc[q]
  BY <1>1, <1>4 DEF SortTypes, HasCutData
<1>6. \A q \in Rank : Sampled(q)' /\ Uncut(q)' /\ CutAtPivots(q)'
  BY <1>1, <1>5, DataStay
<1>7. ASSUME NEW q \in Rank
      PROVE  /\ (HasChecked(q)' <=> HasChecked(q)) /\ (pc'[q] = "print" <=> pc[q] = "print")
             /\ HasCutData(q)' /\ HasSampled(q)'
  <2>1. CASE q = r
    <3>1. pc[q] = "alltoallv" /\ pc'[q] = "check"
      BY <1>1, <1>5, <2>1
    <3> QED
      BY <3>1 DEF HasChecked, HasCutData, HasSampled
  <2>2. CASE q # r
    BY <1>1, <1>2, <1>5, <2>2 DEF HasChecked, HasCutData, HasSampled
  <2> QED
    BY <2>1, <2>2
<1>8. \A q \in Rank : Received(q)' = Received(q)
  BY <1>1, SameReceived
<1>9. ASSUME NEW q \in Rank
      PROVE  Sorted(q)' /\ Checked(q)' /\ Reduced(q)'
  <2>1. CASE q = r
    <3>1. v2'[r] = qsort(Received(r)) /\ ~ HasChecked(r)' /\ pc'[r] # "print"
      BY <1>1, <1>5 DEF SortTypes, HasChecked
    <3> QED
      BY <1>8, <2>1, <3>1 DEF Sorted, Checked, Reduced
  <2>2. CASE q # r
    <3>1. v2'[q] = v2[q] /\ (HasSorted(q)' <=> HasSorted(q))
      BY <1>1, <1>5, <2>2 DEF SortTypes, HasSorted
    <3> QED
      BY <1>1, <1>7, <1>8, <3>1 DEF SortInv, Sorted, Checked, Reduced
  <2> QED
    BY <2>1, <2>2
<1>10. ASSUME NEW p \in Rank, NEW q \in Rank
       PROVE  Together(p, q)'
  BY <1>7 DEF SortInv, Together
<1> QED
  BY <1>4, <1>6, <1>9, <1>10 DEF SortInv

LEMMA CheckUniqueKeeps ==
  ASSUME SortInv, NEW r \in Rank, CheckUnique(r)
  PROVE  SortInv'
<1> DEFINE found == IF is_unique(v2[r]) THEN 0 ELSE 1
<1>1. /\ SortTypes /\ pc[r] = "check" /\ HasCutData(r) /\ IsCounted(r) /\ ~ HasChecked(r)
      /\ i_have_dups' = [i_have_dups EXCEPT ![r] = found]
      /\ pc' = [pc EXCEPT ![r] = "allreduce"]
      /\ UNCHANGED <<input, v, samples, local_pivots, local_block_sizes, v2, global_dups>>
  BY DEF SortInv, CheckUnique, HasCutData, IsCounted, HasChecked
<1>2. \A q \in Rank : HasCutData(q) /\ pc[q] # "print"
  BY <1>1 DEF SortInv, Together
<1>3. found \in {0, 1} /\ found = IF is_unique(v2[r]) THEN 0 ELSE 1
  OBVIOUS
<1> HIDE DEF found
<1>4. SortTypes'
  BY <1>1, <1>3 DEF SortTypes, Stages
<1>5. /\ pc' \in [Rank -> Stages] /\ pc'[r] = "allreduce" /\ HasCutData(r)'
      /\ \A q \in Rank : q # r => pc'[q] = pc[q]
  BY <1>1, <1>4 DEF SortTypes, HasCutData
<1>6. \A q \in Rank : Sampled(q)' /\ Uncut(q)' /\ CutAtPivots(q)'
  BY <1>1, <1>5, DataStay
<1>7. ASSUME NEW q \in Rank
      PROVE  /\ (HasSorted(q)' <=> HasSorted(q)) /\ pc'[q] # "print"
             /\ HasCutData(q)' /\ HasSampled(q)'
  <2>1. CASE q = r
    <3>1. pc[q] = "check" /\ pc'[q] = "allreduce"
      BY <1>1, <1>5, <2>1
    <3> QED
      BY <3>1 DEF HasSorted, HasCutData, HasSampled
  <2>2. CASE q # r
    BY <1>1, <1>2, <1>5, <2>2 DEF HasSorted, HasCutData, HasSampled
  <2> QED
    BY <2>1, <2>2
<1>8. \A q \in Rank : Received(q)' = Received(q)
  BY <1>1, SameReceived
<1>9. ASSUME NEW q \in Rank
      PROVE  Sorted(q)' /\ Checked(q)' /\ Reduced(q)'
  <2>1. Sorted(q)' /\ Reduced(q)'
    BY <1>1, <1>7, <1>8 DEF SortInv, Sorted, Reduced
  <2>2. Checked(q)'
    <3>1. CASE q = r
      <4>1. i_have_dups'[r] = found
        BY <1>1 DEF SortTypes
      <4> QED
        BY <1>1, <1>3, <3>1, <4>1 DEF Checked
    <3>2. CASE q # r
      <4>1. i_have_dups'[q] = i_have_dups[q] /\ (HasChecked(q)' <=> HasChecked(q))
        BY <1>1, <1>5, <3>2 DEF SortTypes, HasChecked
      <4> QED
        BY <1>1, <4>1 DEF SortInv, Checked
    <3> QED
      BY <3>1, <3>2
  <2> QED
    BY <2>1, <2>2
<1>10. ASSUME NEW p \in Rank, NEW q \in Rank
       PROVE  Together(p, q)'
  BY <1>7 DEF Together
<1> QED
  BY <1>4, <1>6, <1>9, <1>10 DEF SortInv

LEMMA ReduceKeeps ==
  ASSUME SortInv, NEW r \in Rank, Reduce(r)
  PROVE  SortInv'
<1> DEFINE found == IF \E q \in Rank : i_have_dups[q] = 1 THEN 1 ELSE 0
<1>1. /\ SortTypes /\ pc[r] = "allreduce" /\ HasCutData(r) /\ \A q \in Rank : HasChecked(q)
      /\ global_dups' = [global_dups EXCEPT ![r] = found]
      /\ pc' = [pc EXCEPT ![r] = "print"]
      /\ UNCHANGED <<input, v, samples, local_pivots, local_block_sizes, v2, i_have_dups>>
  BY DEF SortInv, Reduce, HasCutData, HasChecked
<1>2. found \in {0, 1} /\ found' = found
  BY <1>1
<1>3. found = IF \E q \in Rank : i_have_dups[q] = 1 THEN 1 ELSE 0
  OBVIOUS
<1>4. ASSUME NEW q \in Rank
      PROVE  (pc[q] = "print" => global_dups[q] = found) /\ (Reduced(q)' <=> (pc'[q] = "print" => global_dups'[q] = found))
  BY <1>1, <1>2 DEF SortInv, Reduced
<1> HIDE DEF found
<1>5. SortTypes'
  BY <1>1, <1>2 DEF SortTypes, Stages
<1>6. /\ pc' \in [Rank -> Stages] /\ pc'[r] = "print" /\ HasCutData(r)'
      /\ \A q \in Rank : q # r => pc'[q] = pc[q]
  BY <1>1, <1>5 DEF SortTypes, HasCutData
<1>7. \A q \in Rank : Sampled(q)' /\ Uncut(q)' /\ CutAtPivots(q)'
  BY <1>1, <1>6, DataStay
<1>8. ASSUME NEW q \in Rank
      PROVE  /\ (HasSorted(q)' <=> HasSorted(q)) /\ (HasChecked(q)' <=> HasChecked(q)) /\ HasChecked(q)'
             /\ HasCutData(q)' /\ HasSampled(q)'
  <2>1. CASE q = r
    BY <1>1, <1>6, <2>1 DEF HasSorted, HasChecked, HasCutData, HasSampled
  <2>2. CASE q # r
    BY <1>1, <1>6, <2>2 DEF HasSorted, HasChecked, HasCutData, HasSampled
  <2> QED
    BY <2>1, <2>2
<1>9. \A q \in Rank : Received(q)' = Received(q)
  BY <1>1, SameReceived
<1>10. ASSUME NEW q \in Rank
       PROVE  Sorted(q)' /\ Checked(q)'
  BY <1>1, <1>8, <1>9 DEF SortInv, Sorted, Checked
<1>11. ASSUME NEW q \in Rank
       PROVE  Reduced(q)'
  <2>1. CASE q = r
    BY <1>1, <1>4, <2>1 DEF SortTypes
  <2>2. CASE q # r
    <3>1. global_dups'[q] = global_dups[q] /\ pc'[q] = pc[q]
      BY <1>1, <1>6, <2>2 DEF SortTypes
    <3> QED
      BY <1>4, <3>1
  <2> QED
    BY <2>1, <2>2
<1>12. ASSUME NEW p \in Rank, NEW q \in Rank
       PROVE  Together(p, q)'
  BY <1>8 DEF Together
<1> QED
  BY <1>5, <1>7, <1>10, <1>11, <1>12 DEF SortInv

LEMMA StutterKeeps ==
  ASSUME SortInv, UNCHANGED psvars
  PROVE  SortInv'
<1>1. Pivots' = Pivots /\ \A r \in Rank : Received(r)' = Received(r)
  BY SamePivots, SameReceived DEF psvars
<1>2. SortTypes'
  BY DEF SortInv, SortTypes, psvars
<1>3. ASSUME NEW r \in Rank
      PROVE  /\ Sampled(r)' /\ Uncut(r)' /\ CutAtPivots(r)'
             /\ Sorted(r)' /\ Checked(r)' /\ Reduced(r)'
  BY <1>1 DEF SortInv, psvars, Sampled, Uncut, CutAtPivots, Sorted, Checked, Reduced,
              HasSampled, HasCutData, HasSorted, HasChecked
<1>4. ASSUME NEW q \in Rank, NEW r \in Rank
      PROVE  Together(q, r)'
  BY DEF SortInv, psvars, Together, HasSampled, HasCutData, IsCounted, HasChecked
<1> QED
  BY <1>2, <1>3, <1>4 DEF SortInv

(* For any number of ranks, any N from 2 on and any integers: every rank   *)
(* has cut its own input at the pivots that all samples give, what it has  *)
(* sorted is what the others cut for it, and no rank is a collective ahead *)
(* of one that has not called it.                                          *)
THEOREM SortInvariance == SortSpec => []SortInv
<1>1. SortInv /\ [SortNext]_psvars => SortInv'
  <2> SUFFICES ASSUME SortInv, [SortNext]_psvars
               PROVE  SortInv'
    OBVIOUS
  <2>1. ASSUME NEW r \in Rank, SortStep(r)
        PROVE  SortInv'
    <3>1. CASE Sample(r)
      BY <3>1, SampleKeeps
    <3>2. CASE CutLocal(r)
      BY <3>2, CutLocalKeeps
    <3>3. CASE Counted(r)
      BY <3>3, CountedKeeps
    <3>4. CASE Redistribute(r)
      BY <3>4, RedistributeKeeps
    <3>5. CASE CheckUnique(r)
      BY <3>5, CheckUniqueKeeps
    <3>6. CASE Reduce(r)
      BY <3>6, ReduceKeeps
    <3> QED
      BY <2>1, <3>1, <3>2, <3>3, <3>4, <3>5, <3>6 DEF SortStep
  <2>2. CASE UNCHANGED psvars
    BY <2>2, StutterKeeps
  <2> QED
    BY <2>1, <2>2 DEF SortNext, SortTerminating
<1> QED
  BY <1>1, SortStarts, PTL DEF SortSpec

-----------------------------------------------------------------------------
(* What the invariant means for the data.                                  *)

(* All ranks cut at the same pivots, so that what one of them cuts for     *)
(* rank i lies between pivots i-1 and i of every other.                    *)
THEOREM PiecesForAll == SortSpec => []PiecesBetweenPivots
<1>1. SortInv => PiecesBetweenPivots
  <2> SUFFICES ASSUME SortInv, NEW r \in Rank, local_block_sizes[r] # <<>>,
                      NEW i \in Rank, NEW q \in Rank, NEW x \in Range(Piece(r, i)),
                      local_pivots[q] # <<>>
               PROVE  /\ i > 0 => local_pivots[q][i] <= x
                      /\ i < size - 1 => x < local_pivots[q][i+1]
    BY DEF PiecesBetweenPivots
  <2>1. HasCutData(r) /\ HasCutData(q)
    BY DEF SortInv, Uncut
  <2>2. local_pivots[q] = Pivots
    BY <2>1 DEF SortInv, CutAtPivots
  <2>3. Within(i, x, Pivots)
    BY <2>1, HasItsCut, PieceWithin
  <2> QED
    BY <2>2, <2>3 DEF Within
<1> QED
  BY <1>1, SortInvariance, PTL

\* Where a number comes from.
LEMMA ReceivedWithin ==
  ASSUME SortInv, \A q \in Rank : HasCutData(q), NEW r \in Rank, NEW x \in Range(Received(r))
  PROVE  Within(r, x, Pivots) /\ x \in Int /\ x \in Values
<1>1. PICK q \in Rank : x \in Range(Piece(q, r))
  BY PiecesTyped, ReceivedIs
<1>2. PICK P : HasCut(q, P, input[q], Pivots)
  BY AllCut
<1>3. Within(r, x, Pivots) /\ x \in Int /\ x \in Range(v[q])
  BY <1>1, <1>2, PieceWithin
<1>4. v[q] \in [1..N -> Int] /\ SameNumbers(v[q], input[q])
  BY <1>2 DEF HasCut, IsCut
<1>5. input[q] \in [1..N -> Values]
  BY DEF SortInv, SortTypes
<1>6. DOMAIN v[q] = 1..N /\ DOMAIN input[q] = 1..N /\ N \in Nat
  BY <1>4, <1>5, Sizes
<1>7. Occ(v[q], x) # 0
  BY <1>3, <1>6, InRange
<1>8. Occ(input[q], x) # 0
  BY <1>4, <1>7 DEF SameNumbers
<1>9. x \in Range(input[q])
  BY <1>6, <1>8, InRange
<1>10. x \in Values
  BY <1>5, <1>9 DEF Range
<1> QED
  BY <1>3, <1>10

\* A rank gets every copy there is of a number that is for it.
LEMMA ReceivedHasAll ==
  ASSUME SortInv, \A q \in Rank : HasCutData(q), NEW r \in Rank,
         NEW x \in Int, Within(r, x, Pivots)
  PROVE  Occ(Received(r), x) = Count(input, x)
<1> DEFINE f == ReceivedUpTo(r)
           h == [n \in 0..size |-> Occ(f[n], x)]
           e == [q \in Rank |-> Occ(Piece(q, r), x)]
<1>1. /\ f \in [0..size -> Seq(Int)] /\ f[0] = <<>>
      /\ \A n \in 1..size : n-1 \in Rank /\ f[n] = f[n-1] \o Piece(n-1, r)
  BY PiecesTyped, ReceivedSteps
<1>2. size \in Nat \ {0} /\ Rank = 0..size-1 /\ N \in Nat
  BY Sizes DEF Rank
<1>3. \A q \in Rank : Piece(q, r) \in Seq(Int)
  BY PiecesTyped
<1> HIDE DEF f
<1>4. Adds(h, e, size)
  <2>1. \A s \in Seq(Int) : Occ(s, x) \in Nat
    BY OccConcat
  <2>2. h \in [0..size -> Nat]
    BY <1>1, <2>1
  <2>3. h[0] = 0
    <3>1. Places(<<>>, x) = {}
      BY DEF Places
    <3>2. Occ(<<>>, x) = 0
      BY <3>1, FS_EmptySet DEF Occ
    <3> QED
      BY <1>1, <1>2, <3>2
  <2>4. ASSUME NEW n \in 1..size
        PROVE  h[n] = h[n-1] + e[n-1]
    <3>1. n-1 \in Rank /\ n-1 \in 0..size /\ n \in 0..size
      BY <1>1, <1>2
    <3>2. f[n] = f[n-1] \o Piece(n-1, r) /\ f[n-1] \in Seq(Int) /\ Piece(n-1, r) \in Seq(Int)
      BY <1>1, <1>3, <3>1
    <3>3. Occ(f[n], x) = Occ(f[n-1], x) + Occ(Piece(n-1, r), x)
      BY <3>2, OccConcat
    <3> QED
      BY <3>1, <3>3
  <2> HIDE DEF h, e
  <2> QED
    BY <2>2, <2>3, <2>4 DEF Adds
<1>5. ASSUME NEW q \in Rank
      PROVE  /\ IsFiniteSet(Places(input[q], x)) /\ Occ(input[q], x) \in Nat
             /\ Occs(input, x)[q] = e[q]
  <2>1. PICK P : HasCut(q, P, input[q], Pivots)
    BY AllCut
  <2>2. DOMAIN input[q] = 1..N
    BY DEF SortInv, SortTypes
  <2>3. SameNumbers(v[q], input[q])
    BY <2>1 DEF HasCut, IsCut
  <2>4. Occ(Piece(q, r), x) = Occ(v[q], x)
    BY <2>1, AllCut, PieceHasAll
  <2>5. Occ(v[q], x) = Occ(input[q], x)
    BY <2>3 DEF SameNumbers
  <2>6. IsFiniteSet(Places(input[q], x)) /\ Occ(input[q], x) \in Nat
    BY <1>2, <2>2, OccType
  <2> QED
    BY <2>4, <2>5, <2>6 DEF Occs
<1>6. PICK g : Adds(g, Occs(input, x), size) /\ g[size] = Count(input, x)
  BY <1>5, CountAdds
<1>7. h[size] = Occ(Received(r), x)
  BY <1>2, ReceivedUnfolds DEF f
<1> HIDE DEF h, e
<1>8. g[size] = h[size]
  BY <1>2, <1>4, <1>5, <1>6, AddsSame
<1> QED
  BY <1>6, <1>7, <1>8

\* What a rank holds in the end.
Holds(r, n) ==
  /\ InOrder(v2[r], n) /\ n \in Nat /\ DOMAIN v2[r] = 1..n
  /\ \A x \in Range(v2[r]) : Within(r, x, Pivots) /\ x \in Int /\ x \in Values
  /\ \A x \in Int : Within(r, x, Pivots) => Occ(v2[r], x) = Count(input, x)

LEMMA AtPrint ==
  ASSUME SortInv, AllPrint
  PROVE  /\ Ascending(Pivots)
         /\ \A r \in Rank : \E n : Holds(r, n)
<1>1. \A q \in Rank : HasCutData(q) /\ HasSorted(q)
  BY DEF AllPrint, HasCutData, HasSorted
<1>2. Ascending(Pivots)
  BY <1>1, AllCut
<1>3. ASSUME NEW r \in Rank
      PROVE  \E n : Holds(r, n)
  <2> DEFINE s == Received(r)
             n == Len(Received(r))
  <2>1. v2[r] = qsort(s)
    BY <1>1 DEF SortInv, Sorted
  <2>2. s \in Seq(Int) /\ InOrder(qsort(s), n) /\ SameNumbers(qsort(s), s)
    BY <1>1, SortsReceived
  <2>3. n \in Nat /\ DOMAIN s = 1..n
    BY <2>2
  <2>4. \A x \in Range(s) : Within(r, x, Pivots) /\ x \in Int /\ x \in Values
    BY <1>1, ReceivedWithin
  <2>5. \A x \in Int : Within(r, x, Pivots) => Occ(s, x) = Count(input, x)
    BY <1>1, ReceivedHasAll
  <2> HIDE DEF s, n
  <2>6. InOrder(v2[r], n) /\ SameNumbers(v2[r], s) /\ DOMAIN v2[r] = 1..n
    BY <2>1, <2>2 DEF InOrder
  <2>7. \A x : Occ(v2[r], x) = Occ(s, x)
    BY <2>6 DEF SameNumbers
  <2>8. ASSUME NEW x \in Range(v2[r])
        PROVE  x \in Range(s)
    BY <2>3, <2>6, <2>7, InRange
  <2> QED
    BY <2>3, <2>4, <2>5, <2>6, <2>7, <2>8 DEF Holds
<1> QED
  BY <1>2, <1>3

\* No number is lost or made up.
LEMMA SameCount ==
  ASSUME SortInv, AllPrint, NEW x \in Int
  PROVE  Count(v2, x) = Count(input, x)
<1>1. Ascending(Pivots) /\ \A q \in Rank : \E n : Holds(q, n)
  BY AtPrint
<1>2. PICK r \in Rank : Within(r, x, Pivots)
  BY <1>1, SomePiece
<1>3. ASSUME NEW q \in Rank
      PROVE  /\ IsFiniteSet(Places(v2[q], x)) /\ Occ(v2[q], x) \in Nat
             /\ q # r => Occ(v2[q], x) = 0
  <2>1. PICK n : Holds(q, n)
    BY <1>1
  <2>2. n \in Nat /\ DOMAIN v2[q] = 1..n
    BY <2>1 DEF Holds
  <2>3. IsFiniteSet(Places(v2[q], x)) /\ Occ(v2[q], x) \in Nat
    BY <2>2, OccType
  <2>4. ASSUME Occ(v2[q], x) # 0
        PROVE  q = r
    <3>1. x \in Range(v2[q])
      BY <2>2, <2>4, InRange
    <3>2. Within(q, x, Pivots)
      BY <2>1, <3>1 DEF Holds
    <3> QED
      BY <1>1, <1>2, <3>2, OnePiece
  <2> QED
    BY <2>3, <2>4
<1>4. PICK g : Adds(g, Occs(v2, x), size) /\ g[size] = Count(v2, x)
  BY <1>3, CountAdds
<1>5. /\ size \in Nat /\ r \in 0..size-1 /\ Occs(v2, x)[r] \in Nat
      /\ \A i \in 0..size-1 : i # r => Occs(v2, x)[i] = 0
  BY <1>3, Sizes DEF Rank, Occs
<1>6. g[size] = Occs(v2, x)[r]
  BY <1>4, <1>5, AddsOne
<1>7. Occ(v2[r], x) = Count(input, x)
  BY <1>1, <1>2 DEF Holds
<1> QED
  BY <1>4, <1>6, <1>7 DEF Occs

(* When all ranks are through, the numbers of a rank are not above those of *)
(* the next one and ascend, and every number is there as often as in the    *)
(* input, however many ranks and numbers there are.                         *)
THEOREM SortsForAll == SortSpec => []SortsTheData
<1>1. SortInv => SortsTheData
  <2> SUFFICES ASSUME SortInv, AllPrint
               PROVE  /\ \A q, r \in Rank : \A i \in DOMAIN v2[q], j \in DOMAIN v2[r] :
                           (q < r \/ (q = r /\ i < j)) => v2[q][i] <= v2[r][j]
                      /\ \A x \in Values : Count(v2, x) = Count(input, x)
    BY DEF SortsTheData
  <2>1. Ascending(Pivots) /\ \A q \in Rank : \E n : Holds(q, n)
    BY AtPrint
  <2>2. ASSUME NEW q \in Rank, NEW r \in Rank, NEW i \in DOMAIN v2[q], NEW j \in DOMAIN v2[r],
               q < r \/ (q = r /\ i < j)
        PROVE  v2[q][i] <= v2[r][j]
    <3>1. PICK n : Holds(q, n)
      BY <2>1
    <3>2. CASE q < r
      <4> DEFINE x == v2[q][i]
                 y == v2[r][j]
      <4>1. x \in Range(v2[q]) /\ y \in Range(v2[r])
        BY DEF Range
      <4> HIDE DEF x, y
      <4>2. Within(q, x, Pivots) /\ x \in Int
        BY <3>1, <4>1 DEF Holds
      <4>3. Within(r, y, Pivots) /\ y \in Int
        BY <2>1, <4>1 DEF Holds
      <4>4. x < y
        BY <2>1, <3>2, <4>2, <4>3, PiecesApart
      <4>5. x <= y
        BY <4>2, <4>3, <4>4
      <4> QED
        BY <4>5 DEF x, y
    <3>3. CASE q = r /\ i < j
      <4>1. i \in 1..n /\ j \in 1..n /\ i <= j /\ InOrder(v2[q], n)
        BY <3>1, <3>3 DEF Holds
      <4> QED
        BY <3>3, <4>1 DEF InOrder
    <3> QED
      BY <2>2, <3>2, <3>3
  <2>3. ASSUME NEW x \in Values
        PROVE  Count(v2, x) = Count(input, x)
    BY SortAssumption, SameCount
  <2> QED
    BY <2>2, <2>3
<1> QED
  BY <1>1, SortInvariance, PTL

(* A rank that looks at its own numbers only finds a duplicate exactly if   *)
(* one of them occurs twice in the whole data, and the ranks together find  *)
(* one exactly if there is one.                                             *)
THEOREM DuplicatesForAll == SortSpec => []FindsAllDuplicates
<1>1. SortInv => FindsAllDuplicates
  <2> SUFFICES ASSUME SortInv, AllPrint
               PROVE  /\ \A r \in Rank : i_have_dups[r] = 1 <=>
                           \E x \in Range(v2[r]) : Count(input, x) > 1
                      /\ \A r \in Rank : global_dups[r] = 1 <=>
                           \E x \in Values : Count(input, x) > 1
    BY DEF FindsAllDuplicates
  <2>1. Ascending(Pivots) /\ \A q \in Rank : \E n : Holds(q, n)
    BY AtPrint
  <2>2. ASSUME NEW r \in Rank
        PROVE  i_have_dups[r] = 1 <=> \E x \in Range(v2[r]) : Count(input, x) > 1
    <3>1. PICK n : Holds(r, n)
      BY <2>1
    <3>2. i_have_dups[r] = IF is_unique(v2[r]) THEN 0 ELSE 1
      BY DEF SortInv, Checked, AllPrint, HasChecked
    <3>3. is_unique(v2[r]) <=> \A x \in Range(v2[r]) : ~(Occ(v2[r], x) > 1)
      BY <3>1, Neighbours DEF Holds
    <3>4. \A x \in Range(v2[r]) : Occ(v2[r], x) = Count(input, x)
      BY <3>1 DEF Holds
    <3>5. is_unique(v2[r]) <=> ~ \E x \in Range(v2[r]) : Count(input, x) > 1
      BY <3>3, <3>4
    <3> QED
      BY <3>2, <3>5
  <2>3. ASSUME NEW r \in Rank
        PROVE  global_dups[r] = 1 <=> \E x \in Values : Count(input, x) > 1
    <3>1. global_dups[r] = IF \E q \in Rank : i_have_dups[q] = 1 THEN 1 ELSE 0
      BY DEF SortInv, Reduced, AllPrint
    <3>2. ASSUME NEW q \in Rank, i_have_dups[q] = 1
          PROVE  \E x \in Values : Count(input, x) > 1
      <4>1. PICK x \in Range(v2[q]) : Count(input, x) > 1
        BY <2>2, <3>2
      <4>2. x \in Values
        BY <2>1 DEF Holds
      <4> QED
        BY <4>1, <4>2
    <3>3. ASSUME NEW x \in Values, Count(input, x) > 1
          PROVE  \E q \in Rank : i_have_dups[q] = 1
      <4>1. x \in Int
        BY SortAssumption
      <4>2. PICK q \in Rank : Within(q, x, Pivots)
        BY <2>1, <4>1, SomePiece
      <4>3. PICK n : Holds(q, n)
        BY <2>1
      <4>4. Occ(v2[q], x) = Count(input, x) /\ n \in Nat /\ DOMAIN v2[q] = 1..n
        BY <4>1, <4>2, <4>3 DEF Holds
      <4>5. Occ(v2[q], x) # 0
        BY <3>3, <4>4
      <4>6. x \in Range(v2[q])
        BY <4>4, <4>5, InRange
      <4> QED
        BY <2>2, <3>3, <4>6
    <3> QED
      BY <3>1, <3>2, <3>3
  <2> QED
    BY <2>2, <2>3
<1> QED
  BY <1>1, SortInvariance, PTL
=============================================================================
