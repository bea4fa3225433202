---------------------------- MODULE OffsetsProof ----------------------------
(***************************************************************************)
(* Lemmas about offsets: what adding up the sizes of blocks gives, however *)
(* many blocks there are.  They rest on induction, over numbers and over   *)
(* finite sets.  The property to be shown is given by the set of those     *)
(* that have it: the least number, or the smallest set, that does not have *)
(* it leads to a contradiction.                                            *)
(***************************************************************************)
EXTENDS Offsets, FiniteSetTheorems, WellFoundedInduction, TLAPS

-----------------------------------------------------------------------------
(* Induction.                                                              *)

LEMMA Minimum ==
  ASSUME NEW T \in SUBSET Nat, T # {}
  PROVE  \E x \in T : \A y \in T : x <= y
<1> DEFINE R == OpToRel(<, Nat)
<1>1. IsWellFoundedOn(R, Nat)
  BY NatLessThanWellFounded
<1>2. \A x, y \in Nat : <<y, x>> \in R <=> y < x
  BY DEF OpToRel
<1> HIDE DEF R
<1>3. PICK x \in T : \A y \in T : <<y, x>> \notin R
  BY <1>1, WFMin
<1>4. ASSUME NEW y \in T
      PROVE  x <= y
  <2>1. x \in Nat /\ y \in Nat /\ ~(y < x)
    BY <1>2, <1>3
  <2> QED
    BY <2>1
<1> QED
  BY <1>4

LEMMA Induction ==
  ASSUME NEW n \in Nat, NEW T, 0 \in T, \A i \in 1..n : i-1 \in T => i \in T
  PROVE  \A i \in 0..n : i \in T
<1> DEFINE B == {i \in 0..n : i \notin T}
<1> SUFFICES ASSUME B # {}
             PROVE  FALSE
  OBVIOUS
<1>1. B \in SUBSET Nat
  OBVIOUS
<1>2. PICK x \in B : \A y \in B : x <= y
  BY <1>1, Minimum
<1>3. x \in 1..n /\ x-1 \in 0..n
  OBVIOUS
<1>4. x-1 \notin B
  BY <1>2, <1>3
<1> QED
  BY <1>3, <1>4

LEMMA SetInduction ==
  ASSUME NEW S, IsFiniteSet(S), NEW T, {} \in T,
         \A U \in SUBSET S : U # {} /\ (\A V \in SUBSET U : V # U => V \in T) => U \in T
  PROVE  \A U \in SUBSET S : U \in T
<1> DEFINE n == Cardinality(S)
           M == {m \in 0..n : \A U \in SUBSET S : Cardinality(U) <= m => U \in T}
<1>1. n \in Nat
  BY FS_CardinalityType
<1>2. ASSUME NEW U \in SUBSET S
      PROVE  /\ IsFiniteSet(U) /\ Cardinality(U) \in 0..n
             /\ Cardinality(U) = 0 => U = {}
  <2>1. IsFiniteSet(U) /\ Cardinality(U) <= n
    BY FS_Subset
  <2>2. Cardinality(U) \in Nat /\ (Cardinality(U) = 0 <=> U = {})
    BY <2>1, FS_CardinalityType, FS_EmptySet
  <2> QED
    BY <1>1, <2>1, <2>2
<1>3. 0 \in M
  <2>1. ASSUME NEW U \in SUBSET S, Cardinality(U) <= 0
        PROVE  U \in T
    <3>1. Cardinality(U) \in 0..n
      BY <1>2
    <3>2. Cardinality(U) = 0
      BY <1>1, <2>1, <3>1
    <3> QED
      BY <1>2, <3>2
  <2> QED
    BY <1>1, <2>1
<1>4. ASSUME NEW i \in 1..n, i-1 \in M
      PROVE  i \in M
  <2>1. ASSUME NEW U \in SUBSET S, Cardinality(U) <= i
        PROVE  U \in T
    <3>1. CASE U = {}
      BY <3>1
    <3>2. CASE U # {}
      <4>1. ASSUME NEW V \in SUBSET U, V # U
            PROVE  V \in T
        <5>1. Cardinality(V) < Cardinality(U)
          BY <1>2, <4>1, FS_Subset
        <5>2. Cardinality(V) \in 0..n /\ Cardinality(U) \in 0..n
          BY <1>2
        <5>3. Cardinality(V) <= i-1
          BY <1>1, <2>1, <5>1, <5>2
        <5> QED
          BY <1>4, <5>3
      <4> QED
        BY <3>2, <4>1
    <3> QED
      BY <3>1, <3>2
  <2> QED
    BY <1>1, <2>1
<1> HIDE DEF M
<1>5. n \in M
  BY <1>1, <1>3, <1>4, Induction
<1> QED
  BY <1>1, <1>2, <1>5 DEF M

(* A function defined from its own value at the number before.             *)
Iterated(f, n, c, G) == f[0] = c /\ \A i \in 1..n : f[i] = G[i][f[i-1]]

LEMMA Iterates ==
  ASSUME NEW n \in Nat, NEW S, NEW c \in S, NEW G \in [1..n -> [S -> S]]
  PROVE  \E f \in [0..n -> S] : Iterated(f, n, c, G)
<1> DEFINE Upto(m) == \E f \in [0..m -> S] : f[0] = c /\ \A i \in 1..m : f[i] = G[i][f[i-1]]
           T == {m \in 0..n : Upto(m)}
<1>1. 0 \in T
  <2> DEFINE f == [i \in 0..0 |-> c]
  <2>1. f \in [0..0 -> S] /\ f[0] = c
    OBVIOUS
  <2>2. \A i \in 1..0 : f[i] = G[i][f[i-1]]
    OBVIOUS
  <2> HIDE DEF f
  <2>3. Upto(0)
    BY <2>1, <2>2
  <2> QED
    BY <2>3
<1>2. ASSUME NEW m \in 1..n, m-1 \in T
      PROVE  m \in T
  <2>1. PICK f \in [0..m-1 -> S] : f[0] = c /\ \A i \in 1..m-1 : f[i] = G[i][f[i-1]]
    BY <1>2
  <2> DEFINE g == [i \in 0..m |-> IF i = m THEN G[m][f[m-1]] ELSE f[i]]
  <2>2. m \in Nat /\ m # 0 /\ m-1 \in 0..m-1
    OBVIOUS
  <2>3. g \in [0..m -> S]
    BY <2>2
  <2>4. g[0] = c
    BY <2>1, <2>2
  <2>5. ASSUME NEW i \in 1..m
        PROVE  g[i] = G[i][g[i-1]]
    <3>1. i-1 \in 0..m /\ i-1 # m /\ g[i-1] = f[i-1]
      BY <2>2
    <3>2. CASE i = m
      BY <3>1, <3>2
    <3>3. CASE i # m
      <4>1. i \in 1..m-1 /\ g[i] = f[i]
        BY <2>2, <3>3
      <4> QED
        BY <2>1, <3>1, <4>1
    <3> QED
      BY <3>2, <3>3
  <2>6. Upto(m)
    BY <2>3, <2>4, <2>5
  <2> HIDE DEF Upto
  <2> QED
    BY <2>6
<1>3. \A i \in 0..n : i \in T
  <2> HIDE DEF T
  <2> QED
    BY <1>1, <1>2, Induction
<1> QED
  BY <1>3 DEF Iterated

-----------------------------------------------------------------------------
(* The sum of a function over a finite set, one element at a time.         *)

Chosen(U) == CHOOSE x \in U : TRUE

\* One step of the sum's recursion: the sums of all subsets of S from those of
\* smaller subsets.
SumStep(f, S, g) ==
  [U \in SUBSET S |-> IF U = {} THEN 0 ELSE f[Chosen(U)] + g[U \ {Chosen(U)}]]

SumsOf(f, S) == CHOOSE g : g = SumStep(f, S, g)

LEMMA SumUnfolds ==
  ASSUME NEW f, NEW S
  PROVE  SumFunctionOnSet(f, S) = SumsOf(f, S)[S]
BY DEF SumFunctionOnSet, FoldFunctionOnSet, MapThenFoldSet, SumsOf, SumStep, Chosen

LEMMA SumStepType ==
  ASSUME NEW D, NEW f \in [D -> Int], NEW S \in SUBSET D, NEW g \in [SUBSET S -> Int]
  PROVE  SumStep(f, S, g) \in [SUBSET S -> Int]
<1>1. ASSUME NEW U \in SUBSET S, U # {}
      PROVE  Chosen(U) \in U
  BY <1>1 DEF Chosen
<1>2. ASSUME NEW U \in SUBSET S, U # {}
      PROVE  f[Chosen(U)] + g[U \ {Chosen(U)}] \in Int
  BY <1>1, <1>2
<1> QED
  BY <1>2 DEF SumStep

LEMMA SumsExist ==
  ASSUME NEW D, NEW f \in [D -> Int], NEW S \in SUBSET D, IsFiniteSet(S)
  PROVE  \E g \in [SUBSET S -> Int] : g = SumStep(f, S, g)
<1> DEFINE n == Cardinality(S)
           F == [SUBSET S -> Int]
           G == [i \in 1..n |-> [g \in F |-> SumStep(f, S, g)]]
           c == SumStep(f, S, [U \in SUBSET S |-> 0])
<1>1. n \in Nat
  BY FS_CardinalityType
<1>2. c \in F
  <2>1. [U \in SUBSET S |-> 0] \in F
    OBVIOUS
  <2> QED
    BY <2>1, SumStepType
<1>3. \A i \in 1..n : \A g \in F : G[i][g] \in F /\ G[i][g] = SumStep(f, S, g)
  BY SumStepType
<1> HIDE DEF c, F, G, n
<1>4. PICK h \in [0..n -> F] : Iterated(h, n, c, G)
  <2>1. G \in [1..n -> [F -> F]]
    BY <1>3 DEF G
  <2> QED
    BY <1>1, <1>2, <2>1, Iterates
<1>5. /\ h[0] = c
      /\ \A i \in 1..n : h[i] = SumStep(f, S, h[i-1]) /\ h[i-1] \in F
  BY <1>1, <1>3, <1>4 DEF Iterated
<1> DEFINE Settled(i, U) == \A j \in i..n : h[j][U] = h[i][U]
           T == {i \in 0..n : \A U \in SUBSET S : Cardinality(U) <= i => Settled(i, U)}
<1>6. \A U \in SUBSET S : /\ IsFiniteSet(U) /\ Cardinality(U) \in 0..n
                          /\ Cardinality(U) = 0 => U = {}
                          /\ U # {} => /\ Chosen(U) \in U
                                       /\ Cardinality(U \ {Chosen(U)}) = Cardinality(U) - 1
  <2> SUFFICES ASSUME NEW U \in SUBSET S
               PROVE  /\ IsFiniteSet(U) /\ Cardinality(U) \in 0..n
                      /\ Cardinality(U) = 0 => U = {}
                      /\ U # {} => /\ Chosen(U) \in U
                                   /\ Cardinality(U \ {Chosen(U)}) = Cardinality(U) - 1
    OBVIOUS
  <2>1. IsFiniteSet(U) /\ Cardinality(U) <= n
    BY FS_Subset DEF n
  <2>2. Cardinality(U) \in Nat /\ (Cardinality(U) = 0 <=> U = {})
    BY <2>1, FS_CardinalityType, FS_EmptySet
  <2>3. U # {} => Chosen(U) \in U
    BY DEF Chosen
  <2>4. U # {} => Cardinality(U \ {Chosen(U)}) = Cardinality(U) - 1
    BY <2>1, <2>3, FS_RemoveElement
  <2> QED
    BY <1>1, <2>1, <2>2, <2>3, <2>4
<1>7. 0 \in T
  <2>1. ASSUME NEW U \in SUBSET S, Cardinality(U) <= 0, NEW j \in 0..n
        PROVE  h[j][U] = h[0][U]
    <3>1. Cardinality(U) \in 0..n
      BY <1>6
    <3>2. Cardinality(U) = 0
      BY <1>1, <2>1, <3>1
    <3>3. U = {}
      BY <1>6, <3>2
    <3>4. h[0][U] = 0
      BY <1>5, <3>3 DEF c, SumStep
    <3>5. j # 0 => j \in 1..n
      BY <1>1
    <3>6. j # 0 => h[j][U] = 0
      BY <1>5, <3>3, <3>5 DEF SumStep
    <3> QED
      BY <3>4, <3>6
  <2> QED
    BY <1>1, <2>1
<1>8. ASSUME NEW i \in 1..n, i-1 \in T
      PROVE  i \in T
  <2>1. ASSUME NEW U \in SUBSET S, Cardinality(U) <= i, NEW j \in i..n
        PROVE  h[j][U] = h[i][U]
    <3>1. j \in 1..n /\ j-1 \in i-1..n /\ i-1 \in i-1..n
      BY <1>1
    <3>2. h[j][U] = SumStep(f, S, h[j-1])[U] /\ h[i][U] = SumStep(f, S, h[i-1])[U]
      BY <1>5, <3>1
    <3>3. CASE U = {}
      BY <3>2, <3>3 DEF SumStep
    <3>4. CASE U # {}
      <4> DEFINE V == U \ {Chosen(U)}
      <4>1. V \in SUBSET S /\ Cardinality(V) <= i-1
        <5>1. Cardinality(V) = Cardinality(U) - 1 /\ Cardinality(U) \in 0..n
          BY <1>6, <3>4
        <5> QED
          BY <1>1, <2>1, <5>1
      <4>2. Settled(i-1, V)
        BY <1>8, <4>1
      <4>3. h[j-1][V] = h[i-1][V]
        BY <3>1, <4>2
      <4>4. \A g : SumStep(f, S, g)[U] = f[Chosen(U)] + g[V]
        BY <3>4 DEF SumStep
      <4> QED
        BY <3>2, <4>3, <4>4
    <3> QED
      BY <3>3, <3>4
  <2> QED
    BY <1>1, <2>1
<1>9. \A i \in 0..n : i \in T
  <2> HIDE DEF T
  <2> QED
    BY <1>1, <1>7, <1>8, Induction
<1>10. h[n] \in F
  BY <1>1, <1>4
<1>11. ASSUME NEW U \in SUBSET S
       PROVE  h[n][U] = SumStep(f, S, h[n])[U]
  <2>1. CASE n = 0
    <3>1. Cardinality(U) = 0
      <4>1. Cardinality(U) \in 0..n
        BY <1>6
      <4> QED
        BY <2>1, <4>1
    <3>2. U = {}
      BY <1>6, <3>1
    <3>3. h[n][U] = 0
      BY <1>5, <2>1, <3>2 DEF c, SumStep
    <3> QED
      BY <3>2, <3>3 DEF SumStep
  <2>2. CASE n # 0
    <3>1. n \in 1..n /\ n-1 \in 0..n /\ n \in n-1..n
      BY <1>1, <2>2
    <3>2. h[n][U] = SumStep(f, S, h[n-1])[U]
      BY <1>5, <3>1
    <3>3. CASE U = {}
      BY <3>2, <3>3 DEF SumStep
    <3>4. CASE U # {}
      <4> DEFINE V == U \ {Chosen(U)}
      <4>1. V \in SUBSET S /\ Cardinality(V) <= n-1
        <5>1. Cardinality(V) = Cardinality(U) - 1 /\ Cardinality(U) \in 0..n
          BY <1>6, <3>4
        <5> QED
          BY <1>1, <5>1
      <4>2. h[n][V] = h[n-1][V]
        BY <1>9, <3>1, <4>1
      <4>3. \A g : SumStep(f, S, g)[U] = f[Chosen(U)] + g[V]
        BY <3>4 DEF SumStep
      <4> QED
        BY <3>2, <4>2, <4>3
    <3> QED
      BY <3>3, <3>4
  <2> QED
    BY <2>1, <2>2
<1>12. h[n] = SumStep(f, S, h[n])
  <2>1. SumStep(f, S, h[n]) \in F
    BY <1>10, SumStepType DEF F
  <2> QED
    BY <1>10, <1>11, <2>1 DEF F
<1> QED
  BY <1>10, <1>12 DEF F

IsSums(g, f, S) == g = SumStep(f, S, g)

LEMMA SumsOfFixed ==
  ASSUME NEW D, NEW f \in [D -> Int], NEW S \in SUBSET D, IsFiniteSet(S)
  PROVE  IsSums(SumsOf(f, S), f, S)
BY SumsExist DEF SumsOf, IsSums

LEMMA SumsAt ==
  ASSUME NEW S, NEW f, NEW g, IsSums(g, f, S)
  PROVE  /\ g[{}] = 0
         /\ \A U \in SUBSET S : U # {} => g[U] = f[Chosen(U)] + g[U \ {Chosen(U)}]
<1>1. ASSUME NEW U \in SUBSET S
      PROVE  g[U] = IF U = {} THEN 0 ELSE f[Chosen(U)] + g[U \ {Chosen(U)}]
  <2>1. g[U] = SumStep(f, S, g)[U]
    BY DEF IsSums
  <2>2. SumStep(f, S, g)[U] = IF U = {} THEN 0 ELSE f[Chosen(U)] + g[U \ {Chosen(U)}]
    BY DEF SumStep
  <2> QED
    BY <2>1, <2>2
<1> QED
  BY <1>1

\* The sums of the subsets of S are also those of the subsets of a subset R.
LEMMA SumsRestrict ==
  ASSUME NEW D, NEW f \in [D -> Int], NEW S \in SUBSET D, IsFiniteSet(S),
         NEW R \in SUBSET S, NEW g, IsSums(g, f, S), NEW r, IsSums(r, f, R)
  PROVE  r[R] = g[R]
<1> DEFINE T == {U \in SUBSET R : r[U] = g[U]}
<1>1. IsFiniteSet(R)
  BY FS_Subset
<1>2. {} \in T
  <2>1. r[{}] = 0 /\ g[{}] = 0
    BY SumsAt
  <2> QED
    BY <2>1
<1>3. ASSUME NEW U \in SUBSET R, U # {}, \A V \in SUBSET U : V # U => V \in T
      PROVE  U \in T
  <2> DEFINE V == U \ {Chosen(U)}
  <2>1. V \in SUBSET U /\ V # U
    BY <1>3 DEF Chosen
  <2>2. r[V] = g[V]
    BY <1>3, <2>1
  <2>3. U # {} /\ U \in SUBSET S
    BY <1>3
  <2>4. r[U] = f[Chosen(U)] + r[V]
    BY <2>3, SumsAt
  <2>5. g[U] = f[Chosen(U)] + g[V]
    BY <2>3, SumsAt
  <2> QED
    BY <2>2, <2>4, <2>5
<1> HIDE DEF T
<1>4. R \in T
  <2>1. \A U \in SUBSET R : U \in T
    BY <1>1, <1>2, <1>3, SetInduction
  <2> QED
    BY <2>1
<1> QED
  BY <1>4 DEF T

LEMMA SumIs ==
  ASSUME NEW D, NEW f \in [D -> Int], NEW S \in SUBSET D, IsFiniteSet(S),
         NEW R \in SUBSET S
  PROVE  SumFunctionOnSet(f, R) = SumsOf(f, S)[R]
<1>1. IsFiniteSet(R)
  BY FS_Subset
<1>2. IsSums(SumsOf(f, S), f, S)
  BY SumsOfFixed
<1>3. IsSums(SumsOf(f, R), f, R)
  BY <1>1, SumsOfFixed
<1> QED
  BY <1>2, <1>3, SumUnfolds, SumsRestrict

(* What is added up first does not matter.                                 *)
LEMMA SumElement ==
  ASSUME NEW D, NEW f \in [D -> Int], NEW S \in SUBSET D, IsFiniteSet(S)
  PROVE  /\ SumFunctionOnSet(f, {}) = 0
         /\ SumFunctionOnSet(f, S) \in Int
         /\ \A x \in S : SumFunctionOnSet(f, S) = f[x] + SumFunctionOnSet(f, S \ {x})
<1> DEFINE g == SumsOf(f, S)
           T == {U \in SUBSET S : /\ g[U] \in Int
                                  /\ \A x \in U : g[U] = f[x] + g[U \ {x}]}
<1>1. IsSums(g, f, S)
  BY SumsOfFixed
<1>2. \A U \in SUBSET S : SumFunctionOnSet(f, U) = g[U]
  BY SumIs, Zenon
<1> HIDE DEF g, T
<1>3. /\ g[{}] = 0
      /\ \A U \in SUBSET S : U # {} => g[U] = f[Chosen(U)] + g[U \ {Chosen(U)}]
  <2>1. g[{}] = 0
    BY <1>1, SumsAt
  <2>2. ASSUME NEW U \in SUBSET S, U # {}
        PROVE  g[U] = f[Chosen(U)] + g[U \ {Chosen(U)}]
    BY <1>1, <2>2, SumsAt
  <2> QED
    BY <2>1, <2>2
<1> USE DEF T
<1>4. {} \in T
  BY <1>3
<1>5. ASSUME NEW U \in SUBSET S, U # {}, \A V \in SUBSET U : V # U => V \in T
      PROVE  U \in T
  <2> DEFINE c == Chosen(U)
  <2>1. c \in U /\ f[c] \in Int
    BY <1>5 DEF Chosen
  <2>2. g[U] = f[c] + g[U \ {c}]
    BY <1>3, <1>5
  <2> HIDE DEF c
  <2>3. U \ {c} \in T
    BY <1>5, <2>1
  <2>4. g[U] \in Int
    BY <2>1, <2>2, <2>3
  <2>5. ASSUME NEW x \in U
        PROVE  g[U] = f[x] + g[U \ {x}]
    <3>1. CASE x = c
      BY <2>2, <3>1
    <3>2. CASE x # c
      <4>1. U \ {x} \in T /\ f[x] \in Int
        BY <1>5
      <4> DEFINE W == (U \ {c}) \ {x}
      <4>2. W = (U \ {x}) \ {c} /\ c \in U \ {x} /\ x \in U \ {c}
        BY <2>1, <3>2
      <4>3. g[U \ {c}] = f[x] + g[W]
        BY <2>3, <4>2
      <4>4. g[U \ {x}] = f[c] + g[W]
        BY <4>1, <4>2
      <4>5. W \in T
        BY <1>5, <2>1, <4>2
      <4>6. g[W] \in Int
        BY <4>5
      <4> HIDE DEF W, T
      <4> QED
        BY <2>1, <2>2, <4>1, <4>3, <4>4, <4>6
    <3> QED
      BY <3>1, <3>2
  <2> QED
    BY <2>4, <2>5
<1>6. S \in T
  <2> HIDE DEF T
  <2>1. \A U \in SUBSET S : U \in T
    BY <1>4, <1>5, SetInduction
  <2> QED
    BY <2>1
<1> QED
  BY <1>2, <1>3, <1>6

LEMMA SumWithout ==
  ASSUME NEW D, NEW f \in [D -> Nat], NEW S \in SUBSET D, IsFiniteSet(S)
  PROVE  \A x \in S : SumFunctionOnSet(f, S) = f[x] + SumFunctionOnSet(f, S \ {x})
<1>1. f \in [D -> Int]
  OBVIOUS
<1> QED
  BY <1>1, SumElement

(* Fewer blocks do not need more room.                                     *)
LEMMA SumSubset ==
  ASSUME NEW D, NEW f \in [D -> Nat], NEW S \in SUBSET D, IsFiniteSet(S), NEW R \in SUBSET S
  PROVE  /\ SumFunctionOnSet(f, R) \in Nat
         /\ SumFunctionOnSet(f, S) \in Nat
         /\ SumFunctionOnSet(f, R) <= SumFunctionOnSet(f, S)
<1> DEFINE F(U) == SumFunctionOnSet(f, U)
           T == {U \in SUBSET S : F(U) \in Nat /\ F(R \cap U) \in Nat /\ F(R \cap U) <= F(U)}
<1>1. F({}) = 0 /\ \A U \in SUBSET S : \A x \in U : F(U) = f[x] + F(U \ {x})
  <2>1. f \in [D -> Int]
    OBVIOUS
  <2>2. F({}) = 0
    BY <2>1, SumElement
  <2>3. ASSUME NEW U \in SUBSET S
        PROVE  \A x \in U : F(U) = f[x] + F(U \ {x})
    <3>1. IsFiniteSet(U)
      BY FS_Subset
    <3> QED
      BY <2>1, <3>1, SumElement
  <2> HIDE DEF F
  <2> QED
    BY <2>2, <2>3
<1> HIDE DEF F
<1>2. {} \in T
  <2>1. R \cap {} = {}
    OBVIOUS
  <2> QED
    BY <1>1, <2>1
<1>3. ASSUME NEW U \in SUBSET S, U # {}, \A V \in SUBSET U : V # U => V \in T
      PROVE  U \in T
  <2>1. PICK x \in U : TRUE
    BY <1>3
  <2> DEFINE V == U \ {x}
  <2>2. V \in T /\ f[x] \in Nat
    BY <1>3
  <2>3. F(U) = f[x] + F(V)
    BY <1>1
  <2>4. CASE x \in R
    <3>1. x \in R \cap U /\ R \cap U \in SUBSET S /\ (R \cap U) \ {x} = R \cap V
      BY <2>4
    <3>2. F(R \cap U) = f[x] + F(R \cap V)
      BY <1>1, <3>1
    <3> QED
      BY <2>2, <2>3, <3>2
  <2>5. CASE x \notin R
    <3>1. F(R \cap U) = F(R \cap V)
      <4>1. R \cap U = R \cap V
        BY <2>5
      <4> QED
        BY <4>1
    <3> QED
      BY <2>2, <2>3, <3>1
  <2> QED
    BY <2>4, <2>5
<1>4. S \in T
  <2> HIDE DEF T
  <2>1. \A U \in SUBSET S : U \in T
    BY <1>2, <1>3, SetInduction
  <2> QED
    BY <2>1
<1>5. R \cap S = R
  OBVIOUS
<1> QED
  BY <1>4, <1>5 DEF F

(* A block starts where all the blocks before it have ended.               *)
LEMMA BlocksInOrder ==
  ASSUME NEW D, IsFiniteSet(D), \A j \in D : j \in Int, NEW f \in [D -> Nat],
         NEW i \in D, NEW k \in Int, i < k
  PROVE  /\ Before(f, i) \in Nat /\ Before(f, k) \in Nat
         /\ Before(f, i) + f[i] <= Before(f, k)
         /\ Before(f, k) <= SumFunction(f) /\ SumFunction(f) \in Nat
<1> DEFINE Low == {j \in D : j < i}
           Upto == {j \in D : j <= i}
           High == {j \in D : j < k}
<1>1. DOMAIN f = D
  OBVIOUS
<1>2. IsFiniteSet(Upto) /\ IsFiniteSet(High)
  BY FS_Subset
<1>3. i \in Upto /\ Upto \ {i} = Low /\ Low \in SUBSET Upto /\ Upto \in SUBSET High
  <2>1. \A j \in D : j \in Int
    OBVIOUS
  <2>2. i \in Upto
    BY <2>1
  <2>3. \A j : j \in Upto \ {i} <=> j \in Low
    <3>1. \A j \in D : j <= i /\ j # i <=> j < i
      BY <2>1
    <3> QED
      BY <3>1
  <2>4. \A j : j \in Upto => j \in High
    BY <2>1
  <2>5. \A j : j \in Low => j \in Upto
    BY <2>1
  <2> HIDE DEF Low, Upto, High
  <2> QED
    BY <2>2, <2>3, <2>4, <2>5
<1>4. /\ f \in [D -> Int] /\ Low \in SUBSET D
      /\ Upto \in SUBSET D /\ High \in SUBSET D
  OBVIOUS
<1> HIDE DEF Low, Upto, High
<1>5. SumFunctionOnSet(f, Upto) = f[i] + SumFunctionOnSet(f, Low)
  <2>1. \A x \in Upto : SumFunctionOnSet(f, Upto) = f[x] + SumFunctionOnSet(f, Upto \ {x})
    BY <1>2, <1>4, SumWithout
  <2> QED
    BY <1>3, <2>1
<1>6. SumFunctionOnSet(f, Upto) <= SumFunctionOnSet(f, High)
  BY <1>2, <1>3, <1>4, SumSubset
<1>7. SumFunctionOnSet(f, Low) \in Nat
  BY <1>2, <1>3, <1>4, SumSubset
<1>8. /\ SumFunctionOnSet(f, High) \in Nat
      /\ SumFunctionOnSet(f, High) <= SumFunctionOnSet(f, D)
      /\ SumFunctionOnSet(f, D) \in Nat
  BY <1>4, SumSubset
<1>9. Before(f, i) = SumFunctionOnSet(f, Low) /\ Before(f, k) = SumFunctionOnSet(f, High)
  BY <1>1 DEF Before, Low, High
<1>10. SumFunction(f) = SumFunctionOnSet(f, D) /\ f[i] \in Nat
  BY <1>1 DEF SumFunction
<1> QED
  BY <1>5, <1>6, <1>7, <1>8, <1>9, <1>10

\* S has one block more than R.
Extends(f, D, S, x, R) ==
  IsFiniteSet(D) /\ f \in [D -> Nat] /\ S \in SUBSET D /\ x \in S /\ R = S \ {x}

LEMMA OneMore ==
  ASSUME NEW D, NEW f, NEW S, NEW x, NEW R, Extends(f, D, S, x, R)
  PROVE  /\ SumFunctionOnSet(f, S) = f[x] + SumFunctionOnSet(f, R)
         /\ SumFunctionOnSet(f, R) \in Nat /\ SumFunctionOnSet(f, {}) = 0
<1>1. /\ IsFiniteSet(D) /\ f \in [D -> Nat] /\ f \in [D -> Int] /\ S \in SUBSET D
      /\ x \in S /\ R = S \ {x}
  BY DEF Extends
<1>2. IsFiniteSet(S) /\ R \in SUBSET S
  BY <1>1, FS_Subset
<1>3. \A y \in S : SumFunctionOnSet(f, S) = f[y] + SumFunctionOnSet(f, S \ {y})
  BY <1>1, <1>2, SumWithout
<1>4. SumFunctionOnSet(f, R) \in Nat
  BY <1>1, <1>2, SumSubset
<1>5. SumFunctionOnSet(f, {}) = 0
  BY <1>1, <1>2, SumElement
<1> QED
  BY <1>1, <1>3, <1>4, <1>5

\* Blocks that are numbered from 1.
LEMMA NextBlock ==
  ASSUME NEW n \in Nat, NEW f \in [1..n -> Nat], NEW i \in 1..n
  PROVE  /\ Before(f, 1) = 0
         /\ Before(f, i) \in Nat
         /\ Before(f, i+1) = Before(f, i) + f[i]
<1> DEFINE D == 1..n
           Low == {j \in D : j < i}
           Upto == {j \in D : j < i+1}
<1>1. IsFiniteSet(D) /\ DOMAIN f = D
  BY FS_Interval
<1>2. {j \in D : j < 1} = {} /\ i \in Upto /\ Low = Upto \ {i} /\ Upto \in SUBSET D
  OBVIOUS
<1>3. Extends(f, D, Upto, i, Low)
  BY <1>1, <1>2 DEF Extends
<1> HIDE DEF D, Low, Upto
<1>4. /\ SumFunctionOnSet(f, Upto) = f[i] + SumFunctionOnSet(f, Low)
      /\ SumFunctionOnSet(f, Low) \in Nat /\ SumFunctionOnSet(f, {}) = 0
  BY <1>3, OneMore
<1>5. /\ Before(f, 1) = SumFunctionOnSet(f, {}) /\ Before(f, i) = SumFunctionOnSet(f, Low)
      /\ Before(f, i+1) = SumFunctionOnSet(f, Upto)
  BY <1>1, <1>2 DEF Before, Low, Upto
<1> QED
  BY <1>4, <1>5
=============================================================================
