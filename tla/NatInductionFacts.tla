------------------------- MODULE NatInductionFacts -------------------------
(***************************************************************************)
(* Induction over the natural numbers, stated of a set instead of a        *)
(* predicate: what the recursive functions of the model compute is proved  *)
(* with it.                                                                *)
(***************************************************************************)
EXTENDS FiniteSetsExt, FiniteSetTheorems, WellFoundedInduction, TLAPS

Less == {pair \in Nat \X Nat : pair[1] < pair[2]}

LEMMA LessIsWellFounded == IsWellFoundedOn(Less, Nat)
  BY NatLessThanWellFounded DEF OpToRel, Less

\* The naturals are well ordered.
LEMMA LeastNatural ==
  ASSUME NEW T \in SUBSET Nat, T # {}
  PROVE  \E x \in T : \A y \in T : x <= y
<1>1. PICK x \in T : \A y \in T : ~ (<<y, x>> \in Less)
  BY WFMin, LessIsWellFounded
<1>2. \A y \in T : ~ (y < x)
  BY <1>1 DEF Less
<1> QED BY <1>2

\* A set that contains 0 and with every number the next one contains them all.
LEMMA SetInduction ==
  ASSUME NEW S, 0 \in S, \A n \in Nat : n \in S => n + 1 \in S
  PROVE  Nat \subseteq S
<1> DEFINE T == {n \in Nat : n \notin S}
<1> SUFFICES ASSUME T # {} PROVE FALSE
  OBVIOUS
<1>1. PICK x \in T : \A y \in T : x <= y
  <2>1. T \in SUBSET Nat
    OBVIOUS
  <2> HIDE DEF T
  <2> QED BY <2>1, LeastNatural
<1>2. x # 0 /\ x - 1 \in Nat /\ ~ (x <= x - 1)
  OBVIOUS
<1> QED BY <1>1, <1>2

-----------------------------------------------------------------------------
\* A finite set of numbers has a greatest one.
LEMMA MaxUpTo ==
  ASSUME NEW n \in Nat, NEW s \in SUBSET (1 .. n), s # {}
  PROVE  Max(s) \in s /\ \A i \in s : i <= Max(s)
<1> DEFINE T == {n - i : i \in s}
<1>a. \A i \in s : i \in Nat /\ n - i \in Nat
  <2>1. \A i \in s : i \in 1 .. n
    OBVIOUS
  <2> QED BY <2>1
<1>1. T \in SUBSET Nat /\ T # {}
  BY <1>a
<1> HIDE DEF T
<1>2. PICK x \in T : \A y \in T : x <= y
  BY <1>1, LeastNatural
<1>3. PICK m \in s : x = n - m
  BY DEF T
<1>4. ASSUME NEW i \in s PROVE m >= i
  <2>1. n - i \in T
    BY DEF T
  <2> QED BY <1>a, <1>2, <1>3, <2>1
<1>5. \E y \in s : \A i \in s : y >= i
  BY <1>4
<1> HIDE DEF T
<1> QED BY <1>5 DEF Max

\* The last number up to n + 1 is n + 1, and what comes before it ends at n.
LEMMA LastUpTo ==
  ASSUME NEW n \in Nat
  PROVE  /\ 1 .. n + 1 # {}
         /\ Max(1 .. n + 1) = n + 1
         /\ (1 .. n + 1) \ {n + 1} = 1 .. n
<1> DEFINE all == 1 .. n + 1
<1>1. n + 1 \in all /\ all \ {n + 1} = 1 .. n
  OBVIOUS
<1>2. \A i \in all : i <= n + 1 /\ i \in Nat
  OBVIOUS
<1> HIDE DEF all
<1>3. Max(all) \in all /\ n + 1 <= Max(all)
  <2>1. n + 1 \in Nat /\ all \in SUBSET (1 .. n + 1) /\ all # {}
    BY <1>1 DEF all
  <2> QED BY <1>1, <2>1, MaxUpTo
<1>4. Max(all) = n + 1
  BY <1>2, <1>3
<1> QED BY <1>1, <1>4 DEF all
-----------------------------------------------------------------------------
\* Sums over finite sets of what w weighs their elements.  A fold takes the elements
\* in an order of its own; the sum does not depend on it.

First(s) == CHOOSE x \in s : TRUE
IsSum(f, w, H) ==
  f = [s \in SUBSET H |-> IF s = {} THEN 0 ELSE w[First(s)] + f[s \ {First(s)}]]
SumOf(w, H) == (CHOOSE f : IsSum(f, w, H))[H]

\* A nonempty set has a first element.
LEMMA FirstIsIn == ASSUME NEW s, s # {} PROVE First(s) \in s
  BY DEF First

\* Without one of its elements a set of n + 1 has n.
LEMMA OneLess ==
  ASSUME NEW s, IsFiniteSet(s), NEW n \in Nat, Cardinality(s) = n + 1, NEW x \in s
  PROVE  s # {} /\ IsFiniteSet(s \ {x}) /\ Cardinality(s \ {x}) = n
<1>1. IsFiniteSet(s \ {x}) /\ Cardinality(s \ {x}) = Cardinality(s) - 1
  BY FS_RemoveElement
<1> QED BY <1>1

\* Only the empty set has no elements.
LEMMA NoneLeft ==
  ASSUME NEW s, IsFiniteSet(s)
  PROVE  (Cardinality(s) = 0 <=> s = {}) /\ Cardinality(s) \in Nat
  BY FS_EmptySet, FS_CardinalityType

\* What holds of every subset of a finite set, if it holds of that without any one of
\* its elements, holds of the whole set.
LEMMA SubsetInduction ==
  ASSUME NEW H, IsFiniteSet(H), NEW S \in SUBSET SUBSET H, {} \in S,
         \A K \in SUBSET H : K # {} /\ (\A x \in K : K \ {x} \in S) => K \in S
  PROVE  H \in S
<1> DEFINE N == {n \in Nat : \A K \in SUBSET H : Cardinality(K) = n => K \in S}
<1>a. \A K \in SUBSET H : IsFiniteSet(K)
  BY FS_Subset
<1>1. 0 \in N
  BY <1>a, NoneLeft
<1>2. ASSUME NEW n \in Nat, n \in N PROVE n + 1 \in N
  <2> SUFFICES ASSUME NEW K \in SUBSET H, Cardinality(K) = n + 1 PROVE K \in S
    OBVIOUS
  <2>1. n + 1 # 0
    OBVIOUS
  <2>2. K # {}
    BY <1>a, <2>1, NoneLeft
  <2>3. \A x \in K : Cardinality(K \ {x}) = n /\ K \ {x} \in SUBSET H
    BY <1>a, OneLess
  <2>4. \A x \in K : K \ {x} \in S
    BY <1>2, <2>3
  <2> QED BY <2>2, <2>4
<1>3. Cardinality(H) \in Nat
  BY NoneLeft
<1> HIDE DEF N
<1>4. Cardinality(H) \in N
  BY <1>1, <1>2, <1>3, SetInduction
<1> QED BY <1>4 DEF N

\* Sums of alike weights are equal, whatever sets they were taken over.
LEMMA SumsAgree ==
  ASSUME NEW H, NEW K, NEW w, NEW v, NEW f, NEW g, IsSum(f, w, H), IsSum(g, v, K),
         NEW s \in SUBSET H, s \in SUBSET K, IsFiniteSet(s), \A x \in s : w[x] = v[x]
  PROVE  f[s] = g[s]
<1> DEFINE S == {t \in SUBSET s : f[t] = g[t]}
<1>1. \A t \in SUBSET s : t # {} => /\ f[t] = w[First(t)] + f[t \ {First(t)}]
                                    /\ g[t] = v[First(t)] + g[t \ {First(t)}]
                                    /\ First(t) \in s
  BY FirstIsIn DEF IsSum
<1>2. {} \in S
  BY DEF IsSum
<1>3. ASSUME NEW t \in SUBSET s, t # {}, \A x \in t : t \ {x} \in S PROVE t \in S
  <2>1. f[t \ {First(t)}] = g[t \ {First(t)}]
    BY <1>3, FirstIsIn
  <2> QED BY <1>1, <1>3, <2>1
<1> HIDE DEF S
<1>4. s \in S
  <2>1. S \in SUBSET SUBSET s
    BY DEF S
  <2> QED BY <1>2, <1>3, <2>1, SubsetInduction
<1> QED BY <1>4 DEF S

\* Every finite set of elements has a sum.
LEMMA SumExists ==
  ASSUME NEW w, NEW H, IsFiniteSet(H)
  PROVE  \E f : IsSum(f, w, H)
<1> DEFINE S == {K \in SUBSET H : \E f : IsSum(f, w, K)}
<1>1. {} \in S
  <2> DEFINE v == [s \in SUBSET {} |-> 0]
  <2>1. IsSum(v, w, {})
    BY DEF IsSum
  <2> HIDE DEF v
  <2> QED BY <2>1
<1>2. ASSUME NEW K \in SUBSET H, K # {}, \A x \in K : K \ {x} \in S PROVE K \in S
  <2> DEFINE u == [x \in K |-> CHOOSE f : IsSum(f, w, K \ {x})]
             v == [s \in SUBSET K |-> IF s = {} THEN 0
                    ELSE w[First(s)] + u[First(s)][s \ {First(s)}]]
  <2>1. \A x \in K : IsSum(u[x], w, K \ {x})
    <3> SUFFICES ASSUME NEW x \in K PROVE IsSum(u[x], w, K \ {x})
      OBVIOUS
    <3>1. K \ {x} \in S
      BY <1>2
    <3>2. \E f : IsSum(f, w, K \ {x})
      BY <3>1
    <3>3. u[x] = CHOOSE f : IsSum(f, w, K \ {x})
      OBVIOUS
    <3> HIDE DEF u
    <3> QED BY <3>2, <3>3
  <2>2. \A s \in SUBSET K : s # {} => v[s] = w[First(s)] + u[First(s)][s \ {First(s)}]
    OBVIOUS
  <2>3. v[{}] = 0 /\ DOMAIN v = SUBSET K /\ v = [s \in SUBSET K |-> v[s]]
    OBVIOUS
  <2> HIDE DEF u, v
  <2>4. ASSUME NEW s \in SUBSET K, s # {} PROVE v[s \ {First(s)}] = u[First(s)][s \ {First(s)}]
    <3> DEFINE x == First(s)
               t == s \ {x}
               y == First(t)
    <3>1. x \in s /\ t \in SUBSET K /\ t \in SUBSET (K \ {x})
      BY <2>4, FirstIsIn
    <3>2. CASE t = {}
      <4>1. u[x][{}] = 0
        BY <2>1, <3>1 DEF IsSum
      <4> QED BY <2>3, <3>2, <4>1
    <3>3. CASE t # {}
      <4>1. y \in t
        BY <3>3, FirstIsIn
      <4>2. v[t] = w[y] + u[y][t \ {y}]
        BY <2>2, <3>1, <3>3
      <4>3. u[x][t] = w[y] + u[x][t \ {y}]
        <5>1. IsSum(u[x], w, K \ {x})
          BY <2>1, <3>1
        <5> QED BY <3>1, <3>3, <5>1 DEF IsSum
      <4>4. u[y][t \ {y}] = u[x][t \ {y}]
        <5>1. IsSum(u[x], w, K \ {x}) /\ IsSum(u[y], w, K \ {y})
          BY <2>1, <3>1, <4>1
        <5>2. t \ {y} \in SUBSET (K \ {x}) /\ t \ {y} \in SUBSET (K \ {y})
          BY <3>1
        <5>3. IsFiniteSet(t \ {y})
          BY <3>1, FS_Subset
        <5> HIDE DEF t, x, y
        <5> QED BY <5>1, <5>2, <5>3, SumsAgree
      <4> QED BY <4>2, <4>3, <4>4
    <3> QED BY <3>2, <3>3
  <2>5. IsSum(v, w, K)
    BY <2>2, <2>3, <2>4 DEF IsSum
  <2> QED BY <2>5
<1> HIDE DEF S
<1>3. H \in S
  <2>1. S \in SUBSET SUBSET H
    BY DEF S
  <2> QED BY <1>1, <1>2, <2>1, SubsetInduction
<1> QED BY <1>3 DEF S

\* The sum of a set is that of all but its first element, plus the first.
LEMMA SumStep ==
  ASSUME NEW w, NEW H, IsFiniteSet(H)
  PROVE  SumOf(w, H) = IF H = {} THEN 0 ELSE w[First(H)] + SumOf(w, H \ {First(H)})
<1> DEFINE f == CHOOSE f : IsSum(f, w, H)
           less == H \ {First(H)}
           g == CHOOSE g : IsSum(g, w, less)
<1>1. IsSum(f, w, H) /\ SumOf(w, H) = f[H]
  BY SumExists DEF SumOf
<1>2. IsFiniteSet(less)
  BY FS_Subset
<1>3. IsSum(g, w, less) /\ SumOf(w, less) = g[less]
  <2> HIDE DEF less
  <2> QED BY <1>2, SumExists DEF SumOf
<1> HIDE DEF f, g
<1>4. f[less] = g[less]
  BY <1>1, <1>2, <1>3, SumsAgree
<1>5. f[H] = IF H = {} THEN 0 ELSE w[First(H)] + f[less]
  BY <1>1 DEF IsSum
<1> QED BY <1>1, <1>3, <1>4, <1>5

\* Whatever adds up like the sum is the sum.
LEMMA SumIs ==
  ASSUME NEW w, NEW H, IsFiniteSet(H), NEW f, IsSum(f, w, H)
  PROVE  f[H] = SumOf(w, H)
<1> DEFINE g == CHOOSE g : IsSum(g, w, H)
<1>1. IsSum(g, w, H) /\ SumOf(w, H) = g[H]
  BY SumExists DEF SumOf
<1> HIDE DEF g
<1> QED BY <1>1, SumsAgree

\* Alike weights have the same sum.
LEMMA SumsAreAlike ==
  ASSUME NEW w, NEW v, NEW H, IsFiniteSet(H), \A x \in H : w[x] = v[x]
  PROVE  SumOf(w, H) = SumOf(v, H)
<1> DEFINE f == CHOOSE f : IsSum(f, w, H)
           g == CHOOSE g : IsSum(g, v, H)
<1>1. IsSum(f, w, H) /\ IsSum(g, v, H) /\ SumOf(w, H) = f[H] /\ SumOf(v, H) = g[H]
  BY SumExists DEF SumOf
<1> HIDE DEF f, g
<1> QED BY <1>1, SumsAgree

\* Natural numbers add up to one.
LEMMA SumIsNat ==
  ASSUME NEW w, NEW H, IsFiniteSet(H), \A x \in H : w[x] \in Nat
  PROVE  SumOf(w, H) \in Nat
<1> DEFINE S == {K \in SUBSET H : SumOf(w, K) \in Nat}
<1>a. \A K \in SUBSET H : IsFiniteSet(K)
  BY FS_Subset
<1>1. {} \in S
  <2>1. SumOf(w, {}) = 0
    BY FS_EmptySet, SumStep
  <2> QED BY <2>1
<1>2. ASSUME NEW K \in SUBSET H, K # {}, \A x \in K : K \ {x} \in S PROVE K \in S
  <2>1. SumOf(w, K) = w[First(K)] + SumOf(w, K \ {First(K)}) /\ w[First(K)] \in Nat
    BY <1>a, <1>2, FirstIsIn, SumStep
  <2>2. SumOf(w, K \ {First(K)}) \in Nat
    BY <1>2, FirstIsIn
  <2> QED BY <2>1, <2>2
<1> HIDE DEF S
<1>3. H \in S
  <2>1. S \in SUBSET SUBSET H
    BY DEF S
  <2> QED BY <1>1, <1>2, <2>1, SubsetInduction
<1> QED BY <1>3 DEF S

\* An element more is its weight more.
LEMMA SumMore ==
  ASSUME NEW w, NEW H, IsFiniteSet(H), \A x \in H : w[x] \in Nat, NEW z \in H
  PROVE  SumOf(w, H) = SumOf(w, H \ {z}) + w[z]
<1> DEFINE S == {K \in SUBSET H : \A x \in K : SumOf(w, K) = SumOf(w, K \ {x}) + w[x]}
<1>a. \A K \in SUBSET H : IsFiniteSet(K) /\ SumOf(w, K) \in Nat
  <2> SUFFICES ASSUME NEW K \in SUBSET H PROVE IsFiniteSet(K) /\ SumOf(w, K) \in Nat
    OBVIOUS
  <2>1. IsFiniteSet(K)
    BY FS_Subset
  <2> QED BY <2>1, SumIsNat
<1>1. {} \in S
  OBVIOUS
<1>2. ASSUME NEW K \in SUBSET H, K # {}, \A x \in K : K \ {x} \in S PROVE K \in S
  <2> SUFFICES ASSUME NEW x \in K PROVE SumOf(w, K) = SumOf(w, K \ {x}) + w[x]
    OBVIOUS
  <2> DEFINE y == First(K)
             rest == (K \ {y}) \ {x}
  <2>1. y \in K
    BY FirstIsIn
  <2>2. SumOf(w, K) = w[y] + SumOf(w, K \ {y})
    BY <1>a, SumStep
  <2> HIDE DEF y
  <2>3. w[y] \in Nat /\ w[x] \in Nat /\ SumOf(w, K \ {y}) \in Nat /\ SumOf(w, K \ {x}) \in Nat
        /\ SumOf(w, rest) \in Nat
    BY <1>a, <2>1
  <2>4. CASE y = x
    BY <2>2, <2>3, <2>4
  <2>5. CASE y # x
    <3>1. SumOf(w, K \ {y}) = SumOf(w, rest) + w[x]
      BY <1>2, <2>1, <2>5
    <3>2. rest = (K \ {x}) \ {y}
      OBVIOUS
    <3>3. SumOf(w, K \ {x}) = SumOf(w, rest) + w[y]
      BY <1>2, <2>1, <2>5, <3>2
    <3> HIDE DEF rest
    <3> QED BY <2>2, <2>3, <3>1, <3>3, SMT
  <2> QED BY <2>4, <2>5
<1> HIDE DEF S
<1>3. H \in S
  <2>1. S \in SUBSET SUBSET H
    BY DEF S
  <2> QED BY <1>1, <1>2, <2>1, SubsetInduction
<1> QED BY <1>3 DEF S
=============================================================================
