------------------------------ MODULE NatLemmas ------------------------------
(***************************************************************************)
(* Induction over the naturals stated with sets, so that the provers can   *)
(* instantiate it, and what follows from it about functions defined step   *)
(* by step: the facts that the proofs about buffered and batched commits   *)
(* rest on.                                                                *)
(***************************************************************************)
EXTENDS Integers, WellFoundedInduction, TLAPS

\* A nonempty set of naturals has a least element.
LEMMA LeastElement ==
  ASSUME NEW S \in SUBSET Nat, S # {}
  PROVE  \E m \in S : \A k \in S : m <= k
<1> DEFINE R == OpToRel(<, Nat)
<1>1. IsWellFoundedOn(R, Nat)
  BY NatLessThanWellFounded, Zenon
<1>2. \E m \in S : \A k \in S : ~ (<<k, m>> \in R)
  <2> HIDE DEF R
  <2> QED BY <1>1, WFMin
<1>3. ASSUME NEW m \in S, NEW k \in S, <<k, m>> \notin R
      PROVE  m <= k
  <2>1. ~(k < m)
    BY <1>3, Zenon DEF OpToRel
  <2> QED BY <2>1
<1> QED BY <1>2, <1>3

\* A set that holds 0, and with every natural its successor, holds them all.
LEMMA SetInduction ==
  ASSUME NEW S, 0 \in S, \A n \in Nat : n \in S => n + 1 \in S
  PROVE  Nat \subseteq S
<1> SUFFICES ASSUME Nat \ S # {} PROVE FALSE
  OBVIOUS
<1>1. PICK m \in Nat \ S : \A k \in Nat \ S : m <= k
  BY LeastElement
<1>2. m # 0 /\ m - 1 \in Nat
  OBVIOUS
<1>3. m - 1 \in S
  BY <1>1, <1>2
<1> QED BY <1>2, <1>3

\* Induction up a range of integers.
LEMMA RangeInduction ==
  ASSUME NEW S, NEW a \in Int, NEW b \in Int, a <= b, a \in S,
         \A i \in (a + 1)..b : i - 1 \in S => i \in S
  PROVE  a..b \subseteq S
<1> DEFINE T == {n \in Nat : a + n <= b => a + n \in S}
<1>1. 0 \in T
  OBVIOUS
<1>2. ASSUME NEW n \in Nat, n \in T PROVE n + 1 \in T
  <2> SUFFICES ASSUME a + (n + 1) <= b PROVE a + (n + 1) \in S
    OBVIOUS
  <2>1. a + (n + 1) \in (a + 1)..b /\ (a + (n + 1)) - 1 = a + n
    OBVIOUS
  <2>2. a + n \in S
    BY <1>2
  <2> QED BY <2>1, <2>2
<1>3. Nat \subseteq T
  <2> HIDE DEF T
  <2> QED BY <1>1, <1>2, SetInduction
<1> SUFFICES ASSUME NEW i \in a..b PROVE i \in S
  OBVIOUS
<1>4. i - a \in T
  BY <1>3
<1> QED BY <1>4

\* A nonempty set of naturals below a bound has a greatest element.
LEMMA GreatestElement ==
  ASSUME NEW S \in SUBSET Nat, S # {}, NEW b \in Nat, \A k \in S : k <= b
  PROVE  \E m \in S : \A k \in S : k <= m
<1> DEFINE T == {n \in Nat : n <= b /\ b - n \in S}
<1>1. PICK k \in S : TRUE
  OBVIOUS
<1>2. b - k \in T
  BY <1>1
<1>3. PICK n \in T : \A l \in T : n <= l
  <2> HIDE DEF T
  <2>1. T \in SUBSET Nat
    BY DEF T
  <2> QED BY <1>2, <2>1, LeastElement
<1>4. b - n \in S /\ \A l \in S : l <= b - n
  <2> SUFFICES ASSUME NEW l \in S PROVE l <= b - n
    BY <1>3
  <2>1. b - l \in T
    OBVIOUS
  <2>2. n <= b - l /\ n \in Nat /\ l \in Nat
    BY <1>3, <2>1
  <2> QED BY <2>2
<1> QED BY <1>4

\* From every start there is a function that takes n given steps.
LEMMA IterationExists ==
  ASSUME NEW X, NEW start \in X, NEW n \in Nat, NEW step \in [1..n -> [X -> X]]
  PROVE  \E f \in [0..n -> X] : /\ f[0] = start
                                /\ \A i \in 1..n : f[i] = step[i][f[i - 1]]
<1> DEFINE Reached(f, m) ==
             f[0] = start /\ \A i \in 1..m : f[i] = step[i][f[i - 1]]
           S == {m \in 0..n : \E f \in [0..m -> X] : Reached(f, m)}
<1>1. 0 \in S
  <2>1. [i \in 0..0 |-> start] \in [0..0 -> X] /\ Reached([i \in 0..0 |-> start], 0)
    OBVIOUS
  <2>2. \E f \in [0..0 -> X] : Reached(f, 0)
    BY <2>1
  <2> QED BY <2>2
<1>2. ASSUME NEW m \in (0 + 1)..n, m - 1 \in S PROVE m \in S
  <2>1. PICK f \in [0..(m - 1) -> X] : Reached(f, m - 1)
    BY <1>2
  <2> DEFINE g == [i \in 0..m |-> IF i = m THEN step[m][f[m - 1]] ELSE f[i]]
  <2>2. step[m] \in [X -> X] /\ f[m - 1] \in X
    OBVIOUS
  <2>3. g \in [0..m -> X]
    BY <2>2
  <2>4. Reached(g, m)
    BY <2>1
  <2>5. \E h \in [0..m -> X] : Reached(h, m)
    BY <2>3, <2>4
  <2> QED BY <2>5
<1>3. 0..n \subseteq S
  <2>1. \A m \in (0 + 1)..n : m - 1 \in S => m \in S
    BY <1>2
  <2>2. 0 \in Int /\ n \in Int /\ 0 <= n
    OBVIOUS
  <2> HIDE DEF S
  <2> QED BY <1>1, <2>1, <2>2, RangeInduction
<1>4. n \in S
  BY <1>3
<1> QED BY <1>4


\* Induction on a rank.
LEMMA RankInduction ==
  ASSUME NEW C, NEW rank \in [C -> Nat], NEW T,
         \A c \in C : (\A d \in C : rank[d] < rank[c] => d \in T) => c \in T
  PROVE  C \subseteq T
<1> DEFINE S == {n \in Nat : \A c \in C : rank[c] < n => c \in T}
<1>1. \A c \in C : rank[c] \in Nat
  OBVIOUS
<1>2. 0 \in S
  BY <1>1
<1>3. ASSUME NEW n \in Nat, n \in S PROVE n + 1 \in S
  <2> SUFFICES ASSUME NEW c \in C, rank[c] < n + 1 PROVE c \in T
    OBVIOUS
  <2>1. \A d \in C : rank[d] < rank[c] => d \in T
    BY <1>1, <1>3
  <2> QED BY <2>1
<1>4. Nat \subseteq S
  <2> HIDE DEF S
  <2> QED BY <1>2, <1>3, SetInduction
<1> SUFFICES ASSUME NEW c \in C PROVE c \in T
  OBVIOUS
<1>5. rank[c] + 1 \in S
  BY <1>1, <1>4
<1> QED BY <1>1, <1>5

\* A step from functions to functions that looks, at each argument, only at
\* arguments of lower rank.
LooksDown(C, V, rank, step) ==
  \A f, g \in [C -> V], c \in C :
    (\A d \in C : rank[d] < rank[c] => f[d] = g[d]) => step[f][c] = step[g][c]

\* f is defined by this step.
Solves(f, C, step) == \A c \in C : f[c] = step[f][c]

\* A definition by recursion on a rank has a solution.
LEMMA RecursionExists ==
  ASSUME NEW C, NEW V, NEW rank \in [C -> Nat],
         NEW step \in [[C -> V] -> [C -> V]], V # {}, LooksDown(C, V, rank, step)
  PROVE  \E f \in [C -> V] : Solves(f, C, step)
<1> USE DEF LooksDown
<1> DEFINE P(n) == {f \in [C -> V] : \A c \in C : rank[c] < n => f[c] = step[f][c]}
<1>1. ASSUME NEW n \in Nat, NEW f \in P(n), NEW g \in P(n), NEW c \in C, rank[c] < n
      PROVE  f[c] = g[c]
  <2> DEFINE T == {d \in C : rank[d] < n => f[d] = g[d]}
  <2>1. ASSUME NEW d \in C, \A e \in C : rank[e] < rank[d] => e \in T PROVE d \in T
    <3> SUFFICES ASSUME rank[d] < n PROVE f[d] = g[d]
      OBVIOUS
    <3>1. \A e \in C : rank[e] \in Nat
      OBVIOUS
    <3>2. \A e \in C : rank[e] < rank[d] => f[e] = g[e]
      BY <2>1, <3>1
    <3> QED BY <3>2
  <2>2. C \subseteq T
    <3> HIDE DEF T
    <3> QED BY <2>1, RankInduction
  <2> QED BY <1>1, <2>2
<1>2. \A n \in Nat : P(n) # {}
  <2> DEFINE S == {n \in Nat : P(n) # {}}
  <2>1. 0 \in S
    <3>1. PICK v \in V : TRUE
      OBVIOUS
    <3>2. [c \in C |-> v] \in [C -> V] /\ \A c \in C : rank[c] \in Nat
      OBVIOUS
    <3>3. [c \in C |-> v] \in P(0)
      BY <3>2
    <3> QED BY <3>3
  <2>2. ASSUME NEW n \in Nat, n \in S PROVE n + 1 \in S
    <3>1. PICK f : f \in P(n)
      BY <2>2
    <3>2. f \in [C -> V] /\ step[f] \in [C -> V] /\ \A c \in C : rank[c] \in Nat
      BY <3>1
    <3>3. ASSUME NEW c \in C, rank[c] < n + 1 PROVE step[f][c] = step[step[f]][c]
      <4>1. \A d \in C : rank[d] < rank[c] => f[d] = step[f][d]
        BY <3>1, <3>2, <3>3
      <4> QED BY <3>2, <4>1
    <3>4. step[f] \in P(n + 1)
      BY <3>2, <3>3
    <3> QED BY <3>4
  <2>3. Nat \subseteq S
    <3> HIDE DEF S
    <3> QED BY <2>1, <2>2, SetInduction
  <2> QED BY <2>3
<1> DEFINE at(c) == CHOOSE g : g \in P(rank[c] + 1)
           f == [c \in C |-> at(c)[c]]
<1>3. \A c \in C : rank[c] \in Nat /\ at(c) \in P(rank[c] + 1)
  <2> HIDE DEF P
  <2>1. \A c \in C : rank[c] \in Nat /\ rank[c] + 1 \in Nat
    OBVIOUS
  <2>2. \A c \in C : \E g : g \in P(rank[c] + 1)
    BY <1>2, <2>1
  <2>3. \A c \in C : at(c) \in P(rank[c] + 1)
    BY <2>2
  <2> QED BY <2>1, <2>3
<1> HIDE DEF at
<1>4. f \in [C -> V]
  BY <1>3
<1>5. ASSUME NEW c \in C PROVE f[c] = step[f][c]
  <2>1. at(c) \in [C -> V] /\ at(c)[c] = step[at(c)][c]
    BY <1>3
  <2>2. ASSUME NEW d \in C, rank[d] < rank[c] PROVE f[d] = at(c)[d]
    <3>1. at(c) \in P(rank[d] + 1) /\ at(d) \in P(rank[d] + 1)
      BY <1>3, <2>2
    <3>2. at(d)[d] = at(c)[d]
      <4> HIDE DEF P
      <4> QED BY <1>1, <1>3, <3>1
    <3> QED BY <3>2
  <2>3. step[f][c] = step[at(c)][c]
    <3> HIDE DEF f
    <3> QED BY <1>4, <2>1, <2>2
  <2> QED BY <2>1, <2>3
<1>6. Solves(f, C, step)
  <2> HIDE DEF f
  <2> QED BY <1>5 DEF Solves
<1> QED BY <1>4, <1>6
=============================================================================
