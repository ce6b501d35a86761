------------------------- MODULE WindowedQueryProofs -------------------------
(***************************************************************************)
(* The window of a limited query: types, the inductive invariant WindowInv *)
(* and the safety properties that follow from it.                          *)
(***************************************************************************)
EXTENDS WindowedQuery, NatLemmas, FiniteSetTheorems, SequenceTheorems

(***************************************************************************)
(* Order.                                                                  *)
(***************************************************************************)
\* The query's order is a strict linear order of the keys.
LEMMA AheadOrder ==
  ASSUME NEW a \in Int, NEW b \in Int, NEW c \in Int
  PROVE  /\ ~Ahead(a, a)
         /\ a = b \/ Ahead(a, b) \/ Ahead(b, a)
         /\ Ahead(a, b) => ~Ahead(b, a)
         /\ Ahead(a, b) /\ Ahead(b, c) => Ahead(a, c)
BY DEF Ahead


\* Keys are numbers.
LEMMA KeysAreNumbers ==
  \A k \in Keys : k \in Int /\ k \in Nat /\ k # NoPk
BY WindowAssumption DEF NoPk

\* The naturals of a finite set are bounded.
LEMMA FiniteIsBounded ==
  ASSUME NEW S \in SUBSET Nat, IsFiniteSet(S)
  PROVE  \E b \in Nat : \A k \in S : k <= b
<1> DEFINE T == {n \in Nat : \A U \in SUBSET S :
                   Cardinality(U) = n => \E b \in Nat : \A k \in U : k <= b}
<1>1. 0 \in T
  <2> SUFFICES ASSUME NEW U \in SUBSET S, Cardinality(U) = 0
               PROVE  \E b \in Nat : \A k \in U : k <= b
    OBVIOUS
  <2>1. U = {}
    BY FS_EmptySet, FS_Subset
  <2> QED BY <2>1
<1>2. ASSUME NEW n \in Nat, n \in T PROVE n + 1 \in T
  <2> SUFFICES ASSUME NEW U \in SUBSET S, Cardinality(U) = n + 1
               PROVE  \E b \in Nat : \A k \in U : k <= b
    OBVIOUS
  <2>1. IsFiniteSet(U)
    BY FS_Subset
  <2>2. PICK x \in U : TRUE
    <3>1. Cardinality(U) # 0
      OBVIOUS
    <3>2. U # {}
      BY <3>1, FS_EmptySet
    <3> QED BY <3>2
  <2>3. Cardinality(U \ {x}) = n
    <3>1. Cardinality(U \ {x}) = Cardinality(U) - 1
      BY <2>1, FS_RemoveElement
    <3> QED BY <3>1
  <2>4. PICK b \in Nat : \A k \in U \ {x} : k <= b
    BY <1>2, <2>3
  <2>5. x \in Nat /\ \A k \in U : k <= b + x
    BY <2>4
  <2> QED BY <2>5
<1>3. Nat \subseteq T
  <2> HIDE DEF T
  <2> QED BY <1>1, <1>2, SetInduction
<1>4. Cardinality(S) \in T
  BY <1>3, FS_CardinalityType
<1> QED BY <1>4

\* A set of keys is finite, and bounded.
LEMMA KeySets ==
  ASSUME NEW pks \in SUBSET Keys
  PROVE  /\ IsFiniteSet(pks) /\ Cardinality(pks) \in Nat
         /\ \E b \in Nat : \A k \in pks : k <= b
<1>1. IsFiniteSet(pks)
  BY WindowAssumption, FS_Subset
<1>2. pks \in SUBSET Nat
  BY WindowAssumption
<1> QED BY <1>1, <1>2, FS_CardinalityType, FiniteIsBounded

\* Max and Min of a set of naturals.
LEMMA MaxOfSet ==
  ASSUME NEW S \in SUBSET Nat, S # {}, NEW b \in Nat, \A k \in S : k <= b
  PROVE  Max(S) \in S /\ \A k \in S : k <= Max(S)
<1>1. \E x \in S : \A y \in S : x >= y
  <2>1. PICK m \in S : \A k \in S : k <= m
    BY GreatestElement
  <2>2. \A y \in S : m >= y
    BY <2>1
  <2> QED BY <2>2
<1>2. Max(S) \in S /\ \A y \in S : Max(S) >= y
  BY <1>1 DEF Max
<1> QED BY <1>2

LEMMA MinOfSet ==
  ASSUME NEW S \in SUBSET Nat, S # {}
  PROVE  Min(S) \in S /\ \A k \in S : Min(S) <= k
<1>1. \E x \in S : \A y \in S : x =< y
  BY LeastElement
<1> QED BY <1>1 DEF Min

\* The ends of a range are keys.
LEMMA BoundsAreKeys ==
  ASSUME NEW pks \in SUBSET Keys
  PROVE  /\ Bounds(pks) \in PkRange
         /\ RangeKeys(Bounds(pks)) \subseteq pks
<1>1. CASE pks = {}
  BY <1>1 DEF Bounds, PkRange, NoRange, RangeKeys
<1>2. CASE pks # {}
  <2>1. pks \in SUBSET Nat
    BY WindowAssumption
  <2>2. PICK b \in Nat : \A k \in pks : k <= b
    BY KeySets
  <2>3. Min(pks) \in pks /\ Max(pks) \in pks
    BY <1>2, <2>1, <2>2, MaxOfSet, MinOfSet
  <2> QED BY <1>2, <2>3 DEF Bounds, PkRange, RangeKeys
<1> QED BY <1>1, <1>2

LEMMA WidenedKeys ==
  ASSUME NEW r \in PkRange, NEW pks \in SUBSET Keys
  PROVE  /\ Widened(r, pks) \in PkRange
         /\ RangeKeys(Widened(r, pks)) \subseteq RangeKeys(r) \union pks
<1>1. RangeKeys(r) \subseteq Keys
  BY DEF PkRange, RangeKeys
<1>2. Widened(r, pks) = Bounds(pks \union RangeKeys(r))
  BY DEF Widened, RangeKeys
<1> QED BY <1>1, <1>2, BoundsAreKeys

\* Every set of keys has an order.
LEMMA OrderExists ==
  ASSUME NEW pks \in SUBSET Keys
  PROVE  \E seq \in [1..Cardinality(pks) -> pks] :
           \A m, n \in DOMAIN seq : m < n => Ahead(seq[m], seq[n])
<1> DEFINE Ordered(seq) == \A m, n \in DOMAIN seq : m < n => Ahead(seq[m], seq[n])
           T == {n \in Nat : \A U \in SUBSET Keys :
                   Cardinality(U) = n => \E seq \in [1..n -> U] : Ordered(seq)}
<1>1. 0 \in T
  <2> SUFFICES ASSUME NEW U \in SUBSET Keys
               PROVE  \E seq \in [1..0 -> U] : Ordered(seq)
    OBVIOUS
  <2>1. [m \in 1..0 |-> m] \in [1..0 -> U] /\ Ordered([m \in 1..0 |-> m])
    OBVIOUS
  <2> QED BY <2>1
<1>2. ASSUME NEW n \in Nat, n \in T PROVE n + 1 \in T
  <2> SUFFICES ASSUME NEW U \in SUBSET Keys, Cardinality(U) = n + 1
               PROVE  \E seq \in [1..(n + 1) -> U] : Ordered(seq)
    OBVIOUS
  <2>1. IsFiniteSet(U) /\ U # {} /\ U \in SUBSET Nat /\ \E b \in Nat : \A k \in U : k <= b
    BY KeySets, FS_EmptySet, WindowAssumption
  <2>2. PICK x \in U : \A k \in U \ {x} : Ahead(k, x)
    <3>1. PICK lo \in U : \A k \in U : lo <= k
      BY <2>1, LeastElement
    <3>2. PICK hi \in U : \A k \in U : k <= hi
      BY <2>1, GreatestElement
    <3>3. \A k \in U : k \in Nat
      BY <2>1
    <3> QED BY <3>1, <3>2, <3>3 DEF Ahead
  <2>3. Cardinality(U \ {x}) = n
    BY <2>1, FS_RemoveElement
  <2>4. PICK s \in [1..n -> U \ {x}] : Ordered(s)
    BY <1>2, <2>3
  <2> DEFINE t == [m \in 1..(n + 1) |-> IF m = n + 1 THEN x ELSE s[m]]
  <2>5. t \in [1..(n + 1) -> U]
    OBVIOUS
  <2>6. ASSUME NEW l \in 1..(n + 1), NEW m \in 1..(n + 1), l < m PROVE Ahead(t[l], t[m])
    <3>1. l \in 1..n /\ t[l] = s[l] /\ s[l] \in U \ {x}
      BY <2>6
    <3>2. CASE m = n + 1
      BY <2>2, <3>1, <3>2
    <3>3. CASE m # n + 1
      BY <2>4, <2>6, <3>1, <3>3
    <3> QED BY <3>2, <3>3
  <2> QED BY <2>5, <2>6
<1>3. Nat \subseteq T
  <2> HIDE DEF T
  <2> QED BY <1>1, <1>2, SetInduction
<1>4. Cardinality(pks) \in T
  BY <1>3, KeySets
<1> QED BY <1>4

LEMMA InOrderFacts ==
  ASSUME NEW pks \in SUBSET Keys
  PROVE  /\ InOrder(pks) \in [1..Cardinality(pks) -> pks]
         /\ \A m, n \in 1..Cardinality(pks) : m < n => Ahead(InOrder(pks)[m], InOrder(pks)[n])
         /\ \A k \in pks : \E n \in 1..Cardinality(pks) : InOrder(pks)[n] = k
<1> DEFINE N == Cardinality(pks)
<1>1. /\ InOrder(pks) \in [1..N -> pks]
      /\ \A m, n \in DOMAIN InOrder(pks) : m < n => Ahead(InOrder(pks)[m], InOrder(pks)[n])
  BY OrderExists DEF InOrder
<1>2. N \in Nat /\ IsFiniteSet(pks)
  BY KeySets
<1>3. \A m, n \in 1..N : m < n => Ahead(InOrder(pks)[m], InOrder(pks)[n])
  BY <1>1
<1>4. \A m, n \in 1..N : m # n => InOrder(pks)[m] # InOrder(pks)[n]
  <2> SUFFICES ASSUME NEW m \in 1..N, NEW n \in 1..N, m < n
               PROVE  InOrder(pks)[m] # InOrder(pks)[n]
    BY <1>2
  <2>1. Ahead(InOrder(pks)[m], InOrder(pks)[n]) /\ InOrder(pks)[m] \in Int
    BY <1>1, <1>3, KeysAreNumbers
  <2> QED BY <2>1, AheadOrder
<1>5. InOrder(pks) \in Injection(1..N, pks)
  BY <1>1, <1>4 DEF Injection, IsInjective
<1>6. IsFiniteSet(1..N) /\ Cardinality(1..N) = N
  BY <1>2, FS_Interval
<1>7. InOrder(pks) \in Surjection(1..N, pks)
  <2> HIDE DEF N
  <2> QED BY <1>2, <1>5, <1>6, FS_Injection DEF N
<1>8. \A k \in pks : \E n \in 1..N : InOrder(pks)[n] = k
  BY <1>7 DEF Surjection
<1> QED BY <1>1, <1>3, <1>8

(***************************************************************************)
(* The history of the source table.                                        *)
(***************************************************************************)
LEMMA Counts ==
  ASSUME WindowTypeOK, LogInv
  PROVE  /\ Len(commits) \in Nat /\ Len(history) = Len(commits) + 1
         /\ \A i \in 0..Len(commits) : RowsAt(i) \in Content
BY DEF WindowTypeOK, LogInv, RowsAt

\* A commit changes the row under Key(i), and no other.
LEMMA OneKey ==
  ASSUME LogInv, NEW i \in 1..Len(commits)
  PROVE  Key(i) \in Keys /\ \A l \in Keys : Changes(i, l) <=> l = Key(i)
<1>1. PICK k \in Keys : \A l \in Keys : Changes(i, l) <=> l = k
  BY DEF LogInv
<1>2. Key(i) \in Keys /\ Changes(i, Key(i))
  BY <1>1 DEF Key, Changes
<1> QED BY <1>1, <1>2

\* A row that no commit changes stays as it is.
LEMMA StaysSame ==
  ASSUME WindowTypeOK, LogInv, NEW k \in Keys, NEW p \in 0..Len(commits),
         NEW q \in p..Len(commits), \A i \in (p + 1)..q : ~Changes(i, k)
  PROVE  RowsAt(q)[k] = RowsAt(p)[k]
<1> DEFINE S == {i \in p..q : RowsAt(i)[k] = RowsAt(p)[k]}
<1>1. p \in Int /\ q \in Int /\ p <= q
  BY Counts
<1>2. p \in S
  BY <1>1
<1>3. \A i \in (p + 1)..q : i - 1 \in S => i \in S
  BY <1>1 DEF Changes
<1>4. p..q \subseteq S
  <2> HIDE DEF S
  <2> QED BY <1>1, <1>2, <1>3, RangeInduction
<1> QED BY <1>1, <1>4

\* The first change of a row after commit p finds it as commit p left it.
LEMMA FirstChange ==
  ASSUME WindowTypeOK, LogInv, NEW k \in Keys, NEW p \in 0..Len(commits),
         NEW i \in (p + 1)..Len(commits), Changes(i, k)
  PROVE  \E j \in (p + 1)..i : Changes(j, k) /\ RowsAt(j - 1)[k] = RowsAt(p)[k]
<1>1. Len(commits) \in Nat
  BY Counts
<1> DEFINE S == {j \in (p + 1)..i : Changes(j, k)}
<1>2. S \in SUBSET Nat /\ i \in S
  BY <1>1
<1>3. PICK j \in S : \A l \in S : j <= l
  BY <1>2, LeastElement
<1>4. j - 1 \in p..Len(commits) /\ \A l \in (p + 1)..(j - 1) : ~Changes(l, k)
  BY <1>1, <1>3
<1>5. RowsAt(j - 1)[k] = RowsAt(p)[k]
  BY <1>4, StaysSame
<1> QED BY <1>3, <1>5

\* A key outside the result stays outside while no commit touches the result there.
LEMMA StaysOut ==
  ASSUME WindowTypeOK, LogInv, NEW k \in Keys, NEW p \in 0..Len(commits),
         NEW q \in p..Len(commits), RowsAt(p)[k] \notin Matching,
         \A i \in (p + 1)..q : ~Touches(i, k)
  PROVE  RowsAt(q)[k] \notin Matching
<1> DEFINE S == {i \in p..q : RowsAt(i)[k] \notin Matching}
<1>1. p \in Int /\ q \in Int /\ p <= q
  BY Counts
<1>2. p \in S
  BY <1>1
<1>3. \A i \in (p + 1)..q : i - 1 \in S => i \in S
  BY <1>1 DEF Changes, Touches
<1>4. p..q \subseteq S
  <2> HIDE DEF S
  <2> QED BY <1>1, <1>2, <1>3, RangeInduction
<1> QED BY <1>1, <1>4

(***************************************************************************)
(* Keys that have been used.                                               *)
(***************************************************************************)
LEMMA ReachedGrows ==
  ASSUME NEW i \in Int, NEW j \in Int, i <= j
  PROVE  UsedBy(i) \subseteq UsedBy(j) /\ Reached(i) \subseteq Reached(j)
<1>1. UsedBy(i) \subseteq UsedBy(j)
  BY DEF UsedBy
<1> QED BY <1>1 DEF Reached

LEMMA UsedIsReached ==
  ASSUME NEW i
  PROVE  UsedBy(i) \subseteq Reached(i)
<1> SUFFICES ASSUME NEW k \in UsedBy(i) PROVE k \in Reached(i)
  OBVIOUS
<1>1. k \in Keys /\ ~Ahead(k, k)
  BY KeysAreNumbers, AheadOrder DEF UsedBy
<1> QED BY <1>1 DEF Reached

LEMMA ReachedBehind ==
  ASSUME NEW i, NEW k \in Keys, NEW c \in Reached(i), ~Ahead(k, c)
  PROVE  k \in Reached(i)
<1>1. c \in Keys
  BY DEF Reached
<1>2. PICK l \in UsedBy(i) : ~Ahead(c, l)
  BY DEF Reached
<1>3. l \in Keys
  BY DEF UsedBy
<1>4. k \in Int /\ c \in Int /\ l \in Int
  BY <1>1, <1>3, KeysAreNumbers
<1>5. ~Ahead(k, l)
  BY <1>2, <1>4, AheadOrder
<1> QED BY <1>2, <1>5 DEF Reached

LEMMA ResultIsUsed ==
  ASSUME NEW i \in Nat
  PROVE  Result(i) \subseteq UsedBy(i)
BY WindowAssumption DEF Result, UsedBy

\* An insert of a key that is not ahead of all keys used before is late.
LEMMA LateInsert ==
  ASSUME WindowTypeOK, LogInv, NEW k \in Keys, NEW i \in 1..Len(commits),
         Changes(i, k), RowsAt(i - 1)[k] = NoRow, k \in Reached(i - 1)
  PROVE  Late(k)
<1>1. PICK l \in Keys, m \in 0..(i - 1) : RowsAt(m)[l] # NoRow /\ ~Ahead(k, l)
  BY DEF Reached, UsedBy
<1>2. m + 1 \in 1..i /\ history[m + 1][l] # NoRow
  BY <1>1, Counts DEF RowsAt
<1>3. RowsAt(i)[k] # NoRow
  BY DEF Changes
<1> QED BY <1>1, <1>2, <1>3 DEF Late

\* So is an insert of a key that a commit had changed before.
LEMMA LateAgain ==
  ASSUME WindowTypeOK, LogInv, NEW k \in Keys, NEW i \in 1..Len(commits),
         Changes(i, k), RowsAt(i - 1)[k] = NoRow,
         NEW j \in 1..(i - 1), Changes(j, k)
  PROVE  Late(k)
<1>1. RowsAt(j)[k] # NoRow \/ RowsAt(j - 1)[k] # NoRow
  BY DEF Changes
<1>2. j \in 0..(i - 1) /\ j - 1 \in 0..(i - 1)
  BY Counts
<1>3. k \in UsedBy(i - 1)
  BY <1>1, <1>2 DEF UsedBy
<1>4. k \in Reached(i - 1)
  BY <1>3, UsedIsReached
<1> QED BY <1>4, LateInsert

(***************************************************************************)
(* The source table and the stream take a step.                            *)
(***************************************************************************)
LogStep ==
  \/ \E k \in Keys, row \in Values \union {NoRow} : Write(k, row)
  \/ Cover
  \/ Restart

\* What such a step does, in the words of LogInv.
LogGrows ==
  /\ UNCHANGED <<window, pull, page>>
  /\ Len(commits') \in Nat /\ Len(commits) <= Len(commits')
  /\ \A i \in 0..Len(commits) : history'[i + 1] = history[i + 1]
  /\ covered \subseteq covered'
  /\ \A i \in (Len(commits) + 1)..Len(commits') : i \notin covered'
  /\ generation[Source] <= generation'[Source]
  /\ generation'[Source] = generation[Source] =>
       /\ \A i \in covered : i \in log'[Source] <=> i \in log[Source]
       /\ \A i \in covered' \ covered : i \in log'[Source] /\ \A j \in covered : j < i

\* The steps that leave the source table and the stream alone.
LogRests == UNCHANGED <<vars, history>>

LEMMA WindowSteps ==
  ASSUME WindowNext
  PROVE  \/ LogStep
         \/ Subscribe \/ Poll \/ LoadMore
         \/ HandleSubscribe \/ HandlePull \/ HandleLoadMore
         \/ ReceiveRows \/ ReceiveEvents \/ ReceivePage
         \/ PullFails \/ PageFails
BY DEF WindowNext, LogStep

LEMMA LogTypes ==
  ASSUME LogInv
  PROVE  /\ covered \subseteq 1..Len(commits) /\ log[Source] \subseteq covered
         /\ generation[Source] \in Nat
         /\ \A i \in covered : \A j \in 1..i : j \in covered
<1>1. PICK c \in 0..Len(commits) : covered = 1..c
  BY DEF LogInv
<1>2. Len(commits) \in Nat
  BY DEF LogInv
<1>3. log[Source] \in SUBSET covered /\ generation[Source] \in Nat
  BY WindowAssumption DEF LogInv
<1> QED BY <1>1, <1>2, <1>3

LEMMA WriteStep ==
  ASSUME WindowTypeOK, LogInv, NEW k \in Keys, NEW row \in Values \union {NoRow}, Write(k, row)
  PROVE  LogInv' /\ LogGrows /\ history' \in Seq(Content)
<1> DEFINE N == Len(commits)
<1>1. N \in Nat /\ Len(history) = N + 1 /\ history \in Seq(Content) /\ commits \in Seq({{Source}})
  BY DEF WindowTypeOK, LogInv
<1>2. RowsNow = history[N + 1] /\ RowsNow \in Content
  BY <1>1 DEF RowsNow
<1> DEFINE new == [RowsNow EXCEPT ![k] = row]
<1>3. /\ commits' = Append(commits, {Source}) /\ history' = Append(history, new)
      /\ UNCHANGED <<covered, log, generation, window, pull, page>>
      /\ row # RowsNow[k]
  BY DEF Write, AppendCommit
<1>4. new \in Content
  BY <1>2 DEF Content
<1>5. \A l \in Keys : new[l] # RowsNow[l] <=> l = k
  BY <1>2, <1>3 DEF Content
<1> HIDE DEF new
<1>6. /\ history' \in Seq(Content) /\ Len(history') = N + 2
      /\ \A i \in 1..(N + 1) : history'[i] = history[i]
      /\ history'[N + 2] = new
  BY <1>1, <1>3, <1>4
<1>7. commits' \in Seq({{Source}}) /\ Len(commits') = N + 1
  BY <1>1, <1>3
<1>8. covered \subseteq 1..N
  BY LogTypes
<1>9. LogGrows
  <2>1. \A i \in 0..N : history'[i + 1] = history[i + 1]
    BY <1>1, <1>6
  <2>2. generation[Source] \in Nat
    BY LogTypes
  <2> QED BY <1>1, <1>3, <1>7, <1>8, <2>1, <2>2 DEF LogGrows
<1>10. \A i \in 1..(N + 1) : \E l0 \in Keys : \A l \in Keys :
         history'[i + 1][l] # history'[i - 1 + 1][l] <=> l = l0
  <2> SUFFICES ASSUME NEW i \in 1..(N + 1)
               PROVE  \E l0 \in Keys : \A l \in Keys :
                        history'[i + 1][l] # history'[i - 1 + 1][l] <=> l = l0
    OBVIOUS
  <2>1. CASE i = N + 1
    <3>1. history'[i + 1] = new /\ history'[i - 1 + 1] = RowsNow
      BY <1>1, <1>2, <1>6, <2>1
    <3> QED BY <1>5, <3>1
  <2>2. CASE i # N + 1
    <3>1. i \in 1..N
      BY <1>1, <2>2
    <3>2. PICK l0 \in Keys : \A l \in Keys : history[i + 1][l] # history[i - 1 + 1][l] <=> l = l0
      BY <3>1 DEF LogInv, Changes, RowsAt
    <3>3. history'[i + 1] = history[i + 1] /\ history'[i - 1 + 1] = history[i - 1 + 1]
      BY <1>1, <1>6, <3>1
    <3> QED BY <3>2, <3>3
  <2> QED BY <2>1, <2>2
<1>11. \E c \in 0..Len(commits') : covered' = 1..c
  BY <1>1, <1>3, <1>7 DEF LogInv
<1>12. LogInv'
  <2>1. log' \in [Tables -> SUBSET covered'] /\ generation' \in [Tables -> Nat]
        /\ \A i \in log'[Source], j \in covered' : i < j => j \in log'[Source]
    BY <1>3 DEF LogInv
  <2> QED BY <1>1, <1>6, <1>7, <1>10, <1>11, <2>1 DEF LogInv, Changes, RowsAt
<1> QED BY <1>6, <1>9, <1>12

LEMMA CoverStep ==
  ASSUME WindowTypeOK, LogInv, Cover
  PROVE  LogInv' /\ LogGrows /\ UNCHANGED history
<1>1. PICK n \in 1..Len(commits) :
        /\ n \notin covered /\ \A m \in 1..(n - 1) : m \in covered
        /\ covered' = covered \union {n}
        /\ log' = [t \in Tables |-> IF t \in commits[n] THEN log[t] \union {n} ELSE log[t]]
        /\ UNCHANGED <<commits, generation>>
  BY DEF Cover, Publish
<1>2. UNCHANGED <<history, window, pull, page>>
  BY DEF Cover
<1>3. Len(commits) \in Nat /\ Source \in Tables /\ commits[n] = {Source}
  BY Counts, WindowAssumption DEF LogInv
<1>4. covered = 1..(n - 1) /\ covered' = 1..n
  <2>1. PICK c \in 0..Len(commits) : covered = 1..c
    BY DEF LogInv
  <2>2. c = n - 1
    BY <1>1, <1>3, <2>1
  <2> QED BY <1>1, <1>3, <2>1, <2>2
<1>5. log'[Source] = log[Source] \union {n}
  BY <1>1, <1>3
<1>6. log' \in [Tables -> SUBSET covered']
  BY <1>1 DEF LogInv
<1>7. log[Source] \subseteq covered /\ generation[Source] \in Nat
  BY LogTypes
<1>8. \A i \in log'[Source], j \in covered' : i < j => j \in log'[Source]
  BY <1>3, <1>4, <1>5, <1>7 DEF LogInv
<1>9. LogGrows
  BY <1>1, <1>2, <1>3, <1>4, <1>5, <1>7 DEF LogGrows
<1>10. LogInv'
  <2>1. \E c \in 0..Len(commits') : covered' = 1..c
    <3>1. n \in 0..Len(commits') /\ covered' = 1..n
      BY <1>1, <1>3, <1>4
    <3> QED BY <3>1
  <2>2. /\ commits' \in Seq({{Source}}) /\ Len(history') = Len(commits') + 1
        /\ generation' \in [Tables -> Nat]
    BY <1>1, <1>2 DEF LogInv
  <2>3. (\A i \in 1..Len(commits) : \E k \in Keys : \A l \in Keys : Changes(i, l) <=> l = k)'
    BY <1>1, <1>2 DEF LogInv, Changes, RowsAt
  <2> QED BY <1>6, <1>8, <2>1, <2>2, <2>3 DEF LogInv
<1> QED BY <1>2, <1>9, <1>10

LEMMA RestartStep ==
  ASSUME WindowTypeOK, LogInv, Restart
  PROVE  LogInv' /\ LogGrows /\ UNCHANGED history
<1>1. UNCHANGED <<history, window, pull, page, commits>>
  BY DEF Restart, Recreate, Resync, StartOver
<1>2. Source \in Tables /\ generation \in [Tables -> Nat] /\ Len(commits) \in Nat
  BY Counts, WindowAssumption DEF LogInv
<1>3. generation' \in [Tables -> Nat] /\ generation'[Source] = generation[Source] + 1
  BY <1>2 DEF Restart
<1>4. \E c \in 0..Len(commits) : covered' = 1..c /\ covered \subseteq covered'
  BY DEF Restart, Recreate, Resync, LogInv
<1>5. log' \in [Tables -> SUBSET covered'] /\ log'[Source] = {}
  <2>1. PICK T \in SUBSET Tables :
          /\ \A t \in Tables : t \in T <=> generation'[t] # generation[t]
          /\ log' = [t \in Tables |-> IF t \in T THEN {} ELSE log[t]]
    <3>1. CASE Recreate
      BY <3>1 DEF Recreate, StartOver
    <3>2. CASE Resync
      BY <3>2 DEF Resync, StartOver
    <3> QED BY <3>1, <3>2 DEF Restart
  <2>2. Source \in T
    BY <1>2, <1>3, <2>1
  <2>3. log \in [Tables -> SUBSET covered']
    BY <1>4 DEF LogInv
  <2> QED BY <1>2, <2>1, <2>2, <2>3
<1>6. LogGrows
  BY <1>1, <1>2, <1>3, <1>4 DEF LogGrows
<1>7. LogInv'
  BY <1>1, <1>3, <1>4, <1>5 DEF LogInv, Changes, RowsAt
<1> QED BY <1>1, <1>6, <1>7

LEMMA LogStepGrows ==
  ASSUME WindowTypeOK, LogInv, LogStep
  PROVE  LogInv' /\ LogGrows /\ history' \in Seq(Content)
<1>1. CASE \E k \in Keys, row \in Values \union {NoRow} : Write(k, row)
  BY <1>1, WriteStep
<1>2. CASE Cover
  BY <1>2, CoverStep DEF WindowTypeOK
<1>3. CASE Restart
  BY <1>3, RestartStep DEF WindowTypeOK
<1> QED BY <1>1, <1>2, <1>3 DEF LogStep

LEMMA LogKept ==
  ASSUME LogInv, LogRests
  PROVE  LogInv'
BY DEF LogInv, LogRests, vars, Changes, RowsAt

\* A token that is accepted after the step was accepted before it, and has the
\* same commits to read, and those that are new.
LEMMA TokenGrows ==
  ASSUME LogInv, LogInv', LogGrows, NEW tok \in Token, TokenOK(tok)
  PROVE  /\ tok.epoch <= generation'[Source]
         /\ tok.epoch = generation'[Source] =>
              /\ Current(tok) /\ tok.snapshot \in covered' \union {0}
              /\ \A i \in 1..Len(commits') :
                   i \notin covered' \/ (i \in log'[Source] /\ i > tok.snapshot)
                     <=> i > Len(commits) \/ Pending(i, tok)
<1>1. tok.epoch \in Int /\ tok.snapshot \in Nat
  BY DEF Token
<1>2. generation[Source] \in Nat /\ generation'[Source] \in Nat
      /\ generation[Source] <= generation'[Source]
  BY LogTypes, WindowAssumption DEF LogGrows, LogInv
<1>3. tok.epoch <= generation[Source]
  BY DEF TokenOK
<1>4. ASSUME tok.epoch = generation'[Source]
      PROVE  /\ Current(tok) /\ tok.snapshot \in covered' \union {0}
             /\ \A i \in 1..Len(commits') :
                  i \notin covered' \/ (i \in log'[Source] /\ i > tok.snapshot)
                    <=> i > Len(commits) \/ Pending(i, tok)
  <2>1. generation'[Source] = generation[Source] /\ Current(tok)
    BY <1>1, <1>2, <1>3, <1>4 DEF Current
  <2>2. /\ \A i \in covered : i \in log'[Source] <=> i \in log[Source]
        /\ \A i \in covered' \ covered : i \in log'[Source] /\ \A j \in covered : j < i
        /\ covered \subseteq covered'
        /\ \A i \in (Len(commits) + 1)..Len(commits') : i \notin covered'
    BY <2>1 DEF LogGrows
  <2>3. tok.snapshot \in covered \union {0}
    BY <2>1 DEF TokenOK
  <2>4. Len(commits) \in Nat /\ Len(commits') \in Nat /\ covered \subseteq 1..Len(commits)
    BY LogTypes DEF LogInv
  <2>5. ASSUME NEW i \in 1..Len(commits')
        PROVE  i \notin covered' \/ (i \in log'[Source] /\ i > tok.snapshot)
                 <=> i > Len(commits) \/ Pending(i, tok)
    <3>1. CASE i \in covered
      BY <2>2, <2>4, <3>1 DEF Pending
    <3>2. CASE i \in covered' \ covered
      BY <1>1, <2>2, <2>3, <2>4, <3>2 DEF Pending
    <3>3. CASE i \notin covered'
      BY <2>2, <3>3 DEF Pending
    <3> QED BY <3>1, <3>2, <3>3
  <2> QED BY <2>1, <2>2, <2>3, <2>5
<1> QED BY <1>1, <1>2, <1>3, <1>4

\* Operators over the past do not change.
LEMMA PastGrows ==
  ASSUME WindowTypeOK, LogInv, LogGrows, FlightInv
  PROVE  /\ ClientKeys' = ClientKeys
         /\ Reached(Len(commits)) \subseteq Reached(Len(commits))'
         /\ Reached(pull.pos)' = Reached(pull.pos) /\ UsedBy(pull.pos)' = UsedBy(pull.pos)
         /\ Result(pull.pos)' = Result(pull.pos)
         /\ Reached(page.pos)' = Reached(page.pos) /\ Result(page.pos)' = Result(page.pos)
<1>1. Len(commits) \in Nat /\ Len(commits') \in Nat /\ Len(commits) <= Len(commits')
  BY Counts DEF LogGrows
<1>2. UNCHANGED <<entries, range, pull, page>>
  BY DEF LogGrows, window
<1>3. pull.pos \in 0..Len(commits) /\ page.pos \in 0..Len(commits)
  <2>1. pull.pos \in Nat /\ page.pos \in Nat
    BY DEF WindowTypeOK, Request
  <2> QED BY <1>1, <2>1 DEF FlightInv
<1>4. \A i \in 0..Len(commits) : history'[i + 1] = history[i + 1]
  BY DEF LogGrows
<1>5. ClientKeys' = ClientKeys
  BY <1>2 DEF ClientKeys, PageKeys, Shown, Pks, RangeKeys
<1>6. UsedBy(pull.pos)' = UsedBy(pull.pos) /\ UsedBy(page.pos)' = UsedBy(page.pos)
  <2>1. \A k \in Keys : /\ \A j \in 0..pull.pos : history'[j + 1][k] = history[j + 1][k]
                       /\ \A j \in 0..page.pos : history'[j + 1][k] = history[j + 1][k]
    BY <1>1, <1>3, <1>4
  <2>2. UsedBy(pull.pos)' = UsedBy(pull.pos)
    BY <1>2, <2>1 DEF UsedBy, RowsAt
  <2>3. UsedBy(page.pos)' = UsedBy(page.pos)
    BY <1>2, <2>1 DEF UsedBy, RowsAt
  <2> QED BY <2>2, <2>3
<1>7. Reached(pull.pos)' = Reached(pull.pos) /\ Reached(page.pos)' = Reached(page.pos)
  BY <1>6 DEF Reached
<1>8. Result(pull.pos)' = Result(pull.pos) /\ Result(page.pos)' = Result(page.pos)
  BY <1>2, <1>3, <1>4 DEF Result, RowsAt
<1>9. UsedBy(Len(commits)) \subseteq UsedBy(Len(commits))'
  BY <1>1, <1>4 DEF UsedBy, RowsAt
<1>10. Reached(Len(commits)) \subseteq Reached(Len(commits))'
  BY <1>9 DEF Reached
<1> QED BY <1>5, <1>6, <1>7, <1>8, <1>10

(***************************************************************************)
(* The merge core's list.                                                  *)
(***************************************************************************)
Entry == [pk : Keys, row : Values]

\* The middle of an interval of the binary search.
LEMMA Middle ==
  ASSUME NEW low \in Nat, NEW high \in Nat, low < high
  PROVE  (low + high) \div 2 \in low..(high - 1)
OBVIOUS

\* The binary search stops between a row that is not behind the key and one that is.
LEMMA SlotFound ==
  ASSUME NEW seq \in Seq(Entry), NEW pk \in Keys
  PROVE  /\ SlotFor(seq, pk) \in 0..Len(seq)
         /\ SlotFor(seq, pk) < Len(seq) => Ahead(pk, seq[SlotFor(seq, pk) + 1].pk)
         /\ SlotFor(seq, pk) > 0 => ~Ahead(pk, seq[SlotFor(seq, pk)].pk)
<1> DEFINE N == Len(seq)
           D == (0..N) \X (0..N)
           mid(b) == (b[1] + b[2]) \div 2
           Look(f, b) == IF b[1] >= b[2] THEN b[1]
                         ELSE IF Ahead(pk, seq[mid(b) + 1].pk) THEN f[<<b[1], mid(b)>>]
                         ELSE f[<<mid(b) + 1, b[2]>>]
           Body(f) == [b \in D |-> Look(f, b)]
           step == [f \in [D -> 0..N] |-> Body(f)]
           rank == [b \in D |-> IF b[1] >= b[2] THEN 0 ELSE b[2] - b[1]]
<1>1. N \in Nat
  OBVIOUS
<1>2. rank \in [D -> Nat]
  BY <1>1
<1>3. ASSUME NEW b \in D, b[1] < b[2]
      PROVE  /\ mid(b) \in b[1]..(b[2] - 1)
             /\ <<b[1], mid(b)>> \in D /\ <<mid(b) + 1, b[2]>> \in D
             /\ rank[<<b[1], mid(b)>>] < rank[b] /\ rank[<<mid(b) + 1, b[2]>>] < rank[b]
  <2>1. b[1] \in 0..N /\ b[2] \in 0..N
    OBVIOUS
  <2>2. mid(b) \in b[1]..(b[2] - 1)
    <3> HIDE DEF N
    <3> QED BY <1>1, <1>3, <2>1, Middle
  <2> HIDE DEF mid
  <2>3. <<b[1], mid(b)>> \in D /\ <<mid(b) + 1, b[2]>> \in D
    BY <1>1, <2>1, <2>2
  <2>4. rank[<<b[1], mid(b)>>] < rank[b] /\ rank[<<mid(b) + 1, b[2]>>] < rank[b]
    BY <1>1, <1>3, <2>1, <2>2, <2>3
  <2> QED BY <2>2, <2>3, <2>4
<1>4. step \in [[D -> 0..N] -> [D -> 0..N]]
  <2>1. ASSUME NEW f \in [D -> 0..N], NEW b \in D PROVE Look(f, b) \in 0..N
    <3>1. CASE b[1] >= b[2]
      BY <3>1
    <3>2. CASE b[1] < b[2]
      <4>1. <<b[1], mid(b)>> \in D /\ <<mid(b) + 1, b[2]>> \in D
        BY <1>3, <3>2
      <4>2. ~(b[1] >= b[2])
        BY <1>1, <3>2
      <4> HIDE DEF mid, D
      <4> QED BY <4>1, <4>2
    <3> QED BY <1>1, <3>1, <3>2
  <2> HIDE DEF Look
  <2> QED BY <2>1
<1>5. ASSUME NEW f \in [D -> 0..N], NEW g \in [D -> 0..N], NEW b \in D,
             \A d \in D : rank[d] < rank[b] => f[d] = g[d]
      PROVE  Look(f, b) = Look(g, b)
  <2>1. CASE b[1] >= b[2]
    BY <2>1
  <2>2. CASE b[1] < b[2]
    <3> HIDE DEF mid, rank, D
    <3> QED BY <1>3, <1>5, <2>2
  <2> QED BY <1>1, <2>1, <2>2
<1>6. PICK f \in [D -> 0..N] : Solves(f, D, step)
  <2>1. 0..N # {}
    BY <1>1
  <2>2. LooksDown(D, 0..N, rank, step)
    <3>1. \A f \in [D -> 0..N], b \in D : step[f][b] = Look(f, b)
      <4> HIDE DEF Look, D
      <4> QED OBVIOUS
    <3> HIDE DEF Look, rank, step, D
    <3>2. ASSUME NEW f \in [D -> 0..N], NEW g \in [D -> 0..N], NEW b \in D,
                 \A d \in D : rank[d] < rank[b] => f[d] = g[d]
          PROVE  step[f][b] = step[g][b]
      <4>1. Look(f, b) = Look(g, b)
        BY <1>5, <3>2
      <4> QED BY <3>1, <4>1
    <3> QED BY <3>2 DEF LooksDown
  <2> HIDE DEF step, rank, D
  <2> QED BY <1>2, <1>4, <2>1, <2>2, RecursionExists
<1>7. f = Body(f)
  <2> HIDE DEF Look
  <2> QED BY <1>6 DEF Solves
<1> DEFINE slot == CHOOSE g : g = Body(g)
<1>8. slot = Body(slot)
  <2> HIDE DEF Body
  <2> QED BY <1>7
<1>9. SlotFor(seq, pk) = slot[<<0, N>>]
  BY DEF SlotFor
<1> HIDE DEF slot
<1>10. \A b \in D : slot[b] = Look(slot, b)
  <2> HIDE DEF Look
  <2> QED BY <1>8
<1> DEFINE Good(p) == /\ p \in 0..N
                      /\ p < N => Ahead(pk, seq[p + 1].pk)
                      /\ p > 0 => ~Ahead(pk, seq[p].pk)
           Fits(b) == /\ b[1] <= b[2]
                      /\ b[2] < N => Ahead(pk, seq[b[2] + 1].pk)
                      /\ b[1] > 0 => ~Ahead(pk, seq[b[1]].pk)
           T == {b \in D : Fits(b) => Good(slot[b])}
<1>11. ASSUME NEW b \in D, \A d \in D : rank[d] < rank[b] => d \in T PROVE b \in T
  <2> SUFFICES ASSUME Fits(b) PROVE Good(slot[b])
    OBVIOUS
  <2>1. b[1] \in 0..N /\ b[2] \in 0..N /\ slot[b] = Look(slot, b)
    BY <1>10
  <2>2. CASE b[1] >= b[2]
    <3>1. slot[b] = b[1] /\ b[1] = b[2]
      BY <1>1, <2>1, <2>2
    <3> QED BY <2>1, <3>1
  <2>3. CASE b[1] < b[2]
    <3> HIDE DEF rank
    <3>1. /\ mid(b) \in b[1]..(b[2] - 1)
          /\ <<b[1], mid(b)>> \in T /\ <<mid(b) + 1, b[2]>> \in T
      <4> HIDE DEF D, T, mid
      <4> QED BY <1>3, <1>11, <2>3
    <3> HIDE DEF mid
    <3>2. mid(b) \in Nat /\ mid(b) + 1 > 0
      BY <1>1, <2>1, <3>1
    <3>3. CASE Ahead(pk, seq[mid(b) + 1].pk)
      <4>1. Fits(<<b[1], mid(b)>>)
        BY <1>1, <2>1, <3>1, <3>3
      <4>2. slot[b] = slot[<<b[1], mid(b)>>]
        BY <1>1, <2>1, <2>3, <3>3
      <4> HIDE DEF Good, Fits, D
      <4> QED BY <3>1, <4>1, <4>2
    <3>4. CASE ~Ahead(pk, seq[mid(b) + 1].pk)
      <4>1. Fits(<<mid(b) + 1, b[2]>>)
        BY <1>1, <2>1, <3>1, <3>2, <3>4
      <4>2. slot[b] = slot[<<mid(b) + 1, b[2]>>]
        BY <1>1, <2>1, <2>3, <3>4
      <4> HIDE DEF Good, Fits, D
      <4> QED BY <3>1, <4>1, <4>2
    <3> QED BY <3>3, <3>4
  <2>4. b[1] >= b[2] \/ b[1] < b[2]
    BY <1>1, <2>1
  <2> HIDE DEF Good, Fits, D
  <2> QED BY <2>2, <2>3, <2>4
<1>12. D \subseteq T
  <2> HIDE DEF T, D, rank
  <2> QED BY <1>2, <1>11, RankInduction
<1>13. <<0, N>> \in D /\ Fits(<<0, N>>)
  BY <1>1
<1>14. Good(slot[<<0, N>>])
  <2> HIDE DEF Good
  <2> QED BY <1>12, <1>13
<1> QED BY <1>9, <1>14

\* The list with an entry put in behind the first p rows.
Puts(s, t, p, entry) ==
  /\ p \in 0..Len(s) /\ Len(t) = Len(s) + 1
  /\ \A n \in 1..Len(t) :
       t[n] = IF n <= p THEN s[n] ELSE IF n = p + 1 THEN entry ELSE s[n - 1]

\* The list without its row p.
Drops(s, t, p) ==
  /\ p \in 1..Len(s) /\ Len(t) = Len(s) - 1
  /\ \A n \in 1..Len(t) : t[n] = IF n < p THEN s[n] ELSE s[n + 1]

\* The list with the content of one key replaced.
Replaces(s, t, entry) ==
  /\ Len(t) = Len(s)
  /\ \A n \in 1..Len(t) : t[n] = IF s[n].pk = entry.pk THEN entry ELSE s[n]

Distinct(s) == \A m, n \in DOMAIN s : m # n => s[m].pk # s[n].pk

LEMMA InsertAtPuts ==
  ASSUME NEW s \in Seq(Entry), NEW p \in 0..Len(s), NEW entry \in Entry
  PROVE  InsertAt(s, p + 1, entry) \in Seq(Entry) /\ Puts(s, InsertAt(s, p + 1, entry), p, entry)
<1> DEFINE N == Len(s)
           front == SubSeq(s, 1, p)
           back == SubSeq(s, p + 1, N)
<1>1. N \in Nat /\ p \in Nat
  OBVIOUS
<1>2. InsertAt(s, p + 1, entry) = (front \o <<entry>>) \o back
  <2>1. (p + 1) - 1 = p
    BY <1>1
  <2> QED BY <2>1, Zenon DEF InsertAt
<1>3. front \in Seq(Entry) /\ Len(front) = p /\ \A n \in 1..p : front[n] = s[n]
  BY <1>1, SubSeqProperties
<1>4. back \in Seq(Entry) /\ Len(back) = N - p /\ \A n \in 1..(N - p) : back[n] = s[p + n]
  <2>1. p + 1 \in 1..(N + 1) /\ N \in p..N
    BY <1>1
  <2> QED BY <1>1, <2>1, SubSeqProperties
<1> DEFINE left == front \o <<entry>>
           t == left \o back
<1> HIDE DEF front, back
<1>5. /\ left \in Seq(Entry) /\ Len(left) = p + 1
      /\ \A n \in 1..p : left[n] = s[n]
      /\ left[p + 1] = entry
  <2>1. <<entry>> \in Seq(Entry) /\ Len(<<entry>>) = 1 /\ <<entry>>[1] = entry
    OBVIOUS
  <2> QED BY <1>1, <1>3, <2>1
<1> HIDE DEF left, N
<1>6. /\ t \in Seq(Entry) /\ Len(t) = N + 1
      /\ \A n \in 1..(p + 1) : t[n] = left[n]
      /\ \A n \in (p + 2)..(N + 1) : t[n] = back[n - (p + 1)]
  <2>1. back \in Seq(Entry) /\ left \in Seq(Entry)
    BY <1>4, <1>5
  <2>2. /\ t \in Seq(Entry) /\ Len(t) = Len(left) + Len(back)
        /\ \A n \in 1..(Len(left) + Len(back)) :
             t[n] = IF n <= Len(left) THEN left[n] ELSE back[n - Len(left)]
    BY <2>1, ConcatProperties
  <2>3. Len(left) = p + 1 /\ Len(left) + Len(back) = N + 1
    BY <1>1, <1>4, <1>5 DEF N
  <2> HIDE DEF t
  <2>4. /\ \A n \in 1..(N + 1) : t[n] = IF n <= p + 1 THEN left[n] ELSE back[n - (p + 1)]
        /\ Len(t) = N + 1
    BY <2>2, <2>3
  <2>5. \A n \in 1..(p + 1) : n \in 1..(N + 1) /\ n <= p + 1
    BY <1>1 DEF N
  <2>6. \A n \in (p + 2)..(N + 1) : n \in 1..(N + 1) /\ ~(n <= p + 1)
    BY <1>1 DEF N
  <2> QED BY <2>2, <2>4, <2>5, <2>6
<1> HIDE DEF t
<1>7. ASSUME NEW n \in 1..(N + 1)
      PROVE  t[n] = IF n <= p THEN s[n] ELSE IF n = p + 1 THEN entry ELSE s[n - 1]
  <2>1. n \in Int
    OBVIOUS
  <2>2. CASE n <= p + 1
    BY <1>1, <1>5, <1>6, <2>2
  <2>3. CASE n > p + 1
    <3>1. n - (p + 1) \in 1..(N - p) /\ p + (n - (p + 1)) = n - 1
      BY <1>1, <2>3 DEF N
    <3>2. t[n] = s[n - 1]
      <4>1. n \in (p + 2)..(N + 1)
        BY <1>1, <2>1, <2>3
      <4>2. t[n] = back[n - (p + 1)]
        BY <1>6, <4>1
      <4> QED BY <1>4, <3>1, <4>2
    <3>3. ~(n <= p) /\ n # p + 1
      BY <1>1, <2>3
    <3> QED BY <3>2, <3>3
  <2> QED BY <1>1, <2>1, <2>2, <2>3
<1>8. InsertAt(s, p + 1, entry) = t
  BY <1>2 DEF t, left
<1>9. Puts(s, t, p, entry)
  BY <1>1, <1>6, <1>7 DEF Puts, N
<1> QED BY <1>6, <1>8, <1>9

LEMMA RemoveAtDrops ==
  ASSUME NEW s \in Seq(Entry), NEW p \in 1..Len(s)
  PROVE  RemoveAt(s, p) \in Seq(Entry) /\ Drops(s, RemoveAt(s, p), p)
<1> DEFINE N == Len(s)
           front == SubSeq(s, 1, p - 1)
           back == SubSeq(s, p + 1, N)
<1>1. N \in Nat /\ p \in Nat
  OBVIOUS
<1>2. RemoveAt(s, p) = front \o back
  BY DEF RemoveAt
<1>3. front \in Seq(Entry) /\ Len(front) = p - 1 /\ \A n \in 1..(p - 1) : front[n] = s[n]
  <2>1. p - 1 \in 0..N /\ 1 \in 1..(N + 1)
    BY <1>1
  <2> QED BY <1>1, <2>1, SubSeqProperties
<1>4. back \in Seq(Entry) /\ Len(back) = N - p /\ \A n \in 1..(N - p) : back[n] = s[p + n]
  <2>1. p + 1 \in 1..(N + 1) /\ N \in p..N
    BY <1>1
  <2> QED BY <1>1, <2>1, SubSeqProperties
<1> HIDE DEF front, back
<1> DEFINE t == front \o back
<1>5. /\ t \in Seq(Entry) /\ Len(t) = N - 1
      /\ \A n \in 1..(p - 1) : t[n] = s[n]
      /\ \A n \in p..(N - 1) : t[n] = back[n - (p - 1)]
  BY <1>1, <1>3, <1>4
<1> HIDE DEF t
<1>6. ASSUME NEW n \in 1..(N - 1) PROVE t[n] = IF n < p THEN s[n] ELSE s[n + 1]
  <2>1. n \in Int
    OBVIOUS
  <2>2. CASE n < p
    BY <1>1, <1>5, <2>2
  <2>3. CASE n >= p
    <3>1. n - (p - 1) \in 1..(N - p) /\ p + (n - (p - 1)) = n + 1
      BY <1>1, <2>3
    <3>2. t[n] = s[n + 1]
      BY <1>1, <1>4, <1>5, <2>3, <3>1
    <3> QED BY <1>1, <2>3, <3>2
  <2> QED BY <1>1, <2>1, <2>2, <2>3
<1>7. RemoveAt(s, p) = t
  BY <1>2 DEF t
<1> QED BY <1>1, <1>5, <1>6, <1>7 DEF Drops

LEMMA PutsKeys ==
  ASSUME NEW s \in Seq(Entry), NEW t \in Seq(Entry), NEW p, NEW entry \in Entry,
         Puts(s, t, p, entry)
  PROVE  /\ \A n \in DOMAIN t : t[n] = entry \/ \E m \in DOMAIN s : t[n] = s[m]
         /\ \A m \in DOMAIN s : \E n \in DOMAIN t : t[n] = s[m]
         /\ \E n \in DOMAIN t : t[n] = entry
         /\ Distinct(s) /\ entry.pk \notin Pks(s) => Distinct(t)
<1>1. /\ p \in 0..Len(s) /\ Len(t) = Len(s) + 1 /\ Len(s) \in Nat
      /\ \A n \in 1..Len(t) :
           t[n] = IF n <= p THEN s[n] ELSE IF n = p + 1 THEN entry ELSE s[n - 1]
  BY DEF Puts
<1>2. DOMAIN t = 1..(Len(s) + 1) /\ DOMAIN s = 1..Len(s)
  BY <1>1
<1>3. \A n \in DOMAIN t : t[n] = entry \/ \E m \in DOMAIN s : t[n] = s[m]
  <2> SUFFICES ASSUME NEW n \in DOMAIN t, n # p + 1 PROVE \E m \in DOMAIN s : t[n] = s[m]
    BY <1>1, <1>2
  <2>1. CASE n <= p
    BY <1>1, <1>2, <2>1
  <2>2. CASE n > p
    <3>1. n - 1 \in DOMAIN s /\ t[n] = s[n - 1]
      BY <1>1, <1>2, <2>2
    <3> QED BY <3>1
  <2> QED BY <1>1, <1>2, <2>1, <2>2
<1>4. \A m \in DOMAIN s : \E n \in DOMAIN t : t[n] = s[m]
  <2> SUFFICES ASSUME NEW m \in DOMAIN s PROVE \E n \in DOMAIN t : t[n] = s[m]
    OBVIOUS
  <2>1. CASE m <= p
    <3>1. m \in DOMAIN t /\ t[m] = s[m]
      BY <1>1, <1>2, <2>1
    <3> QED BY <3>1
  <2>2. CASE m > p
    <3>1. m + 1 \in DOMAIN t /\ t[m + 1] = s[m]
      BY <1>1, <1>2, <2>2
    <3> QED BY <3>1
  <2> QED BY <1>1, <1>2, <2>1, <2>2
<1>5. p + 1 \in DOMAIN t /\ t[p + 1] = entry
  BY <1>1, <1>2
<1>6. ASSUME Distinct(s), entry.pk \notin Pks(s) PROVE Distinct(t)
  <2> SUFFICES ASSUME NEW m \in DOMAIN t, NEW n \in DOMAIN t, m < n
               PROVE  t[m].pk # t[n].pk
    BY <1>2 DEF Distinct
  <2>1. \A l \in DOMAIN s : s[l].pk # entry.pk
    BY <1>6 DEF Pks
  <2>2. CASE m <= p /\ n <= p
    BY <1>1, <1>2, <1>6, <2>2 DEF Distinct
  <2>3. CASE m <= p /\ n = p + 1
    BY <1>1, <1>2, <2>1, <2>3
  <2>4. CASE m <= p /\ n > p + 1
    <3>1. n - 1 \in DOMAIN s /\ t[n] = s[n - 1] /\ m \in DOMAIN s /\ t[m] = s[m] /\ m # n - 1
      BY <1>1, <1>2, <2>4
    <3> QED BY <1>6, <3>1 DEF Distinct
  <2>5. CASE m = p + 1
    <3>1. n - 1 \in DOMAIN s /\ t[n] = s[n - 1] /\ t[m] = entry
      BY <1>1, <1>2, <2>5
    <3> QED BY <2>1, <3>1
  <2>6. CASE m > p + 1
    <3>1. /\ n - 1 \in DOMAIN s /\ t[n] = s[n - 1]
          /\ m - 1 \in DOMAIN s /\ t[m] = s[m - 1] /\ m - 1 # n - 1
      BY <1>1, <1>2, <2>6
    <3> QED BY <1>6, <3>1 DEF Distinct
  <2> QED BY <1>1, <1>2, <2>2, <2>3, <2>4, <2>5, <2>6
<1> QED BY <1>3, <1>4, <1>5, <1>6

LEMMA DropsKeys ==
  ASSUME NEW s \in Seq(Entry), NEW t \in Seq(Entry), NEW p, Drops(s, t, p), Distinct(s)
  PROVE  /\ \A n \in DOMAIN t : \E m \in DOMAIN s : t[n] = s[m] /\ s[m].pk # s[p].pk
         /\ \A m \in DOMAIN s : s[m].pk # s[p].pk => \E n \in DOMAIN t : t[n] = s[m]
         /\ Distinct(t)
<1>1. /\ p \in 1..Len(s) /\ Len(t) = Len(s) - 1 /\ Len(s) \in Nat
      /\ \A n \in 1..Len(t) : t[n] = IF n < p THEN s[n] ELSE s[n + 1]
  BY DEF Drops
<1>2. DOMAIN t = 1..(Len(s) - 1) /\ DOMAIN s = 1..Len(s)
  BY <1>1
<1> DEFINE at(n) == IF n < p THEN n ELSE n + 1
<1>3. \A n \in DOMAIN t : at(n) \in DOMAIN s /\ at(n) # p /\ t[n] = s[at(n)]
  BY <1>1, <1>2
<1>4. \A m, n \in DOMAIN t : m # n => at(m) # at(n)
  BY <1>1, <1>2
<1>5. \A m \in DOMAIN s : m # p => \E n \in DOMAIN t : at(n) = m
  <2> SUFFICES ASSUME NEW m \in DOMAIN s, m # p PROVE \E n \in DOMAIN t : at(n) = m
    OBVIOUS
  <2>1. CASE m < p
    <3>1. m \in DOMAIN t /\ at(m) = m
      BY <1>1, <1>2, <2>1
    <3> QED BY <3>1
  <2>2. CASE m > p
    <3>1. m - 1 \in DOMAIN t /\ at(m - 1) = m
      BY <1>1, <1>2, <2>2
    <3> QED BY <3>1
  <2> QED BY <1>1, <1>2, <2>1, <2>2
<1> HIDE DEF at
<1>6. \A n \in DOMAIN t : \E m \in DOMAIN s : t[n] = s[m] /\ s[m].pk # s[p].pk
  BY <1>1, <1>2, <1>3 DEF Distinct
<1>7. \A m \in DOMAIN s : s[m].pk # s[p].pk => \E n \in DOMAIN t : t[n] = s[m]
  BY <1>3, <1>5
<1>8. Distinct(t)
  BY <1>3, <1>4 DEF Distinct
<1> QED BY <1>6, <1>7, <1>8

LEMMA ReplacesKeys ==
  ASSUME NEW s \in Seq(Entry), NEW t \in Seq(Entry), NEW entry \in Entry,
         Replaces(s, t, entry)
  PROVE  /\ DOMAIN t = DOMAIN s /\ \A n \in DOMAIN s : t[n].pk = s[n].pk
         /\ Distinct(s) => Distinct(t)
<1>1. DOMAIN t = DOMAIN s
  BY DEF Replaces
<1>2. \A n \in DOMAIN s : t[n].pk = s[n].pk
  BY DEF Replaces
<1> QED BY <1>1, <1>2 DEF Distinct

(***************************************************************************)
(* applyEvents, one event at a time.                                       *)
(***************************************************************************)
\* The event brings the content of its key.
Brings(e) == e.op = "insert" \/ (e.op = "update" /\ e.matchesNew)

\* What applyEvents does with one event: it puts the row in between two rows
\* in order, replaces its content, takes it out, or ignores the event.
Takes(s, t, e, r) ==
  \/ /\ Brings(e) /\ e.pk \notin Pks(s)
     /\ e.op = "insert" => IsInsertPrepend(e.pk, r)
     /\ \E p \in 0..Len(s) :
          /\ Puts(s, t, p, [pk |-> e.pk, row |-> e.row])
          /\ p < Len(s) => Ahead(e.pk, s[p + 1].pk)
          /\ p > 0 => ~Ahead(e.pk, s[p].pk)
  \/ /\ Brings(e) /\ e.op # "insert" /\ e.pk \in Pks(s)
     /\ Replaces(s, t, [pk |-> e.pk, row |-> e.row])
  \/ /\ ~Brings(e)
     /\ \E p \in 1..Len(s) : s[p].pk = e.pk /\ Drops(s, t, p)
  \/ /\ t = s
     /\ \/ e.op = "insert" /\ (e.pk \in Pks(s) \/ ~IsInsertPrepend(e.pk, r))
        \/ ~Brings(e) /\ e.pk \notin Pks(s)

LEMMA EventTaken ==
  ASSUME NEW s \in Seq(Entry), NEW e, NEW r,
         e.pk \in Keys, Brings(e) => e.row \in Values
  PROVE  ApplyEvent(s, e, r) \in Seq(Entry) /\ Takes(s, ApplyEvent(s, e, r), e, r)
<1> DEFINE entry == [pk |-> e.pk, row |-> e.row]
           replaced == [n \in DOMAIN s |-> IF s[n].pk = e.pk THEN entry ELSE s[n]]
<1>1. Brings(e) => entry \in Entry
  BY DEF Entry
<1>2. ASSUME Brings(e)
      PROVE  /\ InsertSorted(s, entry) \in Seq(Entry)
             /\ \E p \in 0..Len(s) :
                  /\ Puts(s, InsertSorted(s, entry), p, entry)
                  /\ p < Len(s) => Ahead(e.pk, s[p + 1].pk)
                  /\ p > 0 => ~Ahead(e.pk, s[p].pk)
  <2> DEFINE p == SlotFor(s, e.pk)
  <2>1. /\ p \in 0..Len(s)
        /\ p < Len(s) => Ahead(e.pk, s[p + 1].pk)
        /\ p > 0 => ~Ahead(e.pk, s[p].pk)
    BY SlotFound
  <2>2. entry \in Entry /\ entry.pk = e.pk
    BY <1>1, <1>2
  <2> HIDE DEF entry, p
  <2>3. InsertSorted(s, entry) = InsertAt(s, p + 1, entry)
    BY <2>2 DEF InsertSorted, p
  <2>4. InsertAt(s, p + 1, entry) \in Seq(Entry) /\ Puts(s, InsertAt(s, p + 1, entry), p, entry)
    BY <2>1, <2>2, InsertAtPuts
  <2> QED BY <2>1, <2>3, <2>4
<1>3. ASSUME Brings(e) PROVE replaced \in Seq(Entry) /\ Replaces(s, replaced, entry)
  <2> HIDE DEF entry
  <2>1. replaced \in Seq(Entry) /\ Len(replaced) = Len(s)
    BY <1>1, <1>3
  <2>2. entry.pk = e.pk
    BY DEF entry
  <2> QED BY <2>1, <2>2 DEF Replaces
<1>4. /\ Without(s, e.pk) \in Seq(Entry)
      /\ IF e.pk \in Pks(s)
         THEN \E p \in 1..Len(s) : s[p].pk = e.pk /\ Drops(s, Without(s, e.pk), p)
         ELSE Without(s, e.pk) = s
  <2>1. CASE e.pk \in Pks(s)
    <3> DEFINE p == CHOOSE n \in DOMAIN s : s[n].pk = e.pk
    <3>1. p \in DOMAIN s /\ s[p].pk = e.pk
      BY <2>1 DEF Pks
    <3>2. Without(s, e.pk) = RemoveAt(s, p)
      BY <2>1 DEF Without
    <3> HIDE DEF p
    <3>3. p \in 1..Len(s)
      BY <3>1
    <3>4. RemoveAt(s, p) \in Seq(Entry) /\ Drops(s, RemoveAt(s, p), p)
      BY <3>3, RemoveAtDrops
    <3> QED BY <2>1, <3>1, <3>2, <3>3, <3>4
  <2>2. CASE e.pk \notin Pks(s)
    BY <2>2 DEF Without
  <2> QED BY <2>1, <2>2
<1> DEFINE t == ApplyEvent(s, e, r)
<1>5. t = CASE e.op = "insert" ->
                IF ~(e.pk \in Pks(s)) /\ IsInsertPrepend(e.pk, r) THEN InsertSorted(s, entry) ELSE s
           [] e.op = "update" /\ e.matchesNew ->
                IF e.pk \in Pks(s) THEN replaced ELSE InsertSorted(s, entry)
           [] OTHER -> Without(s, e.pk)
  BY DEF ApplyEvent
<1> HIDE DEF t, replaced
<1>6. CASE e.op = "insert"
  <2>1. t = IF e.pk \notin Pks(s) /\ IsInsertPrepend(e.pk, r) THEN InsertSorted(s, entry) ELSE s
    BY <1>5, <1>6
  <2>2. Brings(e)
    BY <1>6 DEF Brings
  <2> QED BY <1>2, <1>6, <2>1, <2>2 DEF Takes, t
<1>7. CASE e.op = "update" /\ e.matchesNew
  <2>1. t = IF e.pk \in Pks(s) THEN replaced ELSE InsertSorted(s, entry)
    BY <1>5, <1>7
  <2>2. Brings(e) /\ e.op # "insert"
    BY <1>7 DEF Brings
  <2> QED BY <1>2, <1>3, <2>1, <2>2 DEF Takes, t
<1>8. CASE e.op # "insert" /\ ~(e.op = "update" /\ e.matchesNew)
  <2>1. t = Without(s, e.pk)
    BY <1>5, <1>8
  <2>2. ~Brings(e)
    BY <1>8 DEF Brings
  <2> QED BY <1>4, <2>1, <2>2 DEF Takes, t
<1> QED BY <1>6, <1>7, <1>8

\* Which rows are loaded after an event.
LEMMA TakenRows ==
  ASSUME NEW s \in Seq(Entry), NEW t \in Seq(Entry), NEW e, NEW r,
         e.pk \in Keys, Brings(e) => e.row \in Values, Distinct(s), Takes(s, t, e, r)
  PROVE  /\ Distinct(t)
         /\ \A n \in DOMAIN t : t[n].pk # e.pk => \E m \in DOMAIN s : t[n] = s[m]
         /\ \A m \in DOMAIN s : s[m].pk # e.pk => \E n \in DOMAIN t : t[n] = s[m]
         /\ \A n \in DOMAIN t : t[n].pk = e.pk =>
              \/ Brings(e) /\ t[n] = [pk |-> e.pk, row |-> e.row]
              \/ e.op = "insert" /\ \E m \in DOMAIN s : t[n] = s[m]
         /\ e.pk \in Pks(t) <=>
              Brings(e) /\ (e.op = "insert" /\ e.pk \notin Pks(s) => IsInsertPrepend(e.pk, r))
<1> DEFINE entry == [pk |-> e.pk, row |-> e.row]
<1>1. Brings(e) => entry \in Entry /\ entry.pk = e.pk
  BY DEF Entry
<1>2. ASSUME Brings(e), e.pk \notin Pks(s), e.op = "insert" => IsInsertPrepend(e.pk, r),
             NEW p \in 0..Len(s), Puts(s, t, p, entry)
      PROVE  /\ Distinct(t)
             /\ \A n \in DOMAIN t : t[n] = entry \/ \E m \in DOMAIN s : t[n] = s[m]
             /\ \A m \in DOMAIN s : \E n \in DOMAIN t : t[n] = s[m]
             /\ \A m \in DOMAIN s : s[m].pk # e.pk
             /\ e.pk \in Pks(t)
  <2> HIDE DEF entry
  <2>1. /\ \A n \in DOMAIN t : t[n] = entry \/ \E m \in DOMAIN s : t[n] = s[m]
        /\ \A m \in DOMAIN s : \E n \in DOMAIN t : t[n] = s[m]
        /\ \E n \in DOMAIN t : t[n] = entry
        /\ Distinct(t)
    BY <1>1, <1>2, PutsKeys
  <2> QED BY <1>1, <1>2, <2>1 DEF Pks
<1>3. ASSUME Brings(e), e.op # "insert", e.pk \in Pks(s), Replaces(s, t, entry)
      PROVE  /\ Distinct(t)
             /\ \A n \in DOMAIN t : t[n] = entry \/ (t[n].pk # e.pk /\ \E m \in DOMAIN s : t[n] = s[m])
             /\ \A m \in DOMAIN s : s[m].pk # e.pk => \E n \in DOMAIN t : t[n] = s[m]
             /\ e.pk \in Pks(t)
  <2> HIDE DEF entry
  <2>1. /\ DOMAIN t = DOMAIN s /\ \A n \in DOMAIN s : t[n].pk = s[n].pk
        /\ Distinct(t)
    BY <1>1, <1>3, ReplacesKeys
  <2>2. \A n \in DOMAIN t : t[n] = IF s[n].pk = entry.pk THEN entry ELSE s[n]
    BY <1>3 DEF Replaces
  <2> QED BY <1>1, <1>3, <2>1, <2>2 DEF Pks
<1>4. ASSUME ~Brings(e), NEW p \in 1..Len(s), s[p].pk = e.pk, Drops(s, t, p)
      PROVE  /\ Distinct(t)
             /\ \A n \in DOMAIN t : t[n].pk # e.pk /\ \E m \in DOMAIN s : t[n] = s[m]
             /\ \A m \in DOMAIN s : s[m].pk # e.pk => \E n \in DOMAIN t : t[n] = s[m]
  BY <1>4, DropsKeys
<1>5. CASE Brings(e) /\ e.pk \notin Pks(s) /\ (e.op = "insert" => IsInsertPrepend(e.pk, r))
           /\ \E p \in 0..Len(s) : Puts(s, t, p, entry)
  BY <1>2, <1>5
<1>6. CASE Brings(e) /\ e.op # "insert" /\ e.pk \in Pks(s) /\ Replaces(s, t, entry)
  BY <1>3, <1>6
<1>7. CASE ~Brings(e) /\ \E p \in 1..Len(s) : s[p].pk = e.pk /\ Drops(s, t, p)
  BY <1>4, <1>7 DEF Pks, Brings
<1>8. CASE t = s /\ (\/ e.op = "insert" /\ (e.pk \in Pks(s) \/ ~IsInsertPrepend(e.pk, r))
                     \/ ~Brings(e) /\ e.pk \notin Pks(s))
  BY <1>8 DEF Pks, Brings
<1> QED BY <1>5, <1>6, <1>7, <1>8 DEF Takes

LEMMA EventFacts ==
  ASSUME WindowTypeOK, LogInv, NEW i \in 1..Len(commits)
  PROVE  /\ Event(i).pk = Key(i) /\ Key(i) \in Keys /\ Event(i).row = RowsAt(i)[Key(i)]
         /\ Event(i).matchesNew <=> RowsAt(i)[Key(i)] \in Matching
         /\ Event(i).op = "insert" <=> RowsAt(i - 1)[Key(i)] = NoRow
         /\ Brings(Event(i)) => Event(i).row \in Values
         /\ Touches(i, Key(i)) =>
              (Brings(Event(i)) <=> RowsAt(i)[Key(i)] \in Matching)
<1> DEFINE k == Key(i)
<1>1. k \in Keys /\ Changes(i, k)
  BY OneKey
<1>2. RowsAt(i) \in Content /\ RowsAt(i - 1) \in Content
  BY Counts
<1> HIDE DEF k
<1>3. RowsAt(i)[k] \in Values \union {NoRow} /\ RowsAt(i)[k] # RowsAt(i - 1)[k]
  BY <1>1, <1>2 DEF Content, Changes
<1>4. NoRow \notin Values /\ Matching \subseteq Values
  BY WindowAssumption
<1>5. /\ Event(i).pk = k /\ Event(i).row = RowsAt(i)[k]
      /\ Event(i).matchesNew <=> RowsAt(i)[k] \in Matching
      /\ Event(i).op = IF RowsAt(i - 1)[k] = NoRow THEN "insert"
                       ELSE IF RowsAt(i)[k] = NoRow THEN "delete" ELSE "update"
  BY DEF Event, k
<1>6. Event(i).op = "insert" <=> RowsAt(i - 1)[k] = NoRow
  BY <1>5
<1>7. Event(i).op = "update" <=> RowsAt(i - 1)[k] # NoRow /\ RowsAt(i)[k] # NoRow
  BY <1>5
<1>8. Brings(Event(i)) => Event(i).row \in Values
  BY <1>3, <1>5, <1>6, <1>7 DEF Brings
<1>9. Touches(i, k) => (Brings(Event(i)) <=> RowsAt(i)[k] \in Matching)
  BY <1>3, <1>4, <1>5, <1>6, <1>7 DEF Brings, Touches
<1> QED BY <1>1, <1>5, <1>6, <1>8, <1>9 DEF k

\* The list before, between and after the events of a batch.
Replays(after, batch) ==
  /\ after \in [0..Len(commits) -> Seq(Entry)]
  /\ after[0] = entries
  /\ \A i \in 1..Len(commits) :
       IF i \in batch THEN Takes(after[i - 1], after[i], Event(i), range)
       ELSE after[i] = after[i - 1]

LEMMA BatchSteps ==
  ASSUME WindowTypeOK, LogInv, NEW batch
  PROVE  \E after : Replays(after, batch) /\ ApplyBatch(batch) = after[Len(commits)]
<1> DEFINE N == Len(commits)
           X == Seq(Entry)
           Next1(i, s) == IF i \in batch THEN ApplyEvent(s, Event(i), range) ELSE s
           steps == [i \in 1..N |-> [s \in X |-> Next1(i, s)]]
           Runs(g) == g = [i \in 0..N |->
                            IF i = 0 THEN entries
                            ELSE IF i \in batch THEN ApplyEvent(g[i - 1], Event(i), range) ELSE g[i - 1]]
<1>1. N \in Nat /\ entries \in X
  BY Counts DEF WindowTypeOK, Entry
<1>2. ASSUME NEW i \in 1..N, NEW s \in X
      PROVE  /\ Next1(i, s) \in X
             /\ IF i \in batch THEN Takes(s, Next1(i, s), Event(i), range) ELSE Next1(i, s) = s
  <2>1. Event(i).pk \in Keys /\ (Brings(Event(i)) => Event(i).row \in Values)
    BY EventFacts
  <2>2. ApplyEvent(s, Event(i), range) \in X /\ Takes(s, ApplyEvent(s, Event(i), range), Event(i), range)
    BY <2>1, EventTaken
  <2> QED BY <2>2
<1> HIDE DEF X
<1>3. steps \in [1..N -> [X -> X]]
  <2> HIDE DEF Next1
  <2> QED BY <1>2
<1>4. PICK f \in [0..N -> X] : f[0] = entries /\ \A i \in 1..N : f[i] = steps[i][f[i - 1]]
  <2> HIDE DEF steps, N
  <2> QED BY <1>1, <1>3, IterationExists
<1>5. \A i \in 1..N : f[i - 1] \in X /\ f[i] = Next1(i, f[i - 1])
  <2> SUFFICES ASSUME NEW i \in 1..N PROVE f[i - 1] \in X /\ f[i] = Next1(i, f[i - 1])
    OBVIOUS
  <2>1. i - 1 \in 0..N
    BY <1>1
  <2> HIDE DEF Next1, N
  <2> QED BY <1>4, <2>1
<1>6. Runs(f)
  BY <1>1, <1>4, <1>5
<1> DEFINE after == CHOOSE g : Runs(g)
<1>7. Runs(after)
  <2> HIDE DEF Runs
  <2> QED BY <1>6
<1>8. ApplyBatch(batch) = after[N]
  BY DEF ApplyBatch
<1> HIDE DEF after
<1>9. after[0] = entries /\ \A i \in 1..N : after[i] = Next1(i, after[i - 1])
  <2>1. 0 \in 0..N /\ \A i \in 1..N : i \in 0..N /\ i # 0
    BY <1>1
  <2> HIDE DEF N
  <2> QED BY <1>7, <2>1
<1>10. \A i \in 0..N : after[i] \in X
  <2> DEFINE S == {i \in 0..N : after[i] \in X}
  <2>1. 0 \in S
    BY <1>1, <1>9
  <2>2. \A i \in (0 + 1)..N : i - 1 \in S => i \in S
    <3> SUFFICES ASSUME NEW i \in 1..N, after[i - 1] \in X PROVE after[i] \in X
      BY <1>1
    <3>1. after[i] = Next1(i, after[i - 1])
      BY <1>9
    <3> HIDE DEF Next1
    <3> QED BY <1>2, <3>1
  <2>3. 0..N \subseteq S
    <3> HIDE DEF S, N
    <3> QED BY <1>1, <2>1, <2>2, RangeInduction
  <2> QED BY <2>3
<1>11. after \in [0..N -> X]
  BY <1>7, <1>10
<1>12. ASSUME NEW i \in 1..N
       PROVE  IF i \in batch THEN Takes(after[i - 1], after[i], Event(i), range)
              ELSE after[i] = after[i - 1]
  <2>1. after[i - 1] \in X /\ after[i] = Next1(i, after[i - 1])
    BY <1>1, <1>9, <1>10
  <2> HIDE DEF Next1
  <2> QED BY <1>2, <2>1
<1>13. Replays(after, batch)
  BY <1>9, <1>11, <1>12 DEF Replays, X
<1> QED BY <1>8, <1>13

\* No key twice, and what a step changes concerns the key of its event.
LEMMA ReplayRows ==
  ASSUME WindowTypeOK, LogInv, Distinct(entries), NEW batch, NEW after, Replays(after, batch)
  PROVE  /\ \A i \in 0..Len(commits) : after[i] \in Seq(Entry) /\ Distinct(after[i])
         /\ \A i \in 1..Len(commits) : LET s == after[i - 1] t == after[i] k == Key(i) IN
              IF i \in batch
              THEN /\ \A n \in DOMAIN t : t[n].pk # k => \E m \in DOMAIN s : t[n] = s[m]
                   /\ \A m \in DOMAIN s : s[m].pk # k => \E n \in DOMAIN t : t[n] = s[m]
                   /\ \A n \in DOMAIN t : t[n].pk = k =>
                        \/ Brings(Event(i)) /\ t[n] = [pk |-> k, row |-> RowsAt(i)[k]]
                        \/ RowsAt(i - 1)[k] = NoRow /\ \E m \in DOMAIN s : t[n] = s[m]
                   /\ k \in Pks(t) <=>
                        Brings(Event(i)) /\ (RowsAt(i - 1)[k] = NoRow /\ k \notin Pks(s) =>
                                               IsInsertPrepend(k, range))
              ELSE t = s
<1> DEFINE N == Len(commits)
<1>1. N \in Nat /\ after \in [0..N -> Seq(Entry)] /\ after[0] = entries
  BY Counts DEF Replays
<1>2. ASSUME NEW i \in 1..N, i \in batch, Distinct(after[i - 1])
      PROVE  LET s == after[i - 1] t == after[i] k == Key(i) IN
             /\ Distinct(t)
             /\ \A n \in DOMAIN t : t[n].pk # k => \E m \in DOMAIN s : t[n] = s[m]
             /\ \A m \in DOMAIN s : s[m].pk # k => \E n \in DOMAIN t : t[n] = s[m]
             /\ \A n \in DOMAIN t : t[n].pk = k =>
                  \/ Brings(Event(i)) /\ t[n] = [pk |-> k, row |-> RowsAt(i)[k]]
                  \/ RowsAt(i - 1)[k] = NoRow /\ \E m \in DOMAIN s : t[n] = s[m]
             /\ k \in Pks(t) <=>
                  Brings(Event(i)) /\ (RowsAt(i - 1)[k] = NoRow /\ k \notin Pks(s) =>
                                         IsInsertPrepend(k, range))
  <2> DEFINE s == after[i - 1] t == after[i] e == Event(i)
  <2>1. s \in Seq(Entry) /\ t \in Seq(Entry)
    <3>1. i - 1 \in 0..N /\ i \in 0..N
      BY <1>1
    <3> QED BY <1>1, <3>1
  <2>2. Takes(s, t, e, range)
    BY <1>2 DEF Replays
  <2>3. /\ e.pk = Key(i) /\ Key(i) \in Keys /\ e.row = RowsAt(i)[Key(i)]
        /\ e.op = "insert" <=> RowsAt(i - 1)[Key(i)] = NoRow
        /\ Brings(e) => e.row \in Values
    BY EventFacts
  <2>4. Distinct(s) /\ e.pk \in Keys
    BY <1>2, <2>3
  <2> HIDE DEF s, t, e
  <2>5. /\ Distinct(t)
        /\ \A n \in DOMAIN t : t[n].pk # e.pk => \E m \in DOMAIN s : t[n] = s[m]
        /\ \A m \in DOMAIN s : s[m].pk # e.pk => \E n \in DOMAIN t : t[n] = s[m]
        /\ \A n \in DOMAIN t : t[n].pk = e.pk =>
             \/ Brings(e) /\ t[n] = [pk |-> e.pk, row |-> e.row]
             \/ e.op = "insert" /\ \E m \in DOMAIN s : t[n] = s[m]
        /\ e.pk \in Pks(t) <=>
             Brings(e) /\ (e.op = "insert" /\ e.pk \notin Pks(s) => IsInsertPrepend(e.pk, range))
    BY <2>1, <2>2, <2>3, <2>4, TakenRows
  <2> QED BY <2>3, <2>5 DEF s, t, e
<1>3. \A i \in 0..N : Distinct(after[i])
  <2> DEFINE S == {i \in 0..N : Distinct(after[i])}
  <2>1. 0 \in S
    BY <1>1
  <2>2. \A i \in (0 + 1)..N : i - 1 \in S => i \in S
    <3> SUFFICES ASSUME NEW i \in 1..N, Distinct(after[i - 1]) PROVE Distinct(after[i])
      BY <1>1
    <3>1. CASE i \in batch
      BY <1>2, <3>1
    <3>2. CASE i \notin batch
      BY <3>2 DEF Replays
    <3> QED BY <3>1, <3>2
  <2>3. 0..N \subseteq S
    <3> HIDE DEF S, N
    <3>1. 0 \in Int /\ N \in Int /\ 0 <= N
      BY <1>1
    <3> QED BY <2>1, <2>2, <3>1, RangeInduction
  <2> QED BY <2>3
<1>4. \A i \in 1..N : i - 1 \in 0..N
  BY <1>1
<1>5. \A i \in 1..N : i \notin batch => after[i] = after[i - 1]
  BY DEF Replays
<1> QED BY <1>1, <1>2, <1>3, <1>4, <1>5

\* Without an event of its own a key stays loaded, or stays away.
LEMMA KeyRests ==
  ASSUME WindowTypeOK, LogInv, Distinct(entries), NEW batch, NEW after, Replays(after, batch),
         NEW k \in Keys, NEW p \in 0..Len(commits), NEW q \in p..Len(commits),
         \A i \in (p + 1)..q : i \in batch => Key(i) # k
  PROVE  k \in Pks(after[q]) <=> k \in Pks(after[p])
<1> DEFINE S == {i \in p..q : k \in Pks(after[i]) <=> k \in Pks(after[p])}
<1>1. p \in Int /\ q \in Int /\ p <= q /\ Len(commits) \in Nat
  BY Counts
<1>2. p \in S
  BY <1>1
<1>3. \A i \in (p + 1)..q : i - 1 \in S => i \in S
  <2> SUFFICES ASSUME NEW i \in (p + 1)..q PROVE k \in Pks(after[i]) <=> k \in Pks(after[i - 1])
    BY <1>1
  <2>1. i \in 1..Len(commits)
    BY <1>1
  <2>2. CASE i \notin batch
    BY <2>1, <2>2 DEF Replays
  <2>3. CASE i \in batch
    <3> DEFINE s == after[i - 1] t == after[i]
    <3>1. /\ \A n \in DOMAIN t : t[n].pk # Key(i) => \E m \in DOMAIN s : t[n] = s[m]
          /\ \A m \in DOMAIN s : s[m].pk # Key(i) => \E n \in DOMAIN t : t[n] = s[m]
      BY <2>1, <2>3, ReplayRows
    <3>2. k # Key(i)
      BY <2>3
    <3> HIDE DEF s, t
    <3>3. k \in Pks(t) <=> k \in Pks(s)
      BY <3>1, <3>2 DEF Pks
    <3> QED BY <3>3 DEF s, t
  <2> QED BY <2>2, <2>3
<1>4. p..q \subseteq S
  <2> HIDE DEF S
  <2> QED BY <1>1, <1>2, <1>3, RangeInduction
<1> QED BY <1>1, <1>4

\* A key that is not loaded after the batch: it had no event in it, or the last
\* one took it out of the result, or was an insert that the gate refused.
LEMMA LastEvent ==
  ASSUME WindowTypeOK, LogInv, Distinct(entries), NEW batch, NEW after, Replays(after, batch),
         \A i \in batch : i \in 1..Len(commits) /\ Touches(i, Key(i)),
         NEW k \in Keys, k \notin Pks(after[Len(commits)])
  PROVE  \/ k \notin Shown /\ \A i \in batch : Key(i) # k
         \/ \E i \in batch :
              /\ Key(i) = k /\ \A j \in batch : Key(j) = k => j <= i
              /\ \/ RowsAt(i)[k] \notin Matching
                 \/ /\ RowsAt(i - 1)[k] = NoRow /\ ~IsInsertPrepend(k, range)
                    /\ k \in Shown => \E j \in batch : Key(j) = k /\ j < i
<1> DEFINE N == Len(commits)
           B == {i \in batch : Key(i) = k}
<1>1. N \in Nat /\ after[0] = entries
  BY Counts DEF Replays
<1>2. CASE B = {}
  <2>1. k \in Pks(after[N]) <=> k \in Pks(after[0])
    <3>1. 0 \in 0..N /\ N \in 0..N /\ \A i \in (0 + 1)..N : i \in batch => Key(i) # k
      BY <1>1, <1>2
    <3> HIDE DEF B
    <3> QED BY <3>1, KeyRests
  <2>2. k \notin Shown
    BY <1>1, <2>1 DEF Shown
  <2> QED BY <1>2, <2>2
<1>3. CASE B # {}
  <2>1. B \in SUBSET Nat /\ \A i \in B : i <= N
    BY <1>1
  <2>2. PICK i \in B : \A j \in B : j <= i
    <3> HIDE DEF B
    <3> QED BY <1>1, <1>3, <2>1, GreatestElement
  <2>3. i \in 1..N /\ i \in batch /\ Key(i) = k /\ Touches(i, k)
    OBVIOUS
  <2>4. k \notin Pks(after[i])
    <3>1. i \in 0..N /\ N \in i..N
      BY <1>1, <2>3
    <3>2. \A j \in (i + 1)..N : j \in batch => Key(j) # k
      <4> SUFFICES ASSUME NEW j \in (i + 1)..N, j \in batch, Key(j) = k PROVE FALSE
        OBVIOUS
      <4>1. j <= i
        BY <2>2
      <4> QED BY <1>1, <2>3, <4>1
    <3>3. k \in Pks(after[N]) <=> k \in Pks(after[i])
      <4> HIDE DEF B
      <4> QED BY <3>1, <3>2, KeyRests
    <3> QED BY <3>3
  <2>5. k \in Pks(after[i]) <=>
          Brings(Event(i)) /\ (RowsAt(i - 1)[k] = NoRow /\ k \notin Pks(after[i - 1]) =>
                                 IsInsertPrepend(k, range))
    BY <2>3, ReplayRows
  <2>6. Brings(Event(i)) <=> RowsAt(i)[k] \in Matching
    BY <2>3, EventFacts
  <2>7. ASSUME RowsAt(i)[k] \in Matching, k \in Shown PROVE \E j \in batch : Key(j) = k /\ j < i
    <3> SUFFICES ASSUME \A j \in batch : Key(j) = k => ~(j < i) PROVE FALSE
      OBVIOUS
    <3>1. 0 \in 0..N /\ i - 1 \in 0..N /\ \A j \in (0 + 1)..(i - 1) : j \in batch => Key(j) # k
      BY <1>1, <2>3
    <3>2. k \in Pks(after[i - 1]) <=> k \in Pks(after[0])
      <4> HIDE DEF B
      <4> QED BY <3>1, KeyRests
    <3> QED BY <1>1, <2>4, <2>5, <2>6, <2>7, <3>2 DEF Shown
  <2> QED BY <2>2, <2>3, <2>4, <2>5, <2>6, <2>7
<1> QED BY <1>2, <1>3

(***************************************************************************)
(* The order of the rows shown.                                            *)
(***************************************************************************)
\* A row of F is behind all that stands before it, and two rows that are not
\* in order have one of J among them.
LineOf(s, F, J) ==
  \A m, n \in DOMAIN s : m < n =>
    LET a == s[m].pk b == s[n].pk IN
    /\ b \in F => Ahead(a, b)
    /\ Ahead(a, b) \/ a \in J \/ b \in J

LEMMA LinePut ==
  ASSUME NEW s \in Seq(Entry), NEW t \in Seq(Entry), NEW entry \in Entry, NEW p \in 0..Len(s),
         Puts(s, t, p, entry), entry.pk \notin Pks(s),
         p < Len(s) => Ahead(entry.pk, s[p + 1].pk),
         p > 0 => ~Ahead(entry.pk, s[p].pk),
         NEW F \in SUBSET Keys, NEW J,
         \A k \in Keys, l \in F : Ahead(k, l) => k \in F,
         LineOf(s, F, J), entry.pk \notin F => entry.pk \in J
  PROVE  LineOf(t, F, J)
<1> DEFINE k == entry.pk
<1>1. /\ p \in Nat /\ Len(s) \in Nat /\ DOMAIN s = 1..Len(s) /\ DOMAIN t = 1..(Len(s) + 1)
      /\ \A n \in DOMAIN t :
           t[n] = IF n <= p THEN s[n] ELSE IF n = p + 1 THEN entry ELSE s[n - 1]
  BY DEF Puts
<1>2. k \in Keys /\ k \in Int /\ \A n \in DOMAIN s : s[n].pk \in Keys /\ s[n].pk \in Int /\ s[n].pk # k
  <2>1. k \in Keys /\ \A n \in DOMAIN s : s[n].pk \in Keys
    <3>1. \A n \in DOMAIN s : s[n] \in Entry
      OBVIOUS
    <3> QED BY <3>1 DEF Entry
  <2>2. \A n \in DOMAIN s : s[n].pk # k
    BY DEF Pks
  <2> QED BY <2>1, <2>2, KeysAreNumbers
<1> SUFFICES ASSUME NEW m \in DOMAIN t, NEW n \in DOMAIN t, m < n
             PROVE  /\ t[n].pk \in F => Ahead(t[m].pk, t[n].pk)
                    /\ Ahead(t[m].pk, t[n].pk) \/ t[m].pk \in J \/ t[n].pk \in J
  BY DEF LineOf
<1>3. CASE m # p + 1 /\ n # p + 1
  <2> DEFINE at(i) == IF i <= p THEN i ELSE i - 1
  <2>1. at(m) \in DOMAIN s /\ at(n) \in DOMAIN s /\ at(m) < at(n)
    BY <1>1, <1>3
  <2>2. t[m] = s[at(m)] /\ t[n] = s[at(n)]
    BY <1>1, <1>3
  <2> HIDE DEF at
  <2> QED BY <2>1, <2>2 DEF LineOf
<1>4. CASE n = p + 1
  <2>1. m \in DOMAIN s /\ p \in DOMAIN s /\ m <= p /\ t[m] = s[m] /\ t[n] = entry
    BY <1>1, <1>4
  <2>2. Ahead(s[p].pk, k)
    <3>1. s[p].pk \in Int /\ s[p].pk # k /\ ~Ahead(k, s[p].pk)
      BY <1>1, <1>2, <2>1
    <3> HIDE DEF k
    <3> QED BY <1>2, <3>1, AheadOrder
  <2>3. ASSUME k \in F PROVE Ahead(s[m].pk, k)
    <3>1. s[p].pk \in F
      BY <1>2, <2>1, <2>2, <2>3
    <3>2. m = p \/ Ahead(s[m].pk, s[p].pk)
      BY <1>1, <2>1, <3>1 DEF LineOf
    <3> QED BY <1>2, <2>1, <2>2, <3>2, AheadOrder
  <2> QED BY <2>1, <2>3
<1>5. CASE m = p + 1
  <2>1. n - 1 \in DOMAIN s /\ p + 1 \in DOMAIN s /\ p + 1 <= n - 1 /\ t[m] = entry /\ t[n] = s[n - 1]
    BY <1>1, <1>5
  <2> DEFINE l == s[n - 1].pk
  <2>2. Ahead(k, s[p + 1].pk)
    BY <1>1, <2>1
  <2>3. ASSUME l \in F PROVE Ahead(k, l)
    <3>1. n - 1 = p + 1 \/ Ahead(s[p + 1].pk, l)
      BY <1>1, <2>1, <2>3 DEF LineOf
    <3> QED BY <1>2, <2>1, <2>2, <3>1, AheadOrder
  <2>4. ASSUME l \notin F PROVE Ahead(k, l) \/ k \in J
    <3>1. CASE k \in F
      <4>1. ~Ahead(l, k) /\ l # k
        BY <1>2, <2>1, <2>4, <3>1
      <4> QED BY <1>2, <2>1, <4>1, AheadOrder
    <3> QED BY <3>1
  <2> QED BY <2>1, <2>3, <2>4
<1> QED BY <1>3, <1>4, <1>5

LEMMA LineDropped ==
  ASSUME NEW s \in Seq(Entry), NEW t \in Seq(Entry), NEW p, Drops(s, t, p),
         NEW F, NEW J, LineOf(s, F, J)
  PROVE  LineOf(t, F, J)
<1> DEFINE at(n) == IF n < p THEN n ELSE n + 1
<1>1. /\ p \in 1..Len(s) /\ Len(s) \in Nat /\ DOMAIN s = 1..Len(s) /\ DOMAIN t = 1..(Len(s) - 1)
      /\ \A n \in DOMAIN t : t[n] = IF n < p THEN s[n] ELSE s[n + 1]
  BY DEF Drops
<1>2. \A n \in DOMAIN t : at(n) \in DOMAIN s /\ t[n] = s[at(n)]
  BY <1>1
<1>3. \A m, n \in DOMAIN t : m < n => at(m) < at(n)
  BY <1>1
<1> HIDE DEF at
<1> QED BY <1>2, <1>3 DEF LineOf

LEMMA LineTaken ==
  ASSUME NEW s \in Seq(Entry), NEW t \in Seq(Entry), NEW e, NEW r,
         e.pk \in Keys, Brings(e) => e.row \in Values, Takes(s, t, e, r),
         NEW F \in SUBSET Keys, NEW J,
         \A k \in Keys, l \in F : Ahead(k, l) => k \in F,
         LineOf(s, F, J), e.pk \notin Pks(s) /\ e.pk \notin F => e.pk \in J
  PROVE  LineOf(t, F, J)
<1> DEFINE entry == [pk |-> e.pk, row |-> e.row]
<1>1. entry.pk = e.pk /\ (Brings(e) => entry \in Entry)
  BY DEF Entry
<1>2. CASE Brings(e) /\ e.pk \notin Pks(s)
           /\ \E p \in 0..Len(s) :
                /\ Puts(s, t, p, entry)
                /\ p < Len(s) => Ahead(e.pk, s[p + 1].pk)
                /\ p > 0 => ~Ahead(e.pk, s[p].pk)
  <2> HIDE DEF entry
  <2> QED BY <1>1, <1>2, LinePut
<1>3. CASE Brings(e) /\ Replaces(s, t, entry)
  <2> HIDE DEF entry
  <2>1. DOMAIN t = DOMAIN s /\ \A n \in DOMAIN s : t[n].pk = s[n].pk
    BY <1>1, <1>3, ReplacesKeys
  <2> QED BY <2>1 DEF LineOf
<1>4. CASE \E p \in 1..Len(s) : Drops(s, t, p)
  BY <1>4, LineDropped
<1>5. CASE t = s
  BY <1>5
<1> QED BY <1>2, <1>3, <1>4, <1>5 DEF Takes

\* The keys at or ahead of a row of the contiguous part.
FrontKeys == {k \in Keys : \E l \in Contiguous : ~Ahead(l, k)}

\* Commit i of the batch took k out of the result.
TakenOut(batch, m, k) == \E i \in batch : i <= m /\ Key(i) = k /\ RowsAt(i)[k] \notin Matching

\* The keys that the first m commits may have put in anywhere.
Loose(batch, m) == {k \in Keys \ FrontKeys : k \in Shown => TakenOut(batch, m, k)}

LEMMA OrderIsDistinct ==
  ASSUME WindowTypeOK, OrderInv
  PROVE  entries \in Seq(Entry) /\ Distinct(entries) /\ Shown \subseteq Keys
<1>1. entries \in Seq(Entry)
  BY DEF WindowTypeOK, Entry
<1>2. \A n \in DOMAIN entries : n \in Int /\ entries[n] \in Entry
  BY <1>1
<1>3. Distinct(entries)
  BY <1>2 DEF OrderInv, Distinct
<1>4. Shown \subseteq Keys
  BY <1>2 DEF Shown, Pks, Entry
<1> QED BY <1>1, <1>3, <1>4

LEMMA FrontIsFront ==
  ASSUME WindowTypeOK, OrderInv
  PROVE  /\ FrontKeys \subseteq Keys /\ Contiguous \subseteq FrontKeys
         /\ FrontKeys \intersect Shown \subseteq Contiguous
         /\ \A k \in Keys, l \in FrontKeys : Ahead(k, l) => k \in FrontKeys
<1>1. Shown \subseteq Keys /\ jumps \subseteq Keys /\ Contiguous \subseteq Shown
  BY OrderIsDistinct DEF Contiguous, WindowTypeOK
<1>2. \A k \in Keys : k \in Int
  BY KeysAreNumbers
<1>3. Contiguous \subseteq FrontKeys
  BY <1>1, <1>2, AheadOrder DEF FrontKeys
<1>4. ASSUME NEW k \in FrontKeys, k \in Shown PROVE k \in Contiguous
  <2>1. PICK l \in Contiguous : ~Ahead(l, k)
    BY DEF FrontKeys
  <2>2. k = l \/ Ahead(k, l)
    BY <1>1, <1>2, <1>4, <2>1, AheadOrder
  <2>3. ASSUME NEW g \in jumps PROVE Ahead(k, g)
    <3>1. Ahead(l, g) /\ l \in Int /\ k \in Int /\ g \in Int
      BY <1>1, <1>2, <1>4, <2>1 DEF Contiguous
    <3> QED BY <2>2, <3>1, AheadOrder
  <2> QED BY <1>4, <2>3 DEF Contiguous
<1>5. ASSUME NEW k \in Keys, NEW l \in FrontKeys, Ahead(k, l) PROVE k \in FrontKeys
  <2>1. PICK c \in Contiguous : ~Ahead(c, l)
    BY DEF FrontKeys
  <2>2. c \in Int /\ k \in Int /\ l \in Int
    BY <1>1, <1>2, <2>1 DEF FrontKeys
  <2>3. ~Ahead(c, k)
    BY <1>5, <2>1, <2>2, AheadOrder
  <2> QED BY <2>1, <2>3 DEF FrontKeys
<1> QED BY <1>3, <1>4, <1>5 DEF FrontKeys

\* The order of the list while a batch is applied.
LEMMA ReplayOrder ==
  ASSUME WindowTypeOK, LogInv, OrderInv, NEW batch, NEW after, Replays(after, batch),
         \A i \in batch : i \in 1..Len(commits) /\ Touches(i, Key(i))
  PROVE  LineOf(after[Len(commits)], FrontKeys, jumps \union Loose(batch, Len(commits)))
<1> DEFINE N == Len(commits)
           J(m) == jumps \union Loose(batch, m)
           Good(m) == /\ LineOf(after[m], FrontKeys, J(m))
                      /\ \A k \in Shown \ Pks(after[m]) : TakenOut(batch, m, k)
           S == {m \in 0..N : Good(m)}
<1>1. N \in Nat /\ after[0] = entries
  BY Counts DEF Replays
<1>2. /\ entries \in Seq(Entry) /\ Distinct(entries) /\ Shown \subseteq Keys
      /\ FrontKeys \in SUBSET Keys /\ FrontKeys \intersect Shown \subseteq Contiguous
      /\ \A k \in Keys, l \in FrontKeys : Ahead(k, l) => k \in FrontKeys
  BY OrderIsDistinct, FrontIsFront
<1>3. Good(0)
  <2>1. LineOf(entries, FrontKeys, J(0))
    <3>1. \A n \in DOMAIN entries : entries[n].pk \in Shown
      BY DEF Shown, Pks
    <3> QED BY <1>2, <3>1 DEF LineOf, OrderInv
  <2> QED BY <1>1, <2>1 DEF Shown
<1>4. ASSUME NEW m \in 1..N, Good(m - 1) PROVE Good(m)
  <2> DEFINE s == after[m - 1] t == after[m] e == Event(m)
  <2>1. m - 1 \in 0..N /\ m \in 0..N
    BY <1>1
  <2>2. s \in Seq(Entry) /\ t \in Seq(Entry) /\ Distinct(s)
    BY <1>2, <2>1, ReplayRows
  <2>3. \A k : TakenOut(batch, m - 1, k) => TakenOut(batch, m, k)
    BY <1>1 DEF TakenOut
  <2>4. LineOf(s, FrontKeys, J(m)) /\ \A k \in Shown \ Pks(s) : TakenOut(batch, m, k)
    <3>1. J(m - 1) \subseteq J(m)
      BY <2>3 DEF Loose
    <3> HIDE DEF J
    <3> QED BY <1>4, <2>3, <3>1 DEF LineOf
  <2>5. CASE m \notin batch
    BY <2>4, <2>5 DEF Replays
  <2>6. CASE m \in batch
    <3>1. Takes(s, t, e, range)
      BY <2>6 DEF Replays
    <3>2. /\ e.pk = Key(m) /\ Key(m) \in Keys /\ (Brings(e) => e.row \in Values)
          /\ Brings(e) <=> RowsAt(m)[Key(m)] \in Matching
      BY <2>6, EventFacts
    <3>3. e.pk \notin Pks(s) /\ e.pk \notin FrontKeys => e.pk \in J(m)
      BY <2>4, <3>2 DEF Loose
    <3>4. LineOf(t, FrontKeys, J(m))
      <4> HIDE DEF s, t, e, J
      <4> QED BY <1>2, <2>2, <2>4, <3>1, <3>2, <3>3, LineTaken
    <3>5. /\ \A l \in DOMAIN s : s[l].pk # Key(m) => \E n \in DOMAIN t : t[n] = s[l]
          /\ Key(m) \in Pks(t) <=>
               Brings(e) /\ (RowsAt(m - 1)[Key(m)] = NoRow /\ Key(m) \notin Pks(s) =>
                               IsInsertPrepend(Key(m), range))
      BY <1>2, <2>6, ReplayRows
    <3>6. ASSUME NEW k \in Shown \ Pks(t) PROVE TakenOut(batch, m, k)
      <4>1. CASE k \notin Pks(s)
        BY <2>4, <4>1
      <4>2. CASE k \in Pks(s)
        <5>1. k = Key(m)
          <6> HIDE DEF s, t, e
          <6> QED BY <3>5, <3>6, <4>2 DEF Pks
        <5>2. ~Brings(e)
          BY <3>5, <3>6, <4>2, <5>1
        <5>3. m <= m /\ RowsAt(m)[k] \notin Matching
          BY <3>2, <5>1, <5>2
        <5> QED BY <2>6, <5>1, <5>3 DEF TakenOut
      <4> QED BY <4>1, <4>2
    <3> QED BY <3>4, <3>6
  <2> QED BY <2>5, <2>6
<1>5. 0..N \subseteq S
  <2>1. 0 \in Int /\ N \in Int /\ 0 <= N
    BY <1>1
  <2>2. 0 \in S
    BY <1>1, <1>3
  <2>3. \A m \in (0 + 1)..N : m - 1 \in S => m \in S
    <3> HIDE DEF Good
    <3> QED BY <1>1, <1>4
  <2> HIDE DEF S, N
  <2> QED BY <2>1, <2>2, <2>3, RangeInduction
<1>6. N \in 0..N
  BY <1>1
<1>7. N \in S
  <2> HIDE DEF S, N
  <2> QED BY <1>5, <1>6
<1> QED BY <1>7

LEMMA OrderAfterEvents ==
  ASSUME WindowTypeOK, LogInv, OrderInv, EventsAnswer, ReceiveEvents
  PROVE  OrderInv'
<1> DEFINE N == Len(commits) B == pull.batch
<1>1. \A i \in B : i \in 1..N /\ Touches(i, Key(i))
  BY DEF EventsAnswer, ReceiveEvents
<1>2. entries' = ApplyBatch(B) /\ jumps' = jumps \union Jumped(B)
  BY DEF ReceiveEvents
<1>3. PICK after : Replays(after, B) /\ ApplyBatch(B) = after[N]
  BY BatchSteps
<1>4. Distinct(entries) /\ Shown \subseteq Keys /\ N \in Nat
  BY OrderIsDistinct, Counts
<1>5. entries' \in Seq(Entry) /\ Distinct(entries')
  <2>1. N \in 0..N
    BY <1>4
  <2> QED BY <1>2, <1>3, <1>4, <2>1, ReplayRows
<1>6. LineOf(entries', FrontKeys, jumps \union Loose(B, N))
  BY <1>1, <1>2, <1>3, ReplayOrder
<1> DEFINE left == {Key(i) : i \in {j \in B : ~Event(j).matchesNew}}
<1>7. ASSUME NEW k \in Keys, TakenOut(B, N, k) PROVE k \in left
  <2>1. PICK i \in B : Key(i) = k /\ RowsAt(i)[k] \notin Matching
    BY <1>7 DEF TakenOut
  <2>2. ~Event(i).matchesNew
    BY <1>1, <2>1, EventFacts
  <2> QED BY <2>1, <2>2
<1>8. Pks(entries') \subseteq Keys
  <2>1. \A n \in DOMAIN entries' : entries'[n] \in Entry
    BY <1>5
  <2> QED BY <2>1 DEF Pks, Entry
<1>9. Jumped(B) = {k \in Pks(entries') \ (Shown \ left) : \A l \in Contiguous : Ahead(l, k)}
  BY <1>2 DEF Jumped
<1> HIDE DEF left
<1>10. Loose(B, N) \intersect Pks(entries') \subseteq jumps'
  BY <1>2, <1>7, <1>9 DEF Loose, FrontKeys
<1>11. ASSUME NEW k \in Pks(entries'), \A g \in jumps' : Ahead(k, g) PROVE k \in FrontKeys
  <2> SUFFICES ASSUME k \notin FrontKeys PROVE FALSE
    OBVIOUS
  <2>1. \A l \in Contiguous : Ahead(l, k)
    BY <1>8 DEF FrontKeys
  <2>2. ~Ahead(k, k)
    BY <1>8, KeysAreNumbers, AheadOrder
  <2>3. CASE k \in Shown \ left
    <3>1. k \notin Contiguous
      BY <2>1, <2>2
    <3>2. PICK g \in jumps : ~Ahead(k, g)
      BY <2>3, <3>1 DEF Contiguous
    <3> QED BY <1>2, <1>11, <3>2
  <2>4. CASE k \notin Shown \ left
    <3>1. k \in jumps'
      BY <1>2, <1>9, <2>1, <2>4
    <3> QED BY <1>11, <2>2, <3>1
  <2> QED BY <2>3, <2>4
<1>12. Contiguous' \subseteq FrontKeys
  BY <1>11 DEF Contiguous, Shown
<1>13. ASSUME NEW m \in DOMAIN entries', NEW n \in DOMAIN entries', m < n
       PROVE  LET a == entries'[m].pk b == entries'[n].pk IN
              /\ a # b
              /\ b \in Contiguous' => Ahead(a, b)
              /\ Ahead(a, b) \/ a \in jumps' \/ b \in jumps'
  <2> DEFINE a == entries'[m].pk b == entries'[n].pk
  <2>1. a \in Pks(entries') /\ b \in Pks(entries')
    BY DEF Pks
  <2>2. m # n
    BY <1>5, <1>13
  <2>3. a # b
    BY <1>5, <2>2 DEF Distinct
  <2>4. /\ b \in FrontKeys => Ahead(a, b)
        /\ \/ Ahead(a, b) \/ a \in jumps \union Loose(B, N)
           \/ b \in jumps \union Loose(B, N)
    BY <1>6, <1>13 DEF LineOf
  <2>5. jumps \subseteq jumps'
    BY <1>2
  <2> QED BY <1>10, <1>12, <2>1, <2>3, <2>4, <2>5
<1> QED BY <1>13 DEF OrderInv

(***************************************************************************)
(* Rows of an answer.                                                      *)
(***************************************************************************)
LEMMA RowsOfFacts ==
  ASSUME NEW i, NEW pks \in SUBSET Result(i)
  PROVE  /\ RowsOf(pks, i) \in Seq(Entry)
         /\ \A n \in DOMAIN RowsOf(pks, i) :
              /\ RowsOf(pks, i)[n].pk \in pks
              /\ RowsOf(pks, i)[n].row = RowsAt(i)[RowsOf(pks, i)[n].pk]
              /\ RowsOf(pks, i)[n].row \in Matching
         /\ Pks(RowsOf(pks, i)) = pks
         /\ \A m, n \in DOMAIN RowsOf(pks, i) :
              m < n => Ahead(RowsOf(pks, i)[m].pk, RowsOf(pks, i)[n].pk)
<1> DEFINE seq == InOrder(pks) C == Cardinality(pks) t == RowsOf(pks, i)
<1>1. \A k \in pks : k \in Keys /\ RowsAt(i)[k] \in Matching /\ RowsAt(i)[k] \in Values
  BY WindowAssumption DEF Result
<1>2. pks \in SUBSET Keys
  BY <1>1
<1>3. /\ C \in Nat /\ seq \in [1..C -> pks]
      /\ \A m, n \in 1..C : m < n => Ahead(seq[m], seq[n])
      /\ \A k \in pks : \E n \in 1..C : seq[n] = k
  BY <1>2, InOrderFacts, KeySets
<1>4. t = [n \in DOMAIN seq |-> [pk |-> seq[n], row |-> RowsAt(i)[seq[n]]]]
  BY DEF RowsOf
<1> HIDE DEF seq, C, t
<1>5. DOMAIN t = 1..C /\ \A n \in 1..C : t[n] = [pk |-> seq[n], row |-> RowsAt(i)[seq[n]]]
  BY <1>3, <1>4
<1>6. \A n \in 1..C : t[n] \in Entry
  BY <1>1, <1>3, <1>5 DEF Entry
<1>7. t \in Seq(Entry)
  <2>1. t = [n \in 1..C |-> t[n]]
    BY <1>3, <1>4, <1>5
  <2>2. [n \in 1..C |-> t[n]] \in Seq(Entry)
    BY <1>3, <1>6
  <2> QED BY <2>1, <2>2
<1>8. Pks(t) = pks
  BY <1>3, <1>5 DEF Pks
<1> QED BY <1>1, <1>3, <1>5, <1>7, <1>8 DEF t

LEMMA FirstFacts ==
  ASSUME NEW pks \in SUBSET Keys, NEW n \in Nat \ {0}
  PROVE  /\ First(pks, n) \subseteq pks
         /\ \A k \in pks \ First(pks, n) :
              /\ Cardinality(pks) > n
              /\ \A j \in First(pks, n) : Ahead(j, k)
              /\ \E l \in pks : Ahead(l, k)
<1> DEFINE before(k) == {l \in pks : Ahead(l, k)}
<1>1. \A k \in pks : IsFiniteSet(before(k)) /\ Cardinality(before(k)) \in Nat
  BY KeySets
<1>2. ASSUME NEW k \in pks \ First(pks, n)
      PROVE  /\ Cardinality(pks) > n
             /\ \A j \in First(pks, n) : Ahead(j, k)
             /\ \E l \in pks : Ahead(l, k)
  <2>1. Cardinality(before(k)) >= n
    BY <1>1 DEF First
  <2>2. k \in pks /\ k \in Int /\ k \notin before(k)
    BY KeysAreNumbers, AheadOrder
  <2>3. Cardinality(pks) > n
    <3>1. before(k) \subseteq pks \ {k} /\ IsFiniteSet(pks) /\ IsFiniteSet(pks \ {k})
      BY <2>2, KeySets
    <3>2. Cardinality(before(k)) <= Cardinality(pks \ {k})
      <4> HIDE DEF before
      <4> QED BY <3>1, FS_Subset
    <3>3. Cardinality(pks \ {k}) = Cardinality(pks) - 1
      BY <2>2, <3>1, FS_RemoveElement
    <3>4. Cardinality(pks) \in Nat /\ Cardinality(pks \ {k}) \in Nat /\ Cardinality(before(k)) \in Nat
      <4>1. Cardinality(pks) \in Nat /\ Cardinality(pks \ {k}) \in Nat
        BY KeySets
      <4> QED BY <1>1, <2>2, <4>1
    <3> HIDE DEF before
    <3> QED BY <2>1, <3>2, <3>3, <3>4
  <2>4. ASSUME NEW j \in First(pks, n) PROVE Ahead(j, k)
    <3> SUFFICES ASSUME ~Ahead(j, k) PROVE FALSE
      OBVIOUS
    <3>1. j \in pks /\ j \in Int /\ Cardinality(before(j)) < n
      BY KeysAreNumbers DEF First
    <3>2. j # k
      BY <1>1, <2>1, <3>1
    <3>3. Ahead(k, j)
      BY <2>2, <3>1, <3>2, AheadOrder
    <3>4. before(k) \subseteq before(j)
      <4> SUFFICES ASSUME NEW l \in pks, Ahead(l, k) PROVE Ahead(l, j)
        OBVIOUS
      <4>1. l \in Int
        BY KeysAreNumbers
      <4> QED BY <2>2, <3>1, <3>3, <4>1, AheadOrder
    <3>5. IsFiniteSet(before(j)) /\ Cardinality(before(j)) \in Nat /\ Cardinality(before(k)) \in Nat
      BY <1>1, <2>2, <3>1
    <3> HIDE DEF before
    <3>6. Cardinality(before(k)) <= Cardinality(before(j))
      BY <3>4, <3>5, FS_Subset
    <3> QED BY <2>1, <3>1, <3>5, <3>6
  <2>5. \E l \in pks : Ahead(l, k)
    <3>1. before(k) # {}
      <4>1. Cardinality(before(k)) # 0
        BY <1>1, <2>1, <2>2
      <4> QED BY <4>1, FS_EmptySet
    <3> QED BY <3>1
  <2> QED BY <2>3, <2>4, <2>5
<1>3. First(pks, n) \subseteq pks
  BY DEF First
<1> QED BY <1>2, <1>3

\* loadMore's cursor is the row shown behind all the others.
LEMMA CursorIsLast ==
  ASSUME WindowTypeOK, OrderInv
  PROVE  /\ Cursor \in Keys \union {NoPk}
         /\ entries # <<>> => Cursor \in Shown /\ \A l \in Shown \ {Cursor} : Ahead(l, Cursor)
         /\ Cursor # NoPk => Cursor \in Shown \union RangeKeys(range)
<1>1. entries \in Seq(Entry) /\ Shown \subseteq Keys
  BY OrderIsDistinct
<1>2. CASE entries = <<>>
  <2>1. Cursor \in {range.start, range.end}
    BY <1>2 DEF Cursor, Trailing
  <2>2. range \in PkRange
    BY DEF WindowTypeOK
  <2> QED BY <1>2, <2>1, <2>2 DEF PkRange, RangeKeys
<1>3. CASE entries # <<>>
  <2>1. Shown # {} /\ Shown \in SUBSET Nat
    <3>1. entries[1].pk \in Shown
      BY <1>1, <1>3 DEF Shown, Pks
    <3> QED BY <1>1, <3>1, WindowAssumption
  <2>2. PICK b \in Nat : \A k \in Shown : k <= b
    BY <1>1, KeySets
  <2>3. PICK lo \in Shown : \A k \in Shown : lo <= k
    BY <2>1, LeastElement
  <2>4. PICK hi \in Shown : \A k \in Shown : k <= hi
    BY <2>1, <2>2, GreatestElement
  <2>5. \E k \in Shown : \A l \in Shown \ {k} : Ahead(l, k)
    <3>1. \A k \in Shown : k \in Int
      BY <2>1
    <3> QED BY <2>3, <2>4, <3>1 DEF Ahead
  <2>6. Cursor = CHOOSE k \in Shown : \A l \in Shown \ {k} : Ahead(l, k)
    BY <1>3 DEF Cursor, Shown
  <2>7. Cursor \in Shown /\ \A l \in Shown \ {Cursor} : Ahead(l, Cursor)
    BY <2>5, <2>6
  <2> QED BY <1>1, <2>7
<1> QED BY <1>2, <1>3

LEMMA OrderAfterRows ==
  ASSUME WindowTypeOK, RowsAnswer, ReceiveRows
  PROVE  /\ OrderInv' /\ Pks(entries') = pull.pks /\ pull.pks \subseteq Result(pull.pos)
         /\ entries' \in Seq(Entry)
<1>1. pull.pks \in SUBSET Result(pull.pos) /\ entries' = RowsOf(pull.pks, pull.pos)
  BY DEF RowsAnswer, ReceiveRows
<1>2. /\ entries' \in Seq(Entry) /\ Pks(entries') = pull.pks
      /\ \A n \in DOMAIN entries' : entries'[n].pk \in pull.pks
      /\ \A m, n \in DOMAIN entries' : m < n => Ahead(entries'[m].pk, entries'[n].pk)
  BY <1>1, RowsOfFacts
<1>3. \A k \in pull.pks : k \in Int
  BY <1>1, KeysAreNumbers DEF Result
<1>4. \A m, n \in DOMAIN entries' : m < n =>
        Ahead(entries'[m].pk, entries'[n].pk) /\ entries'[m].pk # entries'[n].pk
  BY <1>2, <1>3, AheadOrder
<1> QED BY <1>1, <1>2, <1>4 DEF OrderInv

LEMMA OrderAfterPage ==
  ASSUME WindowTypeOK, OrderInv, PageAnswer, ReceivePage
  PROVE  /\ OrderInv' /\ entries' \in Seq(Entry)
         /\ Pks(entries') = Shown \union page.pks
         /\ \A n \in DOMAIN entries' :
              \/ \E m \in DOMAIN entries : entries'[n] = entries[m]
              \/ /\ entries'[n].pk \in page.pks \ Shown
                 /\ entries'[n].row = RowsAt(page.pos)[entries'[n].pk]
                 /\ entries'[n].row \in Matching
<1> DEFINE new == page.pks \ Shown
           t == RowsOf(new, page.pos)
           E == Len(entries)
<1>1. new \in SUBSET Result(page.pos) /\ \A k \in page.pks : k \in Keys /\ Ahead(page.cursor, k)
  BY DEF PageAnswer, ReceivePage, Result
<1>2. entries' = entries \o t
  BY DEF ReceivePage, AppendRows, Shown
<1>3. /\ t \in Seq(Entry) /\ Pks(t) = new
      /\ \A n \in DOMAIN t : /\ t[n].pk \in new /\ t[n].row = RowsAt(page.pos)[t[n].pk]
                             /\ t[n].row \in Matching
      /\ \A m, n \in DOMAIN t : m < n => Ahead(t[m].pk, t[n].pk)
  BY <1>1, RowsOfFacts
<1>4. entries \in Seq(Entry) /\ Distinct(entries) /\ Shown \subseteq Keys
  BY OrderIsDistinct
<1>5. \/ jumps' = jumps /\ entries # <<>> /\ page.cursor = Cursor
      \/ jumps' = jumps \union new
  BY DEF ReceivePage
<1> HIDE DEF t, new
<1>6. /\ entries' \in Seq(Entry) /\ E \in Nat /\ Len(t) \in Nat
      /\ DOMAIN entries' = 1..(E + Len(t)) /\ DOMAIN entries = 1..E /\ DOMAIN t = 1..Len(t)
      /\ \A n \in 1..(E + Len(t)) :
           entries'[n] = IF n <= E THEN entries[n] ELSE t[n - E]
  <2>1. /\ entries' \in Seq(Entry) /\ Len(entries') = Len(entries) + Len(t)
        /\ \A n \in 1..(Len(entries) + Len(t)) :
             entries'[n] = IF n <= Len(entries) THEN entries[n] ELSE t[n - Len(entries)]
    BY <1>2, <1>3, <1>4, ConcatProperties
  <2>2. Len(entries) \in Nat /\ Len(t) \in Nat
    BY <1>3, <1>4
  <2> QED BY <1>3, <1>4, <2>1, <2>2
<1>7. \A n \in DOMAIN entries' :
        IF n <= E THEN n \in DOMAIN entries /\ entries'[n] = entries[n] /\ entries[n].pk \in Shown
        ELSE /\ n - E \in DOMAIN t /\ entries'[n] = t[n - E] /\ t[n - E].pk \in new
  BY <1>3, <1>6 DEF Shown, Pks
<1>8. Pks(entries') = Shown \union new
  <2>1. \A k \in Shown : \E n \in DOMAIN entries' : entries'[n].pk = k
    <3> SUFFICES ASSUME NEW k \in Shown PROVE \E n \in DOMAIN entries' : entries'[n].pk = k
      OBVIOUS
    <3>1. PICK n \in DOMAIN entries : entries[n].pk = k
      BY DEF Shown, Pks
    <3>2. n \in DOMAIN entries' /\ n <= E
      BY <1>6
    <3> QED BY <1>7, <3>1, <3>2
  <2>2. \A k \in new : \E n \in DOMAIN entries' : entries'[n].pk = k
    <3> SUFFICES ASSUME NEW k \in new PROVE \E n \in DOMAIN entries' : entries'[n].pk = k
      OBVIOUS
    <3>1. PICK n \in DOMAIN t : t[n].pk = k
      BY <1>3 DEF Pks
    <3>2. n + E \in DOMAIN entries' /\ ~(n + E <= E) /\ n + E - E = n
      BY <1>6
    <3> QED BY <1>7, <3>1, <3>2
  <2>3. \A n \in DOMAIN entries' : entries'[n].pk \in Shown \union new
    BY <1>7
  <2> QED BY <2>1, <2>2, <2>3 DEF Pks
<1>9. \A k \in new : k \in Int /\ k \notin Shown
  BY <1>1, KeysAreNumbers DEF new
<1>10. \A k \in Shown : k \in Int
  BY <1>4, KeysAreNumbers
<1>11. ASSUME NEW m \in DOMAIN entries', NEW n \in DOMAIN entries', m < n
       PROVE  LET a == entries'[m].pk b == entries'[n].pk IN
              /\ a # b
              /\ b \in Contiguous' => Ahead(a, b)
              /\ Ahead(a, b) \/ a \in jumps' \/ b \in jumps'
  <2> DEFINE a == entries'[m].pk b == entries'[n].pk
  <2>1. CASE n <= E
    <3>1. /\ m \in DOMAIN entries /\ n \in DOMAIN entries
          /\ a = entries[m].pk /\ b = entries[n].pk /\ b \in Shown
      BY <1>6, <1>7, <1>11, <2>1
    <3>2. jumps \subseteq jumps'
      BY <1>5
    <3>3. b \in Contiguous' => b \in Contiguous
      BY <3>1, <3>2 DEF Contiguous
    <3> HIDE DEF a, b
    <3> QED BY <1>11, <3>1, <3>2, <3>3 DEF OrderInv, a, b
  <2>2. CASE ~(m <= E)
    <3>1. /\ m - E \in DOMAIN t /\ n - E \in DOMAIN t /\ m - E < n - E
          /\ a = t[m - E].pk /\ b = t[n - E].pk /\ a \in new /\ b \in new
      BY <1>6, <1>7, <1>11, <2>2
    <3>2. Ahead(a, b)
      BY <1>3, <3>1
    <3>3. a # b
      BY <1>9, <3>1, <3>2, AheadOrder
    <3> QED BY <3>2, <3>3
  <2>3. CASE m <= E /\ ~(n <= E)
    <3>1. a \in Shown /\ b \in new
      BY <1>6, <1>7, <2>3
    <3> HIDE DEF a, b
    <3>2. a # b /\ a \in Int /\ b \in Int
      BY <1>9, <1>10, <3>1
    <3>3. CASE entries # <<>> /\ page.cursor = Cursor
      <4>1. Ahead(Cursor, b) /\ Cursor \in Int /\ (a = Cursor \/ Ahead(a, Cursor))
        BY <1>1, <1>10, <3>1, <3>3, CursorIsLast DEF new
      <4>2. Ahead(a, b)
        BY <3>2, <4>1, AheadOrder
      <4> QED BY <3>2, <4>2 DEF a, b
    <3>4. CASE jumps' = jumps \union new
      <4>1. b \in jumps' /\ ~Ahead(b, b)
        BY <3>1, <3>2, <3>4, AheadOrder
      <4>2. b \notin Contiguous'
        BY <4>1 DEF Contiguous
      <4> QED BY <3>2, <4>1, <4>2 DEF a, b
    <3> QED BY <1>5, <3>3, <3>4
  <2> QED BY <2>1, <2>2, <2>3
<1>12. OrderInv'
  BY <1>11 DEF OrderInv
<1>13. Pks(entries') = Shown \union page.pks
  BY <1>8 DEF new
<1> QED BY <1>3, <1>6, <1>7, <1>12, <1>13 DEF new

(***************************************************************************)
(* The content of the rows shown.                                          *)
(***************************************************************************)
\* What the client knows of an answer of events that its cursor can take.
BatchRead ==
  /\ token.snapshot \in Nat /\ pull.token.snapshot \in Nat
  /\ token.snapshot <= pull.token.snapshot /\ pull.token.snapshot \in covered \union {0}
  /\ \A i \in pull.batch :
       /\ i \in 1..Len(commits) /\ Touches(i, Key(i))
       /\ i \in log[Source] /\ token.snapshot < i /\ i <= pull.token.snapshot
  /\ \A i \in log[Source] \ pull.batch, k \in Keys :
       token.snapshot < i /\ i <= pull.token.snapshot /\ Touches(i, k) => RowsAt(i - 1)[k] = NoRow

LEMMA BatchIsRead ==
  ASSUME WindowTypeOK, LogInv, FlightInv, EventsAnswer, AbsentInv, ReceiveEvents,
         Current(pull.token)
  PROVE  BatchRead /\ Current(token)
<1>1. pull.stage = "answered" /\ pull.kind = "pull"
  BY DEF ReceiveEvents
<1>2. token.snapshot \in Nat /\ pull.token.snapshot \in Nat
  BY DEF WindowTypeOK, Token, Request
<1>3. Current(token) /\ token.snapshot <= pull.token.snapshot
  BY <1>1 DEF EventsAnswer
<1>4. pull.token.snapshot \in covered \union {0}
  BY DEF FlightInv, TokenOK
<1>5. \A i \in pull.batch :
        /\ i \in 1..Len(commits) /\ Touches(i, Key(i))
        /\ i \in log[Source] /\ token.snapshot < i /\ i <= pull.token.snapshot
  BY <1>1 DEF EventsAnswer
<1>6. \A i \in log[Source] \ pull.batch, k \in Keys :
        token.snapshot < i /\ i <= pull.token.snapshot /\ Touches(i, k) => RowsAt(i - 1)[k] = NoRow
  BY <1>1, <1>3 DEF AbsentInv
<1> QED BY <1>2, <1>3, <1>4, <1>5, <1>6 DEF BatchRead

\* A row of the result that changes within the batch's reach first changes in the batch.
LEMMA FirstTouched ==
  ASSUME WindowTypeOK, LogInv, BatchRead, NEW k \in Keys, NEW p \in 0..Len(commits),
         RowsAt(p)[k] \in Matching, NEW i \in (p + 1)..Len(commits), Changes(i, k),
         i <= pull.token.snapshot,
         \A j \in (p + 1)..i : Changes(j, k) => Pending(j, token)
  PROVE  \E j \in (p + 1)..i : j \in pull.batch /\ Changes(j, k) /\ RowsAt(j - 1)[k] \in Matching
<1>1. PICK j \in (p + 1)..i : Changes(j, k) /\ RowsAt(j - 1)[k] = RowsAt(p)[k]
  BY FirstChange
<1>2. /\ covered \in SUBSET (1..Len(commits)) /\ Len(commits) \in Nat
      /\ \A m \in covered : \A l \in 1..m : l \in covered
  BY LogTypes
<1>3. pull.token.snapshot \in Nat /\ j \in 1..pull.token.snapshot
  BY <1>2 DEF BatchRead
<1>4. j \in covered
  BY <1>2, <1>3 DEF BatchRead
<1>5. j \in log[Source] /\ j > token.snapshot /\ j <= pull.token.snapshot
  BY <1>1, <1>3, <1>4 DEF Pending
<1>6. Touches(j, k) /\ RowsAt(j - 1)[k] # NoRow
  BY <1>1, WindowAssumption DEF Touches
<1>7. j \in pull.batch
  BY <1>5, <1>6 DEF BatchRead
<1> QED BY <1>1, <1>7

\* A row loaded from an older page, before an event has brought it up to date.
Old(e, m) ==
  /\ e.pk \in overtaken /\ e.pk \in Shown
  /\ \A i \in pull.batch : i <= m /\ Key(i) = e.pk => RowsAt(i - 1)[e.pk] = NoRow

\* A row the table had, before the events that change it.
Trails(e, m) ==
  \E p \in 0..Len(commits) :
    /\ e.row = RowsAt(p)[e.pk] /\ e.row \in Matching
    /\ \A i \in (p + 1)..Len(commits) :
         Changes(i, e.pk) => Pending(i, token) /\ (i <= m => i \notin pull.batch)

LEMMA ReplayContent ==
  ASSUME WindowTypeOK, LogInv, OrderInv, RowsInv, Current(token), BatchRead,
         NEW after, Replays(after, pull.batch), NEW n \in DOMAIN after[Len(commits)]
  PROVE  LET e == after[Len(commits)][n] IN Old(e, Len(commits)) \/ Trails(e, Len(commits))
<1> DEFINE N == Len(commits)
           Good(m) == \A j \in DOMAIN after[m] : Old(after[m][j], m) \/ Trails(after[m][j], m)
           S == {m \in 0..N : Good(m)}
<1>1. N \in Nat /\ after[0] = entries
  BY Counts DEF Replays
<1>2. entries \in Seq(Entry) /\ Distinct(entries)
  BY OrderIsDistinct
<1>3. /\ covered \in SUBSET (1..N) /\ log[Source] \in SUBSET covered
      /\ \A i \in log[Source], j \in covered : i < j => j \in log[Source]
  BY LogTypes DEF LogInv
<1>4. \A i \in pull.batch : i \in 1..N
  BY DEF BatchRead
<1>5. Good(0)
  <2> SUFFICES ASSUME NEW j \in DOMAIN entries PROVE Old(entries[j], 0) \/ Trails(entries[j], 0)
    BY <1>1
  <2>1. \A i \in pull.batch : ~(i <= 0)
    BY <1>1, <1>4
  <2>2. \A i \in 1..N : ~(i <= 0)
    BY <1>1
  <2>3. CASE entries[j].pk \in overtaken
    BY <2>1, <2>3 DEF Old, Shown, Pks
  <2>4. CASE Follows(entries[j])
    <3>1. \A p \in 0..N : \A i \in (p + 1)..N : i \in 1..N
      BY <1>1
    <3> QED BY <2>2, <2>4, <3>1 DEF Follows, Trails
  <2> QED BY <2>3, <2>4 DEF RowsInv
<1>6. ASSUME NEW m \in 1..N, NEW e \in Entry, Old(e, m - 1) \/ Trails(e, m - 1),
             m \in pull.batch => e.pk # Key(m) \/ RowsAt(m - 1)[e.pk] = NoRow
      PROVE  Old(e, m) \/ Trails(e, m)
  <2>1. \A i \in 1..N : i <= m => i = m \/ i <= m - 1
    BY <1>1
  <2>2. CASE Old(e, m - 1)
    BY <1>4, <1>6, <2>1, <2>2 DEF Old
  <2>3. CASE Trails(e, m - 1)
    <3>1. PICK p \in 0..N :
            /\ e.row = RowsAt(p)[e.pk] /\ e.row \in Matching
            /\ \A i \in (p + 1)..N : Changes(i, e.pk) =>
                 Pending(i, token) /\ (i <= m - 1 => i \notin pull.batch)
      BY <2>3 DEF Trails
    <3>2. ASSUME NEW i \in (p + 1)..N, Changes(i, e.pk), i <= m, i \in pull.batch PROVE FALSE
      <4>1. i = m /\ m \in 1..N
        BY <1>1, <2>1, <3>1, <3>2
      <4>2. e.pk \in Keys
        BY DEF Entry
      <4>3. Key(m) = e.pk
        BY <3>2, <4>1, <4>2, OneKey
      <4>4. RowsAt(m - 1)[e.pk] = NoRow
        BY <1>6, <3>2, <4>1, <4>3
      <4>5. i <= pull.token.snapshot
        BY <3>2 DEF BatchRead
      <4>6. \A j \in (p + 1)..i : Changes(j, e.pk) => Pending(j, token)
        BY <1>1, <3>1
      <4>7. PICK j \in (p + 1)..i :
              j \in pull.batch /\ Changes(j, e.pk) /\ RowsAt(j - 1)[e.pk] \in Matching
        BY <3>1, <3>2, <4>2, <4>5, <4>6, FirstTouched
      <4>8. j = m \/ j <= m - 1
        BY <1>1, <4>1
      <4>9. j # m
        BY <4>4, <4>7, WindowAssumption
      <4>10. j \in (p + 1)..N
        BY <1>1
      <4> QED BY <3>1, <4>7, <4>8, <4>9, <4>10
    <3> QED BY <3>1, <3>2 DEF Trails
  <2> QED BY <1>6, <2>2, <2>3
<1>7. ASSUME NEW m \in pull.batch, RowsAt(m)[Key(m)] \in Matching
      PROVE  Trails([pk |-> Key(m), row |-> RowsAt(m)[Key(m)]], m)
  <2>1. m \in 1..N /\ m \in log[Source] /\ token.snapshot < m /\ token.snapshot \in Nat
    BY DEF BatchRead
  <2>2. ASSUME NEW i \in (m + 1)..N PROVE Pending(i, token) /\ ~(i <= m)
    <3>1. i \in Int /\ m \in Int /\ m < i
      BY <1>1, <2>1
    <3>2. i \in covered => i \in log[Source]
      BY <1>3, <2>1, <3>1
    <3>3. i > token.snapshot
      BY <2>1, <3>1
    <3> QED BY <3>1, <3>2, <3>3 DEF Pending
  <2>3. m \in 0..N
    BY <1>1, <2>1
  <2> QED BY <1>7, <2>2, <2>3 DEF Trails
<1>8. ASSUME NEW m \in 1..N, Good(m - 1) PROVE Good(m)
  <2> SUFFICES ASSUME NEW j \in DOMAIN after[m] PROVE Old(after[m][j], m) \/ Trails(after[m][j], m)
    OBVIOUS
  <2> DEFINE s == after[m - 1] t == after[m]
  <2>1. m - 1 \in 0..N /\ m \in 0..N
    BY <1>1
  <2>2. s \in Seq(Entry) /\ t \in Seq(Entry) /\ \A l \in DOMAIN s : Old(s[l], m - 1) \/ Trails(s[l], m - 1)
    BY <1>2, <1>8, <2>1, ReplayRows
  <2>3. t[j] \in Entry
    BY <2>2
  <2>4. ASSUME NEW l \in DOMAIN s, t[j] = s[l],
               m \in pull.batch => t[j].pk # Key(m) \/ RowsAt(m - 1)[t[j].pk] = NoRow
        PROVE  Old(t[j], m) \/ Trails(t[j], m)
    <3> HIDE DEF s, t
    <3> QED BY <1>6, <2>2, <2>3, <2>4
  <2>5. CASE m \notin pull.batch
    <3>1. t = s
      BY <2>5 DEF Replays
    <3> HIDE DEF s
    <3> QED BY <2>4, <2>5, <3>1
  <2>6. CASE m \in pull.batch
    <3>1. /\ t[j].pk # Key(m) => \E l \in DOMAIN s : t[j] = s[l]
          /\ t[j].pk = Key(m) =>
               \/ Brings(Event(m)) /\ t[j] = [pk |-> Key(m), row |-> RowsAt(m)[Key(m)]]
               \/ RowsAt(m - 1)[Key(m)] = NoRow /\ \E l \in DOMAIN s : t[j] = s[l]
      BY <1>2, <2>6, ReplayRows
    <3>2. Brings(Event(m)) => RowsAt(m)[Key(m)] \in Matching
      BY <2>6, EventFacts DEF BatchRead
    <3> HIDE DEF s, t
    <3>3. ASSUME Brings(Event(m)), t[j] = [pk |-> Key(m), row |-> RowsAt(m)[Key(m)]]
          PROVE  Old(t[j], m) \/ Trails(t[j], m)
      BY <1>7, <2>6, <3>2, <3>3
    <3>4. ASSUME NEW l \in DOMAIN s, t[j] = s[l],
                 t[j].pk # Key(m) \/ RowsAt(m - 1)[t[j].pk] = NoRow
          PROVE  Old(t[j], m) \/ Trails(t[j], m)
      BY <2>4, <3>4
    <3>5. Old(t[j], m) \/ Trails(t[j], m)
      BY <3>1, <3>3, <3>4
    <3> QED BY <3>5 DEF t
  <2> QED BY <2>5, <2>6
<1>9. 0..N \subseteq S
  <2>1. 0 \in Int /\ N \in Int /\ 0 <= N
    BY <1>1
  <2>2. 0 \in S
    BY <1>1, <1>5
  <2>3. \A m \in (0 + 1)..N : m - 1 \in S => m \in S
    <3> HIDE DEF Good
    <3> QED BY <1>1, <1>8
  <2> HIDE DEF S, N
  <2> QED BY <2>1, <2>2, <2>3, RangeInduction
<1>10. N \in 0..N
  BY <1>1
<1>11. N \in S
  <2> HIDE DEF S, N
  <2> QED BY <1>9, <1>10
<1> QED BY <1>11

LEMMA RowsAfterEvents ==
  ASSUME WindowTypeOK, LogInv, FlightInv, EventsAnswer, OrderInv, RowsInv, AbsentInv, ReceiveEvents
  PROVE  RowsInv'
<1> DEFINE N == Len(commits) B == pull.batch
<1>1. /\ entries' = ApplyBatch(B) /\ token' = pull.token /\ UNCHANGED <<vars, history>>
      /\ overtaken' = overtaken \ Caught(B)
  BY DEF ReceiveEvents
<1> SUFFICES ASSUME Current(pull.token), NEW n \in DOMAIN entries'
             PROVE  \/ entries'[n].pk \in overtaken'
                    \/ \E p \in 0..N :
                         /\ entries'[n].row = RowsAt(p)[entries'[n].pk] /\ entries'[n].row \in Matching
                         /\ \A i \in (p + 1)..N : Changes(i, entries'[n].pk) => Pending(i, pull.token)
  BY <1>1 DEF RowsInv, Follows, Current, Changes, RowsAt, Pending, vars
<1>2. BatchRead /\ Current(token)
  BY BatchIsRead
<1>3. PICK after : Replays(after, B) /\ ApplyBatch(B) = after[N]
  BY BatchSteps
<1> DEFINE e == entries'[n]
<1>4. Old(e, N) \/ Trails(e, N)
  BY <1>1, <1>2, <1>3, ReplayContent
<1>5. N \in Nat /\ entries' \in Seq(Entry)
  <2>1. Distinct(entries) /\ N \in Nat
    BY OrderIsDistinct, Counts
  <2>2. N \in 0..N
    BY <2>1
  <2> QED BY <1>1, <1>3, <2>1, <2>2, ReplayRows
<1>6. e.pk \in Keys
  <2>1. e \in Entry
    BY <1>5
  <2> QED BY <2>1 DEF Entry
<1> HIDE DEF e
<1>7. CASE Old(e, N)
  <2>1. e.pk \notin Caught(B)
    <3> SUFFICES ASSUME NEW i \in B, Key(i) = e.pk, Event(i).op # "insert" \/ Key(i) \notin Shown
                 PROVE  FALSE
      BY DEF Caught
    <3>1. i \in 1..N
      BY <1>2 DEF BatchRead
    <3>2. i <= N /\ RowsAt(i - 1)[e.pk] = NoRow /\ e.pk \in Shown
      BY <1>5, <1>7, <3>1 DEF Old
    <3>3. Event(i).op = "insert"
      BY <3>1, <3>2, EventFacts
    <3> QED BY <3>2, <3>3
  <2> QED BY <1>1, <1>7, <2>1 DEF Old, e
<1>8. CASE Trails(e, N)
  <2>1. PICK p \in 0..N :
          /\ e.row = RowsAt(p)[e.pk] /\ e.row \in Matching
          /\ \A i \in (p + 1)..N : Changes(i, e.pk) =>
               Pending(i, token) /\ (i <= N => i \notin B)
    BY <1>8 DEF Trails
  <2>2. ASSUME NEW i \in (p + 1)..N, Changes(i, e.pk) PROVE Pending(i, pull.token)
    <3> SUFFICES ASSUME i \in covered, i <= pull.token.snapshot PROVE FALSE
      <4>1. i \in Int /\ pull.token.snapshot \in Int
        BY <1>2, <1>5 DEF BatchRead
      <4>2. i \in covered => i \in log[Source]
        BY <2>1, <2>2 DEF Pending
      <4> QED BY <4>1, <4>2 DEF Pending
    <3>1. \A j \in (p + 1)..i : j \in (p + 1)..N /\ j <= N
      BY <1>5
    <3>2. \A j \in (p + 1)..i : Changes(j, e.pk) => Pending(j, token)
      BY <2>1, <3>1
    <3>3. PICK j \in (p + 1)..i :
            j \in B /\ Changes(j, e.pk) /\ RowsAt(j - 1)[e.pk] \in Matching
      BY <1>2, <1>6, <2>1, <2>2, <3>2, FirstTouched
    <3> QED BY <2>1, <3>1, <3>3
  <2> QED BY <2>1, <2>2 DEF e
<1> QED BY <1>4, <1>7, <1>8

LEMMA RowsAfterRows ==
  ASSUME WindowTypeOK, LogInv, FlightInv, RowsAnswer, ReceiveRows
  PROVE  RowsInv'
<1> DEFINE N == Len(commits)
<1>1. /\ entries' = RowsOf(pull.pks, pull.pos) /\ token' = pull.token /\ UNCHANGED <<vars, history>>
      /\ pull.pks \in SUBSET Result(pull.pos)
  BY DEF ReceiveRows, RowsAnswer
<1> SUFFICES ASSUME Current(pull.token), NEW n \in DOMAIN entries'
             PROVE  \E p \in 0..N :
                      /\ entries'[n].row = RowsAt(p)[entries'[n].pk] /\ entries'[n].row \in Matching
                      /\ \A i \in (p + 1)..N : Changes(i, entries'[n].pk) => Pending(i, pull.token)
  BY <1>1 DEF RowsInv, Follows, Current, Changes, RowsAt, Pending, vars
<1>2. pull.pos \in 0..N
  BY Counts DEF FlightInv, WindowTypeOK, Request
<1>3. entries'[n].row = RowsAt(pull.pos)[entries'[n].pk] /\ entries'[n].row \in Matching
  BY <1>1, RowsOfFacts
<1>4. \A i \in (pull.pos + 1)..N : Pending(i, pull.token)
  BY DEF RowsAnswer, ReceiveRows
<1> QED BY <1>2, <1>3, <1>4

LEMMA RowsAfterPage ==
  ASSUME WindowTypeOK, LogInv, FlightInv, OrderInv, RowsInv, PageAnswer, ReceivePage
  PROVE  RowsInv'
<1> DEFINE N == Len(commits)
<1>1. /\ UNCHANGED <<vars, history, token>>
      /\ overtaken' = overtaken \union ({Key(i) : i \in Missed(page.pos)} \ Shown)
  BY DEF ReceivePage
<1> SUFFICES ASSUME Current(token), NEW n \in DOMAIN entries'
             PROVE  \/ entries'[n].pk \in overtaken'
                    \/ \E p \in 0..N :
                         /\ entries'[n].row = RowsAt(p)[entries'[n].pk] /\ entries'[n].row \in Matching
                         /\ \A i \in (p + 1)..N : Changes(i, entries'[n].pk) => Pending(i, token)
  BY <1>1 DEF RowsInv, Follows, Current, Changes, RowsAt, Pending, vars
<1> DEFINE e == entries'[n]
<1>2. /\ entries' \in Seq(Entry)
      /\ \/ \E m \in DOMAIN entries : e = entries[m]
         \/ /\ e.pk \in page.pks \ Shown
            /\ e.row = RowsAt(page.pos)[e.pk] /\ e.row \in Matching
  BY OrderAfterPage
<1>3. e.pk \in Keys
  <2>1. e \in Entry
    BY <1>2
  <2> QED BY <2>1 DEF Entry
<1> HIDE DEF e
<1>4. CASE \E m \in DOMAIN entries : e = entries[m]
  <2>1. e.pk \in overtaken \/ Follows(e)
    BY <1>4 DEF RowsInv
  <2> QED BY <1>1, <2>1 DEF Follows, e
<1>5. CASE /\ e.pk \in page.pks \ Shown
           /\ e.row = RowsAt(page.pos)[e.pk] /\ e.row \in Matching
  <2>1. page.pos \in 0..N /\ N \in Nat
    BY Counts DEF FlightInv, WindowTypeOK, Request
  <2>2. CASE \E i \in Missed(page.pos) : Key(i) = e.pk
    BY <1>1, <1>5, <2>2 DEF e
  <2>3. CASE \A i \in Missed(page.pos) : Key(i) # e.pk
    <3>1. ASSUME NEW i \in (page.pos + 1)..N, Changes(i, e.pk) PROVE Pending(i, token)
      <4>1. i \in 1..N
        BY <2>1
      <4>2. Key(i) = e.pk
        BY <1>3, <3>1, <4>1, OneKey
      <4> QED BY <2>3, <4>2 DEF Missed
    <3> QED BY <1>5, <2>1, <3>1 DEF e
  <2> QED BY <2>2, <2>3
<1> QED BY <1>2, <1>4, <1>5

(***************************************************************************)
(* The rows that are not shown.                                            *)
(***************************************************************************)
\* Absent, for a cursor other than the client's.
AbsentFor(k, ground, tok) ==
  \E p \in 0..Len(commits) :
    /\ RowsAt(p)[k] \notin Matching
    /\ \A i \in (p + 1)..Len(commits) :
         Changes(i, k) => Pending(i, tok) /\ (RowsAt(i - 1)[k] = NoRow => i > ground)

LEMMA ChangedIsReached ==
  ASSUME WindowTypeOK, LogInv, NEW k \in Keys, NEW i \in 1..Len(commits), Changes(i, k)
  PROVE  k \in Reached(i)
<1>1. RowsAt(i)[k] # NoRow \/ RowsAt(i - 1)[k] # NoRow
  BY DEF Changes
<1>2. i \in 0..i /\ i - 1 \in 0..i
  BY Counts
<1>3. k \in UsedBy(i)
  BY <1>1, <1>2 DEF UsedBy
<1> QED BY <1>3, UsedIsReached

\* An insert that the gate refuses is at or behind a key of the range.
LEMMA RefusedIsReached ==
  ASSUME NEW i, NEW r, RangeKeys(r) \subseteq Reached(i), NEW k \in Keys, ~IsInsertPrepend(k, r)
  PROVE  k \in Reached(i)
<1>1. Leading(r) \in RangeKeys(r) /\ ~Ahead(k, Leading(r))
  BY DEF IsInsertPrepend, Leading, RangeKeys
<1> QED BY <1>1, ReachedBehind

\* A key that is absent for the client's cursor, and has no event of the batch
\* ahead of it, is absent for the answer's cursor.
LEMMA RaiseAbsent ==
  ASSUME WindowTypeOK, LogInv, BatchRead, NEW k \in Keys, ~Late(k),
         NEW ground \in 0..Len(commits), NEW G \in {ground, pull.token.snapshot},
         ground <= G, pull.token.snapshot <= G,
         \A i \in log[Source] \ pull.batch :
           token.snapshot < i /\ i <= pull.token.snapshot /\ Touches(i, k) => i <= ground \/ Late(k),
         NEW p \in 0..Len(commits), RowsAt(p)[k] \notin Matching,
         \A i \in (p + 1)..Len(commits) : Changes(i, k) =>
           Pending(i, token) /\ i \notin pull.batch /\ (RowsAt(i - 1)[k] = NoRow => i > ground)
  PROVE  AbsentFor(k, G, pull.token)
<1> DEFINE N == Len(commits)
           to == pull.token.snapshot
           q == IF p >= to THEN p ELSE to
<1>1. /\ N \in Nat /\ p \in Nat /\ to \in Nat /\ to \in covered \union {0}
      /\ covered \in SUBSET (1..N)
      /\ \A i \in covered : \A j \in 1..i : j \in covered
  BY Counts, LogTypes DEF BatchRead
<1>2. q \in 0..N /\ p <= q /\ to <= q /\ (q = p \/ q = to)
  BY <1>1
<1> HIDE DEF q
<1>3. ASSUME NEW i \in (p + 1)..q PROVE ~Touches(i, k)
  <2> SUFFICES ASSUME Touches(i, k) PROVE FALSE
    OBVIOUS
  <2>1. q = to /\ i \in 1..to /\ i \in (p + 1)..N
    BY <1>1, <1>2
  <2>2. i \in covered
    BY <1>1, <2>1
  <2>3. Pending(i, token) /\ i \notin pull.batch /\ (RowsAt(i - 1)[k] = NoRow => i > ground)
    BY <2>1 DEF Touches
  <2>4. i \in log[Source] \ pull.batch /\ token.snapshot < i
    BY <2>2, <2>3, BatchRead DEF Pending, BatchRead
  <2>5. i <= to
    BY <1>1, <2>1
  <2>6. RowsAt(i - 1)[k] = NoRow
    BY <2>4, <2>5 DEF BatchRead
  <2>7. i <= ground
    BY <2>4, <2>5
  <2> QED BY <2>1, <2>3, <2>6, <2>7
<1>4. RowsAt(q)[k] \notin Matching
  <2>1. q \in p..N
    BY <1>1, <1>2
  <2> QED BY <1>3, <2>1, StaysOut
<1>5. ASSUME NEW i \in (q + 1)..N, Changes(i, k)
      PROVE  Pending(i, pull.token) /\ (RowsAt(i - 1)[k] = NoRow => i > G)
  <2>1. i \in (p + 1)..N /\ i > to
    BY <1>1, <1>2
  <2>2. Pending(i, token) /\ (RowsAt(i - 1)[k] = NoRow => i > ground)
    BY <1>5, <2>1
  <2> QED BY <2>1, <2>2 DEF Pending
<1> QED BY <1>2, <1>4, <1>5 DEF AbsentFor

\* The parts of AbsentInv, for given bounds.
LEMMA AbsentParts ==
  ASSUME WindowTypeOK, LogInv, AbsentInv, Current(token)
  PROVE  \E ground \in 0..Len(commits) :
    /\ ClientKeys \subseteq Reached(ground)
    /\ pull.kind = "pull" /\ pull.stage = "sent" => RangeKeys(pull.range) \subseteq Reached(ground)
    /\ pull.kind = "pull" /\ pull.stage = "answered" /\ Current(pull.token) =>
         /\ RangeKeys(pull.range) \subseteq Reached(ground) \union Reached(pull.token.snapshot)
         /\ \A i \in log[Source] \ pull.batch, k \in Keys :
              token.snapshot < i /\ i <= pull.token.snapshot /\ Touches(i, k) =>
                RowsAt(i - 1)[k] = NoRow /\ (i <= ground \/ Late(k))
    /\ \A k \in Keys \ Shown : Late(k) \/ AbsentFor(k, ground, token) \/ Behind(k) \/ Passed(k)
BY DEF AbsentInv, Absent, AbsentFor

\* A key behind the window stays behind it when events come in.
LEMMA BehindAfterEvents ==
  ASSUME WindowTypeOK, OrderInv, ReceiveEvents, entries' \in Seq(Entry),
         NEW k \in Keys, Behind(k)
  PROVE  Behind(k)'
<1>1. /\ jumps' = jumps \union Jumped(pull.batch) /\ UNCHANGED <<vars, history, hasMore, narrowed>>
      /\ entries' = ApplyBatch(pull.batch)
  BY DEF ReceiveEvents
<1>2. NotForemost(k)' /\ (hasMore' \/ narrowed' \/ \E g \in jumps' : Ahead(k, g))
  BY <1>1 DEF Behind, NotForemost, UsedBy, RowsAt, vars
<1>3. Shown' \subseteq Keys /\ Shown \subseteq Keys /\ jumps \subseteq Keys /\ k \in Int
      /\ \A l \in Keys : l \in Int
  <2>1. \A n \in DOMAIN entries' : entries'[n] \in Entry
    OBVIOUS
  <2>2. Shown' \subseteq Keys
    BY <2>1 DEF Shown, Pks, Entry
  <2> QED BY <2>2, OrderIsDistinct, KeysAreNumbers DEF WindowTypeOK
<1>4. ASSUME NEW j \in Shown', Ahead(k, j) PROVE \E g \in jumps' : Ahead(k, g) /\ (g = j \/ Ahead(g, j))
  <2>1. CASE j \in Shown
    BY <1>1, <1>4, <2>1 DEF Behind, Excused
  <2>2. CASE j \in jumps'
    BY <1>4, <2>2
  <2>3. CASE j \notin Shown /\ j \notin jumps'
    <3>1. j \in Pks(ApplyBatch(pull.batch)) \ Shown
      BY <1>1, <2>3 DEF Shown
    <3>2. PICK l \in Contiguous : ~Ahead(l, j)
      BY <1>1, <2>3, <3>1 DEF Jumped
    <3>3. l \in Shown /\ \A g \in jumps : Ahead(l, g)
      BY <3>2 DEF Contiguous
    <3>4. Ahead(j, l)
      BY <1>3, <2>3, <3>2, <3>3, AheadOrder
    <3>5. Ahead(k, l)
      BY <1>3, <1>4, <3>3, <3>4, AheadOrder
    <3>6. PICK g \in jumps : g = l \/ Ahead(g, l)
      BY <3>3, <3>5 DEF Behind, Excused
    <3> QED BY <1>3, <3>3, <3>6, AheadOrder
  <2> QED BY <2>1, <2>2, <2>3
<1> QED BY <1>2, <1>4 DEF Behind, Excused

LEMMA AbsentAfterEvents ==
  ASSUME WindowTypeOK, LogInv, FlightInv, EventsAnswer, OrderInv, AbsentInv, ReceiveEvents
  PROVE  AbsentInv'
<1> DEFINE N == Len(commits) B == pull.batch to == pull.token.snapshot
<1>1. /\ entries' = ApplyBatch(B) /\ range' = pull.range /\ token' = pull.token /\ pull' = NoRequest
      /\ UNCHANGED <<vars, history, hasMore, narrowed, page>>
      /\ overtaken' = overtaken \ Caught(B)
      /\ pull.stage = "answered" /\ pull.kind = "pull"
  BY DEF ReceiveEvents
<1> SUFFICES ASSUME Current(pull.token)
             PROVE  \E G \in 0..N :
                      /\ ClientKeys' \subseteq Reached(G)
                      /\ \A k \in Keys \ Shown' :
                           Late(k) \/ AbsentFor(k, G, pull.token) \/ Behind(k)' \/ Passed(k)'
  <2>1. \A G : Reached(G)' = Reached(G)
    BY <1>1 DEF Reached, UsedBy, RowsAt
  <2>2. \A k : Late(k)' = Late(k)
    BY <1>1 DEF Late, RowsAt, vars
  <2>3. \A k, G : AbsentFor(k, G, pull.token) => Absent(k, G)'
    BY <1>1 DEF AbsentFor, Absent, Changes, Pending, RowsAt, vars
  <2>4. Current(token)' => Current(pull.token)
    BY <1>1 DEF Current, vars
  <2>5. pull'.stage = "none" /\ Len(commits)' = N
    BY <1>1 DEF NoRequest, vars
  <2> QED BY <2>1, <2>2, <2>3, <2>4, <2>5 DEF AbsentInv
<1>2. BatchRead /\ Current(token)
  BY BatchIsRead
<1>3. /\ N \in Nat /\ to \in 0..N /\ Distinct(entries)
      /\ covered \in SUBSET (1..N) /\ log[Source] \in SUBSET covered
      /\ \A i \in log[Source], j \in covered : i < j => j \in log[Source]
  <2>1. to \in covered \union {0} /\ covered \in SUBSET (1..N) /\ N \in Nat
    BY <1>2, Counts, LogTypes DEF BatchRead
  <2>2. to \in 0..N
    BY <2>1
  <2>3. \A i \in log[Source], j \in covered : i < j => j \in log[Source]
    BY DEF LogInv
  <2>4. Distinct(entries) /\ log[Source] \in SUBSET covered
    BY LogTypes, OrderIsDistinct
  <2> QED BY <2>1, <2>2, <2>3, <2>4
<1>4. \A i \in B : /\ i \in 1..N /\ Touches(i, Key(i)) /\ Key(i) \in Keys /\ Changes(i, Key(i))
                   /\ i \in log[Source] /\ token.snapshot < i /\ i <= to
  BY <1>2, OneKey DEF BatchRead, Touches
<1>5. PICK after : Replays(after, B) /\ ApplyBatch(B) = after[N]
  BY BatchSteps
<1>6. /\ entries' \in Seq(Entry) /\ after[0] = entries /\ Shown' = Pks(after[N])
  <2>1. N \in 0..N
    BY <1>3
  <2> QED BY <1>1, <1>3, <1>5, <2>1, ReplayRows DEF Replays, Shown
<1>7. PICK ground \in 0..N :
        /\ ClientKeys \subseteq Reached(ground)
        /\ RangeKeys(pull.range) \subseteq Reached(ground) \union Reached(to)
        /\ \A i \in log[Source] \ B, k \in Keys :
             token.snapshot < i /\ i <= to /\ Touches(i, k) =>
               RowsAt(i - 1)[k] = NoRow /\ (i <= ground \/ Late(k))
        /\ \A k \in Keys \ Shown : Late(k) \/ AbsentFor(k, ground, token) \/ Behind(k) \/ Passed(k)
  BY <1>1, <1>2, AbsentParts
<1> DEFINE G == IF ground >= to THEN ground ELSE to
<1>8. G \in 0..N /\ G \in {ground, to} /\ ground <= G /\ to <= G
  BY <1>3
<1>9. Reached(ground) \subseteq Reached(G) /\ Reached(to) \subseteq Reached(G)
  BY <1>3, <1>8, ReachedGrows
<1> HIDE DEF G
<1>10. ClientKeys' \subseteq Reached(G)
  <2>1. ASSUME NEW k \in Shown' PROVE k \in Reached(G)
    <3>1. CASE k \in Shown
      BY <1>7, <1>9, <3>1 DEF ClientKeys
    <3>2. CASE k \notin Shown
      <4>1. k \in Keys
        <5>1. \A n \in DOMAIN entries' : entries'[n] \in Entry
          BY <1>6
        <5> QED BY <2>1, <5>1 DEF Shown, Pks, Entry
      <4>2. PICK i \in B : Key(i) = k
        <5> SUFFICES ASSUME \A i \in B : Key(i) # k PROVE FALSE
          OBVIOUS
        <5>1. 0 \in 0..N /\ N \in 0..N /\ \A i \in (0 + 1)..N : i \in B => Key(i) # k
          BY <1>3
        <5>2. k \in Pks(after[N]) <=> k \in Pks(after[0])
          BY <1>3, <1>5, <4>1, <5>1, KeyRests
        <5> QED BY <1>6, <2>1, <3>2, <5>2 DEF Shown
      <4>3. k \in Reached(i)
        BY <1>4, <4>1, <4>2, ChangedIsReached
      <4>4. i \in Int /\ G \in Int /\ i <= G
        BY <1>3, <1>4, <1>8
      <4> QED BY <4>3, <4>4, ReachedGrows
    <3> QED BY <3>1, <3>2
  <2>2. RangeKeys(range)' = RangeKeys(pull.range) /\ PageKeys' = PageKeys
    BY <1>1 DEF RangeKeys, PageKeys
  <2>3. PageKeys \subseteq Reached(G) /\ RangeKeys(pull.range) \subseteq Reached(G)
    BY <1>7, <1>9 DEF ClientKeys
  <2> QED BY <2>1, <2>2, <2>3 DEF ClientKeys
<1>11. ASSUME NEW k \in Keys, ~Late(k), NEW p \in 0..N, RowsAt(p)[k] \notin Matching,
              \A i \in (p + 1)..N : Changes(i, k) =>
                Pending(i, token) /\ i \notin B /\ (RowsAt(i - 1)[k] = NoRow => i > ground)
       PROVE  AbsentFor(k, G, pull.token)
  <2>1. \A i \in log[Source] \ B :
          token.snapshot < i /\ i <= to /\ Touches(i, k) => i <= ground \/ Late(k)
    BY <1>7
  <2> QED BY <1>2, <1>8, <1>11, <2>1, RaiseAbsent
<1>12. ASSUME NEW k \in Keys \ Shown', ~Late(k), k \notin Shown,
              \A i \in B : Key(i) = k => i <= ground /\ RowsAt(i - 1)[k] = NoRow /\
                             \A j \in B : Key(j) = k => j = i
       PROVE  AbsentFor(k, G, pull.token) \/ Behind(k)' \/ Passed(k)'
  <2>1. CASE AbsentFor(k, ground, token)
    <3>1. PICK p \in 0..N :
            /\ RowsAt(p)[k] \notin Matching
            /\ \A i \in (p + 1)..N : Changes(i, k) =>
                 Pending(i, token) /\ (RowsAt(i - 1)[k] = NoRow => i > ground)
      BY <2>1 DEF AbsentFor
    <3>2. ASSUME NEW i \in (p + 1)..N, Changes(i, k) PROVE i \notin B
      <4> SUFFICES ASSUME i \in B PROVE FALSE
        OBVIOUS
      <4>1. Key(i) = k
        BY <1>4, <3>2, OneKey
      <4>2. i <= ground /\ i > ground
        BY <1>12, <3>1, <3>2, <4>1
      <4> QED BY <1>3, <1>4, <4>2
    <3> QED BY <1>11, <1>12, <3>1, <3>2
  <2>2. CASE Behind(k)
    BY <1>6, <2>2, BehindAfterEvents
  <2>3. CASE Passed(k)
    <3>1. PICK c \in covered : Changes(c, k) /\ ~Pending(c, token)
      BY <2>3 DEF Passed
    <3>2. \A i \in B : Key(i) # k
      <4> SUFFICES ASSUME NEW i \in B, Key(i) = k PROVE FALSE
        OBVIOUS
      <4>1. i \in log[Source] /\ token.snapshot < i /\ i \in 1..N /\ token.snapshot \in Nat
        BY <1>2, <1>4 DEF BatchRead
      <4>2. c \in 1..N
        BY <1>3
      <4>3. ~(c > i) /\ c # i
        <5>1. \A j \in covered : j >= i => j \in log[Source] /\ j > token.snapshot
          BY <1>3, <4>1
        <5> QED BY <3>1, <4>1, <4>2, <5>1 DEF Pending
      <4>4. c \in 1..(i - 1)
        BY <4>1, <4>2, <4>3
      <4>5. Changes(i, k) /\ RowsAt(i - 1)[k] = NoRow
        BY <1>4, <1>12
      <4> QED BY <1>12, <3>1, <4>1, <4>4, <4>5, LateAgain
    <3>3. k \in overtaken'
      BY <1>1, <2>3, <3>2 DEF Passed, Caught
    <3>4. NotForemost(k)'
      BY <1>1, <2>3 DEF Passed, NotForemost, UsedBy, RowsAt, vars
    <3>5. ~Pending(c, pull.token)
      <4>1. c \in Int /\ token.snapshot \in Int /\ to \in Int /\ token.snapshot <= to
        BY <1>2, <1>3 DEF BatchRead
      <4> QED BY <3>1, <4>1 DEF Pending
    <3> QED BY <1>1, <3>1, <3>3, <3>4, <3>5 DEF Passed, Changes, Pending, RowsAt, vars
  <2> QED BY <1>7, <1>12, <2>1, <2>2, <2>3
<1>13. ASSUME NEW k \in Keys \ Shown', ~Late(k)
       PROVE  AbsentFor(k, G, pull.token) \/ Behind(k)' \/ Passed(k)'
  <2>1. \/ k \notin Shown /\ \A i \in B : Key(i) # k
        \/ \E i \in B :
             /\ Key(i) = k /\ \A j \in B : Key(j) = k => j <= i
             /\ \/ RowsAt(i)[k] \notin Matching
                \/ /\ RowsAt(i - 1)[k] = NoRow /\ ~IsInsertPrepend(k, range)
                   /\ k \in Shown => \E j \in B : Key(j) = k /\ j < i
    <3>1. k \in Keys /\ k \notin Pks(after[N]) /\ \A i \in B : i \in 1..N /\ Touches(i, Key(i))
      BY <1>4, <1>6
    <3> QED BY <1>3, <1>5, <3>1, LastEvent
  <2>2. CASE k \notin Shown /\ \A i \in B : Key(i) # k
    BY <1>12, <1>13, <2>2
  <2>3. ASSUME NEW i \in B, Key(i) = k, \A j \in B : Key(j) = k => j <= i
        PROVE  \A j \in 1..N : Changes(j, k) /\ j > i /\ RowsAt(j - 1)[k] = NoRow => FALSE
    <3> SUFFICES ASSUME NEW j \in 1..N, Changes(j, k), j > i, RowsAt(j - 1)[k] = NoRow PROVE FALSE
      OBVIOUS
    <3>1. i \in 1..(j - 1) /\ Changes(i, k)
      BY <1>4, <2>3
    <3> QED BY <1>13, <3>1, LateAgain
  <2>4. ASSUME NEW i \in B, Key(i) = k, \A j \in B : Key(j) = k => j <= i, RowsAt(i)[k] \notin Matching
        PROVE  AbsentFor(k, G, pull.token)
    <3>1. i \in 1..N /\ i \in log[Source] /\ token.snapshot < i /\ token.snapshot \in Nat
      BY <1>2, <1>4 DEF BatchRead
    <3>2. ASSUME NEW j \in (i + 1)..N, Changes(j, k)
          PROVE  Pending(j, token) /\ j \notin B /\ (RowsAt(j - 1)[k] = NoRow => j > ground)
      <4>1. j \in 1..N /\ j > i /\ j > token.snapshot
        BY <1>3, <3>1
      <4>2. Key(j) = k
        BY <3>2, <4>1, OneKey
      <4>3. j \notin B
        BY <2>4, <3>1, <4>1, <4>2
      <4>4. j \in covered => j \in log[Source]
        BY <1>3, <3>1, <4>1
      <4>5. RowsAt(j - 1)[k] # NoRow
        BY <2>3, <2>4, <3>2, <4>1
      <4> QED BY <4>1, <4>3, <4>4, <4>5 DEF Pending
    <3>3. i \in 0..N
      BY <1>3, <3>1
    <3> QED BY <1>11, <1>13, <2>4, <3>2, <3>3
  <2>5. ASSUME NEW i \in B, Key(i) = k, \A j \in B : Key(j) = k => j <= i,
               RowsAt(i - 1)[k] = NoRow, ~IsInsertPrepend(k, range),
               k \in Shown => \E j \in B : Key(j) = k /\ j < i
        PROVE  AbsentFor(k, G, pull.token) \/ Behind(k)' \/ Passed(k)'
    <3>1. i \in 1..N /\ Changes(i, k)
      BY <1>4, <2>5
    <3>2. \A j \in B : Key(j) = k => j = i
      <4> SUFFICES ASSUME NEW j \in B, Key(j) = k, j # i PROVE FALSE
        OBVIOUS
      <4>1. j \in 1..(i - 1) /\ Changes(j, k)
        BY <1>4, <2>5, <3>1
      <4> QED BY <1>13, <2>5, <3>1, <4>1, LateAgain
    <3>3. k \notin Shown
      BY <2>5, <3>1, <3>2
    <3>4. k \in Reached(ground)
      <4>1. RangeKeys(range) \subseteq Reached(ground)
        BY <1>7 DEF ClientKeys
      <4> QED BY <2>5, <4>1, RefusedIsReached
    <3>5. i <= ground
      <4> SUFFICES ASSUME i > ground PROVE FALSE
        BY <1>3, <3>1
      <4>1. ground \in Int /\ i - 1 \in Int /\ ground <= i - 1
        BY <1>3, <3>1
      <4>2. k \in Reached(i - 1)
        BY <3>4, <4>1, ReachedGrows
      <4> QED BY <1>13, <2>5, <3>1, <4>2, LateInsert
    <3>6. \A j \in B : Key(j) = k => j <= ground /\ RowsAt(j - 1)[k] = NoRow /\
                         \A l \in B : Key(l) = k => l = j
      BY <2>5, <3>2, <3>5
    <3> QED BY <1>12, <1>13, <3>3, <3>6
  <2> QED BY <2>1, <2>2, <2>4, <2>5
<1> QED BY <1>8, <1>10, <1>13

LEMMA AbsentAfterRows ==
  ASSUME WindowTypeOK, LogInv, FlightInv, RowsAnswer, ReceiveRows
  PROVE  AbsentInv'
<1> DEFINE N == Len(commits) pos == pull.pos
<1>1. /\ range' = pull.range /\ hasMore' = pull.hasMore /\ token' = pull.token /\ pull' = NoRequest
      /\ narrowed' = (narrowed \/ Omits) /\ UNCHANGED <<vars, history, page>>
      /\ pull.stage = "answered" /\ pull.kind \in {"subscribe", "reset"}
  BY DEF ReceiveRows
<1> SUFFICES ASSUME Current(pull.token)
             PROVE  \E G \in 0..N :
                      /\ ClientKeys' \subseteq Reached(G)
                      /\ \A k \in Keys \ Shown' :
                           Late(k) \/ AbsentFor(k, G, pull.token) \/ Behind(k)' \/ Passed(k)'
  <2>1. \A G : Reached(G)' = Reached(G)
    BY <1>1 DEF Reached, UsedBy, RowsAt
  <2>2. \A k : Late(k)' = Late(k)
    BY <1>1 DEF Late, RowsAt, vars
  <2>3. \A k, G : AbsentFor(k, G, pull.token) => Absent(k, G)'
    BY <1>1 DEF AbsentFor, Absent, Changes, Pending, RowsAt, vars
  <2>4. Current(token)' => Current(pull.token)
    BY <1>1 DEF Current, vars
  <2>5. pull'.stage = "none" /\ Len(commits)' = N
    BY <1>1 DEF NoRequest, vars
  <2> QED BY <2>1, <2>2, <2>3, <2>4, <2>5 DEF AbsentInv
<1>2. pos \in 0..N /\ N \in Nat
  BY Counts DEF FlightInv, WindowTypeOK, Request
<1>3. Pks(entries') = pull.pks /\ pull.pks \subseteq Result(pos)
  BY OrderAfterRows
<1>4. /\ pull.range = Bounds(pull.pks) /\ ClientKeys \subseteq Reached(pos)
      /\ \A i \in (pos + 1)..N : Pending(i, pull.token)
      /\ \A k \in Result(pos) \ pull.pks :
           /\ \A j \in pull.pks : Ahead(j, k)
           /\ \E l \in UsedBy(pos) : Ahead(l, k)
           /\ pull.hasMore \/ pull.kind = "reset"
  BY <1>1 DEF RowsAnswer
<1>5. pull.pks \subseteq Reached(pos)
  BY <1>2, <1>3, ResultIsUsed, UsedIsReached
<1>6. ClientKeys' \subseteq Reached(pos)
  <2>1. pull.pks \in SUBSET Keys
    BY <1>3 DEF Result
  <2>2. RangeKeys(range)' \subseteq pull.pks
    <3>1. RangeKeys(Bounds(pull.pks)) \subseteq pull.pks
      BY <2>1, BoundsAreKeys
    <3> QED BY <1>1, <1>4, <3>1 DEF RangeKeys
  <2>3. PageKeys' = PageKeys /\ Shown' = pull.pks
    BY <1>1, <1>3 DEF PageKeys, RangeKeys, Shown
  <2> QED BY <1>4, <1>5, <2>2, <2>3 DEF ClientKeys
<1>7. ASSUME NEW k \in Keys \ Shown' PROVE AbsentFor(k, pos, pull.token) \/ Behind(k)'
  <2>0. k \notin pull.pks
    BY <1>3 DEF Shown
  <2>1. CASE k \in Result(pos)
    <3>1. NotForemost(k)'
      <4>1. PICK l \in UsedBy(pos) : Ahead(l, k)
        BY <1>4, <2>0, <2>1
      <4>2. UsedBy(pos) \subseteq UsedBy(N)
        BY <1>2, ReachedGrows
      <4>3. l \in UsedBy(Len(commits))'
        BY <1>1, <4>2 DEF UsedBy, RowsAt, vars
      <4> QED BY <4>1, <4>3 DEF NotForemost
    <3>2. \A j \in Shown' : ~Ahead(k, j)
      <4> SUFFICES ASSUME NEW j \in pull.pks PROVE ~Ahead(k, j)
        BY <1>3 DEF Shown
      <4>1. Ahead(j, k)
        BY <1>4, <2>0, <2>1
      <4>2. j \in Int /\ k \in Int
        BY <1>3, KeysAreNumbers DEF Result
      <4> QED BY <4>1, <4>2, AheadOrder
    <3>3. hasMore' \/ narrowed'
      <4>1. pull.hasMore \/ pull.kind = "reset"
        BY <1>4, <2>0, <2>1
      <4>2. Result(pos) # pull.pks
        BY <2>0, <2>1
      <4> QED BY <1>1, <4>1, <4>2 DEF Omits
    <3> QED BY <3>1, <3>2, <3>3 DEF Behind
  <2>2. CASE k \notin Result(pos)
    <3>1. RowsAt(pos)[k] \notin Matching
      BY <2>2 DEF Result
    <3>2. \A i \in (pos + 1)..N : Pending(i, pull.token) /\ i > pos
      BY <1>2, <1>4
    <3> QED BY <1>2, <3>1, <3>2 DEF AbsentFor
  <2> QED BY <2>1, <2>2
<1> QED BY <1>2, <1>6, <1>7

\* A key behind the window, when a page comes in.
LEMMA BehindAfterPage ==
  ASSUME WindowTypeOK, LogInv, FlightInv, OrderInv, PageAnswer, ReceivePage,
         NEW k \in Keys, k \notin Shown, k \notin page.pks, ~Late(k), Behind(k),
         NEW ground \in 0..Len(commits), Current(token)
  PROVE  AbsentFor(k, ground, token) \/ Behind(k)' \/ Passed(k)'
<1> DEFINE N == Len(commits) c == page.cursor new == page.pks \ Shown
<1>1. /\ UNCHANGED <<vars, history, token>> /\ hasMore' = page.hasMore
      /\ overtaken' = overtaken \union ({Key(i) : i \in Missed(page.pos)} \ Shown)
      /\ jumps' = IF entries # <<>> /\ c = Cursor THEN jumps ELSE jumps \union new
      /\ narrowed' = (narrowed \/ c \notin Shown)
      /\ page.stage = "answered"
  BY DEF ReceivePage
<1>2. Shown' = Shown \union new
  BY OrderAfterPage DEF Shown
<1>3. /\ page.pks \subseteq Result(page.pos) /\ c \in Reached(page.pos)
      /\ \A j \in page.pks : j \in Keys /\ Ahead(c, j)
      /\ \A l \in Result(page.pos) \ page.pks :
           Ahead(c, l) => page.hasMore /\ \A j \in page.pks : Ahead(j, l)
  BY <1>1 DEF PageAnswer, Result
<1>4. /\ \A l \in Keys : l \in Int
      /\ c \in Keys /\ Shown \subseteq Keys /\ jumps \subseteq Keys /\ jumps \subseteq jumps'
  BY <1>1, <1>3, KeysAreNumbers, OrderIsDistinct DEF WindowTypeOK, Reached
<1>5. page.pos \in 0..N /\ N \in Nat
  BY Counts DEF FlightInv, WindowTypeOK, Request
<1>6. NotForemost(k)' /\ NotForemost(k)
  BY <1>1 DEF Behind, NotForemost, UsedBy, RowsAt, vars
<1>7. \A j \in Shown : Ahead(k, j) => \E g \in jumps' : Ahead(k, g) /\ (g = j \/ Ahead(g, j))
  BY <1>4 DEF Behind, Excused
<1> HIDE DEF new, c
<1>8. CASE c \notin Shown
  <2>1. entries # <<>> => c # Cursor
    BY <1>8, CursorIsLast
  <2>2. new \subseteq jumps'
    BY <1>1, <2>1
  <2>3. \A j \in Shown' : Ahead(k, j) => \E g \in jumps' : Ahead(k, g) /\ (g = j \/ Ahead(g, j))
    BY <1>2, <1>7, <2>2
  <2> QED BY <1>1, <1>6, <1>8, <2>3 DEF Behind, Excused
<1>9. CASE c \in Shown /\ Ahead(k, c)
  <2>1. PICK g \in jumps : Ahead(k, g) /\ (g = c \/ Ahead(g, c))
    BY <1>9 DEF Behind, Excused
  <2>2. ASSUME NEW j \in new PROVE Ahead(g, j)
    <3>1. Ahead(c, j) /\ j \in Int /\ c \in Int /\ g \in Int
      BY <1>3, <1>4, <2>1 DEF new
    <3> QED BY <2>1, <3>1, AheadOrder
  <2>3. g \in jumps'
    BY <1>4
  <2>4. \A j \in Shown' : Ahead(k, j) => \E h \in jumps' : Ahead(k, h) /\ (h = j \/ Ahead(h, j))
    BY <1>2, <1>7, <2>1, <2>2, <2>3
  <2> QED BY <1>6, <2>1, <2>3, <2>4 DEF Behind, Excused
<1>10. CASE c \in Shown /\ Ahead(c, k) /\ k \in Result(page.pos)
  <2>1. page.hasMore /\ \A j \in page.pks : Ahead(j, k)
    BY <1>3, <1>10
  <2>2. \A j \in new : ~Ahead(k, j)
    <3> SUFFICES ASSUME NEW j \in new PROVE ~Ahead(k, j)
      OBVIOUS
    <3>1. Ahead(j, k) /\ j \in Int /\ k \in Int
      BY <1>3, <1>4, <2>1 DEF new
    <3> QED BY <3>1, AheadOrder
  <2>3. \A j \in Shown' : Ahead(k, j) => \E g \in jumps' : Ahead(k, g) /\ (g = j \/ Ahead(g, j))
    BY <1>2, <1>7, <2>2
  <2> QED BY <1>1, <1>6, <2>1, <2>3 DEF Behind, Excused
<1>11. CASE Ahead(c, k) /\ k \notin Result(page.pos)
  <2>1. CASE \A i \in (page.pos + 1)..N : Changes(i, k) => Pending(i, token)
    <3>1. ASSUME NEW i \in (page.pos + 1)..N, Changes(i, k) PROVE RowsAt(i - 1)[k] # NoRow
      <4> SUFFICES ASSUME RowsAt(i - 1)[k] = NoRow PROVE FALSE
        OBVIOUS
      <4>1. i \in 1..N /\ page.pos \in Int /\ i - 1 \in Int /\ page.pos <= i - 1
        BY <1>5
      <4>2. c \in Reached(i - 1)
        BY <1>3, <4>1, ReachedGrows
      <4>3. ~Ahead(k, c)
        BY <1>4, <1>11, AheadOrder
      <4>4. k \in Reached(i - 1)
        BY <4>2, <4>3, ReachedBehind
      <4> QED BY <3>1, <4>1, <4>4, LateInsert
    <3>2. RowsAt(page.pos)[k] \notin Matching
      BY <1>11 DEF Result
    <3> QED BY <1>5, <2>1, <3>1, <3>2 DEF AbsentFor
  <2>2. CASE \E i \in (page.pos + 1)..N : Changes(i, k) /\ ~Pending(i, token)
    <3>1. PICK i \in (page.pos + 1)..N : Changes(i, k) /\ ~Pending(i, token)
      BY <2>2
    <3>2. i \in 1..N /\ i \in Missed(page.pos) /\ i \in covered
      BY <1>5, <3>1 DEF Missed, Pending
    <3>3. Key(i) = k
      BY <3>1, <3>2, OneKey
    <3>4. k \in overtaken'
      BY <1>1, <3>2, <3>3
    <3> QED BY <1>1, <1>6, <3>1, <3>2, <3>4 DEF Passed, Changes, Pending, RowsAt, vars
  <2> QED BY <2>1, <2>2
<1>12. k = c \/ Ahead(k, c) \/ Ahead(c, k)
  BY <1>4, AheadOrder
<1> QED BY <1>8, <1>9, <1>10, <1>11, <1>12

LEMMA AbsentAfterPage ==
  ASSUME WindowTypeOK, LogInv, FlightInv, OrderInv, AbsentInv, PageAnswer, ReceivePage
  PROVE  AbsentInv'
<1> DEFINE N == Len(commits)
<1>1. /\ UNCHANGED <<vars, history, token, pull>> /\ range' = page.range /\ page' = NoRequest
      /\ overtaken \subseteq overtaken'
  BY DEF ReceivePage
<1>2. Shown' = Shown \union page.pks
  BY OrderAfterPage DEF Shown
<1>3. \A G : Reached(G)' = Reached(G)
  BY <1>1 DEF Reached, UsedBy, RowsAt
<1>4. \A k : Late(k)' = Late(k)
  BY <1>1 DEF Late, RowsAt, vars
<1>5. \A k, G : AbsentFor(k, G, token) => Absent(k, G)'
  BY <1>1 DEF AbsentFor, Absent, Changes, Pending, RowsAt, vars
<1>6. Current(token)' = Current(token) /\ Current(pull.token)' = Current(pull.token)
  BY <1>1 DEF Current, vars
<1>7. \A i, k : Touches(i, k)' = Touches(i, k)
  BY <1>1 DEF Touches, Changes, RowsAt
<1>8. ClientKeys' \subseteq ClientKeys
  <2>1. RangeKeys(range)' = RangeKeys(page.range)
    BY <1>1 DEF RangeKeys
  <2>2. PageKeys' = {}
    BY <1>1 DEF PageKeys, RangeKeys, NoRequest, NoRange, NoPk
  <2> QED BY <1>2, <2>1, <2>2 DEF ClientKeys, PageKeys
<1> SUFFICES ASSUME Current(token) PROVE AbsentInv'
  BY <1>6 DEF AbsentInv
<1>9. PICK ground \in 0..N :
        /\ ClientKeys \subseteq Reached(ground)
        /\ pull.kind = "pull" /\ pull.stage = "sent" => RangeKeys(pull.range) \subseteq Reached(ground)
        /\ pull.kind = "pull" /\ pull.stage = "answered" /\ Current(pull.token) =>
             /\ RangeKeys(pull.range) \subseteq Reached(ground) \union Reached(pull.token.snapshot)
             /\ \A i \in log[Source] \ pull.batch, k \in Keys :
                  token.snapshot < i /\ i <= pull.token.snapshot /\ Touches(i, k) =>
                    RowsAt(i - 1)[k] = NoRow /\ (i <= ground \/ Late(k))
        /\ \A k \in Keys \ Shown : Late(k) \/ AbsentFor(k, ground, token) \/ Behind(k) \/ Passed(k)
  BY AbsentParts
<1>10. ASSUME NEW k \in Keys \ Shown', ~Late(k)
       PROVE  AbsentFor(k, ground, token) \/ Behind(k)' \/ Passed(k)'
  <2>1. k \notin Shown /\ k \notin page.pks
    BY <1>2
  <2>2. CASE Behind(k)
    BY <1>10, <2>1, <2>2, BehindAfterPage
  <2>3. CASE Passed(k)
    BY <1>1, <2>3 DEF Passed, NotForemost, UsedBy, Changes, Pending, RowsAt, vars
  <2> QED BY <1>9, <1>10, <2>1, <2>2, <2>3
<1>11. ClientKeys' \subseteq Reached(ground)'
  BY <1>3, <1>8, <1>9
<1>12. \A k \in Keys \ Shown' : Late(k)' \/ Absent(k, ground)' \/ Behind(k)' \/ Passed(k)'
  BY <1>4, <1>5, <1>10
<1>13. /\ RangeKeys(pull.range)' = RangeKeys(pull.range)
       /\ Reached(pull.token.snapshot)' = Reached(pull.token.snapshot)
       /\ \A i, k : RowsAt(i - 1)'[k] = RowsAt(i - 1)[k]
  BY <1>1 DEF RangeKeys, Reached, UsedBy, RowsAt
<1>14. pull' = pull /\ token' = token /\ log' = log /\ Len(commits)' = N
  BY <1>1 DEF vars
<1>15. (pull.kind = "pull" /\ pull.stage = "sent" => RangeKeys(pull.range) \subseteq Reached(ground))'
  BY <1>3, <1>9, <1>13, <1>14
<1>16. (pull.kind = "pull" /\ pull.stage = "answered" /\ Current(pull.token) =>
          /\ RangeKeys(pull.range) \subseteq Reached(ground) \union Reached(pull.token.snapshot)
          /\ \A i \in log[Source] \ pull.batch, k \in Keys :
               token.snapshot < i /\ i <= pull.token.snapshot /\ Touches(i, k) =>
                 RowsAt(i - 1)[k] = NoRow /\ (i <= ground \/ Late(k)))'
  BY <1>3, <1>4, <1>6, <1>7, <1>9, <1>13, <1>14
<1> QED BY <1>11, <1>12, <1>14, <1>15, <1>16 DEF AbsentInv

(***************************************************************************)
(* The source table and the stream take a step beside the window.          *)
(***************************************************************************)
LEMMA PastKept ==
  ASSUME WindowTypeOK, LogInv, LogGrows, NEW i \in 0..Len(commits)
  PROVE  /\ RowsAt(i)' = RowsAt(i) /\ UsedBy(i)' = UsedBy(i) /\ Reached(i)' = Reached(i)
         /\ i # 0 => /\ \A k : Changes(i, k)' = Changes(i, k) /\ Touches(i, k)' = Touches(i, k)
                     /\ RowsAt(i - 1)' = RowsAt(i - 1)
                     /\ Key(i)' = Key(i)
<1>1. Len(commits) \in Nat /\ \A j \in 0..Len(commits) : history'[j + 1] = history[j + 1]
  BY Counts DEF LogGrows
<1>2. \A j \in 0..i : history'[j + 1] = history[j + 1]
  <2>1. \A j \in 0..i : j \in 0..Len(commits)
    BY <1>1
  <2> QED BY <1>1, <2>1
<1>3. RowsAt(i)' = RowsAt(i) /\ UsedBy(i)' = UsedBy(i)
  BY <1>1, <1>2 DEF RowsAt, UsedBy
<1>4. Reached(i)' = Reached(i)
  BY <1>3 DEF Reached
<1>5. ASSUME i # 0
      PROVE  /\ \A k : Changes(i, k)' = Changes(i, k) /\ Touches(i, k)' = Touches(i, k)
             /\ RowsAt(i - 1)' = RowsAt(i - 1)
             /\ Key(i)' = Key(i)
  <2>1. i - 1 \in 0..Len(commits)
    BY <1>1, <1>5
  <2>2. history'[i - 1 + 1] = history[i - 1 + 1]
    BY <1>1, <2>1
  <2>3. RowsAt(i - 1)' = RowsAt(i - 1)
    BY <2>2 DEF RowsAt
  <2>4. \A k : Changes(i, k)' = Changes(i, k)
    BY <1>3, <2>3 DEF Changes
  <2>5. \A k : Touches(i, k)' = Touches(i, k)
    BY <1>3, <2>3, <2>4 DEF Touches
  <2>6. Key(i)' = Key(i)
    BY <1>3, <2>3 DEF Key
  <2> QED BY <2>3, <2>4, <2>5, <2>6
<1> QED BY <1>3, <1>4, <1>5

LEMMA LateStays ==
  ASSUME WindowTypeOK, LogInv, LogGrows, NEW k \in Keys, Late(k)
  PROVE  Late(k)'
<1>1. Len(commits) \in Nat /\ Len(commits') \in Nat /\ Len(commits) <= Len(commits')
  BY Counts DEF LogGrows
<1>2. PICK i \in 1..Len(commits) :
        /\ RowsAt(i - 1)[k] = NoRow /\ RowsAt(i)[k] # NoRow
        /\ \E j \in 1..i, l \in Keys : ~Ahead(k, l) /\ history[j][l] # NoRow
  BY DEF Late
<1>3. PICK j \in 1..i, l \in Keys : ~Ahead(k, l) /\ history[j][l] # NoRow
  BY <1>2
<1>4. i \in 0..Len(commits) /\ i # 0 /\ j - 1 \in 0..Len(commits) /\ j - 1 + 1 = j /\ i \in 1..Len(commits')
  BY <1>1
<1>5. RowsAt(i)' = RowsAt(i) /\ RowsAt(i - 1)' = RowsAt(i - 1)
  BY <1>4, PastKept
<1>6. history'[j] = history[j]
  <2>1. history'[j - 1 + 1] = history[j - 1 + 1]
    BY <1>4 DEF LogGrows
  <2> QED BY <1>4, <2>1
<1> QED BY <1>2, <1>3, <1>4, <1>5, <1>6 DEF Late

\* The changes to come of a key, for a cursor that is still accepted.
LEMMA PendingStays ==
  ASSUME WindowTypeOK, LogInv, LogInv', LogGrows, NEW tok \in Token, TokenOK(tok),
         tok.epoch = generation'[Source], NEW i \in 1..Len(commits')
  PROVE  (i \notin covered' \/ (i \in log'[Source] /\ i > tok.snapshot))
           <=> i > Len(commits) \/ Pending(i, tok)
BY TokenGrows

LEMMA FlightStays ==
  ASSUME WindowTypeOK, LogInv, LogInv', LogGrows, FlightInv
  PROVE  FlightInv'
<1>1. UNCHANGED <<entries, range, token, pull, page>>
  BY DEF LogGrows, window
<1>2. token \in Token /\ pull.token \in Token /\ TokenOK(token) /\ TokenOK(pull.token)
  BY DEF WindowTypeOK, Request, FlightInv
<1>3. TokenOK(token)'
  <2>1. /\ token.epoch <= generation'[Source]
        /\ token.epoch = generation'[Source] => token.snapshot \in covered' \union {0}
    BY <1>2, TokenGrows
  <2> QED BY <1>1, <2>1 DEF TokenOK, Current
<1>4. TokenOK(pull.token)'
  <2> DEFINE tok == pull.token
  <2> HIDE DEF tok
  <2>0. tok \in Token /\ TokenOK(tok)
    BY <1>2 DEF tok
  <2>1. /\ tok.epoch <= generation'[Source]
        /\ tok.epoch = generation'[Source] => tok.snapshot \in covered' \union {0}
    BY <2>0, TokenGrows
  <2> QED BY <1>1, <2>1 DEF TokenOK, Current, tok
<1>5. Len(commits) \in Nat /\ Len(commits') \in Nat /\ Len(commits) <= Len(commits')
      /\ pull.pos \in Nat /\ page.pos \in Nat
  BY Counts DEF LogGrows, WindowTypeOK, Request
<1>6. pull.pos <= Len(commits)' /\ page.pos <= Len(commits)'
  BY <1>5 DEF FlightInv
<1>7. ClientKeys' \subseteq Reached(Len(commits))'
  BY PastGrows DEF FlightInv
<1>8. (pull.kind = "pull" => RangeKeys(pull.range) \subseteq Reached(Len(commits)))'
  <2>1. RangeKeys(pull.range)' = RangeKeys(pull.range)
    BY <1>1 DEF RangeKeys
  <2> QED BY <1>1, <2>1, PastGrows DEF FlightInv
<1> QED BY <1>1, <1>3, <1>4, <1>6, <1>7, <1>8 DEF FlightInv

LEMMA RowsAnswerStays ==
  ASSUME WindowTypeOK, LogInv, LogInv', LogGrows, FlightInv, RowsAnswer
  PROVE  RowsAnswer'
<1>1. UNCHANGED pull
  BY DEF LogGrows
<1> SUFFICES ASSUME pull.stage = "answered" /\ pull.kind \in {"subscribe", "reset"}
             PROVE  RowsAnswer'
  BY <1>1 DEF RowsAnswer
<1>2. /\ ClientKeys' = ClientKeys /\ Reached(pull.pos)' = Reached(pull.pos)
      /\ UsedBy(pull.pos)' = UsedBy(pull.pos) /\ Result(pull.pos)' = Result(pull.pos)
  BY PastGrows
<1>3. pull.range' = Bounds(pull.pks)'
  BY <1>1 DEF RowsAnswer, Bounds
<1>4. ASSUME Current(pull.token)', NEW i \in (pull.pos + 1)..Len(commits)' PROVE Pending(i, pull.token)'
  <2> DEFINE tok == pull.token
  <2> HIDE DEF tok
  <2>1. tok \in Token /\ TokenOK(tok) /\ tok' = tok
    BY <1>1 DEF WindowTypeOK, Request, FlightInv, tok
  <2>2. tok.epoch = generation'[Source]
    BY <1>1, <1>4 DEF Current, tok
  <2>3. Len(commits) \in Nat /\ pull.pos \in Nat /\ Len(commits') \in Nat
    BY Counts DEF WindowTypeOK, Request, LogGrows
  <2>4. i \in 1..Len(commits')
    BY <2>3
  <2>5. Current(tok)
    BY <2>1, <2>2, TokenGrows
  <2>6. i > Len(commits) \/ Pending(i, tok)
    <3>1. i > Len(commits) \/ i \in (pull.pos + 1)..Len(commits)
      BY <2>3
    <3> QED BY <2>5, <3>1 DEF RowsAnswer, tok
  <2>7. i \notin covered' \/ (i \in log'[Source] /\ i > tok.snapshot)
    BY <2>1, <2>2, <2>4, <2>6, PendingStays
  <2> QED BY <1>1, <2>7 DEF Pending, tok
<1> QED BY <1>1, <1>2, <1>3, <1>4 DEF RowsAnswer

LEMMA EventsAnswerStays ==
  ASSUME WindowTypeOK, LogInv, LogInv', LogGrows, FlightInv, EventsAnswer
  PROVE  EventsAnswer'
<1>1. UNCHANGED <<pull, token>>
  BY DEF LogGrows, window
<1> SUFFICES ASSUME pull.stage = "answered" /\ pull.kind = "pull" PROVE EventsAnswer'
  BY <1>1 DEF EventsAnswer
<1>2. Len(commits) \in Nat /\ Len(commits') \in Nat /\ Len(commits) <= Len(commits')
  BY Counts DEF LogGrows
<1>3. ASSUME NEW i \in pull.batch PROVE i \in 1..Len(commits') /\ Touches(i, Key(i))'
  <2>1. i \in 1..Len(commits) /\ Touches(i, Key(i))
    BY DEF EventsAnswer
  <2>2. i \in 0..Len(commits) /\ i # 0 /\ i \in 1..Len(commits')
    BY <1>2, <2>1
  <2>3. Key(i)' = Key(i) /\ \A k : Touches(i, k)' = Touches(i, k)
    BY <2>2, PastKept
  <2>4. RowsAt(i)' = RowsAt(i) /\ RowsAt(i - 1)' = RowsAt(i - 1)
    BY <2>2, PastKept
  <2> QED BY <2>1, <2>2, <2>3, <2>4 DEF Touches, Changes
<1>4. ASSUME Current(pull.token)'
      PROVE  /\ Current(token)' /\ token.snapshot <= pull.token.snapshot
             /\ \A i \in pull.batch :
                  i \in log'[Source] /\ token.snapshot < i /\ i <= pull.token.snapshot
  <2> DEFINE tok == pull.token
  <2> HIDE DEF tok
  <2>1. tok \in Token /\ TokenOK(tok) /\ tok' = tok
    BY <1>1 DEF WindowTypeOK, Request, FlightInv, tok
  <2>2. tok.epoch = generation'[Source]
    BY <1>1, <1>4 DEF Current, tok
  <2>3. Current(tok)
    BY <2>1, <2>2, TokenGrows
  <2>4. /\ Current(token) /\ token.snapshot <= pull.token.snapshot
        /\ \A i \in pull.batch :
             i \in log[Source] /\ token.snapshot < i /\ i <= pull.token.snapshot
    BY <2>3 DEF EventsAnswer, tok
  <2>5. generation'[Source] = generation[Source]
    BY <2>2, <2>3 DEF Current
  <2>6. \A i \in covered : i \in log'[Source] <=> i \in log[Source]
    BY <2>5 DEF LogGrows
  <2>7. \A i \in pull.batch : i \in log'[Source]
    BY <2>4, <2>6, LogTypes
  <2> QED BY <1>1, <2>4, <2>5, <2>7 DEF Current
<1>5. EventsAnswer' <=>
        /\ \A i \in pull.batch : i \in 1..Len(commits') /\ Touches(i, Key(i))'
        /\ Current(pull.token)' =>
             /\ Current(token)' /\ token.snapshot <= pull.token.snapshot
             /\ \A i \in pull.batch :
                  i \in log'[Source] /\ token.snapshot < i /\ i <= pull.token.snapshot
  BY <1>1 DEF EventsAnswer
<1> QED BY <1>3, <1>4, <1>5

LEMMA RowsStay ==
  ASSUME WindowTypeOK, LogInv, LogInv', LogGrows, FlightInv, RowsInv
  PROVE  RowsInv'
<1>1. UNCHANGED <<entries, token, overtaken>>
  BY DEF LogGrows, window
<1> SUFFICES ASSUME token.epoch = generation'[Source], NEW n \in DOMAIN entries
             PROVE  entries[n].pk \in overtaken \/ Follows(entries[n])'
  BY <1>1 DEF RowsInv, Follows, Current
<1>2. token \in Token /\ TokenOK(token)
  BY DEF WindowTypeOK, FlightInv
<1>3. Current(token)
  BY <1>2, TokenGrows
<1>4. Len(commits) \in Nat /\ Len(commits') \in Nat /\ Len(commits) <= Len(commits')
  BY Counts DEF LogGrows
<1> SUFFICES ASSUME Follows(entries[n]) PROVE Follows(entries[n])'
  BY <1>3 DEF RowsInv
<1> DEFINE e == entries[n]
<1>5. PICK p \in 0..Len(commits) :
        /\ e.row = RowsAt(p)[e.pk] /\ e.row \in Matching
        /\ \A i \in (p + 1)..Len(commits) : Changes(i, e.pk) => Pending(i, token)
  BY DEF Follows
<1>6. p \in 0..Len(commits') /\ RowsAt(p)' = RowsAt(p)
  BY <1>4, PastKept
<1>7. ASSUME NEW i \in (p + 1)..Len(commits'), Changes(i, e.pk)'
      PROVE  i \notin covered' \/ (i \in log'[Source] /\ i > token.snapshot)
  <2>1. i \in 1..Len(commits')
    BY <1>4
  <2>2. i > Len(commits) \/ Pending(i, token)
    <3> SUFFICES ASSUME i <= Len(commits) PROVE Pending(i, token)
      BY <1>4
    <3>1. i \in 0..Len(commits) /\ i # 0 /\ i \in (p + 1)..Len(commits)
      BY <1>4
    <3>2. RowsAt(i)' = RowsAt(i) /\ RowsAt(i - 1)' = RowsAt(i - 1)
      BY <3>1, PastKept
    <3>3. Changes(i, e.pk)
      BY <1>1, <1>7, <3>2 DEF Changes
    <3> QED BY <1>5, <3>1, <3>3
  <2> QED BY <1>2, <2>1, <2>2, PendingStays
<1> QED BY <1>1, <1>5, <1>6, <1>7 DEF Follows, Pending

LEMMA AbsentStays ==
  ASSUME WindowTypeOK, LogInv, LogInv', LogGrows, FlightInv, AbsentInv
  PROVE  AbsentInv'
<1>1. UNCHANGED <<window, pull, page>>
  BY DEF LogGrows
<1>2. UNCHANGED <<entries, range, hasMore, token, overtaken, jumps, narrowed>>
  BY <1>1 DEF window
<1> DEFINE N == Len(commits) to == pull.token.snapshot
<1> SUFFICES ASSUME token.epoch = generation'[Source] PROVE AbsentInv'
  BY <1>2 DEF AbsentInv, Current
<1>3. token \in Token /\ TokenOK(token) /\ pull.token \in Token /\ TokenOK(pull.token)
  BY DEF WindowTypeOK, FlightInv, Request
<1>4. Current(token) /\ generation'[Source] = generation[Source]
  <2>1. Current(token)
    BY <1>3, TokenGrows
  <2> QED BY <2>1 DEF Current
<1>5. /\ N \in Nat /\ Len(commits') \in Nat /\ N <= Len(commits')
      /\ covered \in SUBSET (1..N) /\ covered \subseteq covered' /\ log[Source] \in SUBSET covered
      /\ \A i \in covered : i \in log'[Source] <=> i \in log[Source]
  BY <1>4, Counts, LogTypes DEF LogGrows
<1>6. PICK ground \in 0..N :
        /\ ClientKeys \subseteq Reached(ground)
        /\ pull.kind = "pull" /\ pull.stage = "sent" => RangeKeys(pull.range) \subseteq Reached(ground)
        /\ pull.kind = "pull" /\ pull.stage = "answered" /\ Current(pull.token) =>
             /\ RangeKeys(pull.range) \subseteq Reached(ground) \union Reached(pull.token.snapshot)
             /\ \A i \in log[Source] \ pull.batch, k \in Keys :
                  token.snapshot < i /\ i <= pull.token.snapshot /\ Touches(i, k) =>
                    RowsAt(i - 1)[k] = NoRow /\ (i <= ground \/ Late(k))
        /\ \A k \in Keys \ Shown : Late(k) \/ AbsentFor(k, ground, token) \/ Behind(k) \/ Passed(k)
  BY <1>4, AbsentParts
<1>7. /\ ground \in 0..Len(commits') /\ Reached(ground)' = Reached(ground)
      /\ ClientKeys' = ClientKeys /\ RangeKeys(pull.range)' = RangeKeys(pull.range)
      /\ Shown' = Shown
  <2>1. RangeKeys(pull.range)' = RangeKeys(pull.range) /\ Shown' = Shown
    BY <1>1, <1>2 DEF RangeKeys, Shown, Pks
  <2> QED BY <1>5, <2>1, PastKept, PastGrows
<1>8. \A i \in 1..N : /\ \A k : Changes(i, k)' = Changes(i, k) /\ Touches(i, k)' = Touches(i, k)
                      /\ RowsAt(i)' = RowsAt(i) /\ RowsAt(i - 1)' = RowsAt(i - 1)
  <2>1. \A i \in 1..N : i \in 0..N /\ i # 0
    BY <1>5
  <2> QED BY <2>1, PastKept
<1>9. \A i \in 1..Len(commits') :
        (i \notin covered' \/ (i \in log'[Source] /\ i > token.snapshot))
          <=> i > N \/ Pending(i, token)
  BY <1>3, PendingStays
<1>10. ASSUME NEW k \in Keys, AbsentFor(k, ground, token) PROVE Absent(k, ground)'
  <2>1. PICK p \in 0..N :
          /\ RowsAt(p)[k] \notin Matching
          /\ \A i \in (p + 1)..N :
               Changes(i, k) => Pending(i, token) /\ (RowsAt(i - 1)[k] = NoRow => i > ground)
    BY <1>10 DEF AbsentFor
  <2>2. p \in 0..Len(commits') /\ RowsAt(p)' = RowsAt(p)
    BY <1>5, PastKept
  <2>3. ASSUME NEW i \in (p + 1)..Len(commits'), Changes(i, k)'
        PROVE  /\ i \notin covered' \/ (i \in log'[Source] /\ i > token.snapshot)
               /\ RowsAt(i - 1)'[k] = NoRow => i > ground
    <3>1. i \in 1..Len(commits')
      BY <1>5
    <3>2. CASE i > N
      BY <1>5, <1>9, <3>1, <3>2
    <3>3. CASE i <= N
      <4>1. i \in (p + 1)..N /\ i \in 1..N
        BY <1>5, <3>3
      <4>2. Changes(i, k) /\ RowsAt(i - 1)' = RowsAt(i - 1)
        BY <1>8, <2>3, <4>1
      <4>3. Pending(i, token) /\ (RowsAt(i - 1)[k] = NoRow => i > ground)
        BY <2>1, <4>1, <4>2
      <4> QED BY <1>9, <3>1, <4>2, <4>3
    <3> QED BY <1>5, <3>2, <3>3
  <2> QED BY <1>2, <2>1, <2>2, <2>3 DEF Absent, Pending
<1>11. ASSUME NEW k \in Keys, NotForemost(k) PROVE NotForemost(k)'
  <2>1. PICK l \in UsedBy(N) : Ahead(l, k)
    BY <1>11 DEF NotForemost
  <2>2. l \in Keys /\ \E j \in 0..N : RowsAt(j)[l] # NoRow
    BY <2>1 DEF UsedBy
  <2>3. PICK j \in 0..N : RowsAt(j)[l] # NoRow
    BY <2>2
  <2>4. j \in 0..Len(commits') /\ RowsAt(j)' = RowsAt(j)
    BY <1>5, PastKept
  <2>5. l \in UsedBy(Len(commits))'
    BY <2>2, <2>3, <2>4 DEF UsedBy
  <2> QED BY <2>1, <2>5 DEF NotForemost
<1>12. ASSUME NEW k \in Keys, Behind(k) PROVE Behind(k)'
  BY <1>2, <1>7, <1>11, <1>12 DEF Behind, Excused
<1>13. ASSUME NEW k \in Keys, Passed(k) PROVE Passed(k)'
  <2>1. PICK c \in covered : Changes(c, k) /\ ~Pending(c, token)
    BY <1>13 DEF Passed
  <2>2. c \in 1..N /\ c \in 1..Len(commits') /\ c \in covered' /\ ~(c > N)
    BY <1>5
  <2>3. Changes(c, k)'
    BY <1>8, <2>1, <2>2
  <2>4. ~(c \notin covered' \/ (c \in log'[Source] /\ c > token.snapshot))
    BY <1>9, <2>1, <2>2
  <2>5. NotForemost(k)' /\ k \in overtaken'
    BY <1>2, <1>11, <1>13 DEF Passed
  <2> QED BY <1>2, <2>2, <2>3, <2>4, <2>5 DEF Passed, Pending
<1>14. \A k \in (Keys \ Shown)' : Late(k)' \/ Absent(k, ground)' \/ Behind(k)' \/ Passed(k)'
  BY <1>6, <1>7, <1>10, <1>12, <1>13, LateStays
<1>15. (pull.kind = "pull" /\ pull.stage = "sent" => RangeKeys(pull.range) \subseteq Reached(ground))'
  BY <1>1, <1>6, <1>7
<1>16. ASSUME pull.kind = "pull", pull.stage = "answered", Current(pull.token)'
       PROVE  /\ RangeKeys(pull.range)' \subseteq Reached(ground)' \union Reached(pull.token.snapshot)'
              /\ \A i \in log'[Source] \ pull.batch, k \in Keys :
                   token.snapshot < i /\ i <= pull.token.snapshot /\ Touches(i, k)' =>
                     RowsAt(i - 1)'[k] = NoRow /\ (i <= ground \/ Late(k)')
  <2>1. Current(pull.token)
    BY <1>1, <1>4, <1>16 DEF Current
  <2>2. to \in covered \union {0} /\ to \in 0..N
    <3>1. to \in covered \union {0}
      BY <1>3, <2>1 DEF TokenOK
    <3>2. \A j \in covered \union {0} : j \in 0..N
      <4> HIDE DEF N, to
      <4> QED BY <1>5
    <3> HIDE DEF N, to
    <3> QED BY <3>1, <3>2
  <2>3. Reached(pull.token.snapshot)' = Reached(to)
    <3>1. \A j \in 0..N : Reached(j)' = Reached(j)
      BY PastKept
    <3>2. Reached(to) = Reached(to)'
      <4>1. \A j \in 0..N : UsedBy(j)' = UsedBy(j)
        BY PastKept
      <4>2. \A j \in 0..N : history'[j + 1] = history[j + 1]
        BY DEF LogGrows
      <4>3. \A j \in 0..to : history'[j + 1] = history[j + 1]
        <5>1. \A j \in 0..to : j \in 0..N
          BY <1>5, <2>2
        <5> QED BY <4>2, <5>1
      <4>4. pull' = pull
        BY <1>1
      <4> QED BY <4>3, <4>4 DEF Reached, UsedBy, RowsAt
    <3> QED BY <3>2
  <2>4. ASSUME NEW i \in log'[Source] \ pull.batch, NEW k \in Keys,
               token.snapshot < i, i <= to, Touches(i, k)'
        PROVE  RowsAt(i - 1)'[k] = NoRow /\ (i <= ground \/ Late(k)')
    <3>1. i \in covered' /\ i \in Nat
      <4>1. log'[Source] \in SUBSET covered' /\ \E c \in 0..Len(commits') : covered' = 1..c
        BY WindowAssumption DEF LogInv
      <4> QED BY <2>4, <4>1
    <3>2. i \in 1..to /\ token.snapshot \in Nat
      BY <1>3, <2>2, <2>4, <3>1 DEF Token
    <3>3. i \in covered
      BY <1>5, <2>2, <3>2, LogTypes
    <3>4. i \in log[Source] \ pull.batch /\ i \in 1..N
      BY <1>5, <2>4, <3>3
    <3>5. Touches(i, k) /\ RowsAt(i - 1)' = RowsAt(i - 1)
      BY <1>8, <2>4, <3>4
    <3>6. RowsAt(i - 1)[k] = NoRow /\ (i <= ground \/ Late(k))
      BY <1>6, <1>16, <2>1, <2>4, <3>4, <3>5
    <3> QED BY <3>5, <3>6, LateStays
  <2> QED BY <1>6, <1>7, <1>16, <2>1, <2>3, <2>4
<1>17. ClientKeys' \subseteq Reached(ground)'
  BY <1>6, <1>7
<1>18. (pull.kind = "pull" /\ pull.stage = "answered" /\ Current(pull.token) =>
          /\ RangeKeys(pull.range) \subseteq Reached(ground) \union Reached(pull.token.snapshot)
          /\ \A i \in log[Source] \ pull.batch, k \in Keys :
               token.snapshot < i /\ i <= pull.token.snapshot /\ Touches(i, k) =>
                 RowsAt(i - 1)[k] = NoRow /\ (i <= ground \/ Late(k)))'
  BY <1>1, <1>2, <1>16
<1> QED BY <1>7, <1>14, <1>15, <1>17, <1>18 DEF AbsentInv

LEMMA LogStepKeeps ==
  ASSUME WindowInv, LogStep
  PROVE  WindowInv'
<1>1. WindowTypeOK /\ LogInv /\ FlightInv /\ RowsAnswer /\ EventsAnswer /\ PageAnswer
      /\ OrderInv /\ RowsInv /\ AbsentInv
  BY DEF WindowInv
<1>2. LogInv' /\ LogGrows /\ history' \in Seq(Content)
  BY <1>1, LogStepGrows
<1>3. UNCHANGED <<entries, range, hasMore, token, overtaken, jumps, narrowed, pull, page>>
  BY <1>2 DEF LogGrows, window
<1>4. WindowTypeOK'
  BY <1>1, <1>2, <1>3 DEF WindowTypeOK
<1>5. PageAnswer'
  <2>1. Result(page.pos)' = Result(page.pos) /\ Reached(page.pos)' = Reached(page.pos)
    BY <1>1, <1>2, PastGrows
  <2> QED BY <1>1, <1>3, <2>1 DEF PageAnswer
<1>6. OrderInv'
  BY <1>1, <1>3 DEF OrderInv, Contiguous, Shown, Pks
<1> QED BY <1>1, <1>2, <1>4, <1>5, <1>6, FlightStays, RowsAnswerStays, EventsAnswerStays, RowsStay,
           AbsentStays DEF WindowInv

(***************************************************************************)
(* The steps that leave the source table and the stream alone.             *)
(***************************************************************************)
LEMMA LogSame ==
  ASSUME LogRests
  PROVE  /\ commits' = commits /\ covered' = covered /\ log' = log /\ generation' = generation
         /\ history' = history
         /\ \A i : /\ RowsAt(i)' = RowsAt(i) /\ Result(i)' = Result(i)
                   /\ UsedBy(i)' = UsedBy(i) /\ Reached(i)' = Reached(i)
                   /\ Key(i)' = Key(i)
         /\ \A i, k : (Changes(i, k)' <=> Changes(i, k)) /\ (Touches(i, k)' <=> Touches(i, k))
         /\ \A k : (Late(k)' <=> Late(k)) /\ (NotForemost(k)' <=> NotForemost(k))
         /\ \A i, tok : Pending(i, tok)' <=> Pending(i, tok)
         /\ \A tok : (Current(tok)' <=> Current(tok)) /\ (TokenOK(tok)' <=> TokenOK(tok))
<1>1. commits' = commits /\ covered' = covered /\ log' = log /\ generation' = generation
      /\ history' = history
  BY DEF LogRests, vars
<1>2. \A i : RowsAt(i)' = RowsAt(i)
  BY <1>1 DEF RowsAt
<1>3. \A i : Result(i)' = Result(i) /\ UsedBy(i)' = UsedBy(i) /\ Key(i)' = Key(i)
  BY <1>1 DEF Result, UsedBy, Key, RowsAt
<1>4. \A i : Reached(i)' = Reached(i)
  BY <1>1 DEF Reached, UsedBy, RowsAt
<1>5. \A i, k : (Changes(i, k)' <=> Changes(i, k)) /\ (Touches(i, k)' <=> Touches(i, k))
  BY <1>1 DEF Changes, Touches, RowsAt
<1>6. \A k : (Late(k)' <=> Late(k)) /\ (NotForemost(k)' <=> NotForemost(k))
  BY <1>1 DEF Late, NotForemost, UsedBy, RowsAt
<1>7. \A i, tok : Pending(i, tok)' <=> Pending(i, tok)
  BY <1>1 DEF Pending
<1>8. \A tok : (Current(tok)' <=> Current(tok)) /\ (TokenOK(tok)' <=> TokenOK(tok))
  BY <1>1 DEF Current, TokenOK
<1> QED BY <1>1, <1>2, <1>3, <1>4, <1>5, <1>6, <1>7, <1>8

LEMMA WindowSame ==
  ASSUME LogRests, UNCHANGED window
  PROVE  /\ Shown' = Shown /\ RangeKeys(range)' = RangeKeys(range)
         /\ OrderInv => OrderInv'
         /\ RowsInv => RowsInv'
         /\ Current(token)' <=> Current(token)
         /\ \A k, ground : Absent(k, ground)' <=> Absent(k, ground)
         /\ \A k : (Behind(k)' <=> Behind(k)) /\ (Passed(k)' <=> Passed(k))
<1>1. UNCHANGED <<entries, range, hasMore, token, overtaken, jumps, narrowed>>
  BY DEF window
<1>2. UNCHANGED <<commits, covered, log, generation, history>>
  BY LogSame
<1>3. Shown' = Shown /\ RangeKeys(range)' = RangeKeys(range)
  BY <1>1 DEF Shown, Pks, RangeKeys
<1>4. OrderInv => OrderInv'
  BY <1>1 DEF OrderInv, Contiguous, Shown, Pks
<1>5. RowsInv => RowsInv'
  BY <1>1, <1>2 DEF RowsInv, Current, Follows, Changes, Pending, RowsAt
<1>6. Current(token)' <=> Current(token)
  BY <1>1, <1>2 DEF Current
<1>7. \A k, ground : Absent(k, ground)' <=> Absent(k, ground)
  BY <1>1, <1>2 DEF Absent, Changes, Pending, RowsAt
<1>8. \A k : Behind(k)' <=> Behind(k)
  BY <1>1, <1>3, LogSame DEF Behind, Excused
<1>9. \A k : Passed(k)' <=> Passed(k)
  BY <1>1, <1>2, LogSame DEF Passed, Changes, Pending, RowsAt
<1> QED BY <1>3, <1>4, <1>5, <1>6, <1>7, <1>8, <1>9

\* A request adds no key ahead of what the client has, and the window stays:
\* the rows that are absent stay excused.
LEMMA AbsentRests ==
  ASSUME AbsentInv, LogRests, UNCHANGED window,
         \A i : ClientKeys \subseteq Reached(i) => ClientKeys' \subseteq Reached(i),
         \/ pull' = pull
         \/ pull'.kind # "pull" \/ pull'.stage = "none"
         \/ pull'.stage = "sent" /\ pull'.range = range
  PROVE  AbsentInv'
<1> SUFFICES ASSUME Current(token)' PROVE AbsentInv'
  BY DEF AbsentInv
<1>1. Current(token)
  BY WindowSame
<1>2. PICK ground \in 0..Len(commits) :
    /\ ClientKeys \subseteq Reached(ground)
    /\ pull.kind = "pull" /\ pull.stage = "sent" => RangeKeys(pull.range) \subseteq Reached(ground)
    /\ pull.kind = "pull" /\ pull.stage = "answered" /\ Current(pull.token) =>
         /\ RangeKeys(pull.range) \subseteq Reached(ground) \union Reached(pull.token.snapshot)
         /\ \A i \in log[Source] \ pull.batch, k \in Keys :
              token.snapshot < i /\ i <= pull.token.snapshot /\ Touches(i, k) =>
                RowsAt(i - 1)[k] = NoRow /\ (i <= ground \/ Late(k))
    /\ \A k \in Keys \ Shown : Late(k) \/ Absent(k, ground) \/ Behind(k) \/ Passed(k)
  BY <1>1 DEF AbsentInv
<1>3. ground \in 0..Len(commits') /\ ClientKeys' \subseteq Reached(ground)'
  BY <1>2, LogSame
<1>4. (\A k \in Keys \ Shown : Late(k) \/ Absent(k, ground) \/ Behind(k) \/ Passed(k))'
  BY <1>2, LogSame, WindowSame
<1>5. (pull.kind = "pull" /\ pull.stage = "sent" => RangeKeys(pull.range) \subseteq Reached(ground))'
  <2>1. CASE pull' = pull
    BY <1>2, <2>1, LogSame DEF RangeKeys
  <2>2. CASE pull'.kind # "pull" \/ pull'.stage = "none"
    BY <2>2
  <2>3. CASE pull'.stage = "sent" /\ pull'.range = range
    <3>1. RangeKeys(pull.range)' = RangeKeys(range)
      BY <2>3 DEF RangeKeys
    <3>2. RangeKeys(range) \subseteq Reached(ground)
      BY <1>2 DEF ClientKeys
    <3> QED BY <3>1, <3>2, LogSame
  <2> QED BY <2>1, <2>2, <2>3
<1>6. (pull.kind = "pull" /\ pull.stage = "answered" /\ Current(pull.token) =>
         /\ RangeKeys(pull.range) \subseteq Reached(ground) \union Reached(pull.token.snapshot)
         /\ \A i \in log[Source] \ pull.batch, k \in Keys :
              token.snapshot < i /\ i <= pull.token.snapshot /\ Touches(i, k) =>
                RowsAt(i - 1)[k] = NoRow /\ (i <= ground \/ Late(k)))'
  <2>1. CASE pull' = pull
    <3>1. Current(pull.token)' <=> Current(pull.token)
      BY <2>1, LogSame DEF Current
    <3>2. Reached(pull.token.snapshot)' = Reached(pull.token.snapshot)
          /\ RangeKeys(pull.range)' = RangeKeys(pull.range)
      BY <2>1, LogSame DEF Reached, UsedBy, RowsAt, RangeKeys
    <3>3. token' = token
      BY DEF window
    <3> QED BY <1>2, <2>1, <3>1, <3>2, <3>3, LogSame
  <2>2. CASE ~(pull'.kind = "pull" /\ pull'.stage = "answered")
    BY <2>2
  <2> QED BY <2>1, <2>2
<1> QED BY <1>3, <1>4, <1>5, <1>6 DEF AbsentInv

LEMMA AnswersRest ==
  ASSUME RowsAnswer, EventsAnswer, LogRests, UNCHANGED <<pull, token>>,
         \A i : ClientKeys \subseteq Reached(i) => ClientKeys' \subseteq Reached(i)
  PROVE  RowsAnswer' /\ EventsAnswer'
<1>1. /\ Result(pull.pos)' = Result(pull.pos) /\ Reached(pull.pos)' = Reached(pull.pos)
      /\ UsedBy(pull.pos)' = UsedBy(pull.pos)
  BY LogSame DEF Result, Reached, UsedBy, RowsAt
<1>2. (Current(pull.token)' <=> Current(pull.token)) /\ (Current(token)' <=> Current(token))
  BY LogSame DEF Current
<1>3. \A i : Pending(i, pull.token)' <=> Pending(i, pull.token)
  BY LogSame DEF Pending
<1>4. RowsAnswer'
  BY <1>1, <1>2, <1>3, LogSame DEF RowsAnswer
<1>5. EventsAnswer'
  BY <1>2, LogSame DEF EventsAnswer
<1> QED BY <1>4, <1>5

LEMMA PageRests ==
  ASSUME PageAnswer, LogRests, UNCHANGED page
  PROVE  /\ PageAnswer' /\ PageKeys' = PageKeys
         /\ UNCHANGED window => ClientKeys' = ClientKeys
<1>1. Result(page.pos)' = Result(page.pos) /\ Reached(page.pos)' = Reached(page.pos)
  BY LogSame DEF Result, Reached, UsedBy, RowsAt
<1>2. PageAnswer'
  BY <1>1 DEF PageAnswer
<1>3. PageKeys' = PageKeys
  BY DEF PageKeys, RangeKeys
<1>4. ASSUME UNCHANGED window PROVE ClientKeys' = ClientKeys
  BY <1>3, <1>4, WindowSame DEF ClientKeys
<1> QED BY <1>2, <1>3, <1>4

\* What is left to show of a step that changes the pull in flight only.
LEMMA PullChanges ==
  ASSUME WindowInv, LogRests, UNCHANGED <<window, page>>, pull' \in Request,
         TokenOK(pull'.token), pull'.stage = "none" <=> pull' = NoRequest,
         pull'.stage = "sent" =>
           pull'.kind \in {"subscribe", "pull"} /\ pull'.pks = {} /\ pull'.batch = {},
         pull'.stage = "sent" /\ pull'.kind = "pull" => pull'.token = token,
         pull'.kind # "page", pull'.pos <= Len(commits),
         pull'.kind = "pull" => RangeKeys(pull'.range) \subseteq Reached(Len(commits)),
         RowsAnswer', EventsAnswer', AbsentInv'
  PROVE  WindowInv'
<1>1. /\ WindowTypeOK /\ LogInv /\ FlightInv /\ PageAnswer /\ OrderInv /\ RowsInv
  BY DEF WindowInv
<1>2. UNCHANGED <<entries, range, hasMore, token, overtaken, jumps, narrowed, page>>
  BY DEF window
<1>3. WindowTypeOK'
  BY <1>1, <1>2, LogSame DEF WindowTypeOK
<1>4. LogInv'
  BY <1>1, LogKept
<1>5. PageAnswer' /\ ClientKeys' = ClientKeys
  BY <1>1, PageRests
<1>6. OrderInv' /\ RowsInv'
  BY <1>1, WindowSame
<1>7. FlightInv'
  <2>1. TokenOK(token)' /\ TokenOK(pull.token)'
    BY <1>1, <1>2, LogSame DEF FlightInv, TokenOK, Current
  <2>2. ClientKeys' \subseteq Reached(Len(commits))'
    BY <1>1, <1>5, LogSame DEF FlightInv, Reached, UsedBy, RowsAt
  <2>3. (pull.kind = "pull" => RangeKeys(pull.range) \subseteq Reached(Len(commits)))'
    BY LogSame DEF Reached, UsedBy, RowsAt, RangeKeys
  <2> QED BY <1>1, <1>2, <2>1, <2>2, <2>3, LogSame DEF FlightInv
<1> QED BY <1>3, <1>4, <1>5, <1>6, <1>7 DEF WindowInv

LEMMA NothingInFlight ==
  /\ NoRequest \in Request /\ NoRange \in PkRange /\ NoToken \in Token
  /\ RangeKeys(NoRange) = {}
  /\ LogInv => TokenOK(NoToken) /\ ~Current(NoToken)
<1>1. NoRange \in PkRange /\ RangeKeys(NoRange) = {}
  BY DEF NoRange, PkRange, RangeKeys
<1>2. NoToken \in Token
  BY DEF NoToken, Token
<1>3. NoRequest \in Request
  BY <1>1, <1>2 DEF NoRequest, Request
<1>4. ASSUME LogInv PROVE TokenOK(NoToken) /\ ~Current(NoToken)
  BY <1>4, LogTypes DEF TokenOK, Current, NoToken
<1> QED BY <1>1, <1>2, <1>3, <1>4

LEMMA SubscribeKeeps ==
  ASSUME WindowInv, Subscribe
  PROVE  WindowInv'
<1>1. pull' = [NoRequest EXCEPT !.stage = "sent", !.kind = "subscribe"]
      /\ UNCHANGED <<vars, history, window, page>>
  BY DEF Subscribe
<1>2. /\ pull'.stage = "sent" /\ pull'.kind = "subscribe" /\ pull'.pks = {} /\ pull'.batch = {}
      /\ pull'.pos = 0 /\ pull'.token = NoToken /\ pull' # NoRequest
  BY <1>1 DEF NoRequest
<1>3. pull' \in Request
  BY <1>1, NothingInFlight DEF NoRequest, Request
<1>4. LogInv /\ AbsentInv /\ PageAnswer /\ Len(commits) \in Nat /\ LogRests
  BY <1>1, Counts DEF WindowInv, LogRests
<1>5. RowsAnswer' /\ EventsAnswer'
  BY <1>2 DEF RowsAnswer, EventsAnswer
<1>6. AbsentInv'
  BY <1>1, <1>2, <1>4, AbsentRests, PageRests
<1>7. TokenOK(pull'.token) /\ pull'.pos <= Len(commits)
  BY <1>2, <1>4, NothingInFlight
<1> QED BY <1>1, <1>2, <1>3, <1>4, <1>5, <1>6, <1>7, PullChanges

LEMMA PollKeeps ==
  ASSUME WindowInv, Poll
  PROVE  WindowInv'
<1>1. pull' = [NoRequest EXCEPT !.stage = "sent", !.range = range,
                                !.hasMore = hasMore, !.token = token]
      /\ UNCHANGED <<vars, history, window, page>>
  BY DEF Poll
<1>2. /\ pull'.stage = "sent" /\ pull'.kind = "pull" /\ pull'.pks = {} /\ pull'.batch = {}
      /\ pull'.pos = 0 /\ pull'.token = token /\ pull'.range = range /\ pull' # NoRequest
  BY <1>1 DEF NoRequest
<1>3. WindowTypeOK /\ LogInv /\ FlightInv /\ AbsentInv /\ PageAnswer /\ Len(commits) \in Nat
      /\ LogRests
  BY <1>1, Counts DEF WindowInv, LogRests
<1>4. pull' \in Request
  BY <1>1, <1>3, NothingInFlight DEF NoRequest, Request, WindowTypeOK
<1>5. RowsAnswer' /\ EventsAnswer'
  BY <1>2 DEF RowsAnswer, EventsAnswer
<1>6. AbsentInv'
  BY <1>1, <1>2, <1>3, AbsentRests, PageRests
<1>7. TokenOK(pull'.token) /\ pull'.pos <= Len(commits)
      /\ RangeKeys(pull'.range) \subseteq Reached(Len(commits))
  BY <1>2, <1>3 DEF FlightInv, ClientKeys
<1> QED BY <1>1, <1>2, <1>3, <1>4, <1>5, <1>6, <1>7, PullChanges

LEMMA PullFailsKeeps ==
  ASSUME WindowInv, PullFails
  PROVE  WindowInv'
<1>1. pull' = NoRequest /\ UNCHANGED <<vars, history, window, page>>
  BY DEF PullFails
<1>2. /\ pull'.stage = "none" /\ pull'.kind = "pull" /\ pull'.pos = 0 /\ pull'.token = NoToken
      /\ pull'.range = NoRange
  BY <1>1 DEF NoRequest
<1>3. LogInv /\ AbsentInv /\ PageAnswer /\ Len(commits) \in Nat /\ LogRests
  BY <1>1, Counts DEF WindowInv, LogRests
<1>4. RowsAnswer' /\ EventsAnswer'
  BY <1>2 DEF RowsAnswer, EventsAnswer
<1>5. AbsentInv'
  BY <1>1, <1>2, <1>3, AbsentRests, PageRests
<1>6. /\ TokenOK(pull'.token) /\ pull'.pos <= Len(commits) /\ pull' \in Request
      /\ RangeKeys(pull'.range) \subseteq Reached(Len(commits))
  BY <1>1, <1>2, <1>3, NothingInFlight
<1> QED BY <1>1, <1>2, <1>3, <1>4, <1>5, <1>6, PullChanges

LEMMA LatestToken ==
  ASSUME WindowTypeOK, LogInv
  PROVE  CurrentToken(Latest) \in Token /\ TokenOK(CurrentToken(Latest))
<1>1. /\ covered \subseteq 1..Len(commits) /\ log[Source] \subseteq covered
      /\ generation[Source] \in Nat /\ Len(commits) \in Nat
  BY LogTypes, Counts
<1> DEFINE S == log[Source] \union {0}
<1>2. S \in SUBSET Nat /\ S # {} /\ \A i \in S : i <= Len(commits)
  <2>1. \A i \in S : i = 0 \/ i \in 1..Len(commits)
    BY <1>1
  <2>2. 0 \in S
    OBVIOUS
  <2> HIDE DEF S
  <2> QED BY <1>1, <2>1, <2>2
<1>3. Max(S) \in S
  <2> HIDE DEF S
  <2> QED BY <1>1, <1>2, MaxOfSet
<1>4. Latest \in covered \union {0} /\ Latest \in Nat
  <2>1. Latest \in S
    BY <1>3 DEF Latest
  <2> QED BY <1>1, <1>2, <2>1
<1> QED BY <1>1, <1>4 DEF CurrentToken, Token, TokenOK, Current

\* The answer of a handler that reads rows: the front of the result, and no key
\* of the client is newer than what was read.
LEMMA RowsRead ==
  ASSUME WindowInv, LogRests, UNCHANGED <<window, page>>, NEW pks \in SUBSET Keys,
         pull'.stage = "answered", pull'.kind \in {"subscribe", "reset"},
         pull'.pos = Now, pull'.pks = pks, pull'.range = Bounds(pks),
         pull'.token = CurrentToken(Latest), pull'.batch = {}, pull' \in Request,
         pks \subseteq Result(Now),
         \A k \in Result(Now) \ pks :
           /\ \A j \in pks : Ahead(j, k)
           /\ \E l \in UsedBy(Now) : Ahead(l, k)
           /\ pull'.hasMore \/ pull'.kind = "reset"
  PROVE  WindowInv'
<1>1. /\ WindowTypeOK /\ LogInv /\ FlightInv /\ AbsentInv /\ PageAnswer /\ Len(commits) \in Nat
  BY Counts DEF WindowInv
<1>2. ClientKeys' = ClientKeys /\ ClientKeys \subseteq Reached(Now)
  BY <1>1, PageRests DEF FlightInv, Now
<1>3. UsedBy(Now)' = UsedBy(Now) /\ Reached(Now)' = Reached(Now) /\ Result(Now)' = Result(Now)
  BY LogSame DEF Reached, UsedBy, Result, RowsAt, Now
<1>4. Now' = Now /\ Now = Len(commits)
  BY LogSame DEF Now
<1>5. /\ UsedBy(pull.pos)' = UsedBy(Now) /\ Reached(pull.pos)' = Reached(Now)
      /\ Result(pull.pos)' = Result(Now)
  BY <1>3, LogSame DEF Reached, UsedBy, Result, RowsAt, Now
<1>6. \A i \in (Now + 1)..Len(commits') : FALSE
  BY <1>1, <1>4, LogSame
<1>7. RowsAnswer'
  BY <1>2, <1>4, <1>5, <1>6 DEF RowsAnswer
<1>8. EventsAnswer'
  BY DEF EventsAnswer
<1>9. AbsentInv'
  BY <1>1, <1>2, AbsentRests
<1>10. TokenOK(pull'.token) /\ pull'.pos <= Len(commits) /\ pull' # NoRequest
  BY <1>1, <1>4, LatestToken DEF NoRequest
<1> QED BY <1>7, <1>8, <1>9, <1>10, PullChanges

LEMMA HandleSubscribeKeeps ==
  ASSUME WindowInv, HandleSubscribe
  PROVE  WindowInv'
<1> DEFINE pks == First(Result(Now), Limit)
<1>1. /\ pull.stage = "sent" /\ pull.kind = "subscribe"
      /\ pull' = [pull EXCEPT !.stage = "answered", !.pos = Now, !.pks = pks,
                    !.range = Bounds(pks), !.hasMore = Cardinality(Result(Now)) > Limit,
                    !.token = CurrentToken(Latest)]
      /\ UNCHANGED <<vars, history, window, page>>
  BY DEF HandleSubscribe
<1>2. WindowTypeOK /\ LogInv /\ FlightInv /\ pull \in Request /\ Now \in Nat
  BY Counts DEF WindowInv, WindowTypeOK, Now
<1>3. Result(Now) \in SUBSET Keys /\ Limit \in Nat \ {0}
  BY WindowAssumption DEF Result
<1>4. /\ pks \subseteq Result(Now) /\ pks \in SUBSET Keys
      /\ \A k \in Result(Now) \ pks :
           /\ Cardinality(Result(Now)) > Limit
           /\ \A j \in pks : Ahead(j, k)
           /\ \E l \in Result(Now) : Ahead(l, k)
  BY <1>3, FirstFacts
<1> HIDE DEF pks
<1>5. Result(Now) \subseteq UsedBy(Now)
  BY <1>2, ResultIsUsed
<1>6. /\ pull'.stage = "answered" /\ pull'.kind = "subscribe" /\ pull'.pos = Now /\ pull'.pks = pks
      /\ pull'.range = Bounds(pks) /\ pull'.token = CurrentToken(Latest) /\ pull'.batch = {}
      /\ pull'.hasMore = (Cardinality(Result(Now)) > Limit)
  BY <1>1, <1>2 DEF Request, FlightInv
<1>7. pull' \in Request
  <2>1. Bounds(pks) \in PkRange /\ CurrentToken(Latest) \in Token
    BY <1>2, <1>4, BoundsAreKeys, LatestToken
  <2>2. (Cardinality(Result(Now)) > Limit) \in BOOLEAN
    OBVIOUS
  <2> QED BY <1>1, <1>2, <1>4, <2>1, <2>2 DEF Request
<1>8. \A k \in Result(Now) \ pks :
        /\ \A j \in pks : Ahead(j, k)
        /\ \E l \in UsedBy(Now) : Ahead(l, k)
        /\ pull'.hasMore
  BY <1>4, <1>5, <1>6
<1> QED BY <1>1, <1>4, <1>6, <1>7, <1>8, RowsRead DEF LogRests

LEMMA ResetKeeps ==
  ASSUME WindowInv, pull.stage = "sent", pull.kind = "pull", Reset,
         UNCHANGED <<vars, history, window, page>>
  PROVE  WindowInv'
<1> DEFINE pks == {k \in Result(Now) : InWindow(k, pull.range)}
           back == Trailing(pull.range)
<1>1. pull' = [pull EXCEPT !.stage = "answered", !.kind = "reset", !.pos = Now, !.pks = pks,
                 !.range = Bounds(pks), !.token = CurrentToken(Latest)]
  BY DEF Reset
<1>2. WindowTypeOK /\ LogInv /\ FlightInv /\ pull \in Request /\ Now \in Nat
  BY Counts DEF WindowInv, WindowTypeOK, Now
<1>3. pks \subseteq Result(Now) /\ pks \in SUBSET Keys
  BY DEF Result
<1>4. pull.range \in PkRange /\ RangeKeys(pull.range) \subseteq Reached(Now)
  BY <1>2 DEF FlightInv, Now, Request
<1>5. ASSUME NEW k \in Result(Now) \ pks
      PROVE  /\ \A j \in pks : Ahead(j, k)
             /\ \E l \in UsedBy(Now) : Ahead(l, k)
  <2>1. k \in Keys /\ back # NoPk /\ Ahead(back, k)
    BY <1>5 DEF InWindow, Result
  <2>2. back \in RangeKeys(pull.range) /\ back \in Keys
    BY <1>4, <2>1 DEF Trailing, RangeKeys, PkRange
  <2>3. \A j \in pks : j \in Keys /\ ~Ahead(back, j)
    BY <2>1 DEF InWindow, Result
  <2>4. PICK l \in UsedBy(Now) : ~Ahead(back, l)
    BY <1>4, <2>2 DEF Reached
  <2>5. l \in Keys
    BY DEF UsedBy
  <2> HIDE DEF back, pks
  <2>6. Ahead(l, k)
    BY <2>1, <2>2, <2>4, <2>5, AheadOrder, KeysAreNumbers
  <2>7. \A j \in pks : Ahead(j, k)
    BY <2>1, <2>2, <2>3, AheadOrder, KeysAreNumbers
  <2> QED BY <2>6, <2>7
<1> HIDE DEF pks
<1>6. /\ pull'.stage = "answered" /\ pull'.kind = "reset" /\ pull'.pos = Now /\ pull'.pks = pks
      /\ pull'.range = Bounds(pks) /\ pull'.token = CurrentToken(Latest) /\ pull'.batch = {}
  BY <1>1, <1>2 DEF Request, FlightInv
<1>7. pull' \in Request
  <2>1. Bounds(pks) \in PkRange /\ CurrentToken(Latest) \in Token
    BY <1>2, <1>3, BoundsAreKeys, LatestToken
  <2> QED BY <1>1, <1>2, <1>3, <2>1 DEF Request
<1> QED BY <1>3, <1>5, <1>6, <1>7, RowsRead DEF LogRests

\* The events query, and the cursor that covers what it found.
LEMMA DeliveredFacts ==
  ASSUME WindowTypeOK, LogInv, NEW from \in covered \union {0},
         NEW found, found = Delivered(from)
  PROVE  /\ \A i \in found : /\ i \in 1..Len(commits) /\ i \in log[Source] /\ from < i
                             /\ Touches(i, Key(i)) /\ Key(i) \in Keys
         /\ \A i \in log[Source], k \in Keys : from < i /\ Touches(i, k) => i \in found /\ k = Key(i)
         /\ Max(found \union {from}) \in covered \union {0}
         /\ Max(found \union {from}) \in Nat /\ from <= Max(found \union {from})
         /\ \A i \in found : i <= Max(found \union {from})
<1>1. /\ covered \subseteq 1..Len(commits) /\ log[Source] \subseteq covered /\ Len(commits) \in Nat
  BY LogTypes, Counts
<1>2. \A i \in log[Source] : i \in 1..Len(commits)
  BY <1>1
<1>3. \A i \in log[Source] : Key(i) \in Keys /\ \A l \in Keys : Changes(i, l) <=> l = Key(i)
  BY <1>2, OneKey
<1>4. \A i \in log[Source] :
        Touches(i, Key(i)) <=> {RowsAt(i)[Key(i)], RowsAt(i - 1)[Key(i)]} \cap Matching # {}
  BY <1>3 DEF Touches
<1>5. \A i : i \in found <=> i \in log[Source] /\ i > from /\ Touches(i, Key(i))
  BY <1>4 DEF Delivered
<1>6. \A i \in found : i \in 1..Len(commits) /\ i \in log[Source] /\ from < i
                       /\ Touches(i, Key(i)) /\ Key(i) \in Keys
  <2>1. from \in Nat
    BY <1>1
  <2> QED BY <1>2, <1>3, <1>5, <2>1
<1>7. \A i \in log[Source], k \in Keys : from < i /\ Touches(i, k) => i \in found /\ k = Key(i)
  <2> SUFFICES ASSUME NEW i \in log[Source], NEW k \in Keys, from < i, Touches(i, k)
               PROVE  i \in found /\ k = Key(i)
    OBVIOUS
  <2>1. k = Key(i)
    BY <1>3 DEF Touches
  <2>2. i > from
    BY <1>1, <1>2
  <2> QED BY <1>5, <2>1, <2>2
<1> DEFINE S == found \union {from}
<1>8. S \in SUBSET (covered \union {0})
  BY <1>1, <1>6
<1>9. S \in SUBSET Nat /\ S # {} /\ \A i \in S : i <= Len(commits)
  <2>1. \A i \in covered \union {0} : i \in 0..Len(commits)
    BY <1>1
  <2>2. from \in S
    OBVIOUS
  <2> HIDE DEF S
  <2> QED BY <1>1, <1>8, <2>1, <2>2
<1>10. Max(S) \in S /\ \A i \in S : i <= Max(S)
  <2> HIDE DEF S
  <2> QED BY <1>1, <1>9, MaxOfSet
<1>11. Max(S) \in covered \union {0} /\ Max(S) \in Nat
  <2> HIDE DEF S
  <2> QED BY <1>8, <1>9, <1>10
<1>12. from <= Max(S) /\ \A i \in found : i <= Max(S)
  BY <1>10
<1> QED BY <1>6, <1>7, <1>11, <1>12

LEMMA IncrementalKeeps ==
  ASSUME WindowInv, pull.stage = "sent", pull.kind = "pull",
         pull.token.epoch = generation[Source],
         NEW found, found = Delivered(pull.token.snapshot), Incremental(found),
         UNCHANGED <<vars, history, window, page>>
  PROVE  WindowInv'
<1> DEFINE N == Len(commits) from == token.snapshot to == Max(found \union {from})
           wide == Widened(pull.range, Prepends(found))
<1>1. /\ WindowTypeOK /\ LogInv /\ FlightInv /\ AbsentInv /\ PageAnswer /\ pull \in Request
      /\ N \in Nat /\ LogRests
  BY Counts DEF WindowInv, WindowTypeOK, LogRests
<1>2. /\ pull.token = token /\ Current(token) /\ token \in Token /\ TokenOK(token)
      /\ from \in covered \union {0} /\ generation[Source] \in Nat
  BY <1>1, LogTypes DEF FlightInv, Current, WindowTypeOK, TokenOK
<1>3. /\ \A i \in found : /\ i \in 1..N /\ i \in log[Source] /\ from < i
                          /\ Touches(i, Key(i)) /\ Key(i) \in Keys /\ i <= to
      /\ \A i \in log[Source], k \in Keys : from < i /\ Touches(i, k) => i \in found /\ k = Key(i)
      /\ to \in covered \union {0} /\ to \in Nat /\ from <= to
  <2> HIDE DEF from
  <2>1. found = Delivered(from)
    BY <1>2 DEF from
  <2> QED BY <1>1, <1>2, <2>1, DeliveredFacts
<1>4. pull' = [pull EXCEPT !.stage = "answered", !.batch = Sent(found), !.range = wide,
                           !.token = CurrentToken(to)]
  BY <1>2 DEF Incremental
<1>5. Sent(found) \subseteq found /\ Prepends(found) \subseteq {Key(i) : i \in found}
  BY DEF Sent, Prepends
<1>6. Prepends(found) \in SUBSET Keys /\ pull.range \in PkRange
  BY <1>1, <1>3, <1>5 DEF Request
<1>7. wide \in PkRange /\ RangeKeys(wide) \subseteq RangeKeys(pull.range) \union Prepends(found)
  BY <1>6, WidenedKeys
<1>8. \A k \in Prepends(found) : k \in Reached(to) /\ k \in Reached(N)
  <2> SUFFICES ASSUME NEW k \in Prepends(found) PROVE k \in Reached(to) /\ k \in Reached(N)
    OBVIOUS
  <2>1. PICK i \in found : k = Key(i)
    BY <1>5
  <2> HIDE DEF N, to
  <2>2. i \in 1..N /\ i <= to /\ Touches(i, k) /\ k \in Keys
    BY <1>3, <2>1
  <2>3. i \in Int /\ N \in Int /\ to \in Int /\ i <= N
    BY <1>1, <1>3, <2>2
  <2>4. k \in Reached(i)
    BY <1>1, <2>2, ChangedIsReached DEF Touches, N
  <2> QED BY <2>2, <2>3, <2>4, ReachedGrows
<1>9. RangeKeys(pull.range) \subseteq Reached(N)
  BY <1>1 DEF FlightInv
<1>10. CurrentToken(to) \in Token /\ TokenOK(CurrentToken(to)) /\ Current(CurrentToken(to))
  BY <1>2, <1>3 DEF CurrentToken, Token, TokenOK, Current
<1> HIDE DEF to, wide
<1>11. /\ pull'.stage = "answered" /\ pull'.kind = "pull" /\ pull'.range = wide
       /\ pull'.batch = Sent(found) /\ pull'.token = CurrentToken(to) /\ pull'.pos = pull.pos
  BY <1>1, <1>4 DEF Request
<1>12. pull'.token.snapshot = to
  BY <1>11 DEF CurrentToken
<1>13. pull' \in Request
  <2>1. Sent(found) \in SUBSET Nat
    BY <1>3, <1>5
  <2> QED BY <1>1, <1>4, <1>7, <1>10, <2>1 DEF Request
<1>14. RangeKeys(pull'.range) \subseteq Reached(N)
  BY <1>7, <1>8, <1>9, <1>11
<1>15. RowsAnswer'
  BY <1>11 DEF RowsAnswer
<1>16. token' = token
  BY DEF window
<1>17. EventsAnswer'
  <2>1. \A i \in pull'.batch : i \in 1..N /\ Touches(i, Key(i)) /\ i \in log[Source]
                               /\ from < i /\ i <= to
    BY <1>3, <1>5, <1>11
  <2>2. (\A i \in pull.batch : i \in 1..Len(commits) /\ Touches(i, Key(i)))'
    BY <1>1, <2>1, LogSame
  <2>3. (\A i \in pull.batch : i \in log[Source] /\ token.snapshot < i /\ i <= pull.token.snapshot)'
    BY <1>1, <1>12, <1>16, <2>1, LogSame
  <2>4. Current(token)' /\ token'.snapshot <= pull'.token.snapshot
    BY <1>1, <1>2, <1>3, <1>12, <1>16, LogSame DEF Current
  <2> QED BY <2>2, <2>3, <2>4 DEF EventsAnswer
<1>18. AbsentInv'
  <2>1. PICK ground \in 0..N :
          /\ ClientKeys \subseteq Reached(ground)
          /\ RangeKeys(pull.range) \subseteq Reached(ground)
          /\ \A k \in Keys \ Shown : Late(k) \/ Absent(k, ground) \/ Behind(k) \/ Passed(k)
    BY <1>1, <1>2 DEF AbsentInv
  <2>2. ClientKeys' = ClientKeys
    BY <1>1, PageRests
  <2>3. ground \in 0..Len(commits') /\ ClientKeys' \subseteq Reached(ground)'
    BY <1>1, <2>1, <2>2, LogSame
  <2>4. (\A k \in Keys \ Shown : Late(k) \/ Absent(k, ground) \/ Behind(k) \/ Passed(k))'
    BY <1>1, <2>1, LogSame, WindowSame
  <2>5. RangeKeys(pull'.range) \subseteq Reached(ground) \union Reached(to)
    BY <1>7, <1>8, <1>11, <2>1
  <2>6. ASSUME NEW i \in log[Source] \ Sent(found), NEW k \in Keys, from < i, i <= to, Touches(i, k)
        PROVE  RowsAt(i - 1)[k] = NoRow /\ (i <= ground \/ Late(k))
    <3>1. i \in found /\ k = Key(i) /\ i \in 1..N /\ Changes(i, k)
      BY <1>3, <2>6 DEF Touches
    <3>2. Event(i).op = "insert" /\ ~IsInsertPrepend(k, pull.range)
      BY <2>6, <3>1 DEF Sent
    <3>3. RowsAt(i - 1)[k] = NoRow
      BY <1>1, <3>1, <3>2, EventFacts
    <3>4. k \in Reached(ground)
      BY <2>1, <3>2, RefusedIsReached
    <3>5. CASE i > ground
      <4>1. ground \in Int /\ i - 1 \in Int /\ ground <= i - 1
        BY <1>1, <3>1, <3>5
      <4>2. k \in Reached(i - 1)
        BY <3>4, <4>1, ReachedGrows
      <4>3. Late(k)
        BY <1>1, <3>1, <3>3, <4>2, LateInsert
      <4> QED BY <3>3, <4>3
    <3>6. CASE ~(i > ground)
      BY <1>1, <3>1, <3>3, <3>6
    <3> QED BY <3>5, <3>6
  <2>7. Reached(pull.token.snapshot)' = Reached(to)
    BY <1>1, <1>12, LogSame DEF Reached, UsedBy, RowsAt
  <2>8. RangeKeys(pull.range)' = RangeKeys(pull'.range)
    BY DEF RangeKeys
  <2>9. (pull.kind = "pull" /\ pull.stage = "answered" /\ Current(pull.token) =>
          /\ RangeKeys(pull.range) \subseteq Reached(ground) \union Reached(pull.token.snapshot)
          /\ \A i \in log[Source] \ pull.batch, k \in Keys :
               token.snapshot < i /\ i <= pull.token.snapshot /\ Touches(i, k) =>
                 RowsAt(i - 1)[k] = NoRow /\ (i <= ground \/ Late(k)))'
    <3>1. RangeKeys(pull.range)' \subseteq Reached(ground)' \union Reached(pull.token.snapshot)'
      BY <1>1, <2>5, <2>7, <2>8, LogSame
    <3>2. (\A i \in log[Source] \ pull.batch, k \in Keys :
               token.snapshot < i /\ i <= pull.token.snapshot /\ Touches(i, k) =>
                 RowsAt(i - 1)[k] = NoRow /\ (i <= ground \/ Late(k)))'
      BY <1>1, <1>11, <1>12, <1>16, <2>6, LogSame
    <3> QED BY <3>1, <3>2
  <2>10. (pull.kind = "pull" /\ pull.stage = "sent" => RangeKeys(pull.range) \subseteq Reached(ground))'
    BY <1>11
  <2> QED BY <2>3, <2>4, <2>9, <2>10 DEF AbsentInv
<1>19. pull'.pos <= N /\ pull' # NoRequest
  BY <1>1, <1>11 DEF FlightInv, NoRequest
<1> QED BY <1>1, <1>10, <1>11, <1>13, <1>14, <1>15, <1>17, <1>18, <1>19, PullChanges

LEMMA HandlePullKeeps ==
  ASSUME WindowInv, HandlePull
  PROVE  WindowInv'
<1>1. /\ pull.stage = "sent" /\ pull.kind = "pull"
      /\ UNCHANGED <<vars, history, window, page>>
  BY DEF HandlePull
<1>2. CASE Reset
  BY <1>1, <1>2, ResetKeeps
<1>3. CASE pull.token.epoch = generation[Source] /\ Incremental(Delivered(pull.token.snapshot))
  BY <1>1, <1>3, IncrementalKeeps
<1> QED BY <1>2, <1>3 DEF HandlePull

\* What is left to show of a step that changes the page in flight only.
LEMMA PageChanges ==
  ASSUME WindowInv, LogRests, UNCHANGED <<window, pull>>, page' \in Request,
         \A i : ClientKeys \subseteq Reached(i) => ClientKeys' \subseteq Reached(i),
         page'.stage = "none" <=> page' = NoRequest,
         page'.stage # "none" => page'.cursor \in Keys,
         page'.pos <= Len(commits), page'.stage = "sent" => page'.pks = {},
         PageAnswer'
  PROVE  WindowInv'
<1>1. /\ WindowTypeOK /\ LogInv /\ FlightInv /\ RowsAnswer /\ EventsAnswer
      /\ OrderInv /\ RowsInv /\ AbsentInv
  BY DEF WindowInv
<1>2. UNCHANGED <<entries, range, hasMore, token, overtaken, jumps, narrowed, pull>>
  BY DEF window
<1>3. WindowTypeOK'
  BY <1>1, <1>2, LogSame DEF WindowTypeOK
<1>4. LogInv'
  BY <1>1, LogKept
<1>5. RowsAnswer' /\ EventsAnswer'
  BY <1>1, <1>2, AnswersRest
<1>6. OrderInv' /\ RowsInv'
  BY <1>1, WindowSame
<1>7. AbsentInv'
  BY <1>1, <1>2, AbsentRests
<1>8. FlightInv'
  <2>1. TokenOK(token)' /\ TokenOK(pull.token)'
    BY <1>1, <1>2, LogSame DEF FlightInv, TokenOK, Current
  <2>2. ClientKeys' \subseteq Reached(Len(commits))'
    BY <1>1, LogSame DEF FlightInv, Reached, UsedBy, RowsAt
  <2>3. (pull.kind = "pull" => RangeKeys(pull.range) \subseteq Reached(Len(commits)))'
    BY <1>1, <1>2, LogSame DEF FlightInv, Reached, UsedBy, RowsAt, RangeKeys
  <2> QED BY <1>1, <1>2, <2>1, <2>2, <2>3, LogSame DEF FlightInv
<1> QED BY <1>3, <1>4, <1>5, <1>6, <1>7, <1>8 DEF WindowInv

LEMMA LoadMoreKeeps ==
  ASSUME WindowInv, LoadMore
  PROVE  WindowInv'
<1>1. /\ page' = [NoRequest EXCEPT !.stage = "sent", !.kind = "page",
                                   !.range = range, !.cursor = Cursor]
      /\ Cursor # NoPk /\ UNCHANGED <<vars, history, window, pull>>
  BY DEF LoadMore
<1>2. /\ page'.stage = "sent" /\ page'.range = range /\ page'.cursor = Cursor /\ page'.pks = {}
      /\ page'.pos = 0 /\ page' # NoRequest
  BY <1>1 DEF NoRequest
<1>3. WindowTypeOK /\ OrderInv /\ LogInv /\ Len(commits) \in Nat /\ LogRests
  BY <1>1, Counts DEF WindowInv, LogRests
<1>4. Cursor \in Keys /\ Cursor \in Shown \union RangeKeys(range)
  BY <1>1, <1>3, CursorIsLast
<1>5. page' \in Request
  BY <1>1, <1>3, <1>4, NothingInFlight DEF NoRequest, Request, WindowTypeOK
<1>6. ClientKeys' \subseteq ClientKeys
  <2>1. RangeKeys(page.range)' = RangeKeys(range)
    BY <1>2 DEF RangeKeys
  <2>2. PageKeys' = RangeKeys(range) \union ({Cursor} \ {NoPk})
    BY <1>2, <2>1 DEF PageKeys
  <2>3. Shown' = Shown /\ RangeKeys(range)' = RangeKeys(range)
    BY <1>1, <1>3, WindowSame
  <2> QED BY <1>4, <2>2, <2>3 DEF ClientKeys
<1>7. PageAnswer'
  BY <1>2 DEF PageAnswer
<1>8. page'.pos <= Len(commits)
  BY <1>2, <1>3
<1> QED BY <1>1, <1>2, <1>3, <1>4, <1>5, <1>6, <1>7, <1>8, PageChanges

LEMMA HandleLoadMoreKeeps ==
  ASSUME WindowInv, HandleLoadMore
  PROVE  WindowInv'
<1> DEFINE behind == {k \in Result(Now) : Ahead(page.cursor, k)}
           pks == First(behind, Limit)
           wide == Widened(page.range, pks)
<1>1. /\ page.stage = "sent"
      /\ page' = [page EXCEPT !.stage = "answered", !.pos = Now, !.pks = pks,
                    !.range = wide, !.hasMore = Cardinality(behind) > Limit]
      /\ UNCHANGED <<vars, history, window, pull>>
  BY DEF HandleLoadMore
<1>2. WindowTypeOK /\ LogInv /\ FlightInv /\ page \in Request /\ Now \in Nat /\ LogRests
      /\ Now = Len(commits)
  BY <1>1, Counts DEF WindowInv, WindowTypeOK, Now, LogRests
<1>3. behind \in SUBSET Keys /\ Limit \in Nat \ {0}
  BY WindowAssumption DEF Result
<1>4. /\ pks \subseteq behind /\ pks \in SUBSET Keys
      /\ \A k \in behind \ pks : Cardinality(behind) > Limit /\ \A j \in pks : Ahead(j, k)
  <2> HIDE DEF behind
  <2> QED BY <1>3, FirstFacts
<1>5. wide \in PkRange /\ RangeKeys(wide) \subseteq RangeKeys(page.range) \union pks
  <2> HIDE DEF pks
  <2> QED BY <1>2, <1>4, WidenedKeys DEF Request
<1>6. page.cursor \in Keys /\ page.cursor \in PageKeys
  BY <1>1, <1>2, KeysAreNumbers DEF FlightInv, PageKeys
<1>7. \A k \in pks : k \in Keys /\ k \in Result(Now) /\ Ahead(page.cursor, k)
  BY <1>4
<1> HIDE DEF behind, pks, wide
<1>8. /\ page'.stage = "answered" /\ page'.pos = Now /\ page'.pks = pks /\ page'.range = wide
      /\ page'.hasMore = (Cardinality(behind) > Limit) /\ page'.cursor = page.cursor
  BY <1>1, <1>2 DEF Request
<1>9. page' \in Request
  <2>1. (Cardinality(behind) > Limit) \in BOOLEAN
    OBVIOUS
  <2> QED BY <1>1, <1>2, <1>4, <1>5, <2>1 DEF Request
<1>10. ASSUME NEW i, ClientKeys \subseteq Reached(i) PROVE ClientKeys' \subseteq Reached(i)
  <2>1. page.cursor \in Reached(i) /\ RangeKeys(page.range) \subseteq Reached(i)
    BY <1>6, <1>10 DEF ClientKeys, PageKeys
  <2>2. \A k \in pks : ~Ahead(k, page.cursor)
    BY <1>6, <1>7, AheadOrder, KeysAreNumbers
  <2>3. pks \subseteq Reached(i)
    BY <1>7, <2>1, <2>2, ReachedBehind
  <2>4. RangeKeys(page.range)' = RangeKeys(wide)
    BY <1>8 DEF RangeKeys
  <2>5. PageKeys' = RangeKeys(wide) \union pks \union ({page.cursor} \ {NoPk})
    BY <1>8, <2>4 DEF PageKeys
  <2>6. Shown' = Shown /\ RangeKeys(range)' = RangeKeys(range)
    BY <1>1, <1>2, WindowSame
  <2> QED BY <1>5, <1>10, <2>1, <2>3, <2>5, <2>6 DEF ClientKeys
<1>11. PageAnswer'
  <2>1. Result(page.pos)' = Result(Now) /\ Reached(page.pos)' = Reached(Now)
    BY <1>2, <1>8, LogSame DEF Result, Reached, UsedBy, RowsAt
  <2>2. page.cursor \in Reached(Now)
    BY <1>2, <1>6 DEF FlightInv, ClientKeys
  <2>3. \A k \in Result(Now) \ pks :
          Ahead(page.cursor, k) => page'.hasMore /\ \A j \in pks : Ahead(j, k)
    BY <1>4, <1>8 DEF behind
  <2> QED BY <1>7, <1>8, <2>1, <2>2, <2>3 DEF PageAnswer
<1>12. page' # NoRequest
  BY <1>8 DEF NoRequest
<1> QED BY <1>1, <1>2, <1>6, <1>8, <1>9, <1>10, <1>11, <1>12, PageChanges

LEMMA PageFailsKeeps ==
  ASSUME WindowInv, PageFails
  PROVE  WindowInv'
<1>1. page' = NoRequest /\ UNCHANGED <<vars, history, window, pull>>
  BY DEF PageFails
<1>2. /\ page'.stage = "none" /\ page'.pos = 0 /\ page'.range = NoRange /\ page'.pks = {}
      /\ page'.cursor = NoPk
  BY <1>1 DEF NoRequest
<1>3. Len(commits) \in Nat /\ LogRests
  BY <1>1, Counts DEF WindowInv, LogRests
<1>4. ClientKeys' \subseteq ClientKeys
  <2>1. RangeKeys(page.range)' = {}
    BY <1>2, NothingInFlight DEF RangeKeys
  <2>2. PageKeys' = {}
    BY <1>2, <2>1 DEF PageKeys
  <2>3. Shown' = Shown /\ RangeKeys(range)' = RangeKeys(range)
    BY <1>1, <1>3, WindowSame
  <2> QED BY <2>2, <2>3 DEF ClientKeys
<1>5. PageAnswer'
  BY <1>2 DEF PageAnswer
<1> QED BY <1>1, <1>2, <1>3, <1>4, <1>5, NothingInFlight, PageChanges

LEMMA ReceiveRowsKeeps ==
  ASSUME WindowInv, ReceiveRows
  PROVE  WindowInv'
<1>1. /\ WindowTypeOK /\ LogInv /\ FlightInv /\ RowsAnswer /\ PageAnswer
      /\ Len(commits) \in Nat /\ pull \in Request
  BY Counts DEF WindowInv, WindowTypeOK
<1>2. /\ pull.stage = "answered" /\ pull.kind \in {"subscribe", "reset"}
      /\ range' = pull.range /\ hasMore' = pull.hasMore /\ token' = pull.token
      /\ pull' = NoRequest /\ overtaken' = {} /\ jumps' = {}
      /\ narrowed' = (narrowed \/ Omits) /\ LogRests /\ page' = page
  BY DEF ReceiveRows, LogRests
<1>3. /\ OrderInv' /\ Pks(entries') = pull.pks /\ pull.pks \subseteq Result(pull.pos)
      /\ entries' \in Seq(Entry)
  BY <1>1, OrderAfterRows
<1>4. RowsInv' /\ AbsentInv'
  BY <1>1, RowsAfterRows, AbsentAfterRows
<1>5. LogInv' /\ PageAnswer' /\ PageKeys' = PageKeys
  BY <1>1, <1>2, LogKept, PageRests
<1>6. RowsAnswer' /\ EventsAnswer'
  BY <1>2 DEF RowsAnswer, EventsAnswer, NoRequest
<1>7. WindowTypeOK'
  <2>1. (narrowed \/ Omits) \in BOOLEAN
    BY <1>1 DEF WindowTypeOK
  <2>2. history' \in Seq(Content) /\ page' \in Request /\ pull' \in Request
    BY <1>1, <1>2, LogSame, NothingInFlight DEF WindowTypeOK
  <2> QED BY <1>1, <1>2, <1>3, <2>1, <2>2 DEF WindowTypeOK, Request, Entry
<1>8. ClientKeys' \subseteq Reached(Len(commits))
  <2>1. pull.pos \in Nat /\ pull.pos <= Len(commits) /\ pull.pks \in SUBSET Keys
    BY <1>1 DEF FlightInv, Request
  <2>2. pull.pks \subseteq Reached(pull.pos)
    BY <1>3, <2>1, ResultIsUsed, UsedIsReached
  <2>3. Reached(pull.pos) \subseteq Reached(Len(commits))
    BY <1>1, <2>1, ReachedGrows
  <2>4. RangeKeys(range)' \subseteq pull.pks
    <3>1. RangeKeys(range)' = RangeKeys(Bounds(pull.pks))
      BY <1>1, <1>2 DEF RowsAnswer, RangeKeys
    <3> QED BY <2>1, <3>1, BoundsAreKeys
  <2>5. PageKeys \subseteq Reached(Len(commits))
    BY <1>1 DEF FlightInv, ClientKeys
  <2>6. Shown' = pull.pks
    BY <1>3 DEF Shown
  <2> QED BY <1>5, <2>2, <2>3, <2>4, <2>5, <2>6 DEF ClientKeys
<1>9. FlightInv'
  <2>1. TokenOK(token)'
    BY <1>1, <1>2, LogSame DEF FlightInv, TokenOK, Current
  <2>2. TokenOK(pull.token)' /\ RangeKeys(pull.range)' = {}
    <3>1. pull'.token = NoToken /\ pull'.range = NoRange
      BY <1>2 DEF NoRequest
    <3> QED BY <1>5, <3>1, NothingInFlight, LogSame, <1>1, <1>2 DEF TokenOK, Current, RangeKeys
  <2>3. ClientKeys' \subseteq Reached(Len(commits))'
    BY <1>2, <1>8, LogSame DEF Reached, UsedBy, RowsAt
  <2>4. pull'.stage = "none" /\ pull'.kind = "pull" /\ pull'.pos = 0
    BY <1>2 DEF NoRequest
  <2> QED BY <1>1, <1>2, <2>1, <2>2, <2>3, <2>4, LogSame DEF FlightInv
<1> QED BY <1>3, <1>4, <1>5, <1>6, <1>7, <1>9 DEF WindowInv

\* The keys shown after a batch were shown before it, or the batch changed them.
LEMMA KeysAfterEvents ==
  ASSUME WindowTypeOK, LogInv, OrderInv, EventsAnswer, ReceiveEvents
  PROVE  /\ entries' \in Seq(Entry) /\ Pks(entries') \subseteq Keys
         /\ \A k \in Pks(entries') : k \in Shown \/ k \in Reached(Len(commits))
<1> DEFINE N == Len(commits) batch == pull.batch
<1>1. /\ entries' = ApplyBatch(batch)
      /\ \A i \in batch : i \in 1..N /\ Touches(i, Key(i))
  BY DEF ReceiveEvents, EventsAnswer
<1>2. N \in Nat
  BY Counts
<1>3. Distinct(entries) /\ Shown \subseteq Keys
  BY OrderIsDistinct
<1>4. PICK after : Replays(after, batch) /\ ApplyBatch(batch) = after[N]
  BY BatchSteps
<1> HIDE DEF batch
<1>5. after[N] \in Seq(Entry) /\ Pks(after[0]) = Shown
  <2>1. N \in 0..N
    BY <1>2
  <2>2. after[N] \in Seq(Entry)
    BY <1>3, <1>4, <2>1, ReplayRows
  <2>3. Pks(after[0]) = Shown
    BY <1>4 DEF Replays, Shown
  <2> QED BY <2>2, <2>3
<1>6. entries' \in Seq(Entry) /\ Pks(entries') = Pks(after[N])
  BY <1>1, <1>4, <1>5
<1>7. Pks(entries') \subseteq Keys
  <2>1. \A n \in DOMAIN entries' : entries'[n] \in Entry
    BY <1>6
  <2> QED BY <2>1 DEF Pks, Entry
<1>8. ASSUME NEW k \in Pks(entries'), k \notin Shown PROVE k \in Reached(N)
  <2>1. k \in Keys /\ k \in Pks(after[N]) /\ k \notin Pks(after[0])
    BY <1>5, <1>6, <1>7, <1>8
  <2>2. 0 \in 0..N /\ N \in 0..N
    BY <1>2
  <2>3. \E i \in (0 + 1)..N : i \in batch /\ Key(i) = k
    BY <1>3, <1>4, <2>1, <2>2, KeyRests
  <2>4. PICK i \in 1..N : i \in batch /\ Key(i) = k
    BY <2>3
  <2>5. Changes(i, k) /\ i \in Int /\ N \in Int /\ i <= N
    BY <1>1, <1>2, <2>4 DEF Touches
  <2>6. k \in Reached(i)
    BY <2>1, <2>4, <2>5, ChangedIsReached
  <2> QED BY <2>5, <2>6, ReachedGrows
<1> QED BY <1>6, <1>7, <1>8

LEMMA ReceiveEventsKeeps ==
  ASSUME WindowInv, ReceiveEvents
  PROVE  WindowInv'
<1>1. /\ WindowTypeOK /\ LogInv /\ FlightInv /\ EventsAnswer /\ PageAnswer /\ OrderInv
      /\ RowsInv /\ AbsentInv /\ Len(commits) \in Nat /\ pull \in Request
  BY Counts DEF WindowInv, WindowTypeOK
<1>2. /\ pull.stage = "answered" /\ pull.kind = "pull"
      /\ entries' = ApplyBatch(pull.batch) /\ jumps' = jumps \union Jumped(pull.batch)
      /\ range' = pull.range /\ token' = pull.token /\ pull' = NoRequest
      /\ overtaken' \subseteq overtaken /\ hasMore' = hasMore /\ narrowed' = narrowed
      /\ LogRests /\ page' = page
  BY DEF ReceiveEvents, LogRests
<1>3. /\ entries' \in Seq(Entry) /\ Pks(entries') \subseteq Keys
      /\ \A k \in Pks(entries') : k \in Shown \/ k \in Reached(Len(commits))
  BY <1>1, KeysAfterEvents
<1>4. OrderInv' /\ RowsInv' /\ AbsentInv'
  BY <1>1, OrderAfterEvents, RowsAfterEvents, AbsentAfterEvents
<1>5. LogInv' /\ PageAnswer' /\ PageKeys' = PageKeys
  BY <1>1, <1>2, LogKept, PageRests
<1>6. RowsAnswer' /\ EventsAnswer'
  BY <1>2 DEF RowsAnswer, EventsAnswer, NoRequest
<1>7. WindowTypeOK'
  <2>1. jumps' \subseteq Keys
    BY <1>1, <1>2, <1>3 DEF Jumped, WindowTypeOK
  <2>2. history' \in Seq(Content) /\ page' \in Request /\ pull' \in Request
    BY <1>1, <1>2, LogSame, NothingInFlight DEF WindowTypeOK
  <2> QED BY <1>1, <1>2, <1>3, <2>1, <2>2 DEF WindowTypeOK, Request, Entry
<1>8. ClientKeys' \subseteq Reached(Len(commits))
  <2>1. /\ Shown \subseteq Reached(Len(commits)) /\ PageKeys \subseteq Reached(Len(commits))
        /\ RangeKeys(pull.range) \subseteq Reached(Len(commits))
    BY <1>1, <1>2 DEF FlightInv, ClientKeys
  <2>2. RangeKeys(range)' = RangeKeys(pull.range)
    BY <1>2 DEF RangeKeys
  <2>3. Shown' \subseteq Reached(Len(commits))
    BY <1>3, <2>1 DEF Shown
  <2> QED BY <1>5, <2>1, <2>2, <2>3 DEF ClientKeys
<1>9. FlightInv'
  <2>1. TokenOK(token)'
    BY <1>1, <1>2, LogSame DEF FlightInv, TokenOK, Current
  <2>2. TokenOK(pull.token)' /\ RangeKeys(pull.range)' = {}
    <3>1. pull'.token = NoToken /\ pull'.range = NoRange
      BY <1>2 DEF NoRequest
    <3> QED BY <1>5, <3>1, NothingInFlight, LogSame, <1>1, <1>2 DEF TokenOK, Current, RangeKeys
  <2>3. ClientKeys' \subseteq Reached(Len(commits))'
    BY <1>2, <1>8, LogSame DEF Reached, UsedBy, RowsAt
  <2>4. pull'.stage = "none" /\ pull'.kind = "pull" /\ pull'.pos = 0
    BY <1>2 DEF NoRequest
  <2> QED BY <1>1, <1>2, <2>1, <2>2, <2>3, <2>4, LogSame DEF FlightInv
<1> QED BY <1>4, <1>5, <1>6, <1>7, <1>9 DEF WindowInv

LEMMA ReceivePageKeeps ==
  ASSUME WindowInv, ReceivePage
  PROVE  WindowInv'
<1>1. /\ WindowTypeOK /\ LogInv /\ FlightInv /\ RowsAnswer /\ EventsAnswer /\ PageAnswer
      /\ OrderInv /\ RowsInv /\ AbsentInv /\ Len(commits) \in Nat /\ page \in Request
  BY Counts DEF WindowInv, WindowTypeOK
<1>2. /\ page.stage = "answered"
      /\ overtaken' = overtaken \union ({Key(i) : i \in Missed(page.pos)} \ Shown)
      /\ jumps' \subseteq jumps \union page.pks
      /\ range' = page.range /\ hasMore' = page.hasMore /\ page' = NoRequest
      /\ narrowed' = (narrowed \/ page.cursor \notin Shown)
      /\ LogRests /\ token' = token /\ pull' = pull
  BY DEF ReceivePage, LogRests
<1>3. OrderInv' /\ entries' \in Seq(Entry) /\ Shown' = Shown \union page.pks
  BY <1>1, OrderAfterPage DEF Shown
<1>4. RowsInv' /\ AbsentInv'
  BY <1>1, RowsAfterPage, AbsentAfterPage
<1>5. LogInv'
  BY <1>1, <1>2, LogKept
<1>6. PageAnswer' /\ RangeKeys(page.range)' = {} /\ PageKeys' = {}
  <2>1. page'.stage = "none" /\ page'.range = NoRange /\ page'.pks = {} /\ page'.cursor = NoPk
    BY <1>2 DEF NoRequest
  <2>2. RangeKeys(page.range)' = {}
    BY <2>1, NothingInFlight DEF RangeKeys
  <2> QED BY <2>1, <2>2 DEF PageAnswer, PageKeys
<1>7. ClientKeys' \subseteq ClientKeys
  <2>1. RangeKeys(range)' = RangeKeys(page.range)
    BY <1>2 DEF RangeKeys
  <2> QED BY <1>3, <1>6, <2>1 DEF ClientKeys, PageKeys
<1>8. RowsAnswer' /\ EventsAnswer'
  BY <1>1, <1>2, <1>7, AnswersRest
<1>9. WindowTypeOK'
  <2>1. overtaken' \subseteq Keys
    <3>1. \A i \in Missed(page.pos) : i \in 1..Len(commits)
      BY <1>1 DEF Missed, Request
    <3>2. \A i \in Missed(page.pos) : Key(i) \in Keys
      BY <1>1, <3>1, OneKey
    <3> QED BY <1>1, <1>2, <3>2 DEF WindowTypeOK
  <2>2. jumps' \subseteq Keys
    BY <1>1, <1>2 DEF WindowTypeOK, Request
  <2>3. history' \in Seq(Content) /\ page' \in Request /\ pull' \in Request /\ narrowed' \in BOOLEAN
    BY <1>1, <1>2, LogSame, NothingInFlight DEF WindowTypeOK
  <2> QED BY <1>1, <1>2, <1>3, <2>1, <2>2, <2>3 DEF WindowTypeOK, Request, Entry
<1>10. FlightInv'
  <2>1. TokenOK(token)' /\ TokenOK(pull.token)'
    BY <1>1, <1>2, LogSame DEF FlightInv, TokenOK, Current
  <2>2. ClientKeys' \subseteq Reached(Len(commits))'
    BY <1>1, <1>2, <1>7, LogSame DEF FlightInv, Reached, UsedBy, RowsAt
  <2>3. (pull.kind = "pull" => RangeKeys(pull.range) \subseteq Reached(Len(commits)))'
    BY <1>1, <1>2, LogSame DEF FlightInv, Reached, UsedBy, RowsAt, RangeKeys
  <2>4. page'.stage = "none" /\ page'.pos = 0
    BY <1>2 DEF NoRequest
  <2> QED BY <1>1, <1>2, <2>1, <2>2, <2>3, <2>4, LogSame DEF FlightInv
<1> QED BY <1>3, <1>4, <1>5, <1>6, <1>8, <1>9, <1>10 DEF WindowInv

LEMMA WindowStarts ==
  ASSUME WindowInit
  PROVE  WindowInv
<1>1. /\ commits = <<>> /\ covered = {} /\ history = <<Initial>>
      /\ log = [t \in Tables |-> {}] /\ generation = [t \in Tables |-> 0]
      /\ entries = <<>> /\ range = NoRange /\ hasMore = FALSE /\ token = NoToken
      /\ pull = NoRequest /\ page = NoRequest /\ overtaken = {} /\ jumps = {} /\ narrowed = FALSE
  BY DEF WindowInit, Init
<1>2. Len(commits) = 0 /\ Len(history) = 1
  BY <1>1
<1>3. WindowTypeOK
  <2>1. Initial \in Content
    BY WindowAssumption DEF Content
  <2>2. history \in Seq(Content) /\ entries \in Seq([pk : Keys, row : Values])
    BY <1>1, <2>1
  <2> QED BY <1>1, <2>2, NothingInFlight DEF WindowTypeOK
<1>4. LogInv
  <2>1. commits \in Seq({{Source}}) /\ \E c \in 0..Len(commits) : covered = 1..c
    <3>1. 0 \in 0..0 /\ covered = 1..0
      BY <1>1
    <3> QED BY <1>1, <1>2, <3>1
  <2>2. log[Source] = {}
    BY <1>1, WindowAssumption
  <2>3. log \in [Tables -> SUBSET covered] /\ generation \in [Tables -> Nat]
    BY <1>1
  <2> QED BY <1>1, <1>2, <2>1, <2>2, <2>3 DEF LogInv
<1>5. ~Current(token)
  BY <1>1, <1>4, NothingInFlight
<1>6. FlightInv
  <2>1. TokenOK(token) /\ TokenOK(pull.token)
    BY <1>1, <1>4, NothingInFlight DEF NoRequest
  <2>2. RangeKeys(range) = {} /\ RangeKeys(pull.range) = {} /\ RangeKeys(page.range) = {}
    BY <1>1, NothingInFlight DEF NoRequest
  <2>3. Shown = {}
    BY <1>1 DEF Shown, Pks
  <2>4. ClientKeys = {}
    BY <1>1, <2>2, <2>3 DEF ClientKeys, PageKeys, NoRequest
  <2> QED BY <1>1, <1>2, <2>1, <2>2, <2>4 DEF FlightInv, NoRequest
<1>7. RowsAnswer /\ EventsAnswer /\ PageAnswer
  BY <1>1 DEF RowsAnswer, EventsAnswer, PageAnswer, NoRequest
<1>8. OrderInv
  BY <1>1 DEF OrderInv
<1>9. RowsInv /\ AbsentInv
  BY <1>5 DEF RowsInv, AbsentInv
<1> QED BY <1>3, <1>4, <1>6, <1>7, <1>8, <1>9 DEF WindowInv

LEMMA WindowKept ==
  ASSUME WindowInv, [WindowNext]_allVars
  PROVE  WindowInv'
<1>1. CASE WindowNext
  BY <1>1, WindowSteps, LogStepKeeps, SubscribeKeeps, PollKeeps, LoadMoreKeeps,
     HandleSubscribeKeeps, HandlePullKeeps, HandleLoadMoreKeeps, ReceiveRowsKeeps,
     ReceiveEventsKeeps, ReceivePageKeeps, PullFailsKeeps, PageFailsKeeps
<1>2. CASE UNCHANGED allVars
  <2>1. UNCHANGED <<vars, history, window, page>> /\ pull' = pull /\ LogRests
    BY <1>2 DEF allVars, LogRests
  <2>2. /\ WindowTypeOK /\ FlightInv /\ LogInv /\ RowsAnswer /\ EventsAnswer /\ PageAnswer
        /\ AbsentInv /\ pull \in Request
    BY DEF WindowInv, WindowTypeOK
  <2>3. ClientKeys' = ClientKeys /\ token' = token
    BY <2>1, <2>2, PageRests DEF window
  <2>4. RowsAnswer' /\ EventsAnswer' /\ AbsentInv'
    BY <2>1, <2>2, <2>3, AnswersRest, AbsentRests
  <2> QED BY <2>1, <2>2, <2>4, PullChanges DEF FlightInv
<1> QED BY <1>1, <1>2

(***************************************************************************)
(* The theorems.                                                           *)
(***************************************************************************)
\* The invariant behind the window's properties: rows loaded and rows absent are
\* accounted for by what the cursor has still to read (client/pulse-query.ts,
\* shared/ranged-merge-core.ts and server/sdk.ts together).
THEOREM WindowInvariant == WindowSpec => []WindowInv
<1> QED BY WindowStarts, WindowKept, PTL DEF WindowSpec

\* Rows, ranges, tokens and requests keep to their types for every table, key
\* set, limit and length of the history.
THEOREM WindowTypeCorrect == WindowSpec => []WindowTypeOK
<1>1. WindowInv => WindowTypeOK
  BY DEF WindowInv
<1> QED BY <1>1, WindowInvariant, PTL

\* What is left to read changes no result.
LEMMA SettledIsQuiet ==
  ASSUME WindowInv, Settled
  PROVE  /\ Current(token)
         /\ \A k \in Keys, i \in 1..Len(commits) : Pending(i, token) => ~Touches(i, k)
<1>1. WindowTypeOK /\ LogInv
  BY DEF WindowInv
<1>2. Current(token) /\ covered = 1..Len(commits) /\ Delivered(token.snapshot) = {}
  BY DEF Settled, Current
<1>3. ASSUME NEW k \in Keys, NEW i \in 1..Len(commits), Pending(i, token), Touches(i, k)
      PROVE  FALSE
  <2>1. i \in log[Source] /\ i > token.snapshot
    BY <1>2, <1>3 DEF Pending
  <2>2. k = Key(i)
    BY <1>1, <1>3, OneKey DEF Touches
  <2>3. {RowsAt(i)[Key(i)], RowsAt(i - 1)[Key(i)]} \cap Matching # {}
    BY <1>3, <2>2 DEF Touches
  <2> QED BY <1>2, <2>1, <2>3 DEF Delivered
<1> QED BY <1>2, <1>3

\* Nothing left to read changes a loaded row, so it is the row of the table.
LEMMA SettledRows ==
  ASSUME WindowInv, Settled, NEW n \in DOMAIN entries, Follows(entries[n])
  PROVE  entries[n].row = RowsNow[entries[n].pk] /\ entries[n].row \in Matching
<1> DEFINE N == Len(commits) k == entries[n].pk
<1>1. WindowTypeOK /\ LogInv /\ N \in Nat /\ Len(history) = N + 1
  BY Counts DEF WindowInv
<1>2. k \in Keys
  <2>1. entries \in Seq(Entry)
    BY <1>1, OrderIsDistinct DEF WindowInv
  <2>2. entries[n] \in Entry
    BY <2>1
  <2> QED BY <2>2 DEF Entry
<1>3. PICK p \in 0..N :
        /\ entries[n].row = RowsAt(p)[k] /\ entries[n].row \in Matching
        /\ \A i \in (p + 1)..N : Changes(i, k) => Pending(i, token)
  BY DEF Follows
<1> HIDE DEF k
<1>4. \A i \in (p + 1)..N : ~Changes(i, k)
  <2> SUFFICES ASSUME NEW i \in (p + 1)..N, Changes(i, k) PROVE FALSE
    OBVIOUS
  <2>1. PICK j \in (p + 1)..i : Changes(j, k) /\ RowsAt(j - 1)[k] = RowsAt(p)[k]
    BY <1>1, <1>2, FirstChange
  <2>2. j \in (p + 1)..N /\ j \in 1..N
    BY <1>1
  <2>3. Touches(j, k)
    BY <1>3, <2>1 DEF Touches
  <2> QED BY <1>2, <1>3, <2>1, <2>2, <2>3, SettledIsQuiet
<1>5. N \in p..N
  BY <1>1
<1>6. RowsAt(N)[k] = RowsAt(p)[k]
  BY <1>1, <1>2, <1>4, <1>5, StaysSame
<1>7. RowsNow = RowsAt(N)
  BY <1>1 DEF RowsNow, RowsAt
<1> QED BY <1>3, <1>6, <1>7 DEF k

\* An absent row is not in the result.
LEMMA SettledAbsent ==
  ASSUME WindowInv, Settled, NEW k \in Keys, NEW ground, Absent(k, ground)
  PROVE  k \notin Result(Now)
<1> DEFINE N == Len(commits)
<1>1. WindowTypeOK /\ LogInv /\ N \in Nat
  BY Counts DEF WindowInv
<1>2. PICK p \in 0..N :
        /\ RowsAt(p)[k] \notin Matching
        /\ \A i \in (p + 1)..N : Changes(i, k) => Pending(i, token)
  BY DEF Absent
<1>3. \A i \in (p + 1)..N : ~Touches(i, k)
  <2> SUFFICES ASSUME NEW i \in (p + 1)..N, Touches(i, k) PROVE FALSE
    OBVIOUS
  <2>1. Pending(i, token) /\ i \in 1..N
    BY <1>1, <1>2 DEF Touches
  <2> QED BY <2>1, SettledIsQuiet
<1>4. N \in p..N
  BY <1>1
<1>5. RowsAt(N)[k] \notin Matching
  BY <1>1, <1>2, <1>3, <1>4, StaysOut
<1> QED BY <1>5 DEF Result, Now

\* Why a settled client does not show a row of the result.
LEMMA SettledReasons ==
  ASSUME WindowInv, Settled, NEW k \in Result(Now) \ Shown
  PROVE  Late(k) \/ Behind(k) \/ Passed(k)
<1>1. AbsentInv /\ Current(token) /\ k \in Keys
  BY SettledIsQuiet DEF WindowInv, Result
<1>2. \E ground \in 0..Len(commits) : Late(k) \/ Absent(k, ground) \/ Behind(k) \/ Passed(k)
  BY <1>1 DEF AbsentInv
<1> QED BY <1>1, <1>2, SettledAbsent

\* A settled client shows no row that is gone and no row's old content, but where
\* an older page was appended over the cursor: appendRows beside applyEvents and
\* rebuildFromRows, whatever the order of answers, losses and restarts.
THEOREM CurrentRows == WindowSpec => []RowsAreCurrent
<1>1. ASSUME WindowInv PROVE RowsAreCurrent
  <2> SUFFICES ASSUME Settled, NEW n \in DOMAIN entries, entries[n].pk \notin overtaken
               PROVE  entries[n].row = RowsNow[entries[n].pk] /\ entries[n].row \in Matching
    BY DEF RowsAreCurrent
  <2>1. Follows(entries[n])
    BY <1>1, SettledIsQuiet DEF WindowInv, RowsInv
  <2> QED BY <1>1, <2>1, SettledRows
<1> QED BY <1>1, WindowInvariant, PTL

\* A settled client's window has no gap but those that the gate of isInsertPrepend,
\* an update from outside and an overtaken page explain.
THEOREM ContiguousWindow == WindowSpec => []WindowIsContiguous
<1>1. ASSUME WindowInv PROVE WindowIsContiguous
  <2> SUFFICES ASSUME Settled, NEW j \in Shown, NEW k \in Result(Now) \ Shown, Ahead(k, j)
               PROVE  \/ Late(k) \/ k \in overtaken
                      \/ \E g \in jumps : Ahead(k, g) /\ (g = j \/ Ahead(g, j))
    BY DEF WindowIsContiguous
  <2>1. Late(k) \/ Behind(k) \/ Passed(k)
    BY <1>1, SettledReasons
  <2> QED BY <2>1 DEF Behind, Passed, Excused
<1> QED BY <1>1, WindowInvariant, PTL

\* "No more to load" is true of a settled client: the look-ahead of one row in
\* subscribe and loadMore, and the flag a reset returns.
THEOREM CompleteWindow == WindowSpec => []NoMoreMeansAll
<1>1. ASSUME WindowInv PROVE NoMoreMeansAll
  <2> SUFFICES ASSUME Settled, ~hasMore, ~narrowed, NEW k \in Result(Now) \ Shown
               PROVE  Late(k) \/ k \in overtaken \/ \E g \in jumps : Ahead(k, g)
    BY DEF NoMoreMeansAll
  <2>1. Late(k) \/ Behind(k) \/ Passed(k)
    BY <1>1, SettledReasons
  <2> QED BY <2>1 DEF Behind, Passed
<1> QED BY <1>1, WindowInvariant, PTL

\* insertSorted and appendRows never show a row twice, and keep the query's order
\* around the rows that have not jumped.
THEOREM OrderedOnce == WindowSpec => []EachRowOnceInOrder
<1>1. ASSUME WindowInv PROVE EachRowOnceInOrder
  BY <1>1 DEF WindowInv, OrderInv, EachRowOnceInOrder
<1> QED BY <1>1, WindowInvariant, PTL

\* pk-utils.ts:34: a row ahead of everything loaded so far is shown by a settled
\* client, however far the boundaries of its range lag.
THEOREM ShownPrepends == WindowSpec => []PrependsAreShown
<1>1. ASSUME WindowInv PROVE PrependsAreShown
  <2> SUFFICES ASSUME Settled, NEW k \in Result(Now) \ Shown,
                      \A l \in Keys \ {k} : Used(l) => Ahead(k, l)
               PROVE  Late(k)
    BY DEF PrependsAreShown
  <2>1. Late(k) \/ NotForemost(k)
    BY <1>1, SettledReasons DEF Behind, Passed
  <2>2. ASSUME NotForemost(k) PROVE FALSE
    <3>1. PICK l \in UsedBy(Len(commits)) : Ahead(l, k)
      BY <2>2 DEF NotForemost
    <3>2. k \in Keys /\ l \in Keys
      BY DEF Result, UsedBy
    <3>3. PICK j \in 0..Len(commits) : RowsAt(j)[l] # NoRow
      BY DEF UsedBy
    <3>4. Len(commits) \in Nat /\ Len(history) = Len(commits) + 1 /\ history \in Seq(Content)
      BY <1>1, Counts DEF WindowInv, WindowTypeOK
    <3>5. j + 1 \in DOMAIN history /\ history[j + 1][l] # NoRow
      BY <3>3, <3>4 DEF RowsAt
    <3>6. Used(l)
      BY <3>5 DEF Used
    <3>7. ~Ahead(k, l) /\ l # k
      BY <3>1, <3>2, AheadOrder, KeysAreNumbers
    <3> QED BY <3>2, <3>6, <3>7
  <2> QED BY <2>1, <2>2
<1> QED BY <1>1, WindowInvariant, PTL
=============================================================================
