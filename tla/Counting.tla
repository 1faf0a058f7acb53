------------------------------ MODULE Counting ------------------------------
(***************************************************************************)
(* What the proofs about pages and truncated graphs use of finite sets: in *)
(* a total order every element has a rank of its own, so a window of ranks *)
(* holds as many elements as it is wide.  And the least number principle,  *)
(* stated for sets, with what follows from it: induction over numbers by   *)
(* the least counterexample, and that a recursive function along a tree    *)
(* exists.                                                                 *)
(***************************************************************************)
EXTENDS Integers, FiniteSets, Functions, FiniteSetTheorems, TLAPS

\* before[x] is what comes before x in a strict total order of S.
Ordered(S, before) ==
    /\ before \in [S -> SUBSET S]
    /\ \A x \in S : x \notin before[x]
    /\ \A x, y \in S : x \in before[y] => before[x] \subseteq before[y]
    /\ \A x, y \in S : x # y => x \in before[y] \/ y \in before[x]

Rank(before) == [x \in DOMAIN before |-> Cardinality(before[x])]

\* Those whose rank is in lo .. hi - 1.
RankedIn(before, lo, hi) == {x \in DOMAIN before : lo <= Rank(before)[x] /\ Rank(before)[x] < hi}
-----------------------------------------------------------------------------
\* A set of numbers has a least one.
LEMMA LeastNumber == ASSUME NEW T \in SUBSET Nat, T # {} PROVE \E m \in T : \A k \in T : m <= k
<1>1. IsWellFoundedOn(OpToRel(<, Nat), Nat)
  BY NatLessThanWellFounded, Zenon
<1>2. PICK m \in T : \A k \in T : ~(<<k, m>> \in OpToRel(<, Nat))
  BY <1>1, WFMin, Zenon
<1>3. \A k \in T : ~(k < m)
  BY <1>2, Zenon DEF OpToRel
<1> QED BY <1>3

\* A bounded set of numbers has a greatest one.
LEMMA GreatestNumber ==
    ASSUME NEW T \in SUBSET Nat, T # {}, NEW top \in Nat, \A k \in T : k <= top
    PROVE  \E m \in T : \A k \in T : k <= m
<1> DEFINE D == {d \in Nat : \E k \in T : k + d = top}
<1>1. D \in SUBSET Nat /\ D # {}
  <2>1. PICK k \in T : TRUE
    OBVIOUS
  <2>2. top - k \in Nat /\ k + (top - k) = top
    BY <2>1
  <2> QED BY <2>1, <2>2
<1>2. PICK d \in D : \A e \in D : d <= e
  <2> HIDE DEF D
  <2> QED BY <1>1, LeastNumber
<1>3. PICK m \in T : m + d = top
  BY <1>2
<1>4. ASSUME NEW k \in T PROVE k <= m
  <2>1. top - k \in D
    BY <1>4
  <2>2. d <= top - k
    BY <1>2, <2>1
  <2> QED BY <1>2, <1>3, <2>2
<1> QED BY <1>3, <1>4

\* So has a set of integers that is bounded.
LEMMA GreatestInteger ==
    ASSUME NEW T \in SUBSET Int, T # {}, NEW top \in Int, \A k \in T : k <= top
    PROVE  \E m \in T : \A k \in T : k <= m
<1> DEFINE D == {d \in Nat : top - d \in T}
<1>1. D \in SUBSET Nat /\ D # {}
  <2>1. PICK k \in T : TRUE
    OBVIOUS
  <2>2. top - k \in Nat /\ top - (top - k) = k
    BY <2>1
  <2> QED BY <2>1, <2>2
<1>2. PICK d \in D : \A e \in D : d <= e
  <2> HIDE DEF D
  <2> QED BY <1>1, LeastNumber
<1>3. ASSUME NEW k \in T PROVE k <= top - d
  <2>1. top - k \in D
    <3>1. top - k \in Nat /\ top - (top - k) = k
      BY <1>3
    <3> QED BY <1>3, <3>1
  <2>2. d <= top - k /\ d \in Int
    BY <1>2, <2>1
  <2> QED BY <1>3, <2>2
<1> QED BY <1>2, <1>3

\* Induction over the numbers up to n, for the set where a statement holds.
LEMMA UpTo ==
    ASSUME NEW n \in Nat, NEW T, 0 \in T, \A i \in 1 .. n : i - 1 \in T => i \in T
    PROVE  \A i \in 0 .. n : i \in T
<1> DEFINE F == (0 .. n) \ T
<1>1. CASE F # {}
  <2>1. PICK m \in F : \A k \in F : m <= k
    <3>1. F \in SUBSET Nat
      OBVIOUS
    <3> HIDE DEF F
    <3> QED BY <1>1, <3>1, LeastNumber
  <2>2. m \in 1 .. n /\ m - 1 \in 0 .. n /\ ~(m <= m - 1)
    BY <2>1
  <2>3. m - 1 \in T
    BY <2>1, <2>2
  <2> QED BY <2>1, <2>2, <2>3
<1>2. CASE F = {}
  BY <1>2
<1> QED BY <1>1, <1>2

Iterates(f, n, base, step) ==
    f = [i \in 0 .. n |-> IF i = 0 THEN base ELSE step[i][f[i - 1]]]

\* A function that goes step by step from a first value, within a set, exists.
LEMMA Iteration ==
    ASSUME NEW n \in Nat, NEW S, NEW base \in S, NEW step \in [1 .. n -> [S -> S]]
    PROVE  \E f \in [0 .. n -> S] : Iterates(f, n, base, step)
<1> DEFINE T == {m \in 0 .. n : \E f \in [0 .. m -> S] : Iterates(f, m, base, step)}
<1>1. 0 \in T
  <2>1. Iterates([i \in 0 .. 0 |-> base], 0, base, step)
    BY DEF Iterates
  <2> QED BY <2>1
<1>2. ASSUME NEW m \in 1 .. n, m - 1 \in T PROVE m \in T
  <2>1. PICK h \in [0 .. m - 1 -> S] : Iterates(h, m - 1, base, step)
    BY <1>2
  <2> DEFINE f == [i \in 0 .. m |-> IF i = 0 THEN base ELSE step[i][h[i - 1]]]
  <2>2. ASSUME NEW k \in 0 .. m - 1 PROVE f[k] = h[k]
    <3>1. k \in 0 .. m
      BY <1>2
    <3> QED BY <2>1, <3>1, Zenon DEF Iterates
  <2>3. \A k \in 0 .. m : k # 0 => f[k - 1] = h[k - 1]
    <3>1. \A k \in 0 .. m : k # 0 => k - 1 \in 0 .. m - 1
      BY <1>2
    <3> QED BY <2>2, <3>1, Zenon
  <2>4. f \in [0 .. m -> S]
    <3>1. \A k \in 0 .. m : k # 0 => k \in 1 .. n /\ h[k - 1] \in S
      BY <1>2, <2>1
    <3>2. \A k \in 0 .. m : k # 0 => step[k][h[k - 1]] \in S
      BY <3>1
    <3> QED BY <3>2
  <2>5. \A k \in 0 .. m : f[k] = IF k = 0 THEN base ELSE step[k][f[k - 1]]
    BY <2>3, Zenon
  <2>6. f = [k \in 0 .. m |-> f[k]]
    BY Zenon
  <2> HIDE DEF f
  <2>7. f = [k \in 0 .. m |-> IF k = 0 THEN base ELSE step[k][f[k - 1]]]
    BY <2>5, <2>6
  <2>8. Iterates(f, m, base, step)
    BY <2>7, Zenon DEF Iterates
  <2>9. m \in 0 .. n
    OBVIOUS
  <2> QED BY <2>4, <2>8, <2>9, Zenon
<1>3. \A i \in 0 .. n : i \in T
  <2> HIDE DEF T
  <2> QED BY <1>1, <1>2, UpTo
<1>4. n \in T
  <2> HIDE DEF T
  <2> QED BY <1>3
<1> QED BY <1>4

\* Finitely many finite sets have a finite union.
LEMMA FiniteUnion ==
    ASSUME NEW S, IsFiniteSet(S), \A s \in S : IsFiniteSet(s)
    PROVE  IsFiniteSet(UNION S)
<1> DEFINE Large(U, m) == IsFiniteSet(U) /\ Cardinality(U) = m /\ ~IsFiniteSet(UNION U)
           T == {m \in Nat : \E U \in SUBSET S : Large(U, m)}
<1>1. CASE T # {}
  <2>1. PICK m \in T : \A k \in T : m <= k
    <3>1. T \in SUBSET Nat
      OBVIOUS
    <3> HIDE DEF T
    <3> QED BY <1>1, <3>1, LeastNumber
  <2>2. PICK U \in SUBSET S : Large(U, m)
    BY <2>1
  <2>3. PICK x \in U : TRUE
    <3>1. CASE U = {}
      <4>1. UNION U = {}
        BY <3>1
      <4> QED BY <2>2, <4>1, FS_EmptySet
    <3> QED BY <3>1
  <2> DEFINE V == U \ {x}
  <2>4. IsFiniteSet(V) /\ Cardinality(V) = m - 1
    BY <2>2, <2>3, FS_RemoveElement
  <2>5. m - 1 \notin T /\ m - 1 \in Nat
    <3>1. Cardinality(V) \in Nat
      BY <2>4, FS_CardinalityType
    <3>2. m - 1 \in Nat /\ m \in Nat /\ ~(m <= m - 1)
      BY <2>1, <2>4, <3>1
    <3> QED BY <2>1, <3>2
  <2>6. IsFiniteSet(UNION V)
    BY <2>4, <2>5
  <2>7. UNION U = (UNION V) \cup x
    BY <2>3
  <2>8. IsFiniteSet(UNION U)
    <3>1. IsFiniteSet(x)
      BY <2>3
    <3>2. IsFiniteSet((UNION V) \cup x)
      BY <2>6, <3>1, FS_Union
    <3> QED BY <2>7, <3>2
  <2> QED BY <2>2, <2>8
<1>2. CASE T = {}
  <2>1. Cardinality(S) \in Nat
    BY FS_CardinalityType
  <2> QED BY <1>2, <2>1
<1> QED BY <1>1, <1>2

Climbs(f, n, up, stop, val) ==
    f = [k \in 0 .. n |-> IF k \in stop THEN val[k] ELSE f[up[k]]]

\* A function that follows up towards 0 until it stops has a
\* solution.
LEMMA Climb ==
    ASSUME NEW n \in Nat, NEW up, NEW stop, NEW val,
           \A k \in (0 .. n) \ stop : up[k] \in Nat /\ up[k] < k
    PROVE  \E f : Climbs(f, n, up, stop, val)
<1> USE DEF Climbs
<1> DEFINE Solves(f, m) == Climbs(f, m, up, stop, val)
           T == {m \in 0 .. n : ~ \E f : Solves(f, m)}
<1>1. CASE T = {}
  BY <1>1
<1>2. CASE T # {}
  <2>1. PICK m \in T : \A k \in T : m <= k
    <3>1. T \in SUBSET Nat
      OBVIOUS
    <3> HIDE DEF T
    <3> QED BY <1>2, <3>1, LeastNumber
  <2> DEFINE g(h) == [k \in 0 .. m |-> IF k \in stop THEN val[k] ELSE h[up[k]]]
  <2>2. CASE m = 0
    <3>1. Solves([k \in 0 .. 0 |-> val[k]], 0)
      OBVIOUS
    <3> QED BY <3>1, <2>1, <2>2
  <2>3. CASE m # 0
    <3>1. m - 1 \in 0 .. n /\ m - 1 \notin T
      BY <2>1, <2>3
    <3>2. PICK h : Solves(h, m - 1)
      BY <3>1
    <3> DEFINE f == g(h)
    <3>3. ASSUME NEW k \in 0 .. m, k \notin stop PROVE f[up[k]] = h[up[k]]
      <4>1. up[k] \in 0 .. m - 1
        BY <3>3, <2>1
      <4>2. h[up[k]] = IF up[k] \in stop THEN val[up[k]] ELSE h[up[up[k]]]
        BY <3>2, <4>1
      <4> QED BY <4>1, <4>2, <2>1
    <3>4. Solves(f, m)
      BY <3>3
    <3> QED BY <3>4, <2>1
  <2> QED BY <2>2, <2>3
<1> QED BY <1>1, <1>2

\* What comes before has the smaller rank.
LEMMA RankMonotone ==
    ASSUME NEW S, IsFiniteSet(S), NEW before, Ordered(S, before), NEW x \in S, NEW y \in S
    PROVE  x \in before[y] <=> Rank(before)[x] < Rank(before)[y]
<1>1. \A z \in S : before[z] \in SUBSET S /\ Rank(before)[z] = Cardinality(before[z])
  BY DEF Ordered, Rank
<1>2. \A z \in S : IsFiniteSet(before[z]) /\ Rank(before)[z] \in Nat
  BY <1>1, FS_Subset, FS_CardinalityType
<1>3. ASSUME NEW u \in S, NEW v \in S, u \in before[v]
      PROVE  Rank(before)[u] < Rank(before)[v]
  <2>1. before[u] \in SUBSET before[v] /\ before[u] # before[v]
    BY <1>3 DEF Ordered
  <2>2. /\ Cardinality(before[u]) <= Cardinality(before[v])
        /\ Cardinality(before[v]) = Cardinality(before[u]) => before[v] = before[u]
    BY <1>2, <2>1, FS_Subset
  <2> QED BY <1>1, <1>2, <2>1, <2>2
<1>4. x = y \/ x \in before[y] \/ y \in before[x]
  BY DEF Ordered
<1> QED BY <1>2, <1>3, <1>4

\* No two elements have the same rank, and every number below the size of the
\* set is the rank of one.
LEMMA RankBijection ==
    ASSUME NEW S, IsFiniteSet(S), NEW before, Ordered(S, before)
    PROVE  /\ Cardinality(S) \in Nat
           /\ Rank(before) \in Bijection(S, 0 .. Cardinality(S) - 1)
<1> DEFINE n == Cardinality(S)
           rank == Rank(before)
<1>1. n \in Nat
  BY FS_CardinalityType
<1>2. DOMAIN before = S /\ \A x \in S : before[x] \in SUBSET S /\ rank[x] = Cardinality(before[x])
  BY DEF Ordered, Rank
<1>3. \A x \in S : IsFiniteSet(before[x]) /\ Cardinality(before[x]) \in Nat
  BY <1>2, FS_Subset, FS_CardinalityType
<1>4. ASSUME NEW x \in S PROVE rank[x] \in 0 .. n - 1
  <2>1. Cardinality(before[x]) <= n /\ (n = Cardinality(before[x]) => S = before[x])
    BY <1>2, FS_Subset
  <2>2. S # before[x]
    BY DEF Ordered
  <2> QED BY <1>1, <1>2, <1>3, <2>1, <2>2
<1>5. ASSUME NEW x \in S, NEW y \in S, x \in before[y] PROVE rank[x] < rank[y]
  <2>1. before[x] \in SUBSET before[y] /\ before[x] # before[y]
    BY <1>5 DEF Ordered
  <2>2. /\ Cardinality(before[x]) <= Cardinality(before[y])
        /\ Cardinality(before[y]) = Cardinality(before[x]) => before[y] = before[x]
    BY <1>3, <2>1, FS_Subset
  <2> QED BY <1>2, <1>3, <2>1, <2>2
<1>6. \A x, y \in S : rank[x] = rank[y] => x = y
  <2> SUFFICES ASSUME NEW x \in S, NEW y \in S, x # y PROVE rank[x] # rank[y]
    OBVIOUS
  <2>1. x \in before[y] \/ y \in before[x]
    BY DEF Ordered
  <2>2. rank[x] < rank[y] \/ rank[y] < rank[x]
    BY <1>5, <2>1
  <2> QED BY <1>4, <2>2
<1>7. rank \in [S -> 0 .. n - 1]
  BY <1>2, <1>4 DEF Rank
<1> HIDE DEF rank
<1>8. rank \in Injection(S, 0 .. n - 1)
  BY <1>6, <1>7 DEF Injection, IsInjective
<1>9. IsFiniteSet(0 .. n - 1) /\ Cardinality(0 .. n - 1) = n
  BY <1>1, FS_Interval
<1>10. rank \in Surjection(S, 0 .. n - 1)
  BY <1>8, <1>9, FS_Injection
<1> QED BY <1>1, <1>8, <1>10 DEF Bijection, rank

\* The size of a window of ranks.
LEMMA WindowSize ==
    ASSUME NEW S, IsFiniteSet(S), NEW before, Ordered(S, before),
           NEW lo \in Nat, NEW hi \in Nat, lo <= hi
    PROVE  /\ IsFiniteSet(RankedIn(before, lo, hi))
           /\ hi <= Cardinality(S) => Cardinality(RankedIn(before, lo, hi)) = hi - lo
           /\ hi > Cardinality(S) /\ lo <= Cardinality(S) =>
                 Cardinality(RankedIn(before, lo, hi)) = Cardinality(S) - lo
           /\ lo > Cardinality(S) => Cardinality(RankedIn(before, lo, hi)) = 0
<1> DEFINE n == Cardinality(S)
           rank == Rank(before)
           W == RankedIn(before, lo, hi)
           top == IF hi <= n THEN hi ELSE n
           I == lo .. top - 1
           f == [x \in W |-> rank[x]]
<1>1. n \in Nat /\ rank \in Bijection(S, 0 .. n - 1)
  BY RankBijection
<1> HIDE DEF rank, n
<1>2. /\ rank \in [S -> 0 .. n - 1]
      /\ \A x, y \in S : rank[x] = rank[y] => x = y
      /\ \A i \in 0 .. n - 1 : \E x \in S : rank[x] = i
  BY <1>1 DEF Bijection, Injection, Surjection, IsInjective
<1>3. W = {x \in S : lo <= rank[x] /\ rank[x] < hi}
  BY DEF RankedIn, Ordered, rank
<1> HIDE DEF W
<1>4. f \in [W -> I]
  BY <1>1, <1>2, <1>3, SMT
<1>5. \A x, y \in W : f[x] = f[y] => x = y
  BY <1>2, <1>3
<1>6. \A i \in I : \E x \in W : f[x] = i
  <2> SUFFICES ASSUME NEW i \in I PROVE \E x \in W : f[x] = i
    OBVIOUS
  <2>1. i \in 0 .. n - 1 /\ lo <= i /\ i < hi
    BY <1>1, SMT
  <2>2. PICK x \in S : rank[x] = i
    BY <1>2, <2>1
  <2> QED BY <1>3, <2>1, <2>2
<1>7. IsFiniteSet(I) /\ Cardinality(I) = (IF lo > top - 1 THEN 0 ELSE top - lo)
  <2>1. lo \in Int /\ top - 1 \in Int /\ top - 1 - lo + 1 = top - lo
    BY <1>1
  <2> QED BY <2>1, FS_Interval
<1> HIDE DEF f, I, top
<1>8. f \in Bijection(W, I)
  BY <1>4, <1>5, <1>6 DEF Bijection, Injection, Surjection, IsInjective
<1>9. IsFiniteSet(W) /\ Cardinality(W) = Cardinality(I)
  BY <1>7, <1>8, FS_Injection DEF Bijection
<1> QED BY <1>1, <1>7, <1>9, SMT DEF top, n, W
=============================================================================
