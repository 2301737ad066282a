---------------------------- MODULE ContainerLemmas ----------------------------
(* What the operators of Containers and the sums of Functions return, for every
   argument. *)
EXTENDS Containers, FiniteSetTheorems, SequenceTheorems, WellFoundedInduction, TLAPS

\* Removing keys from a map.
LEMMA OmitProperties ==
  ASSUME NEW f, NEW S
  PROVE  /\ DOMAIN Omit(f, S) = DOMAIN f \ S
         /\ \A x \in DOMAIN f \ S : Omit(f, S)[x] = f[x]
BY DEF Omit, Restrict

\* The rank of an element of a finite set of positions lies between 1 and the
\* size of the set, and grows with the element.
LEMMA RankBounds ==
  ASSUME NEW K \in SUBSET Nat, IsFiniteSet(K)
  PROVE  /\ \A i \in K : Rank(K, i) \in 1 .. Cardinality(K)
         /\ \A i, m \in K : i < m => Rank(K, i) < Rank(K, m)
<1> DEFINE Upto(i) == {k \in K : k <= i}
<1>1. ASSUME NEW i \in K
      PROVE  Rank(K, i) \in 1 .. Cardinality(K)
  <2>1. /\ IsFiniteSet(Upto(i))
        /\ Cardinality(Upto(i)) <= Cardinality(K)
    BY Upto(i) \in SUBSET K, FS_Subset
  <2>2. Upto(i) # {}
    BY i \in Upto(i)
  <2>3. Cardinality(Upto(i)) \in Nat /\ Cardinality(Upto(i)) # 0
    BY <2>1, <2>2, FS_CardinalityType, FS_EmptySet
  <2>4. Cardinality(K) \in Nat
    BY FS_CardinalityType
  <2> QED
    BY <2>1, <2>3, <2>4 DEF Rank
<1>2. ASSUME NEW i \in K, NEW m \in K, i < m
      PROVE  Rank(K, i) < Rank(K, m)
  <2>1. IsFiniteSet(Upto(m))
    BY Upto(m) \in SUBSET K, FS_Subset
  <2>2. Upto(i) \in SUBSET Upto(m)
    <3>1. ASSUME NEW k \in K, k <= i
          PROVE  k <= m
      BY <1>2, <3>1
    <3> QED
      BY <3>1
  <2>3. m \in Upto(m) /\ m \notin Upto(i)
    BY <1>2
  <2>4. /\ Cardinality(Upto(i)) <= Cardinality(Upto(m))
        /\ Cardinality(Upto(m)) = Cardinality(Upto(i)) => Upto(m) = Upto(i)
    BY <2>1, <2>2, FS_Subset
  <2>5. Cardinality(Upto(i)) \in Nat /\ Cardinality(Upto(m)) \in Nat
    BY <2>1, <2>2, FS_Subset, FS_CardinalityType
  <2> QED
    BY <2>3, <2>4, <2>5 DEF Rank
<1> QED
  BY <1>1, <1>2

\* Every rank is taken, so Nth finds an element for every position.
LEMMA NthIsThere ==
  ASSUME NEW K \in SUBSET Nat, IsFiniteSet(K),
         NEW j \in 1 .. Cardinality(K)
  PROVE  Nth(K, j) \in K /\ Rank(K, Nth(K, j)) = j
<1> DEFINE n == Cardinality(K)
           f == [i \in K |-> Rank(K, i)]
<1>1. n \in Nat
  BY FS_CardinalityType
<1>2. f \in Injection(K, 1 .. n)
  <2>1. f \in [K -> 1 .. n]
    BY RankBounds
  <2>2. ASSUME NEW a \in K, NEW b \in K, f[a] = f[b]
        PROVE  a = b
    <3>1. a < b \/ b < a \/ a = b
      OBVIOUS
    <3>2. Rank(K, a) = Rank(K, b)
      BY <2>2
    <3>3. Rank(K, a) \in Nat /\ Rank(K, b) \in Nat
      BY RankBounds, <1>1
    <3> QED
      BY <3>1, <3>2, <3>3, RankBounds
  <2> QED
    BY <2>1, <2>2 DEF Injection, IsInjective
<1>3. IsFiniteSet(1 .. n) /\ Cardinality(1 .. n) = n
  BY <1>1, FS_Interval
<1>4. f \in Surjection(K, 1 .. n)
  BY <1>2, <1>3, FS_Injection
<1>5. \E i \in K : Rank(K, i) = j
  BY <1>4 DEF Surjection
<1> QED
  BY <1>5 DEF Nth

Increasing(q) == \A m, n \in DOMAIN q : m < n => q[m] < q[n]

\* retain keeps exactly the elements outside S, adds none, and keeps them
\* distinct and in order.
LEMMA WithoutProperties ==
  ASSUME NEW X, NEW q \in Seq(X), NEW S
  PROVE  /\ Without(q, S) \in Seq(X)
         /\ Range(Without(q, S)) = Range(q) \ S
         /\ Len(Without(q, S)) <= Len(q)
         /\ IsInjective(q) => IsInjective(Without(q, S))
         /\ Increasing(q) => Increasing(Without(q, S))
<1> DEFINE K == Kept(q, S)
           r == Without(q, S)
<1>1. DOMAIN q = 1 .. Len(q) /\ Len(q) \in Nat
  BY LenProperties
<1>2. /\ K \in SUBSET (1 .. Len(q))
      /\ K \in SUBSET Nat
      /\ \A i \in K : q[i] \in X /\ q[i] \notin S
  BY <1>1, ElementOfSeq DEF Kept
<1>3. /\ IsFiniteSet(K)
      /\ Cardinality(K) \in Nat
      /\ Cardinality(K) <= Len(q)
  <2>1. IsFiniteSet(1 .. Len(q)) /\ Cardinality(1 .. Len(q)) = Len(q)
    BY <1>1, FS_Interval
  <2> QED
    BY <1>2, <2>1, FS_Subset, FS_CardinalityType
<1>4. /\ DOMAIN r = 1 .. Cardinality(K)
      /\ \A j \in 1 .. Cardinality(K) : r[j] = q[Nth(K, j)]
  BY DEF Without
<1>5. \A j \in 1 .. Cardinality(K) : Nth(K, j) \in K /\ Rank(K, Nth(K, j)) = j
  BY <1>2, <1>3, NthIsThere
<1> HIDE DEF K, r
<1>6. r \in Seq(X) /\ Len(r) = Cardinality(K)
  <2>1. r \in [1 .. Cardinality(K) -> X]
    <3>1. r = [j \in 1 .. Cardinality(K) |-> q[Nth(K, j)]]
      BY DEF r, K, Without
    <3> QED
      BY <3>1, <1>2, <1>5
  <2> QED
    BY <2>1, <1>3, IsASeq, LenProperties
<1>7. Range(r) = Range(q) \ S
  <2>1. ASSUME NEW j \in DOMAIN r
        PROVE  r[j] \in Range(q) \ S
    BY <1>1, <1>2, <1>4, <1>5 DEF Range
  <2>2. ASSUME NEW i \in DOMAIN q, q[i] \notin S
        PROVE  q[i] \in Range(r)
    <3>1. i \in K
      BY <2>2 DEF K, Kept
    <3>2. Rank(K, i) \in 1 .. Cardinality(K)
      BY <3>1, <1>2, <1>3, RankBounds
    <3>3. Nth(K, Rank(K, i)) \in K /\ Rank(K, Nth(K, Rank(K, i))) = Rank(K, i)
      BY <3>2, <1>5
    <3>4. Nth(K, Rank(K, i)) = i
      <4>1. ASSUME NEW a \in K, Rank(K, a) = Rank(K, i)
            PROVE  a = i
        <5>1. a \in Nat /\ i \in Nat /\ Rank(K, i) \in Nat
          BY <3>1, <3>2, <1>2, <1>3
        <5>2. ~(a < i) /\ ~(i < a)
          BY <4>1, <5>1, <3>1, <1>2, <1>3, RankBounds
        <5> QED
          BY <5>1, <5>2
      <4> QED
        BY <3>3, <4>1
    <3> QED
      BY <3>2, <3>4, <1>4 DEF Range
  <2> QED
    BY <2>1, <2>2 DEF Range
<1>8. \A m, n \in 1 .. Cardinality(K) : m < n => Nth(K, m) < Nth(K, n)
  <2> SUFFICES ASSUME NEW m \in 1 .. Cardinality(K), NEW n \in 1 .. Cardinality(K), m < n
               PROVE  Nth(K, m) < Nth(K, n)
    OBVIOUS
  <2> DEFINE a == Nth(K, m)
             b == Nth(K, n)
  <2>1. a \in K /\ b \in K /\ Rank(K, a) = m /\ Rank(K, b) = n
    BY <1>5
  <2>2. a \in Nat /\ b \in Nat
    BY <2>1, <1>2
  <2>3. b < a => Rank(K, b) < Rank(K, a)
    BY <2>1, <1>2, <1>3, RankBounds
  <2>4. m \in Nat /\ n \in Nat
    BY <1>3
  <2> QED
    BY <2>1, <2>2, <2>3, <2>4
<1>9. ASSUME IsInjective(q)
      PROVE  IsInjective(r)
  <2> SUFFICES ASSUME NEW m \in DOMAIN r, NEW n \in DOMAIN r, r[m] = r[n]
               PROVE  m = n
    BY DEF IsInjective
  <2>1. Nth(K, m) \in DOMAIN q /\ Nth(K, n) \in DOMAIN q
    BY <1>1, <1>2, <1>4, <1>5
  <2>2. Nth(K, m) = Nth(K, n)
    BY <1>9, <2>1, <1>4 DEF IsInjective
  <2> QED
    BY <2>2, <1>4, <1>5
<1>10. ASSUME Increasing(q)
       PROVE  Increasing(r)
  <2> SUFFICES ASSUME NEW m \in DOMAIN r, NEW n \in DOMAIN r, m < n
               PROVE  r[m] < r[n]
    BY DEF Increasing
  <2>1. /\ Nth(K, m) \in DOMAIN q /\ Nth(K, n) \in DOMAIN q
        /\ Nth(K, m) < Nth(K, n)
    BY <1>1, <1>2, <1>4, <1>5, <1>8
  <2> QED
    BY <1>10, <2>1, <1>4 DEF Increasing
<1> QED
  BY <1>3, <1>6, <1>7, <1>9, <1>10 DEF r

\* The two ends of a queue.
LEMMA EnqueueProperties ==
  ASSUME NEW X, NEW q \in Seq(X), NEW x \in X
  PROVE  /\ Enqueue(q, x) \in Seq(X)
         /\ Enqueue(q, x) # <<>>
         /\ Range(Enqueue(q, x)) = Range(q) \cup {x}
         /\ IsInjective(q) /\ x \notin Range(q) => IsInjective(Enqueue(q, x))
         /\ Len(Enqueue(q, x)) = Len(q) + 1
         /\ Increasing(q) /\ (\A y \in Range(q) : y < x) => Increasing(Enqueue(q, x))
<1>1. /\ Append(q, x) \in Seq(X)
      /\ Append(q, x) # <<>>
      /\ DOMAIN Append(q, x) = 1 .. Len(q) + 1
      /\ \A i \in 1 .. Len(q) : Append(q, x)[i] = q[i]
      /\ Append(q, x)[Len(q) + 1] = x
  BY AppendProperties, LenProperties
<1>2. DOMAIN q = 1 .. Len(q) /\ Len(q) \in Nat
  BY LenProperties
<1>3. Range(Append(q, x)) = Range(q) \cup {x}
  BY <1>1, <1>2 DEF Range
<1>4. ASSUME IsInjective(q), x \notin Range(q)
      PROVE  IsInjective(Append(q, x))
  <2>1. \A i \in 1 .. Len(q) : q[i] # x
    BY <1>2, <1>4 DEF Range
  <2> QED
    BY <1>1, <1>2, <1>4, <2>1 DEF IsInjective
<1>5. Len(Append(q, x)) = Len(q) + 1
  OBVIOUS
<1>6. ASSUME Increasing(q), \A y \in Range(q) : y < x
      PROVE  Increasing(Append(q, x))
  <2>1. \A i \in 1 .. Len(q) : q[i] < x
    BY <1>2, <1>6 DEF Range
  <2> QED
    BY <1>1, <1>2, <1>6, <2>1 DEF Increasing
<1> QED
  BY <1>1, <1>3, <1>4, <1>5, <1>6 DEF Enqueue

\* Taking the head of a queue.
LEMMA PopProperties ==
  ASSUME NEW X, NEW q \in Seq(X), q # <<>>
  PROVE  /\ Head(q) \in X /\ Head(q) \in Range(q)
         /\ Tail(q) \in Seq(X)
         /\ IsInjective(q) => IsInjective(Tail(q)) /\ Range(Tail(q)) = Range(q) \ {Head(q)}
         /\ Len(Tail(q)) = Len(q) - 1 /\ Len(q) \in Nat
         /\ Increasing(q) => Increasing(Tail(q)) /\ \A y \in Range(Tail(q)) : Head(q) < y
<1>1. /\ Head(q) \in X
      /\ Tail(q) \in Seq(X)
      /\ Len(q) \in Nat /\ Len(q) > 0
      /\ DOMAIN q = 1 .. Len(q)
      /\ Head(q) = q[1]
      /\ DOMAIN Tail(q) = 1 .. Len(q) - 1
      /\ \A i \in 1 .. Len(q) - 1 : Tail(q)[i] = q[i + 1]
  BY HeadTailProperties, LenProperties, EmptySeq
<1>2. Head(q) \in Range(q)
  BY <1>1 DEF Range
<1>3. ASSUME IsInjective(q)
      PROVE  IsInjective(Tail(q)) /\ Range(Tail(q)) = Range(q) \ {Head(q)}
  <2>1. IsInjective(Tail(q))
    BY <1>1, <1>3 DEF IsInjective
  <2>2. ASSUME NEW i \in DOMAIN Tail(q)
        PROVE  Tail(q)[i] \in Range(q) \ {Head(q)}
    BY <1>1, <1>3 DEF Range, IsInjective
  <2>3. ASSUME NEW i \in DOMAIN q, q[i] # Head(q)
        PROVE  q[i] \in Range(Tail(q))
    <3>1. i # 1 /\ i - 1 \in 1 .. Len(q) - 1
      BY <1>1, <2>3
    <3>2. Tail(q)[i - 1] = q[i]
      BY <1>1, <3>1
    <3> QED
      BY <1>1, <3>1, <3>2 DEF Range
  <2> QED
    BY <2>1, <2>2, <2>3 DEF Range
<1>4. Len(Tail(q)) = Len(q) - 1
  BY <1>1
<1>5. ASSUME Increasing(q)
      PROVE  Increasing(Tail(q)) /\ \A y \in Range(Tail(q)) : Head(q) < y
  <2>1. Increasing(Tail(q))
    BY <1>1, <1>5 DEF Increasing
  <2>2. ASSUME NEW i \in DOMAIN Tail(q)
        PROVE  Head(q) < Tail(q)[i]
    BY <1>1, <1>5 DEF Increasing
  <2> QED
    BY <2>1, <2>2 DEF Range
<1> QED
  BY <1>1, <1>2, <1>3, <1>4, <1>5

-----------------------------------------------------------------------------
(* Induction.  The library's induction theorems take a predicate; these    *)
(* take the set of the values it holds for, and follow from the theorem    *)
(* that strict inclusion is well founded on finite sets.                   *)

\* A set that holds 0 and every successor holds every natural number.
LEMMA NatSetInduction ==
  ASSUME NEW Good, 0 \in Good, \A n \in Nat : n \in Good => n + 1 \in Good
  PROVE  Nat \subseteq Good
<1> SUFFICES ASSUME NEW b \in Nat, b \notin Good PROVE FALSE
  OBVIOUS
<1> DEFINE Bad == {0 .. m : m \in {n \in 0 .. b : n \notin Good}}
<1>1. IsFiniteSet(0 .. b)
  BY FS_Interval
<1>2. IsWellFoundedOn(StrictSubsetOrdering(0 .. b), FiniteSubsetsOf(0 .. b))
  BY FS_StrictSubsetOrderingWellFounded
<1>3. Bad \subseteq FiniteSubsetsOf(0 .. b) /\ Bad # {}
  <2>1. 0 .. b \in Bad
    OBVIOUS
  <2>2. ASSUME NEW m \in 0 .. b PROVE 0 .. m \in SUBSET (0 .. b) /\ IsFiniteSet(0 .. m)
    BY FS_Interval
  <2> QED
    BY <2>1, <2>2 DEF FiniteSubsetsOf
<1>4. PICK x \in Bad : \A y \in Bad : ~ (<<y, x>> \in StrictSubsetOrdering(0 .. b))
  <2> HIDE DEF Bad
  <2> QED BY <1>2, <1>3, WFMin
<1>5. PICK m \in 0 .. b : m \notin Good /\ x = 0 .. m
  BY <1>4
<1>6. m # 0 /\ m - 1 \in Nat
  BY <1>5
<1>7. m - 1 \notin Good
  BY <1>5, <1>6
<1>8. 0 .. m - 1 \in Bad
  BY <1>6, <1>7
<1>9. <<0 .. m - 1, 0 .. m>> \in StrictSubsetOrdering(0 .. b)
  <2>1. 0 .. m - 1 \in SUBSET (0 .. b) /\ 0 .. m \in SUBSET (0 .. b) /\ 0 .. m - 1 \subseteq 0 .. m
    BY <1>6
  <2>2. m \in 0 .. m /\ m \notin 0 .. m - 1
    BY <1>6
  <2> QED BY <2>1, <2>2 DEF StrictSubsetOrdering
<1> QED BY <1>4, <1>5, <1>8, <1>9

\* A set of natural numbers has a least one.
LEMMA LeastThere ==
  ASSUME NEW S \in SUBSET Nat, S # {}
  PROVE  \E m \in S : \A k \in S : m <= k
<1> SUFFICES ASSUME \A m \in S : \E k \in S : k < m
             PROVE  FALSE
  OBVIOUS
<1> DEFINE Good == {n \in Nat : \A k \in 0 .. n : k \notin S}
<1>1. 0 \in Good
  OBVIOUS
<1>2. ASSUME NEW n \in Nat, n \in Good
      PROVE  n + 1 \in Good
  <2>1. \A k \in 0 .. n + 1 : k \in 0 .. n \/ k = n + 1
    OBVIOUS
  <2>2. n + 1 \notin S
    <3>1. \A k \in Nat : k < n + 1 => k \in 0 .. n
      OBVIOUS
    <3> QED
      BY <1>2, <3>1
  <2> QED
    BY <1>2, <2>1, <2>2
<1>3. Nat \subseteq Good
  <2> HIDE DEF Good
  <2> QED
    BY <1>1, <1>2, NatSetInduction
<1>4. PICK m \in S : TRUE
  OBVIOUS
<1>5. m \in Nat
  BY <1>4
<1>6. m \in 0 .. m
  BY <1>5
<1> QED
  BY <1>3, <1>4, <1>5, <1>6

\* A family of sets that holds a subset of a finite set whenever it holds the
\* smaller ones holds every subset.
LEMMA SubsetInduction ==
  ASSUME NEW S, IsFiniteSet(S), NEW Good,
         \A T \in SUBSET S : (\A U \in SUBSET T : U # T => U \in Good) => T \in Good
  PROVE  SUBSET S \subseteq Good
<1> SUFFICES ASSUME NEW B \in SUBSET S, B \notin Good PROVE FALSE
  OBVIOUS
<1> DEFINE Bad == {T \in SUBSET S : T \notin Good}
<1>1. IsWellFoundedOn(StrictSubsetOrdering(S), SUBSET S)
  <2>1. FiniteSubsetsOf(S) = SUBSET S
    BY FS_FiniteSubsetsOfFinite
  <2>2. IsWellFoundedOn(StrictSubsetOrdering(S), FiniteSubsetsOf(S))
    BY FS_StrictSubsetOrderingWellFounded
  <2> QED
    BY <2>1, <2>2
<1>2. Bad \subseteq SUBSET S /\ Bad # {}
  BY B \in Bad
<1> HIDE DEF Bad
<1>3. PICK T \in Bad : \A U \in Bad : ~ (<<U, T>> \in StrictSubsetOrdering(S))
  BY <1>1, <1>2, WFMin
<1>4. ASSUME NEW U \in SUBSET T, U # T
      PROVE  U \in Good
  BY <1>3, <1>4 DEF StrictSubsetOrdering, Bad
<1> QED
  BY <1>3, <1>4 DEF Bad

-----------------------------------------------------------------------------
(* Sums over finite sets.                                                  *)

Pick(s) == CHOOSE x \in s : TRUE

\* g is the partial sums of c that SumFunctionOnSet computes for S.
SumsOver(g, c, S) ==
  g = [s \in SUBSET S |-> IF s = {} THEN 0 ELSE c[Pick(s)] + g[s \ {Pick(s)}]]

\* Two such functions agree where their sets and summands do, and one exists.
LEMMA SumsAgree ==
  ASSUME NEW S, NEW T, IsFiniteSet(S), IsFiniteSet(T), NEW c, NEW d, NEW g, NEW h,
         SumsOver(g, c, S), SumsOver(h, d, T), \A x \in S \cap T : c[x] = d[x]
  PROVE  \A s \in SUBSET (S \cap T) : g[s] = h[s]
<1> DEFINE R    == S \cap T
           Good == {s \in SUBSET R : g[s] = h[s]}
<1>1. ASSUME NEW s \in SUBSET R,
             \A u \in SUBSET s : u # s => u \in Good
      PROVE  s \in Good
  <2>1. /\ g[s] = IF s = {} THEN 0 ELSE c[Pick(s)] + g[s \ {Pick(s)}]
        /\ h[s] = IF s = {} THEN 0 ELSE d[Pick(s)] + h[s \ {Pick(s)}]
    BY DEF SumsOver
  <2>2. s # {} => Pick(s) \in s
    BY DEF Pick
  <2>3. s # {} => s \ {Pick(s)} \in Good
    BY <1>1, <2>2
  <2> QED
    BY <2>1, <2>2, <2>3
<1>2. IsFiniteSet(R)
  BY FS_Intersection
<1> HIDE DEF R, Good
<1>3. SUBSET R \subseteq Good
  BY <1>1, <1>2, SubsetInduction
<1> QED
  BY <1>3 DEF R, Good

\* There is a sum over any finite set, by induction on the set.
LEMMA SumsExist ==
  ASSUME NEW S, IsFiniteSet(S), NEW c
  PROVE  \E g : SumsOver(g, c, S)
<1> DEFINE Good == {T \in SUBSET S : \E g : SumsOver(g, c, T)}
           Sums(T) == CHOOSE g : SumsOver(g, c, T)
<1>1. ASSUME NEW T \in SUBSET S, \A U \in SUBSET T : U # T => U \in Good
      PROVE  T \in Good
  <2> DEFINE Total(s) == IF s = {} THEN 0 ELSE c[Pick(s)] + Sums(s \ {Pick(s)})[s \ {Pick(s)}]
             g == [s \in SUBSET T |-> Total(s)]
  <2>1. \A s : s # {} => Pick(s) \in s
    BY DEF Pick
  <2>2. ASSUME NEW U \in SUBSET T, U # T
        PROVE  SumsOver(Sums(U), c, U) /\ IsFiniteSet(U)
    BY <1>1, <2>2, FS_Subset
  <2>3. ASSUME NEW U \in SUBSET T, U # T
        PROVE  Sums(U)[U] = Total(U)
    <3>1. CASE U = {}
      <4>1. SumsOver(Sums(U), c, U)
        BY <2>2, <2>3
      <4> HIDE DEF Sums
      <4>2. Sums(U)[U] = 0
        BY <4>1, <3>1 DEF SumsOver
      <4> QED
        BY <4>2, <3>1
    <3>2. CASE U # {}
      <4> DEFINE V == U \ {Pick(U)}
      <4>1. V \in SUBSET T /\ V # T /\ V \in SUBSET U
        BY <3>2, <2>1, <2>3
      <4>2. Sums(U)[U] = c[Pick(U)] + Sums(U)[V]
        <5>1. SumsOver(Sums(U), c, U)
          BY <2>2, <2>3
        <5> HIDE DEF Sums
        <5> QED
          BY <5>1, <3>2 DEF SumsOver
      <4>3. Sums(U)[V] = Sums(V)[V]
        <5>1. /\ SumsOver(Sums(U), c, U) /\ IsFiniteSet(U)
              /\ SumsOver(Sums(V), c, V) /\ IsFiniteSet(V)
          BY <2>2, <2>3, <4>1
        <5>2. V \in SUBSET (U \cap V)
          OBVIOUS
        <5> HIDE DEF Sums, V
        <5> QED
          BY <5>1, <5>2, SumsAgree
      <4> QED
        BY <3>2, <4>2, <4>3
    <3> QED
      BY <3>1, <3>2
  <2>4. ASSUME NEW s \in SUBSET T, s # {}
        PROVE  g[s] = c[Pick(s)] + g[s \ {Pick(s)}]
    <3>1. s \ {Pick(s)} \in SUBSET T /\ s \ {Pick(s)} # T
      BY <2>1, <2>4
    <3>2. g[s \ {Pick(s)}] = Sums(s \ {Pick(s)})[s \ {Pick(s)}]
      BY <2>3, <3>1
    <3>3. g[s] = Total(s)
      OBVIOUS
    <3> HIDE DEF g, Sums
    <3> QED
      BY <3>2, <3>3, <2>4
  <2>5. g = [s \in SUBSET T |-> IF s = {} THEN 0 ELSE c[Pick(s)] + g[s \ {Pick(s)}]]
    <3>1. ASSUME NEW s \in SUBSET T
          PROVE  g[s] = IF s = {} THEN 0 ELSE c[Pick(s)] + g[s \ {Pick(s)}]
      <4>1. s = {} => g[s] = 0
        OBVIOUS
      <4> HIDE DEF g
      <4> QED
        BY <4>1, <2>4
    <3>2. g = [s \in SUBSET T |-> g[s]]
      OBVIOUS
    <3> HIDE DEF g
    <3> QED
      BY <3>1, <3>2
  <2> HIDE DEF g
  <2> QED
    BY <2>5 DEF SumsOver
<1> HIDE DEF Good
<1>2. SUBSET S \subseteq Good
  BY <1>1, SubsetInduction
<1> QED
  BY <1>2 DEF Good

\* SumFunctionOnSet is its value.
LEMMA SumIs ==
  ASSUME NEW S, IsFiniteSet(S), NEW c
  PROVE  \E g : SumsOver(g, c, S) /\ SumFunctionOnSet(c, S) = g[S]
<1> DEFINE g == CHOOSE g : SumsOver(g, c, S)
<1>1. SumsOver(g, c, S)
  BY SumsExist
<1>2. SumFunctionOnSet(c, S) = g[S]
  BY DEF SumFunctionOnSet, FoldFunctionOnSet, MapThenFoldSet, SumsOver, Pick
<1> QED
  BY <1>1, <1>2

\* The recursion of SumFunctionOnSet.
LEMMA SumStep ==
  ASSUME NEW S, IsFiniteSet(S), NEW c
  PROVE  /\ SumFunctionOnSet(c, {}) = 0
         /\ S # {} => /\ Pick(S) \in S
                      /\ SumFunctionOnSet(c, S) = c[Pick(S)] + SumFunctionOnSet(c, S \ {Pick(S)})
<1>1. PICK g : SumsOver(g, c, S) /\ SumFunctionOnSet(c, S) = g[S]
  BY SumIs
<1>2. SumFunctionOnSet(c, {}) = 0
  <2>1. PICK h : SumsOver(h, c, {}) /\ SumFunctionOnSet(c, {}) = h[{}]
    BY SumIs, FS_EmptySet
  <2> QED
    BY <2>1 DEF SumsOver
<1>3. ASSUME S # {}
      PROVE  /\ Pick(S) \in S
             /\ SumFunctionOnSet(c, S) = c[Pick(S)] + SumFunctionOnSet(c, S \ {Pick(S)})
  <2> DEFINE T == S \ {Pick(S)}
  <2>1. Pick(S) \in S
    BY <1>3 DEF Pick
  <2>2. IsFiniteSet(T)
    BY FS_Difference
  <2>3. PICK h : SumsOver(h, c, T) /\ SumFunctionOnSet(c, T) = h[T]
    BY <2>2, SumIs
  <2>4. g[T] = h[T]
    <3>1. T \in SUBSET (S \cap T)
      OBVIOUS
    <3> HIDE DEF T
    <3> QED
      BY <1>1, <2>2, <2>3, <3>1, SumsAgree
  <2>5. g[S] = c[Pick(S)] + g[T]
    BY <1>1, <1>3 DEF SumsOver
  <2> QED
    BY <1>1, <2>1, <2>3, <2>4, <2>5
<1> QED
  BY <1>2, <1>3

\* A sum of natural numbers is one.
LEMMA SumType ==
  ASSUME NEW S, IsFiniteSet(S), NEW c, \A x \in S : c[x] \in Nat
  PROVE  SumFunctionOnSet(c, S) \in Nat
<1> DEFINE Good == {T \in SUBSET S : SumFunctionOnSet(c, T) \in Nat}
<1>1. ASSUME NEW T \in SUBSET S, \A U \in SUBSET T : U # T => U \in Good
      PROVE  T \in Good
  <2>1. IsFiniteSet(T)
    BY FS_Subset
  <2>2. CASE T = {}
    BY <2>1, <2>2, SumStep
  <2>3. CASE T # {}
    <3>1. Pick(T) \in T /\ SumFunctionOnSet(c, T) = c[Pick(T)] + SumFunctionOnSet(c, T \ {Pick(T)})
      BY <2>1, <2>3, SumStep
    <3>2. T \ {Pick(T)} \in Good
      BY <1>1, <3>1
    <3> QED
      BY <3>1, <3>2
  <2> QED
    BY <2>2, <2>3
<1> HIDE DEF Good
<1>2. SUBSET S \subseteq Good
  BY <1>1, SubsetInduction
<1> QED
  BY <1>2 DEF Good

\* It depends on what is summed only.
LEMMA SumSame ==
  ASSUME NEW S, IsFiniteSet(S), NEW c, NEW d, \A x \in S : c[x] = d[x]
  PROVE  SumFunctionOnSet(c, S) = SumFunctionOnSet(d, S)
<1>1. PICK g : SumsOver(g, c, S) /\ SumFunctionOnSet(c, S) = g[S]
  BY SumIs
<1>2. PICK h : SumsOver(h, d, S) /\ SumFunctionOnSet(d, S) = h[S]
  BY SumIs
<1>3. S \in SUBSET (S \cap S)
  OBVIOUS
<1> QED
  BY <1>1, <1>2, <1>3, SumsAgree

\* Every order of summation gives the same result.
LEMMA SumRemove ==
  ASSUME NEW S, IsFiniteSet(S), NEW c, \A y \in S : c[y] \in Nat, NEW x \in S
  PROVE  SumFunctionOnSet(c, S) = c[x] + SumFunctionOnSet(c, S \ {x})
<1> DEFINE Sum(T) == SumFunctionOnSet(c, T)
           Good == {T \in SUBSET S : \A y \in T : Sum(T) = c[y] + Sum(T \ {y})}
<1>1. \A T \in SUBSET S : /\ IsFiniteSet(T)
                          /\ Sum(T) \in Nat
                          /\ T # {} => Pick(T) \in T /\ Sum(T) = c[Pick(T)] + Sum(T \ {Pick(T)})
  <2> SUFFICES ASSUME NEW T \in SUBSET S
               PROVE  /\ IsFiniteSet(T)
                      /\ Sum(T) \in Nat
                      /\ T # {} => Pick(T) \in T /\ Sum(T) = c[Pick(T)] + Sum(T \ {Pick(T)})
    OBVIOUS
  <2>1. IsFiniteSet(T)
    BY FS_Subset
  <2> QED
    BY <2>1, SumType, SumStep
<1>2. ASSUME NEW T \in SUBSET S, \A U \in SUBSET T : U # T => U \in Good,
             NEW y \in T
      PROVE  Sum(T) = c[y] + Sum(T \ {y})
  <2> DEFINE p == Pick(T)
  <2>1. p \in T /\ Sum(T) = c[p] + Sum(T \ {p})
    BY <1>1
  <2>2. CASE y # p
    <3>1. T \ {p} \in Good /\ T \ {y} \in Good
      BY <1>2, <2>1
    <3>2. Sum(T \ {p}) = c[y] + Sum((T \ {p}) \ {y})
      BY <2>2, <3>1
    <3>3. Sum(T \ {y}) = c[p] + Sum((T \ {y}) \ {p})
      BY <2>1, <2>2, <3>1
    <3>4. (T \ {p}) \ {y} = (T \ {y}) \ {p} /\ (T \ {y}) \ {p} \in SUBSET S
      OBVIOUS
    <3>5. c[y] \in Nat /\ c[p] \in Nat /\ Sum((T \ {y}) \ {p}) \in Nat
      BY <1>1, <2>1, <3>4
    <3> HIDE DEF Sum, p
    <3> QED
      BY <2>1, <3>2, <3>3, <3>4, <3>5
  <2> QED
    BY <2>1, <2>2
<1>3. ASSUME NEW T \in SUBSET S, \A U \in SUBSET T : U # T => U \in Good
      PROVE  T \in Good
  BY <1>2, <1>3
<1> HIDE DEF Good
<1>4. SUBSET S \subseteq Good
  BY <1>3, SubsetInduction
<1> QED
  BY <1>4 DEF Good

\* The sum over a set is the sum over any part of it and over the rest.
LEMMA SumSplit ==
  ASSUME NEW S, IsFiniteSet(S), NEW c, \A y \in S : c[y] \in Nat, NEW T \in SUBSET S
  PROVE  /\ SumFunctionOnSet(c, S) = SumFunctionOnSet(c, T) + SumFunctionOnSet(c, S \ T)
         /\ {SumFunctionOnSet(c, S), SumFunctionOnSet(c, T), SumFunctionOnSet(c, S \ T)} \subseteq Nat
<1> DEFINE Sum(U) == SumFunctionOnSet(c, U)
           Good == {U \in SUBSET S : Sum(S) = Sum(U) + Sum(S \ U)}
<1>1. \A U \in SUBSET S : /\ IsFiniteSet(U)
                          /\ Sum(U) \in Nat
                          /\ \A y \in U : Sum(U) = c[y] + Sum(U \ {y})
  <2> SUFFICES ASSUME NEW U \in SUBSET S
               PROVE  /\ IsFiniteSet(U)
                      /\ Sum(U) \in Nat
                      /\ \A y \in U : Sum(U) = c[y] + Sum(U \ {y})
    OBVIOUS
  <2>1. IsFiniteSet(U)
    BY FS_Subset
  <2> QED
    BY <2>1, SumType, SumRemove
<1>2. ASSUME NEW U \in SUBSET S, \A V \in SUBSET U : V # U => V \in Good
      PROVE  U \in Good
  <2>1. CASE U = {}
    <3>1. Sum({}) = 0 /\ S \ U = S
      BY <2>1, FS_EmptySet, SumStep
    <3>2. Sum(S) \in Nat
      BY <1>1
    <3> HIDE DEF Sum
    <3> QED
      BY <2>1, <3>1, <3>2
  <2>2. ASSUME NEW y \in U
        PROVE  U \in Good
    <3> DEFINE V == U \ {y}
               W == S \ V
    <3>1. V \in Good
      BY <1>2
    <3>2. Sum(U) = c[y] + Sum(V)
      BY <1>1
    <3>3. y \in W /\ W \in SUBSET S /\ W \ {y} = S \ U /\ V \in SUBSET S
      OBVIOUS
    <3> HIDE DEF V, W
    <3>4. Sum(W) = c[y] + Sum(S \ U)
      BY <1>1, <3>3
    <3>5. Sum(S) = Sum(V) + Sum(W)
      BY <3>1 DEF W
    <3>6. c[y] \in Nat /\ Sum(V) \in Nat /\ Sum(S \ U) \in Nat
      BY <1>1, <3>3
    <3> HIDE DEF Sum
    <3> QED
      BY <3>2, <3>4, <3>5, <3>6
  <2> QED
    BY <2>1, <2>2
<1> HIDE DEF Good
<1>3. SUBSET S \subseteq Good
  BY <1>2, SubsetInduction
<1>4. Sum(S) \in Nat /\ Sum(T) \in Nat /\ Sum(S \ T) \in Nat
  BY <1>1
<1> QED
  BY <1>3, <1>4 DEF Good

\* Summing along different indices of a set sums over the set.
LEMMA SumAlong ==
  ASSUME NEW D, IsFiniteSet(D), NEW f, \A m, n \in D : f[m] = f[n] => m = n,
         NEW c, \A d \in D : c[f[d]] \in Nat
  PROVE  SumFunctionOnSet([d \in D |-> c[f[d]]], D) = SumFunctionOnSet(c, {f[d] : d \in D})
<1> DEFINE g        == [d \in D |-> c[f[d]]]
           Image(T) == {f[d] : d \in T}
           Good     == {T \in SUBSET D : SumFunctionOnSet(g, T) = SumFunctionOnSet(c, Image(T))}
<1>1. \A d \in D : g[d] = c[f[d]] /\ g[d] \in Nat
  OBVIOUS
<1> HIDE DEF g
<1>2. ASSUME NEW T \in SUBSET D, \A U \in SUBSET T : U # T => U \in Good
      PROVE  SumFunctionOnSet(g, T) = SumFunctionOnSet(c, Image(T))
  <2>1. IsFiniteSet(T)
    BY FS_Subset
  <2>2. IsFiniteSet(Image(T))
    <3> DEFINE h == [d \in T |-> f[d]]
    <3>1. h \in [T -> Image(T)] /\ \A v \in Image(T) : \E d \in T : h[d] = v
      OBVIOUS
    <3> HIDE DEF h, Image
    <3>2. h \in Surjection(T, Image(T))
      BY <3>1 DEF Surjection
    <3> QED
      BY <2>1, <3>2, FS_Surjection
  <2>3. CASE T = {}
    <3>1. Image(T) = {} /\ IsFiniteSet({})
      BY <2>3, FS_EmptySet
    <3>2. SumFunctionOnSet(g, {}) = 0 /\ SumFunctionOnSet(c, {}) = 0
      BY <3>1, SumStep
    <3> HIDE DEF Image
    <3> QED
      BY <2>3, <3>1, <3>2
  <2>4. ASSUME NEW y \in T
        PROVE  SumFunctionOnSet(g, T) = SumFunctionOnSet(c, Image(T))
    <3>1. T \ {y} \in SUBSET T /\ T \ {y} # T
      OBVIOUS
    <3>2. SumFunctionOnSet(g, T \ {y}) = SumFunctionOnSet(c, Image(T \ {y}))
      BY <1>2, <3>1
    <3>3. \A d \in T : g[d] \in Nat
      BY <1>1
    <3>4. SumFunctionOnSet(g, T) = g[y] + SumFunctionOnSet(g, T \ {y})
      BY <2>1, <3>3, SumRemove
    <3>5. (\A v \in Image(T) : c[v] \in Nat) /\ f[y] \in Image(T)
      OBVIOUS
    <3>6. Image(T) \ {f[y]} = Image(T \ {y})
      <4>1. \A d \in T : f[d] = f[y] => d = y
        OBVIOUS
      <4> QED
        BY <4>1
    <3> HIDE DEF Image
    <3>7. SumFunctionOnSet(c, Image(T)) = c[f[y]] + SumFunctionOnSet(c, Image(T) \ {f[y]})
      BY <2>2, <3>5, SumRemove
    <3> QED
      BY <1>1, <3>2, <3>4, <3>6, <3>7
  <2> QED
    BY <2>3, <2>4
<1>3. \A T \in SUBSET D : (\A U \in SUBSET T : U # T => U \in Good) => T \in Good
  BY <1>2
<1> HIDE DEF Good
<1>4. SUBSET D \subseteq Good
  BY <1>3, SubsetInduction
<1> QED
  BY <1>4 DEF Good, g
=============================================================================
