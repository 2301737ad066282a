--------------------------- MODULE EventFetchProofs ---------------------------
(***************************************************************************)
(* What a fetch returns for every log, request and cursor, and what a      *)
(* subscription yields.                                                    *)
(***************************************************************************)
EXTENDS EventFetch, ContainerLemmas, FiniteSetTheorems, TLAPS

\* Sequences are positions of the log, and the requests those of the constants.
LogRight == events \in Seq(Records) /\ request \in Requests

LEMMA LogIs ==
  ASSUME LogRight
  PROVE  /\ Len(events) \in Nat /\ DOMAIN events = 1 .. Len(events)
         /\ \A i \in 1 .. Len(events) : Sizes[i] \in Nat
         /\ request.limit \in Nat \ {0} /\ request.max_bytes \in Nat \ {0} /\ request.after \in Nat
         /\ MaxScan \in Nat \ {0}
<1>1. /\ Len(events) \in Nat /\ DOMAIN events = 1 .. Len(events)
      /\ \A i \in 1 .. Len(events) : events[i] \in Records
  BY DEF LogRight
<1>2. \A i \in 1 .. Len(events) : Sizes[i] \in Nat
  BY <1>1, FetchAssumption DEF Sizes
<1>3. {request.limit, request.max_bytes} \subseteq Nat \ {0} /\ request.after \in Nat
  BY FetchAssumption DEF LogRight
<1> QED
  BY <1>1, <1>2, <1>3, FetchAssumption

LEMMA MinIs ==
  ASSUME NEW a \in Nat, NEW b \in Nat
  PROVE  Min({a, b}) = IF a <= b THEN a ELSE b
<1>1. \E x \in {a, b} : \A y \in {a, b} : x =< y
  BY SMT
<1>2. Min({a, b}) \in {a, b} /\ \A y \in {a, b} : Min({a, b}) =< y
  BY <1>1 DEF Min
<1> QED
  BY <1>2

LEMMA MaxIs ==
  ASSUME NEW S \in SUBSET Nat, NEW m \in S, \A k \in S : k <= m
  PROVE  Max(S) = m
<1>1. \E x \in S : \A y \in S : x >= y
  BY SMT
<1>2. Max(S) \in S /\ \A y \in S : Max(S) >= y
  BY <1>1 DEF Max
<1>3. Max(S) >= m /\ Max(S) <= m /\ Max(S) \in Nat /\ m \in Nat
  BY <1>2
<1> QED
  BY <1>3

\* A scan looks at some event of the log if there is one after the cursor.
LEMMA ScanEndIs ==
  ASSUME LogRight, NEW after \in Nat, after <= Len(events)
  PROVE  /\ ScanEnd(after) \in after .. Len(events)
         /\ after < Len(events) => after < ScanEnd(after)
<1>1. Len(events) \in Nat /\ MaxScan \in Nat \ {0} /\ after + MaxScan \in Nat
  BY LogIs
<1>2. ScanEnd(after) = Min({after + MaxScan, Len(events)})
  BY <1>1 DEF ScanEnd
<1>3. ScanEnd(after) = IF after + MaxScan <= Len(events) THEN after + MaxScan ELSE Len(events)
  BY <1>1, <1>2, MinIs
<1> QED
  BY <1>1, <1>3

-----------------------------------------------------------------------------
(* Survivors.                                                              *)

LEMMA SameIs ==
  /\ \A i, j : Same(i, j) => Same(j, i) /\ (Eligible(i) => Eligible(j)) /\ (Coalesces(i) => Coalesces(j))
  /\ \A i, j, k : Same(i, j) /\ Same(j, k) => Same(i, k)
  BY DEF Same, Eligible, Coalesces

\* The survivors that event i supersedes: one at most.
Superseded(after, i) ==
  {j \in Survivors(after, i - 1) : Coalesces(i) /\ Same(j, i)}

LEMMA SurvivorsAre ==
  ASSUME NEW after \in Nat, NEW n \in Nat
  PROVE  /\ Survivors(after, n) \in SUBSET (after + 1 .. n)
         /\ IsFiniteSet(Survivors(after, n)) /\ Cardinality(Survivors(after, n)) \in Nat
         /\ n = after => Survivors(after, n) = {}
<1>1. Survivors(after, n) \in SUBSET (after + 1 .. n)
  BY DEF Survivors
<1>2. IsFiniteSet(after + 1 .. n)
  BY FS_Interval
<1>3. n = after => after + 1 .. n = {}
  OBVIOUS
<1> QED
  BY <1>1, <1>2, <1>3, FS_Subset, FS_CardinalityType

LEMMA OneSuperseded ==
  ASSUME NEW after \in Nat, NEW n \in Nat, NEW i,
         NEW j \in Survivors(after, n), NEW k \in Survivors(after, n),
         Coalesces(i), Same(j, i), Same(k, i)
  PROVE  j = k
<1>1. Same(j, k) /\ Same(k, j) /\ Coalesces(j) /\ Coalesces(k)
  BY SameIs
<1>2. /\ j \in after + 1 .. n /\ k \in after + 1 .. n
      /\ \A m \in j + 1 .. n : ~Same(j, m)
      /\ \A m \in k + 1 .. n : ~Same(k, m)
  BY <1>1 DEF Survivors
<1>3. ~(j < k) /\ ~(k < j)
  BY <1>1, <1>2
<1> QED
  BY <1>2, <1>3

\* One more event: it survives if it is eligible, and what it supersedes does not.
LEMMA SurvivorsNext ==
  ASSUME NEW after \in Nat, NEW n \in Nat, after <= n
  PROVE  /\ ~Eligible(n + 1) => Survivors(after, n + 1) = Survivors(after, n)
         /\ Eligible(n + 1) => Survivors(after, n + 1)
                                 = (Survivors(after, n) \ Superseded(after, n + 1)) \cup {n + 1}
<1> DEFINE i == n + 1
<1>1. (n + 1) - 1 = n /\ n + 1 \in Nat /\ n + 1 \in after + 1 .. n + 1 /\ n + 1 \notin after + 1 .. n
  OBVIOUS
<1>2. ASSUME NEW j \in after + 1 .. n + 1, j # n + 1
      PROVE  j \in after + 1 .. n
  BY <1>2
<1>3. ASSUME NEW j \in after + 1 .. n
      PROVE  /\ j \in after + 1 .. n + 1 /\ n + 1 \in j + 1 .. n + 1
             /\ j + 1 .. n + 1 = (j + 1 .. n) \cup {n + 1}
  BY <1>3
<1>4. ASSUME NEW j \in after + 1 .. n
      PROVE  j \in Survivors(after, n + 1)
               <=> j \in Survivors(after, n) /\ ~(Coalesces(j) /\ Same(j, n + 1))
  BY <1>3 DEF Survivors
<1>5. n + 1 \in Survivors(after, n + 1) <=> Eligible(n + 1)
  BY <1>1 DEF Survivors
<1>6. \A j : Coalesces(j) /\ Same(j, n + 1) <=> Coalesces(n + 1) /\ Same(j, n + 1)
  BY SameIs
<1>7. Survivors(after, n + 1) \subseteq after + 1 .. n + 1 /\ Survivors(after, n) \subseteq after + 1 .. n
  BY DEF Survivors
<1>8. ASSUME ~Eligible(n + 1)
      PROVE  Survivors(after, n + 1) = Survivors(after, n)
  <2>1. \A j \in Survivors(after, n) : Eligible(j)
    BY DEF Survivors
  <2>2. \A j \in Survivors(after, n) : ~Same(j, n + 1)
    BY <1>8, <2>1, SameIs
  <2>3. Survivors(after, n + 1) \subseteq Survivors(after, n)
    BY <1>2, <1>4, <1>5, <1>7, <1>8
  <2>4. Survivors(after, n) \subseteq Survivors(after, n + 1)
    BY <1>4, <1>7, <2>2
  <2> QED
    BY <2>3, <2>4
<1>9. ASSUME Eligible(n + 1)
      PROVE  Survivors(after, n + 1) = (Survivors(after, n) \ Superseded(after, n + 1)) \cup {n + 1}
  <2>1. \A j : j \in Superseded(after, n + 1)
                 <=> j \in Survivors(after, n) /\ Coalesces(n + 1) /\ Same(j, n + 1)
    BY <1>1 DEF Superseded
  <2>2. ASSUME NEW j \in Survivors(after, n + 1)
        PROVE  j \in (Survivors(after, n) \ Superseded(after, n + 1)) \cup {n + 1}
    <3>1. CASE j = n + 1
      BY <3>1
    <3>2. CASE j # n + 1
      <4>1. j \in after + 1 .. n
        BY <1>2, <1>7, <3>2
      <4>2. j \in Survivors(after, n) /\ ~(Coalesces(j) /\ Same(j, n + 1))
        BY <1>4, <4>1
      <4> QED
        BY <1>6, <2>1, <4>2
    <3> QED
      BY <3>1, <3>2
  <2>3. ASSUME NEW j \in Survivors(after, n), j \notin Superseded(after, n + 1)
        PROVE  j \in Survivors(after, n + 1)
    BY <1>4, <1>6, <1>7, <2>1, <2>3
  <2> QED
    BY <1>5, <1>9, <2>2, <2>3
<1> QED
  BY <1>8, <1>9

\* An eligible event survives or is superseded by a later one that does.
LEMMA SurvivorFor ==
  ASSUME NEW after \in Nat, NEW n \in Nat, NEW i \in after + 1 .. n, Eligible(i)
  PROVE  \E j \in Survivors(after, n) : j = i \/ (j > i /\ Coalesces(i) /\ Same(i, j))
<1>1. CASE i \in Survivors(after, n)
  BY <1>1
<1>2. CASE i \notin Survivors(after, n)
  <2> DEFINE Later == {j \in i + 1 .. n : Same(i, j)}
             Gap   == {n - j : j \in Later}
  <2>1. Coalesces(i) /\ Later # {}
    BY <1>2 DEF Survivors
  <2>2. Gap \in SUBSET Nat /\ Gap # {}
    BY <2>1
  <2>3. PICK g \in Gap : \A k \in Gap : g <= k
    <3> HIDE DEF Gap
    <3> QED
      BY <2>2, LeastThere
  <2>4. PICK j \in Later : g = n - j
    BY <2>3
  <2>5. \A k \in Later : k <= j
    <3>1. \A k \in Later : n - j <= n - k /\ k \in Nat
      BY <2>3, <2>4
    <3> QED
      BY <2>4, <3>1
  <2>6. j \in after + 1 .. n /\ j > i /\ Same(i, j) /\ Eligible(j)
    BY <2>4, SameIs
  <2>7. ASSUME NEW k \in j + 1 .. n, Same(j, k)
        PROVE  FALSE
    <3>1. k \in Later
      BY <2>6, <2>7, SameIs
    <3> QED
      BY <2>5, <2>6, <2>7, <3>1
  <2>8. j \in Survivors(after, n)
    BY <2>6, <2>7 DEF Survivors
  <2> QED
    BY <2>1, <2>6, <2>8
<1> QED
  BY <1>1, <1>2

-----------------------------------------------------------------------------
(* The loop.                                                               *)

Apart(q) == \A m, n \in DOMAIN q : q[m] = q[n] => m = n

\* A selection of different events is as long as they are many.
LEMMA CountIs ==
  ASSUME NEW q \in Seq(Nat), Apart(q)
  PROVE  IsFiniteSet(Range(q)) /\ Cardinality(Range(q)) = Len(q)
<1>1. Len(q) \in Nat /\ DOMAIN q = 1 .. Len(q)
  OBVIOUS
<1>2. IsFiniteSet(1 .. Len(q)) /\ Cardinality(1 .. Len(q)) = Len(q)
  <2>1. 1 \in Int /\ Len(q) \in Int /\ (1 > Len(q) => Len(q) = 0)
    BY <1>1
  <2> QED
    BY <1>1, <2>1, FS_Interval
<1> DEFINE value == [m \in 1 .. Len(q) |-> q[m]]
<1>3. value \in [1 .. Len(q) -> Range(q)]
  BY <1>1 DEF Range
<1>4. /\ \A m, n \in 1 .. Len(q) : value[m] = value[n] => m = n
      /\ \A v \in Range(q) : \E m \in 1 .. Len(q) : value[m] = v
  BY <1>1 DEF Apart, Range
<1> HIDE DEF value
<1>5. value \in Bijection(1 .. Len(q), Range(q))
  BY <1>3, <1>4 DEF Bijection, Injection, Surjection, IsInjective
<1> QED
  BY <1>2, <1>5, FS_Bijection DEF ExistsBijection

\* The event takes the place of the one it supersedes, or the next.
LEMMA PlaceIs ==
  ASSUME LogRight, NEW after \in Nat, NEW n \in Nat, NEW q \in Seq(Nat), Apart(q),
         Range(q) = Survivors(after, n), NEW i, i = n + 1
  PROVE  /\ Place(q, i) \in Seq(Nat) /\ Apart(Place(q, i))
         /\ Range(Place(q, i)) = (Range(q) \ Superseded(after, i)) \cup {i}
         /\ {q[p] : p \in Replaces(q, i)} = Superseded(after, i)
         /\ Len(Place(q, i)) = IF Replaces(q, i) = {} THEN Len(q) + 1 ELSE Len(q)
<1>1. /\ Len(q) \in Nat /\ DOMAIN q = 1 .. Len(q) /\ i \in Nat /\ i - 1 = n
      /\ \A p \in DOMAIN q : q[p] \in Survivors(after, n)
  BY DEF Range
<1>2. i \notin Range(q)
  <2>1. Range(q) \in SUBSET (after + 1 .. n)
    BY SurvivorsAre
  <2>2. n + 1 \notin after + 1 .. n
    OBVIOUS
  <2> QED
    BY <2>1, <2>2
<1>3. Superseded(after, i) = {j \in Range(q) : Coalesces(i) /\ Same(j, i)}
  BY <1>1 DEF Superseded
<1>4. Replaces(q, i) = {p \in DOMAIN q : Coalesces(i) /\ Same(q[p], i)}
  BY DEF Replaces
<1>5. {q[p] : p \in Replaces(q, i)} = Superseded(after, i)
  BY <1>3, <1>4 DEF Range
<1>6. CASE Replaces(q, i) = {}
  <2>1. Place(q, i) = Append(q, i)
    BY <1>6 DEF Place
  <2>2. /\ Append(q, i) \in Seq(Nat) /\ Len(Append(q, i)) = Len(q) + 1
        /\ DOMAIN Append(q, i) = 1 .. Len(q) + 1
        /\ Append(q, i)[Len(q) + 1] = i /\ \A p \in 1 .. Len(q) : Append(q, i)[p] = q[p]
    BY <1>1
  <2>3. Superseded(after, i) = {}
    BY <1>5, <1>6
  <2>4. Range(Append(q, i)) = Range(q) \cup {i}
    <3>1. ASSUME NEW p \in 1 .. Len(q) + 1
          PROVE  Append(q, i)[p] \in Range(q) \cup {i}
      <4>1. p \in 1 .. Len(q) \/ p = Len(q) + 1
        BY <1>1
      <4> QED
        BY <1>1, <2>2, <4>1 DEF Range
    <3>2. ASSUME NEW p \in 1 .. Len(q)
          PROVE  q[p] \in Range(Append(q, i))
      <4>1. p \in 1 .. Len(q) + 1
        BY <1>1
      <4> QED
        BY <2>2, <4>1 DEF Range
    <3>3. Len(q) + 1 \in 1 .. Len(q) + 1
      BY <1>1
    <3>4. i \in Range(Append(q, i))
      BY <2>2, <3>3 DEF Range
    <3>5. Range(Append(q, i)) \subseteq Range(q) \cup {i}
      BY <2>2, <3>1 DEF Range
    <3>6. Range(q) \subseteq Range(Append(q, i))
      BY <1>1, <3>2 DEF Range
    <3> QED
      BY <3>4, <3>5, <3>6
  <2>5. Apart(Append(q, i))
    <3>1. \A p \in 1 .. Len(q) : q[p] # i
      BY <1>1, <1>2 DEF Range
    <3>2. SUFFICES ASSUME NEW l \in 1 .. Len(q) + 1, NEW m \in 1 .. Len(q) + 1,
                          Append(q, i)[l] = Append(q, i)[m]
                   PROVE  l = m
      BY <2>2 DEF Apart
    <3>3. (l \in 1 .. Len(q) \/ l = Len(q) + 1) /\ (m \in 1 .. Len(q) \/ m = Len(q) + 1)
      BY <1>1
    <3> QED
      BY <1>1, <2>2, <3>1, <3>2, <3>3 DEF Apart
  <2> QED
    BY <1>5, <1>6, <2>1, <2>2, <2>3, <2>4, <2>5
<1>7. ASSUME NEW o \in Replaces(q, i)
      PROVE  /\ Place(q, i) \in Seq(Nat) /\ Apart(Place(q, i))
             /\ Range(Place(q, i)) = (Range(q) \ Superseded(after, i)) \cup {i}
             /\ Len(Place(q, i)) = Len(q)
  <2>1. \A p \in Replaces(q, i) : p = o
    <3>1. SUFFICES ASSUME NEW p \in Replaces(q, i)
                   PROVE  p = o
      OBVIOUS
    <3>2. /\ q[p] \in Survivors(after, n) /\ q[o] \in Survivors(after, n)
          /\ Coalesces(i) /\ Same(q[p], i) /\ Same(q[o], i)
      BY <1>1, <1>4
    <3>3. q[p] = q[o]
      BY <3>2, OneSuperseded
    <3> QED
      BY <1>4, <3>3 DEF Apart
  <2>2. Place(q, i) = [p \in DOMAIN q |-> IF p = o THEN i ELSE q[p]]
    <3>1. Place(q, i) = [p \in DOMAIN q |-> IF p \in Replaces(q, i) THEN i ELSE q[p]]
      BY DEF Place
    <3> QED
      BY <2>1, <3>1
  <2> DEFINE s == [p \in 1 .. Len(q) |-> IF p = o THEN i ELSE q[p]]
  <2>3. Place(q, i) = s /\ o \in 1 .. Len(q)
    BY <1>1, <1>4, <2>2
  <2>4. s \in Seq(Nat) /\ DOMAIN s = 1 .. Len(q) /\ Len(s) = Len(q)
        /\ \A p \in 1 .. Len(q) : s[p] = IF p = o THEN i ELSE q[p]
    BY <1>1
  <2> HIDE DEF s
  <2>5. Superseded(after, i) = {q[o]}
    BY <1>5, <2>1
  <2>6. Range(s) = (Range(q) \ {q[o]}) \cup {i}
    <3>1. ASSUME NEW p \in 1 .. Len(q)
          PROVE  s[p] \in (Range(q) \ {q[o]}) \cup {i}
      BY <1>1, <2>3, <2>4 DEF Range, Apart
    <3>2. ASSUME NEW p \in 1 .. Len(q), q[p] # q[o]
          PROVE  q[p] \in Range(s)
      BY <2>4, <3>2 DEF Range
    <3>3. i \in Range(s)
      BY <2>3, <2>4 DEF Range
    <3>4. Range(s) \subseteq (Range(q) \ {q[o]}) \cup {i}
      BY <2>4, <3>1 DEF Range
    <3>5. Range(q) \ {q[o]} \subseteq Range(s)
      BY <1>1, <3>2 DEF Range
    <3> QED
      BY <3>3, <3>4, <3>5
  <2>7. Apart(s)
    <3>1. \A p \in 1 .. Len(q) : q[p] # i
      BY <1>1, <1>2 DEF Range
    <3> QED
      BY <1>1, <2>4, <3>1 DEF Apart
  <2> QED
    BY <2>3, <2>4, <2>5, <2>6, <2>7
<1> QED
  BY <1>5, <1>6, <1>7

\* A pass over the events above "after" up to n, told by the survivors: the
\* cursor stands at the first event that broke a budget, or at n.
Faithful(acc, after, n) ==
  /\ acc \in [cursor : Nat, selected : Seq(Nat), bytes : Nat, done : BOOLEAN, error : BOOLEAN]
  /\ acc.cursor \in after .. n
  /\ Apart(acc.selected) /\ Range(acc.selected) = Survivors(after, acc.cursor)
  /\ acc.bytes = SumFunctionOnSet(Sizes, Survivors(after, acc.cursor))
  /\ \A m \in after .. acc.cursor : WithinBudget(after, m)
  /\ acc.done => acc.cursor < n /\ ~WithinBudget(after, acc.cursor + 1)
  /\ ~acc.done => acc.cursor = n
  /\ acc.error <=> (acc.done /\ Survivors(after, acc.cursor) = {})

\* What the budgets are of a pass over one more event.
LEMMA CandidateIs ==
  ASSUME LogRight, NEW after \in Nat, NEW n \in Nat, after <= n, n + 1 <= Len(events),
         Eligible(n + 1), NEW q \in Seq(Nat), Apart(q), Range(q) = Survivors(after, n),
         NEW acc, acc.selected = q, acc.bytes = SumFunctionOnSet(Sizes, Survivors(after, n))
  PROVE  /\ Place(q, n + 1) \in Seq(Nat) /\ Apart(Place(q, n + 1))
         /\ Range(Place(q, n + 1)) = Survivors(after, n + 1)
         /\ CandidateBytes(acc, n + 1) \in Nat
         /\ CandidateBytes(acc, n + 1) = SumFunctionOnSet(Sizes, Survivors(after, n + 1))
         /\ Cardinality(Survivors(after, n + 1))
              = IF Replaces(q, n + 1) = {} THEN Len(q) + 1 ELSE Len(q)
         /\ Cardinality(Survivors(after, n)) = Len(q)
<1> DEFINE i   == n + 1
           S   == Survivors(after, n)
           O   == Superseded(after, n + 1)
           N   == Survivors(after, n + 1)
           Sum(T) == SumFunctionOnSet(Sizes, T)
<1>1. /\ Place(q, i) \in Seq(Nat) /\ Apart(Place(q, i))
      /\ Range(Place(q, i)) = (Range(q) \ O) \cup {i}
      /\ {q[p] : p \in Replaces(q, i)} = O
      /\ Len(Place(q, i)) = IF Replaces(q, i) = {} THEN Len(q) + 1 ELSE Len(q)
  <2>1. i = n + 1
    OBVIOUS
  <2>2. /\ LogRight /\ after \in Nat /\ n \in Nat /\ q \in Seq(Nat) /\ Apart(q)
        /\ Range(q) = Survivors(after, n) /\ i = n + 1
    BY <2>1
  <2> HIDE DEF i
  <2>3. /\ Place(q, i) \in Seq(Nat) /\ Apart(Place(q, i))
        /\ Range(Place(q, i)) = (Range(q) \ Superseded(after, i)) \cup {i}
        /\ {q[p] : p \in Replaces(q, i)} = Superseded(after, i)
        /\ Len(Place(q, i)) = IF Replaces(q, i) = {} THEN Len(q) + 1 ELSE Len(q)
    BY ONLY <2>2, PlaceIs
  <2> QED
    BY <2>1, <2>3
<1>2. N = (S \ O) \cup {i}
  BY SurvivorsNext
<1>3. Range(Place(q, i)) = N
  BY <1>1, <1>2
<1>4. Cardinality(N) = Len(Place(q, i)) /\ Cardinality(S) = Len(q)
  BY <1>1, <1>3, CountIs
<1>5. /\ S \in SUBSET (after + 1 .. n) /\ IsFiniteSet(S)
      /\ N \in SUBSET (after + 1 .. n + 1) /\ IsFiniteSet(N)
  <2>1. n + 1 \in Nat
    OBVIOUS
  <2> QED
    BY <2>1, SurvivorsAre
<1>6. O \in SUBSET S
  <2>1. (n + 1) - 1 = n
    OBVIOUS
  <2> QED
    BY <2>1 DEF Superseded
<1>7. (\A y \in S : Sizes[y] \in Nat) /\ (\A y \in N : Sizes[y] \in Nat)
  <2>1. Len(events) \in Nat /\ \A y \in 1 .. Len(events) : Sizes[y] \in Nat
    BY LogIs
  <2>2. after + 1 .. n \subseteq 1 .. Len(events) /\ after + 1 .. n + 1 \subseteq 1 .. Len(events)
    BY <2>1
  <2> QED
    BY <1>5, <2>1, <2>2
<1>8. i \in N /\ N \ {i} = S \ O
  <2>1. i \notin after + 1 .. n
    OBVIOUS
  <2> QED
    BY <1>2, <1>5, <2>1
<1> HIDE DEF S, O, N
<1>9. Sum(N) = Sizes[i] + Sum(S \ O)
  <2>1. Sum(N) = Sizes[i] + Sum(N \ {i})
    BY <1>5, <1>7, <1>8, SumRemove
  <2> QED
    BY <1>8, <2>1
<1>10. Sum(S) = Sum(O) + Sum(S \ O) /\ {Sum(S), Sum(O), Sum(S \ O)} \subseteq Nat
  <2>1. /\ SumFunctionOnSet(Sizes, S) = SumFunctionOnSet(Sizes, O) + SumFunctionOnSet(Sizes, S \ O)
        /\ {SumFunctionOnSet(Sizes, S), SumFunctionOnSet(Sizes, O), SumFunctionOnSet(Sizes, S \ O)} \subseteq Nat
    <3> HIDE DEF Sum, i
    <3>1. IsFiniteSet(S) /\ (\A y \in S : Sizes[y] \in Nat) /\ O \in SUBSET S
      BY <1>5, <1>6, <1>7
    <3> QED
      BY ONLY <3>1, SumSplit
  <2> QED
    BY <2>1
<1>11. Sizes[i] \in Nat
  BY <1>7, <1>8
<1>12. CandidateBytes(acc, i) = Sum(S) + Sizes[i] - Sum(O)
  BY <1>1 DEF CandidateBytes, S
<1>13. CandidateBytes(acc, i) = Sum(N) /\ Sum(N) \in Nat
  <2> HIDE DEF Sum
  <2> QED
    BY <1>9, <1>10, <1>11, <1>12
<1> QED
  BY <1>1, <1>3, <1>4, <1>13 DEF N, S

\* The body of the loop keeps it so.
LEMMA ScanStep ==
  ASSUME LogRight, NEW after \in Nat, NEW n \in Nat, after <= n, n + 1 <= Len(events),
         NEW acc, Faithful(acc, after, n)
  PROVE  Faithful(Scan(acc, n + 1), after, n + 1)
<1> DEFINE i == n + 1
<1>1. /\ acc \in [cursor : Nat, selected : Seq(Nat), bytes : Nat, done : BOOLEAN, error : BOOLEAN]
      /\ acc.cursor \in after .. n
      /\ Apart(acc.selected) /\ Range(acc.selected) = Survivors(after, acc.cursor)
      /\ acc.bytes = SumFunctionOnSet(Sizes, Survivors(after, acc.cursor))
      /\ \A m \in after .. acc.cursor : WithinBudget(after, m)
      /\ acc.done => acc.cursor < n /\ ~WithinBudget(after, acc.cursor + 1)
      /\ ~acc.done => acc.cursor = n
      /\ acc.error <=> (acc.done /\ Survivors(after, acc.cursor) = {})
  BY DEF Faithful
<1>2. after .. n \subseteq after .. n + 1 /\ n + 1 \in after .. n + 1
      /\ after .. n + 1 = (after .. n) \cup {n + 1}
  OBVIOUS
<1>3. CASE acc.done
  <2>1. Scan(acc, i) = acc
    BY <1>3 DEF Scan
  <2>2. acc.cursor < n + 1
    BY <1>1, <1>3
  <2>3. Faithful(acc, after, n + 1)
    BY <1>1, <1>2, <1>3, <2>2 DEF Faithful
  <2> QED
    BY <2>1, <2>3
<1>4. CASE ~acc.done /\ ~Eligible(i)
  <2>1. Scan(acc, i) = [acc EXCEPT !.cursor = i]
    BY <1>4 DEF Scan
  <2>2. Survivors(after, i) = Survivors(after, n)
    BY <1>4, SurvivorsNext
  <2>3. WithinBudget(after, i)
    <3>1. WithinBudget(after, n)
      BY <1>1, <1>4
    <3> QED
      BY <2>2, <3>1 DEF WithinBudget
  <2> DEFINE new == [acc EXCEPT !.cursor = i]
  <2>4. /\ new \in [cursor : Nat, selected : Seq(Nat), bytes : Nat, done : BOOLEAN, error : BOOLEAN]
        /\ new.cursor = i /\ new.selected = acc.selected /\ new.bytes = acc.bytes
        /\ new.done = acc.done /\ new.error = acc.error
    <3>1. i \in Nat
      OBVIOUS
    <3> HIDE DEF i
    <3> QED
      BY <1>1, <3>1
  <2> HIDE DEF new
  <2>5. \A m \in after .. i : WithinBudget(after, m)
    BY <1>1, <1>2, <1>4, <2>3
  <2>6. Faithful(new, after, i)
    BY <1>1, <1>2, <1>4, <2>2, <2>4, <2>5 DEF Faithful
  <2> QED
    BY <2>1, <2>6 DEF new
<1>5. ASSUME ~acc.done, Eligible(i)
      PROVE  Faithful(Scan(acc, i), after, i)
  <2> DEFINE q == acc.selected
  <2>1. /\ acc.cursor = n /\ q \in Seq(Nat) /\ Apart(q) /\ Range(q) = Survivors(after, n)
        /\ acc.bytes = SumFunctionOnSet(Sizes, Survivors(after, n)) /\ ~acc.error
    BY <1>1, <1>5
  <2>2. /\ Place(q, i) \in Seq(Nat) /\ Apart(Place(q, i))
        /\ Range(Place(q, i)) = Survivors(after, i)
        /\ CandidateBytes(acc, i) \in Nat
        /\ CandidateBytes(acc, i) = SumFunctionOnSet(Sizes, Survivors(after, i))
        /\ Cardinality(Survivors(after, i)) = IF Replaces(q, i) = {} THEN Len(q) + 1 ELSE Len(q)
        /\ Cardinality(Survivors(after, n)) = Len(q)
    BY <1>5, <2>1, CandidateIs
  <2>3. WithinBudget(after, n)
    BY <1>1, <2>1
  <2>4. request.limit \in Nat \ {0} /\ request.max_bytes \in Nat \ {0}
    BY LogIs
  <2>5. Len(q) \in Nat /\ Len(q) <= request.limit
    BY <2>1, <2>2, <2>3 DEF WithinBudget
  <2>6. WithinBudget(after, i) <=> ~Full(acc, i)
    <3>1. Full(acc, i) <=> \/ CandidateBytes(acc, i) > request.max_bytes
                           \/ Replaces(q, i) = {} /\ Len(q) = request.limit
      BY DEF Full
    <3>2. WithinBudget(after, i) <=>
            /\ (IF Replaces(q, i) = {} THEN Len(q) + 1 ELSE Len(q)) <= request.limit
            /\ CandidateBytes(acc, i) <= request.max_bytes
      BY <2>2 DEF WithinBudget
    <3> HIDE DEF q
    <3>3. CASE Replaces(q, i) = {}
      BY <2>2, <2>4, <2>5, <3>1, <3>2, <3>3
    <3>4. CASE Replaces(q, i) # {}
      BY <2>2, <2>4, <2>5, <3>1, <3>2, <3>4
    <3> QED
      BY <3>3, <3>4
  <2>7. CASE Full(acc, i)
    <3> DEFINE err == (q = <<>> /\ events[i].size > request.max_bytes)
               new == [acc EXCEPT !.done = TRUE, !.error = err]
    <3>1. Scan(acc, i) = new
      BY <1>5, <2>7 DEF Scan
    <3>2. err \in BOOLEAN
      OBVIOUS
    <3>3. err <=> Survivors(after, n) = {}
      <4>1. q = <<>> <=> Survivors(after, n) = {}
        <5>1. CASE q = <<>>
          BY <2>1, <5>1 DEF Range
        <5>2. CASE q # <<>>
          <6>1. q[1] \in Range(q)
            BY <2>1, <5>2 DEF Range
          <6> QED
            BY <2>1, <5>2, <6>1
        <5> QED
          BY <5>1, <5>2
      <4>2. ASSUME q = <<>>
            PROVE  events[i].size > request.max_bytes
        <5>1. Len(q) = 0 /\ Replaces(q, i) = {}
          BY <4>2 DEF Replaces
        <5>2. CandidateBytes(acc, i) > request.max_bytes
          BY <2>4, <2>7, <5>1 DEF Full
        <5>3. IsFiniteSet({})
          BY FS_EmptySet
        <5>4. SumFunctionOnSet(Sizes, {}) = 0
          BY <5>3, SumStep
        <5>5. acc.bytes = 0
          BY <2>1, <4>1, <4>2, <5>4
        <5>6. {acc.selected[p] : p \in Replaces(acc.selected, i)} = {}
          BY <5>1
        <5>7. CandidateBytes(acc, i) = 0 + Sizes[i] - 0
          BY <5>4, <5>5, <5>6 DEF CandidateBytes
        <5>8. Len(events) \in Nat /\ DOMAIN events = 1 .. Len(events) /\ i \in 1 .. Len(events)
          BY LogIs
        <5>9. Sizes[i] \in Nat /\ Sizes[i] = events[i].size
          BY <5>8, LogIs DEF Sizes
        <5> QED
          BY <5>2, <5>7, <5>9
      <4> QED
        BY <4>1, <4>2
    <3> HIDE DEF err
    <3>4. /\ new \in [cursor : Nat, selected : Seq(Nat), bytes : Nat, done : BOOLEAN, error : BOOLEAN]
          /\ new.cursor = n /\ new.selected = q /\ new.bytes = acc.bytes
      BY <1>1, <2>1, <3>2
    <3>5. new.done = TRUE /\ new.error = err
      BY <1>1
    <3> HIDE DEF new, q
    <3>6. ~WithinBudget(after, n + 1) /\ n < i /\ n \in after .. i
      BY <2>6, <2>7
    <3>7. \A m \in after .. new.cursor : WithinBudget(after, m)
      BY <1>1, <2>1, <3>4
    <3>8. Faithful(new, after, i)
      <4>1. new.error <=> (new.done /\ Survivors(after, new.cursor) = {})
        BY <3>3, <3>4, <3>5
      <4> QED
        BY <2>1, <3>4, <3>5, <3>6, <3>7, <4>1 DEF Faithful
    <3> QED
      BY <3>1, <3>8
  <2>8. CASE ~Full(acc, i)
    <3> DEFINE new == [acc EXCEPT !.selected = Place(@, i), !.bytes = CandidateBytes(acc, i), !.cursor = i]
    <3>1. Scan(acc, i) = new
      BY <1>5, <2>8 DEF Scan
    <3>2. /\ new \in [cursor : Nat, selected : Seq(Nat), bytes : Nat, done : BOOLEAN, error : BOOLEAN]
          /\ new.cursor = i /\ new.selected = Place(q, i) /\ new.bytes = CandidateBytes(acc, i)
      <4>1. i \in Nat
        OBVIOUS
      <4>2. Place(q, i) \in Seq(Nat) /\ CandidateBytes(acc, i) \in Nat
        BY <2>2
      <4> HIDE DEF i
      <4> QED
        BY <1>1, <4>1, <4>2
    <3>3. new.done = acc.done /\ new.error = acc.error
      BY <1>1
    <3> HIDE DEF new, q
    <3>4. \A m \in after .. new.cursor : WithinBudget(after, m)
      BY <1>1, <1>2, <2>1, <2>6, <2>8, <3>2
    <3>5. Faithful(new, after, i)
      BY <1>2, <1>5, <2>1, <2>2, <3>2, <3>3, <3>4 DEF Faithful
    <3> QED
      BY <3>1, <3>5
  <2> QED
    BY <2>7, <2>8
<1> QED
  BY <1>3, <1>4, <1>5

\* f is the loop of Scanned as far as e.
Passes(f, after, e) ==
  f = [n \in after .. e |-> IF n = after THEN Scanning(after) ELSE Scan(f[n - 1], n)]

\* There is such a function, by induction on the length of the pass.
LEMMA PassesExist ==
  ASSUME NEW after \in Nat, NEW e \in Nat, after <= e
  PROVE  \E f : Passes(f, after, e)
<1> DEFINE Good == {k \in Nat : \E f : Passes(f, after, after + k)}
<1>1. 0 \in Good
  <2> DEFINE f == [n \in after .. after |-> Scanning(after)]
  <2>1. after .. after = {after} /\ after + 0 = after
    OBVIOUS
  <2>2. f = [n \in after .. after |-> IF n = after THEN Scanning(after) ELSE Scan(f[n - 1], n)]
    BY <2>1
  <2>3. Passes(f, after, after)
    BY <2>2 DEF Passes
  <2> QED
    BY <2>1, <2>3
<1>2. ASSUME NEW k \in Nat, k \in Good
      PROVE  k + 1 \in Good
  <2> DEFINE m == after + k
  <2>1. PICK f : Passes(f, after, m)
    BY <1>2
  <2> DEFINE g == [n \in after .. m + 1 |-> IF n = m + 1 THEN Scan(f[m], m + 1) ELSE f[n]]
  <2>2. m \in Nat /\ after <= m /\ after + (k + 1) = m + 1
    OBVIOUS
  <2>3. f = [n \in after .. m |-> IF n = after THEN Scanning(after) ELSE Scan(f[n - 1], n)]
    BY <2>1 DEF Passes
  <2> HIDE DEF m
  <2>4. ASSUME NEW n \in after .. m + 1
        PROVE  g[n] = IF n = after THEN Scanning(after) ELSE Scan(g[n - 1], n)
    <3>1. CASE n = m + 1
      <4>1. n # after /\ n - 1 = m /\ m \in after .. m + 1 /\ m # m + 1
        BY <2>2, <3>1
      <4>2. g[n] = Scan(f[m], m + 1) /\ g[m] = f[m]
        BY <3>1, <4>1
      <4> QED
        BY <3>1, <4>1, <4>2
    <3>2. CASE n # m + 1
      <4>1. n \in after .. m
        BY <2>2, <3>2
      <4>2. f[n] = IF n = after THEN Scanning(after) ELSE Scan(f[n - 1], n)
        BY <2>3, <4>1
      <4>3. g[n] = f[n]
        BY <3>2
      <4>4. CASE n = after
        BY <4>2, <4>3, <4>4
      <4>5. CASE n # after
        <5>1. n - 1 \in after .. m + 1 /\ n - 1 # m + 1
          BY <2>2, <4>1, <4>5
        <5>2. g[n - 1] = f[n - 1]
          BY <5>1
        <5> QED
          BY <4>2, <4>3, <4>5, <5>2
      <4> QED
        BY <4>4, <4>5
    <3> QED
      BY <3>1, <3>2
  <2>5. g = [n \in after .. m + 1 |-> IF n = after THEN Scanning(after) ELSE Scan(g[n - 1], n)]
    <3>1. g = [n \in after .. m + 1 |-> g[n]]
      OBVIOUS
    <3> HIDE DEF g
    <3> QED
      BY <2>4, <3>1
  <2>6. Passes(g, after, m + 1)
    <3> HIDE DEF g
    <3> QED
      BY <2>5 DEF Passes
  <2>7. \E h : Passes(h, after, m + 1)
    <3> HIDE DEF g
    <3> QED
      BY <2>6
  <2> QED
    BY <2>2, <2>7
<1>3. Nat \subseteq Good
  <2> HIDE DEF Good
  <2> QED
    BY <1>1, <1>2, NatSetInduction
<1>4. e - after \in Good /\ after + (e - after) = e
  <2>1. e - after \in Nat /\ after + (e - after) = e
    OBVIOUS
  <2> HIDE DEF Good
  <2> QED
    BY <1>3, <2>1
<1> QED
  BY <1>4

\* The whole scan keeps its promise, by induction on the event it has come to.
LEMMA ScannedIs ==
  ASSUME LogRight, NEW after \in Nat, after <= Len(events)
  PROVE  Faithful(Scanned(after), after, ScanEnd(after))
<1> DEFINE e == ScanEnd(after)
<1>1. e \in after .. Len(events) /\ Len(events) \in Nat /\ e \in Nat /\ after <= e
  <2>1. ScanEnd(after) \in after .. Len(events)
    BY ScanEndIs
  <2>2. Len(events) \in Nat
    BY LogIs
  <2> QED
    BY <2>1, <2>2
<1> HIDE DEF e
<1>2. \E f : Passes(f, after, e)
  BY <1>1, PassesExist
<1>3. PICK f : Passes(f, after, e) /\ Scanned(after) = f[e]
  <2> DEFINE loop == CHOOSE f : Passes(f, after, e)
  <2>1. Passes(loop, after, e)
    BY <1>2
  <2>2. Scanned(after) = loop[e]
    BY DEF Scanned, Passes, e
  <2> HIDE DEF loop
  <2> QED
    BY <2>1, <2>2
<1>4. f = [n \in after .. e |-> IF n = after THEN Scanning(after) ELSE Scan(f[n - 1], n)]
  BY <1>3 DEF Passes
<1>5. /\ f[after] = Scanning(after)
      /\ \A n \in after .. e : n # after => f[n] = Scan(f[n - 1], n)
  BY <1>1, <1>4
<1> DEFINE Good == {k \in Nat : after + k <= e => Faithful(f[after + k], after, after + k)}
<1>6. 0 \in Good
  <2>1. Faithful(Scanning(after), after, after)
    <3>1. Survivors(after, after) = {} /\ after \in after .. after
      BY SurvivorsAre
    <3>2. IsFiniteSet({}) /\ Cardinality({}) = 0
      BY FS_EmptySet
    <3>3. SumFunctionOnSet(Sizes, {}) = 0
      BY <3>2, SumStep
    <3>4. request.limit \in Nat \ {0} /\ request.max_bytes \in Nat \ {0}
      BY LogIs
    <3>5. WithinBudget(after, after)
      BY <3>1, <3>2, <3>3, <3>4 DEF WithinBudget
    <3>6. \A m \in after .. after : m = after
      OBVIOUS
    <3>7. <<>> \in Seq(Nat) /\ Apart(<<>>) /\ Range(<<>>) = {}
      BY DEF Apart, Range
    <3> DEFINE acc == Scanning(after)
    <3>8. /\ acc \in [cursor : Nat, selected : Seq(Nat), bytes : Nat, done : BOOLEAN, error : BOOLEAN]
          /\ acc.cursor = after /\ acc.selected = <<>> /\ acc.bytes = 0
          /\ acc.done = FALSE /\ acc.error = FALSE
      BY DEF Scanning
    <3> HIDE DEF acc
    <3> QED
      <4>1. Faithful(acc, after, after)
        BY <3>1, <3>3, <3>5, <3>6, <3>7, <3>8 DEF Faithful
      <4> QED
        BY <4>1 DEF acc
  <2> QED
    BY <1>5, <2>1
<1>7. ASSUME NEW k \in Nat, k \in Good
      PROVE  k + 1 \in Good
  <2> DEFINE n == after + k
  <2>1. n \in Nat /\ after <= n /\ after + (k + 1) = n + 1
    OBVIOUS
  <2>2. ASSUME n + 1 <= e
        PROVE  Faithful(f[n + 1], after, n + 1)
    <3>1. n <= e /\ n + 1 <= Len(events) /\ n + 1 \in after .. e /\ n + 1 # after /\ (n + 1) - 1 = n
      BY <1>1, <2>1, <2>2
    <3>2. Faithful(f[n], after, n)
      BY <1>7, <3>1
    <3>3. f[n + 1] = Scan(f[n], n + 1)
      <4>1. f[n + 1] = Scan(f[(n + 1) - 1], n + 1)
        BY <1>5, <3>1
      <4> QED
        BY <3>1, <4>1
    <3> HIDE DEF n
    <3>4. Faithful(Scan(f[n], n + 1), after, n + 1)
      BY <2>1, <3>1, <3>2, ScanStep
    <3> QED
      BY <3>3, <3>4
  <2> QED
    BY <2>1, <2>2
<1>8. Nat \subseteq Good
  <2> HIDE DEF Good
  <2> QED
    BY <1>6, <1>7, NatSetInduction
<1>9. e - after \in Nat /\ after + (e - after) = e /\ e <= e
  BY <1>1
<1>10. Faithful(f[e], after, e)
  BY <1>8, <1>9
<1> QED
  BY <1>3, <1>10 DEF e

-----------------------------------------------------------------------------
(* The answer.                                                             *)

\* A selection of different events has an order.
LEMMA SortedIs ==
  ASSUME NEW q \in Seq(Nat), Apart(q)
  PROVE  /\ Sorted(q) \in Seq(Nat) /\ Len(Sorted(q)) = Len(q)
         /\ Range(Sorted(q)) = Range(q)
         /\ \A m, n \in DOMAIN Sorted(q) : m < n => Sorted(q)[m] < Sorted(q)[n]
<1> DEFINE K == Range(q)
           s == [k \in 1 .. Len(q) |-> Nth(K, k)]
<1>1. Len(q) \in Nat /\ DOMAIN q = 1 .. Len(q) /\ K \in SUBSET Nat
  BY DEF Range
<1>2. IsFiniteSet(K) /\ Cardinality(K) = Len(q)
  BY CountIs
<1> HIDE DEF K
<1>3. \A k \in 1 .. Len(q) : Nth(K, k) \in K /\ Rank(K, Nth(K, k)) = k
  BY <1>1, <1>2, NthIsThere
<1>4. /\ \A i \in K : Rank(K, i) \in 1 .. Len(q)
      /\ \A i, m \in K : i < m => Rank(K, i) < Rank(K, m)
  BY <1>1, <1>2, RankBounds
<1>5. s \in [DOMAIN q -> K] /\ DOMAIN s = 1 .. Len(q)
      /\ \A k \in 1 .. Len(q) : s[k] = Nth(K, k)
  BY <1>1, <1>3
<1> HIDE DEF s
<1>6. ASSUME NEW m \in 1 .. Len(q), NEW n \in 1 .. Len(q), m < n
      PROVE  s[m] < s[n]
  <2>1. /\ s[m] \in K /\ s[n] \in K /\ Rank(K, s[m]) = m /\ Rank(K, s[n]) = n
    BY <1>3, <1>5
  <2>2. s[m] \in Nat /\ s[n] \in Nat /\ m \in Nat /\ n \in Nat
    <3>1. \A k \in 1 .. Len(q) : k \in Nat
      OBVIOUS
    <3> QED
      BY <1>1, <2>1, <3>1
  <2>3. s[m] # s[n]
    BY <1>6, <2>1, <2>2
  <2>4. ~(s[n] < s[m])
    BY <1>4, <1>6, <2>1, <2>2
  <2> QED
    BY <2>2, <2>3, <2>4
<1>7. Range(s) = K
  <2>1. ASSUME NEW v \in K
        PROVE  v \in Range(s)
    <3> DEFINE k == Rank(K, v)
    <3>1. k \in 1 .. Len(q) /\ s[k] \in K /\ Rank(K, s[k]) = k
      BY <1>3, <1>4, <1>5
    <3>2. s[k] \in Nat /\ v \in Nat /\ k \in Nat
      <4>1. \A j \in 1 .. Len(q) : j \in Nat
        OBVIOUS
      <4> HIDE DEF k
      <4> QED
        BY <1>1, <3>1, <4>1
    <3>3. ~(s[k] < v) /\ ~(v < s[k])
      BY <1>4, <3>1, <3>2
    <3> QED
      BY <1>5, <3>1, <3>2, <3>3 DEF Range
  <2>2. \A k \in 1 .. Len(q) : s[k] \in K
    BY <1>3, <1>5
  <2> QED
    BY <1>5, <2>1, <2>2 DEF Range
<1> DEFINE Good(t) == /\ Range(t) = K
                      /\ \A m, n \in DOMAIN t : m < n => t[m] < t[n]
<1>8. \E t \in [DOMAIN q -> K] : Good(t)
  BY <1>5, <1>6, <1>7
<1>9. Sorted(q) = CHOOSE t \in [DOMAIN q -> K] : Good(t)
  BY DEF Sorted, K
<1> HIDE DEF Good
<1>10. Sorted(q) \in [DOMAIN q -> K] /\ Good(Sorted(q))
  BY <1>8, <1>9
<1>11. Sorted(q) \in [1 .. Len(q) -> Nat]
  BY <1>1, <1>10
<1>12. Sorted(q) \in Seq(Nat) /\ Len(Sorted(q)) = Len(q)
  BY <1>1, <1>11
<1> QED
  BY <1>10, <1>12 DEF Good, K

\* What a fetch answers, told by the survivors.
LEMMA FetchedIs ==
  ASSUME LogRight, NEW after \in Nat, after <= Len(events), NEW result, result = Fetched(after)
  PROVE  /\ result.cursor = StopsAt(after) /\ result.cursor \in after .. ScanEnd(after)
         /\ result.events \in Seq(Nat)
         /\ Range(result.events) = Survivors(after, result.cursor)
         /\ \A m, n \in DOMAIN result.events : m < n => result.events[m] < result.events[n]
         /\ WithinBudget(after, result.cursor)
         /\ result.has_more <=> result.cursor < Len(events)
         /\ result.error <=> (result.cursor < ScanEnd(after) /\ Survivors(after, result.cursor) = {})
<1> DEFINE end == Scanned(after)
           c   == end.cursor
<1>1. Faithful(end, after, ScanEnd(after))
  BY ScannedIs
<1>2. /\ end \in [cursor : Nat, selected : Seq(Nat), bytes : Nat, done : BOOLEAN, error : BOOLEAN]
      /\ c \in after .. ScanEnd(after)
      /\ Apart(end.selected) /\ Range(end.selected) = Survivors(after, c)
      /\ \A m \in after .. c : WithinBudget(after, m)
      /\ end.done => c < ScanEnd(after) /\ ~WithinBudget(after, c + 1)
      /\ ~end.done => c = ScanEnd(after)
      /\ end.error <=> (end.done /\ Survivors(after, c) = {})
  BY <1>1 DEF Faithful
<1>3. ScanEnd(after) \in Nat /\ Len(events) \in Nat
  <2>1. ScanEnd(after) \in after .. Len(events) /\ Len(events) \in Nat
    BY ScanEndIs, LogIs
  <2> QED
    BY <2>1
<1>4. /\ result.cursor = c /\ result.events = Sorted(end.selected)
      /\ result.has_more = (c < Len(events))
      /\ result.error = (end.error \/ after > Len(events))
  BY DEF Fetched
<1>5. ~(after > Len(events))
  BY <1>3
<1> HIDE DEF end
<1>6. end.selected \in Seq(Nat) /\ end.done \in BOOLEAN
  BY <1>2
<1>7. /\ result.events \in Seq(Nat) /\ Range(result.events) = Range(end.selected)
      /\ \A m, n \in DOMAIN result.events : m < n => result.events[m] < result.events[n]
  BY <1>2, <1>4, <1>6, SortedIs
<1>8. c \in Nat /\ after <= c /\ c <= ScanEnd(after) /\ c \in after .. c
  BY <1>2, <1>3
<1> HIDE DEF c
<1>9. StopsAt(after) = c
  <2> DEFINE T == {n \in after .. ScanEnd(after) : \A m \in after .. n : WithinBudget(after, m)}
  <2>1. T \in SUBSET Nat /\ c \in T
    BY <1>2, <1>3
  <2>2. ASSUME NEW k \in T, c < k
        PROVE  FALSE
    <3>1. k \in Nat /\ k <= ScanEnd(after) /\ c + 1 \in after .. k
      BY <1>3, <1>8, <2>2
    <3>2. WithinBudget(after, c + 1)
      BY <2>2, <3>1
    <3>3. end.done
      BY <1>2, <1>3, <1>8, <2>2, <3>1
    <3> QED
      BY <1>2, <3>2, <3>3
  <2>3. \A k \in T : k <= c
    BY <1>8, <2>1, <2>2
  <2> HIDE DEF T
  <2>4. Max(T) = c
    BY <2>1, <2>3, MaxIs
  <2> QED
    BY <2>4 DEF StopsAt, T
<1>10. end.done <=> c < ScanEnd(after)
  BY <1>2, <1>3, <1>8
<1>11. result.error <=> (c < ScanEnd(after) /\ Survivors(after, c) = {})
  BY <1>2, <1>4, <1>5, <1>10
<1> QED
  BY <1>2, <1>4, <1>7, <1>8, <1>9, <1>11

LEMMA Coalesced ==
  ASSUME LogRight
  PROVE  ScanIsCoalescedPrefix
<1>1. SUFFICES ASSUME NEW after \in 0 .. Len(events), NEW result, result = Fetched(after)
               PROVE  /\ result.cursor = StopsAt(after)
                      /\ Range(result.events) = Survivors(after, StopsAt(after))
                      /\ \A m, n \in DOMAIN result.events : m < n => result.events[m] < result.events[n]
                      /\ result.error <=> /\ StopsAt(after) < ScanEnd(after)
                                          /\ Survivors(after, StopsAt(after)) = {}
  BY DEF ScanIsCoalescedPrefix
<1>2. after \in Nat /\ after <= Len(events)
  BY LogIs
<1> QED
  BY <1>1, <1>2, FetchedIs

\* The bytes of an answer are those of its events.
LEMMA SizeIs ==
  ASSUME LogRight, NEW q \in Seq(Nat), Apart(q), Range(q) \subseteq 1 .. Len(events)
  PROVE  SizeOf(q) = SumFunctionOnSet(Sizes, Range(q))
<1>1. Len(q) \in Nat /\ DOMAIN q = 1 .. Len(q)
  OBVIOUS
<1>2. IsFiniteSet(DOMAIN q)
  BY <1>1, FS_Interval
<1>3. \A d \in DOMAIN q : Sizes[q[d]] \in Nat
  BY LogIs DEF Range
<1>4. \A m, n \in DOMAIN q : q[m] = q[n] => m = n
  BY DEF Apart
<1>5. SumFunctionOnSet([d \in DOMAIN q |-> Sizes[q[d]]], DOMAIN q)
        = SumFunctionOnSet(Sizes, {q[d] : d \in DOMAIN q})
  BY <1>2, <1>3, <1>4, SumAlong
<1> QED
  BY <1>5 DEF SizeOf, Range

\* The SDK accepts every answer that is not an error.
LEMMA Accepted ==
  ASSUME LogRight
  PROVE  NeverRejected
<1>1. SUFFICES ASSUME NEW after \in 0 .. Len(events), NEW result, result = Fetched(after), ~result.error
               PROVE  AcceptedBy(after, result)
  BY DEF NeverRejected
<1> DEFINE c == result.cursor
           q == result.events
<1>2. after \in Nat /\ after <= Len(events) /\ Len(events) \in Nat
  BY LogIs
<1>3. /\ c \in after .. ScanEnd(after)
      /\ q \in Seq(Nat) /\ Range(q) = Survivors(after, c)
      /\ \A m, n \in DOMAIN q : m < n => q[m] < q[n]
      /\ WithinBudget(after, c)
      /\ result.has_more <=> c < Len(events)
      /\ result.error <=> (c < ScanEnd(after) /\ Survivors(after, c) = {})
  BY <1>1, <1>2, FetchedIs
<1>4. /\ ScanEnd(after) \in after .. Len(events)
      /\ after < Len(events) => after < ScanEnd(after)
  BY <1>2, ScanEndIs
<1> HIDE DEF c, q
<1>5. c \in Nat /\ after <= c /\ c <= Len(events)
  BY <1>2, <1>3, <1>4
<1>6. /\ \A v \in Survivors(after, c) : v \in after + 1 .. c /\ Eligible(v)
      /\ \A v \in Survivors(after, c) : Coalesces(v) => \A w \in v + 1 .. c : ~Same(v, w)
  BY DEF Survivors
<1>7. DOMAIN q = 1 .. Len(q) /\ Len(q) \in Nat /\ \A n \in DOMAIN q : q[n] \in Nat
  BY <1>3
<1>8. Apart(q)
  BY <1>3, <1>7 DEF Apart
<1>9. \A n \in DOMAIN q : q[n] \in Survivors(after, c)
  BY <1>3 DEF Range
<1>10. Len(q) <= request.limit /\ SizeOf(q) <= request.max_bytes
  <2>1. Range(q) \subseteq 1 .. Len(events)
    BY <1>2, <1>3, <1>5, <1>6
  <2>2. SizeOf(q) = SumFunctionOnSet(Sizes, Range(q))
    BY <1>3, <1>8, <2>1, SizeIs
  <2>3. Cardinality(Range(q)) = Len(q)
    BY <1>3, <1>8, CountIs
  <2> QED
    BY <1>3, <2>2, <2>3 DEF WithinBudget
<1>11. result.has_more => c # after
  <2>1. SUFFICES ASSUME result.has_more, c = after
                 PROVE  FALSE
    OBVIOUS
  <2>2. Survivors(after, c) = {}
    BY <1>2, <2>1, SurvivorsAre
  <2> QED
    BY <1>1, <1>3, <1>4, <2>1, <2>2
<1>12. \A n \in DOMAIN q : after < q[n] /\ q[n] <= c /\ Eligible(q[n])
  BY <1>2, <1>5, <1>6, <1>7, <1>9
<1>13. ASSUME NEW m \in DOMAIN q, NEW n \in DOMAIN q, Coalesces(q[m]), Same(q[m], q[n])
       PROVE  m = n
  <2>1. q[m] \in Survivors(after, c) /\ q[n] \in Survivors(after, c)
    BY <1>9
  <2>2. Coalesces(q[n]) /\ Same(q[n], q[n])
    BY <1>13, SameIs DEF Same
  <2>3. q[m] = q[n]
    BY <1>2, <1>5, <1>13, <2>1, <2>2, OneSuperseded
  <2> QED
    BY <1>8, <2>3 DEF Apart
<1>14. c >= after
  BY <1>2, <1>5
<1> QED
  BY <1>3, <1>10, <1>11, <1>12, <1>13, <1>14 DEF AcceptedBy, c, q

-----------------------------------------------------------------------------
(* The subscription.                                                       *)

\* Every eligible event up to c is in the sequence, or one that supersedes it.
Covered(given, c) ==
  \A i \in request.after + 1 .. c :
    Eligible(i) =>
      \E n \in DOMAIN given :
        given[n] = i \/ (given[n] > i /\ Coalesces(i) /\ Same(i, given[n]))

Ascends(given) == \A m, n \in DOMAIN given : m < n => given[m] < given[n]

\* What the consumer has when it has consumed the batch at hand, and how far
\* the cursor is then.
Given == IF pc = "yielding" THEN yielded \o batch.left ELSE yielded
Due   == IF pc = "yielding" THEN batch.cursor ELSE cursor

\* The batch continues what was yielded; only a start may lie beyond the log.
SubscriptionInv ==
  /\ LogRight
  /\ yielded \in Seq(Nat) /\ batch \in [cursor : Nat, left : Seq(Nat), pause : BOOLEAN]
  /\ cursor \in Nat /\ Due \in Nat /\ request.after <= cursor /\ cursor <= Due
  /\ Due <= Len(events) \/ Due = request.after
  /\ Ascends(Given) /\ \A n \in DOMAIN Given : Given[n] \in 1 .. Due
  /\ Covered(yielded, cursor) /\ Covered(Given, Due)

LEMMA JoinIs ==
  ASSUME NEW q \in Seq(Nat), NEW s \in Seq(Nat)
  PROVE  /\ q \o s \in Seq(Nat) /\ Len(q) \in Nat /\ Len(s) \in Nat
         /\ DOMAIN q = 1 .. Len(q) /\ DOMAIN s = 1 .. Len(s) /\ DOMAIN (q \o s) = 1 .. Len(q) + Len(s)
         /\ \A n \in 1 .. Len(q) : (q \o s)[n] = q[n]
         /\ \A n \in 1 .. Len(s) : (q \o s)[Len(q) + n] = s[n]
         /\ s = <<>> => q \o s = q
<1>1. /\ q \o s \in Seq(Nat) /\ Len(q) \in Nat /\ Len(s) \in Nat
      /\ DOMAIN q = 1 .. Len(q) /\ DOMAIN s = 1 .. Len(s) /\ Len(q \o s) = Len(q) + Len(s)
  OBVIOUS
<1>2. DOMAIN (q \o s) = 1 .. Len(q) + Len(s)
  BY <1>1
<1>3. \A n \in 1 .. Len(q) : (q \o s)[n] = q[n]
  BY <1>1
<1>4. \A n \in 1 .. Len(s) : (q \o s)[Len(q) + n] = s[n]
  BY <1>1
<1>5. s = <<>> => q \o s = q
  OBVIOUS
<1> QED
  BY <1>1, <1>2, <1>3, <1>4, <1>5

\* What a longer sequence covers, and what a prefix of an ascending one is.
LEMMA CoveredMore ==
  ASSUME NEW q \in Seq(Nat), NEW s \in Seq(Nat), NEW c
  PROVE  /\ Covered(q, c) => Covered(q \o s, c)
         /\ Ascends(q \o s) => Ascends(q)
         /\ \A m : (\A n \in DOMAIN (q \o s) : (q \o s)[n] \in 1 .. m) => \A n \in DOMAIN q : q[n] \in 1 .. m
<1>1. /\ \A n \in DOMAIN q : n \in DOMAIN (q \o s) /\ (q \o s)[n] = q[n]
  <2>1. Len(q) \in Nat /\ Len(s) \in Nat /\ DOMAIN q = 1 .. Len(q) /\ DOMAIN (q \o s) = 1 .. Len(q) + Len(s)
        /\ \A n \in 1 .. Len(q) : (q \o s)[n] = q[n]
    BY JoinIs
  <2>2. 1 .. Len(q) \subseteq 1 .. Len(q) + Len(s)
    BY <2>1
  <2> QED
    BY <2>1, <2>2
<1>2. Covered(q, c) => Covered(q \o s, c)
  BY <1>1 DEF Covered
<1>3. Ascends(q \o s) => Ascends(q)
  BY <1>1 DEF Ascends
<1> QED
  BY <1>1, <1>2, <1>3

\* The consumer gets the head of the batch; together they are what they were.
LEMMA YieldIs ==
  ASSUME NEW q \in Seq(Nat), NEW s \in Seq(Nat), s # <<>>
  PROVE  /\ Append(q, Head(s)) \in Seq(Nat) /\ Tail(s) \in Seq(Nat)
         /\ Append(q, Head(s)) \o Tail(s) = q \o s
         /\ Append(q, Head(s)) = q \o <<Head(s)>> /\ <<Head(s)>> \in Seq(Nat)
<1>1. Head(s) \in Nat /\ Tail(s) \in Seq(Nat) /\ Len(s) \in Nat /\ Len(s) >= 1
      /\ Len(Tail(s)) = Len(s) - 1 /\ Head(s) = s[1]
      /\ \A n \in 1 .. Len(s) - 1 : Tail(s)[n] = s[n + 1]
  OBVIOUS
<1>2. <<Head(s)>> \in Seq(Nat) /\ Append(q, Head(s)) \in Seq(Nat)
      /\ Append(q, Head(s)) = q \o <<Head(s)>>
  BY <1>1
<1> DEFINE a == Append(q, Head(s)) \o Tail(s)
           b == q \o s
<1>3. /\ a \in Seq(Nat) /\ b \in Seq(Nat) /\ Len(q) \in Nat
      /\ Len(a) = Len(q) + 1 + (Len(s) - 1) /\ Len(b) = Len(q) + Len(s)
  BY <1>1, <1>2
<1>4. ASSUME NEW n \in 1 .. Len(q) + Len(s)
      PROVE  a[n] = b[n]
  <2>1. CASE n <= Len(q)
    BY <1>1, <1>2, <1>3, <2>1
  <2>2. CASE n = Len(q) + 1
    BY <1>1, <1>2, <1>3, <2>2
  <2>3. CASE n > Len(q) + 1
    BY <1>1, <1>2, <1>3, <2>3
  <2> QED
    BY <1>3, <2>1, <2>2, <2>3
<1>5. a = b
  <2> HIDE DEF a, b
  <2>1. Len(a) = Len(b) /\ DOMAIN a = 1 .. Len(b) /\ DOMAIN b = 1 .. Len(b)
        /\ Len(b) = Len(q) + Len(s)
    BY <1>1, <1>3
  <2>2. a = [n \in 1 .. Len(b) |-> a[n]] /\ b = [n \in 1 .. Len(b) |-> b[n]]
    BY <1>3, <2>1
  <2> QED
    BY <1>4, <2>1, <2>2
<1> QED
  BY <1>1, <1>2, <1>5

\* A fetched batch continues what was covered up to the cursor.
LEMMA FetchContinues ==
  ASSUME LogRight, NEW q \in Seq(Nat), NEW c \in Nat, c <= Len(events), request.after <= c,
         Ascends(q), \A n \in DOMAIN q : q[n] \in 1 .. c, Covered(q, c),
         NEW s \in Seq(Nat), NEW d \in Nat, c <= d,
         Ascends(s), Range(s) = Survivors(c, d)
  PROVE  /\ Ascends(q \o s) /\ \A n \in DOMAIN (q \o s) : (q \o s)[n] \in 1 .. d
         /\ Covered(q \o s, d)
<1>1. /\ Len(q) \in Nat /\ Len(s) \in Nat
      /\ DOMAIN q = 1 .. Len(q) /\ DOMAIN s = 1 .. Len(s) /\ DOMAIN (q \o s) = 1 .. Len(q) + Len(s)
      /\ \A n \in 1 .. Len(q) : (q \o s)[n] = q[n]
      /\ \A n \in 1 .. Len(s) : (q \o s)[Len(q) + n] = s[n]
  BY JoinIs
<1> DEFINE t == q \o s
<1>2. \A n \in 1 .. Len(s) : s[n] \in c + 1 .. d
  <2>1. Survivors(c, d) \in SUBSET (c + 1 .. d)
    BY SurvivorsAre
  <2> QED
    BY <1>1, <2>1 DEF Range
<1>3. ASSUME NEW n \in 1 .. Len(q) + Len(s)
      PROVE  \/ n \in 1 .. Len(q) /\ t[n] = q[n]
             \/ n - Len(q) \in 1 .. Len(s) /\ n > Len(q) /\ t[n] = s[n - Len(q)]
  <2>1. CASE n <= Len(q)
    BY <1>1, <2>1
  <2>2. CASE n > Len(q)
    <3>1. n - Len(q) \in 1 .. Len(s) /\ Len(q) + (n - Len(q)) = n
      BY <1>1, <2>2
    <3>2. t[Len(q) + (n - Len(q))] = s[n - Len(q)]
      BY <1>1, <3>1
    <3> QED
      BY <2>2, <3>1, <3>2
  <2> QED
    BY <1>1, <2>1, <2>2
<1>4. request.after \in Nat
  BY LogIs
<1> HIDE DEF t
<1>5. DOMAIN t = 1 .. Len(q) + Len(s)
  BY <1>1 DEF t
<1>6. \A n \in DOMAIN t : t[n] \in 1 .. d
  <2>1. 1 .. c \subseteq 1 .. d /\ c + 1 .. d \subseteq 1 .. d
    OBVIOUS
  <2> QED
    BY <1>1, <1>2, <1>3, <1>5, <2>1
<1>7. Ascends(t)
  <2>1. SUFFICES ASSUME NEW m \in 1 .. Len(q) + Len(s), NEW n \in 1 .. Len(q) + Len(s), m < n
                 PROVE  t[m] < t[n]
    BY <1>5 DEF Ascends
  <2>2. CASE n \in 1 .. Len(q) /\ t[n] = q[n]
    <3>1. m \in 1 .. Len(q) /\ t[m] = q[m]
      BY <1>1, <1>3, <2>1, <2>2
    <3> QED
      BY <1>1, <2>1, <2>2, <3>1 DEF Ascends
  <2>3. CASE n - Len(q) \in 1 .. Len(s) /\ n > Len(q) /\ t[n] = s[n - Len(q)]
    <3>1. CASE m \in 1 .. Len(q) /\ t[m] = q[m]
      <4>1. q[m] \in 1 .. c /\ s[n - Len(q)] \in c + 1 .. d
        BY <1>1, <1>2, <2>3, <3>1
      <4> QED
        BY <2>3, <3>1, <4>1
    <3>2. CASE m - Len(q) \in 1 .. Len(s) /\ m > Len(q) /\ t[m] = s[m - Len(q)]
      <4>1. m - Len(q) < n - Len(q)
        BY <1>1, <2>1
      <4>2. s[m - Len(q)] < s[n - Len(q)]
        BY <1>1, <2>3, <3>2, <4>1 DEF Ascends
      <4> QED
        BY <2>3, <3>2, <4>2
    <3> QED
      BY <1>3, <3>1, <3>2
  <2> QED
    BY <1>3, <2>2, <2>3
<1>8. Covered(t, d)
  <2>1. SUFFICES ASSUME NEW i \in request.after + 1 .. d, Eligible(i)
                 PROVE  \E n \in DOMAIN t : t[n] = i \/ (t[n] > i /\ Coalesces(i) /\ Same(i, t[n]))
    BY DEF Covered
  <2>2. CASE i \in request.after + 1 .. c
    <3>1. PICK n \in DOMAIN q : q[n] = i \/ (q[n] > i /\ Coalesces(i) /\ Same(i, q[n]))
      BY <2>1, <2>2 DEF Covered
    <3>2. n \in DOMAIN t /\ t[n] = q[n]
      BY <1>1, <1>5 DEF t
    <3> QED
      BY <3>1, <3>2
  <2>3. CASE i \in c + 1 .. d
    <3>1. PICK j \in Survivors(c, d) : j = i \/ (j > i /\ Coalesces(i) /\ Same(i, j))
      BY <2>1, <2>3, SurvivorFor
    <3>2. PICK n \in 1 .. Len(s) : s[n] = j
      BY <1>1 DEF Range
    <3>3. Len(q) + n \in DOMAIN t /\ t[Len(q) + n] = j
      BY <1>1, <1>5, <3>2 DEF t
    <3> QED
      BY <3>1, <3>3
  <2> QED
    BY <1>4, <2>2, <2>3
<1> QED
  BY <1>6, <1>7, <1>8 DEF t

LEMMA SubscriptionInit ==
  ASSUME Init
  PROVE  SubscriptionInv
<1>1. /\ events = <<>> /\ request \in Requests /\ cursor = request.after
      /\ pc = "fetching" /\ batch = NoBatch /\ yielded = <<>>
  BY DEF Init
<1>2. LogRight
  BY <1>1 DEF LogRight
<1>3. request.after \in Nat
  BY <1>2, LogIs
<1>4. /\ yielded \in Seq(Nat) /\ batch \in [cursor : Nat, left : Seq(Nat), pause : BOOLEAN]
      /\ Given = yielded /\ Due = cursor /\ DOMAIN yielded = {}
  BY <1>1 DEF NoBatch, Given, Due
<1>5. request.after + 1 .. cursor = {}
  BY <1>1, <1>3
<1> QED
  BY <1>1, <1>2, <1>3, <1>4, <1>5 DEF SubscriptionInv, Ascends, Covered

\* A publication changes no event that is there.
LEMMA PublishKeeps ==
  ASSUME LogRight, NEW r \in Records, Publish(r)
  PROVE  /\ LogRight' /\ Len(events)' = Len(events) + 1
         /\ \A i \in 1 .. Len(events) : /\ Eligible(i)' = Eligible(i) /\ Coalesces(i)' = Coalesces(i)
                                        /\ \A j \in 1 .. Len(events) : Same(i, j)' = Same(i, j)
<1>1. events' = Append(events, r) /\ request' = request
  BY DEF Publish
<1>2. events \in Seq(Records) /\ Len(events) \in Nat
  BY DEF LogRight
<1>3. /\ events' \in Seq(Records) /\ Len(events') = Len(events) + 1
      /\ \A i \in 1 .. Len(events) : events'[i] = events[i]
  BY <1>1, <1>2
<1>4. LogRight'
  BY <1>1, <1>3 DEF LogRight
<1>5. ASSUME NEW i \in 1 .. Len(events)
      PROVE  /\ Eligible(i)' = Eligible(i) /\ Coalesces(i)' = Coalesces(i)
             /\ \A j \in 1 .. Len(events) : Same(i, j)' = Same(i, j)
  BY <1>1, <1>3 DEF Eligible, Coalesces, Same
<1> QED
  BY <1>3, <1>4, <1>5

LEMMA CoveredThen ==
  ASSUME LogRight, NEW r \in Records, Publish(r), NEW q \in Seq(Nat), NEW c \in Nat, NEW m \in Nat,
         Covered(q, c), c <= m, \A n \in DOMAIN q : q[n] \in 1 .. m,
         m <= Len(events) \/ c = request.after
  PROVE  \A i \in request'.after + 1 .. c :
           Eligible(i)' => \E n \in DOMAIN q :
                             q[n] = i \/ (q[n] > i /\ Coalesces(i)' /\ Same(i, q[n])')
<1>1. request' = request
  BY DEF Publish
<1>2. request.after \in Nat /\ Len(events) \in Nat
  BY LogIs
<1>3. SUFFICES ASSUME NEW i \in request.after + 1 .. c, Eligible(i)'
               PROVE  \E n \in DOMAIN q :
                        q[n] = i \/ (q[n] > i /\ Coalesces(i)' /\ Same(i, q[n])')
  BY <1>1
<1>4. m <= Len(events)
  BY <1>2, <1>3
<1>5. i \in 1 .. Len(events) /\ \A n \in DOMAIN q : q[n] \in 1 .. Len(events)
  BY <1>2, <1>3, <1>4
<1>6. Eligible(i)' = Eligible(i) /\ Coalesces(i)' = Coalesces(i)
      /\ \A j \in 1 .. Len(events) : Same(i, j)' = Same(i, j)
  BY <1>5, PublishKeeps
<1>7. PICK n \in DOMAIN q : q[n] = i \/ (q[n] > i /\ Coalesces(i) /\ Same(i, q[n]))
  BY <1>3, <1>6 DEF Covered
<1> QED
  BY <1>5, <1>6, <1>7

\* What every subscription knows of the two sequences.
LEMMA SubscriptionIs ==
  ASSUME SubscriptionInv
  PROVE  /\ LogRight /\ request.after \in Nat /\ Len(events) \in Nat
         /\ yielded \in Seq(Nat) /\ Given \in Seq(Nat)
         /\ batch \in [cursor : Nat, left : Seq(Nat), pause : BOOLEAN]
         /\ Ascends(yielded) /\ \A n \in DOMAIN yielded : yielded[n] \in 1 .. Due
<1>1. /\ LogRight
      /\ yielded \in Seq(Nat) /\ batch \in [cursor : Nat, left : Seq(Nat), pause : BOOLEAN]
      /\ Ascends(Given) /\ \A n \in DOMAIN Given : Given[n] \in 1 .. Due
  BY DEF SubscriptionInv
<1>2. request.after \in Nat /\ Len(events) \in Nat
  BY <1>1, LogIs
<1>3. batch.left \in Seq(Nat)
  BY <1>1
<1>4. CASE pc = "yielding"
  <2>1. Given = yielded \o batch.left
    BY <1>4 DEF Given
  <2>2. Given \in Seq(Nat)
    BY <1>1, <1>3, <2>1, JoinIs
  <2>3. Ascends(yielded) /\ \A n \in DOMAIN yielded : yielded[n] \in 1 .. Due
    BY <1>1, <1>3, <2>1, CoveredMore
  <2> QED
    BY <1>1, <1>2, <2>2, <2>3
<1>5. CASE pc # "yielding"
  <2>1. Given = yielded
    BY <1>5 DEF Given
  <2> QED
    BY <1>1, <1>2, <2>1
<1> QED
  BY <1>4, <1>5

LEMMA SubscriptionNext ==
  ASSUME SubscriptionInv, [Next]_vars
  PROVE  SubscriptionInv'
<1>1. /\ LogRight
      /\ yielded \in Seq(Nat) /\ batch \in [cursor : Nat, left : Seq(Nat), pause : BOOLEAN]
      /\ cursor \in Nat /\ Due \in Nat /\ request.after <= cursor /\ cursor <= Due
      /\ (Due <= Len(events) \/ Due = request.after)
      /\ Ascends(Given) /\ (\A n \in DOMAIN Given : Given[n] \in 1 .. Due)
      /\ Covered(yielded, cursor) /\ Covered(Given, Due)
  BY DEF SubscriptionInv
<1>2. /\ request.after \in Nat /\ Len(events) \in Nat /\ Given \in Seq(Nat) /\ batch.left \in Seq(Nat)
      /\ Ascends(yielded) /\ (\A n \in DOMAIN yielded : yielded[n] \in 1 .. Due)
  BY <1>1, SubscriptionIs
<1>3. ASSUME NEW r \in Records, Publish(r)
      PROVE  SubscriptionInv'
  <2>1. /\ LogRight' /\ Len(events)' = Len(events) + 1
    BY <1>1, <1>3, PublishKeeps
  <2>2. UNCHANGED <<request, cursor, pc, batch, yielded>>
    BY <1>3 DEF Publish
  <2>3. Given' = Given /\ Due' = Due
    BY <2>2 DEF Given, Due
  <2>4. Covered(yielded, cursor)'
    <3>1. Due <= Len(events) \/ cursor = request.after
      BY <1>1, <1>2
    <3>2. PICK q : q = yielded
      OBVIOUS
    <3>3. /\ q \in Seq(Nat) /\ Covered(q, cursor)
          /\ \A n \in DOMAIN q : q[n] \in 1 .. Due
      BY <1>1, <1>2, <3>2
    <3>4. \A i \in request'.after + 1 .. cursor :
            Eligible(i)' => \E n \in DOMAIN q :
                              q[n] = i \/ (q[n] > i /\ Coalesces(i)' /\ Same(i, q[n])')
      BY <1>1, <1>3, <3>1, <3>3, CoveredThen
    <3>5. yielded' = q
      BY <2>2, <3>2
    <3> QED
      BY <2>2, <3>4, <3>5 DEF Covered, Eligible, Coalesces, Same
  <2>5. Covered(Given, Due)'
    <3>1. Due <= Due
      BY <1>1
    <3>2. PICK q : q = Given
      OBVIOUS
    <3>3. /\ q \in Seq(Nat) /\ Covered(q, Due)
          /\ \A n \in DOMAIN q : q[n] \in 1 .. Due
      BY <1>1, <1>2, <3>2
    <3>4. \A i \in request'.after + 1 .. Due :
            Eligible(i)' => \E n \in DOMAIN q :
                              q[n] = i \/ (q[n] > i /\ Coalesces(i)' /\ Same(i, q[n])')
      BY <1>1, <1>3, <3>1, <3>3, CoveredThen
    <3>5. Given' = q
      BY <2>3, <3>2
    <3> QED
      BY <2>3, <3>4, <3>5 DEF Covered, Eligible, Coalesces, Same
  <2>6. Ascends(Given)'
    BY <1>1, <2>3 DEF Ascends
  <2>7. (Due <= Len(events) \/ Due = request.after)'
    BY <1>1, <1>2, <2>1, <2>2, <2>3
  <2> QED
    BY <1>1, <2>1, <2>2, <2>3, <2>4, <2>5, <2>6, <2>7 DEF SubscriptionInv
<1>4. ASSUME UNCHANGED <<events, request>>, yielded' = yielded, cursor' = cursor,
             batch' \in [cursor : Nat, left : Seq(Nat), pause : BOOLEAN],
             Given' = Given, Due' = Due
      PROVE  SubscriptionInv'
  BY <1>1, <1>4 DEF SubscriptionInv, LogRight, Ascends, Covered, Eligible, Coalesces, Same
<1>5. ASSUME Fetch
      PROVE  SubscriptionInv'
  <2> DEFINE result == Fetched(cursor)
  <2>1. /\ pc = "fetching" /\ UNCHANGED <<events, request, cursor, yielded>>
        /\ IF result.error \/ ~AcceptedBy(cursor, result)
           THEN pc' = "failed" /\ UNCHANGED batch
           ELSE /\ pc' = "yielding"
                /\ batch' = [cursor |-> result.cursor, left |-> result.events,
                             pause |-> ~result.has_more \/ result.events = <<>>]
    BY <1>5 DEF Fetch
  <2>2. Given = yielded /\ Due = cursor
    BY <2>1 DEF Given, Due
  <2>3. CASE pc' = "failed" /\ UNCHANGED batch
    <3>1. Given' = yielded' /\ Due' = cursor'
      BY <2>3 DEF Given, Due
    <3> QED
      BY <1>1, <1>4, <2>1, <2>2, <2>3, <3>1
  <2>4. CASE ~result.error /\ pc' = "yielding"
             /\ batch' = [cursor |-> result.cursor, left |-> result.events,
                          pause |-> ~result.has_more \/ result.events = <<>>]
    <3>1. cursor <= Len(events)
      <4>1. result.error = (Scanned(cursor).error \/ cursor > Len(events))
        BY DEF Fetched
      <4>2. ~(cursor > Len(events))
        BY <2>4, <4>1, Zenon
      <4> QED
        BY <1>1, <1>2, <4>2
    <3>2. /\ result.cursor \in cursor .. ScanEnd(cursor) /\ result.events \in Seq(Nat)
          /\ Range(result.events) = Survivors(cursor, result.cursor)
          /\ \A m, n \in DOMAIN result.events : m < n => result.events[m] < result.events[n]
      BY <1>1, <3>1, FetchedIs
    <3>3. ScanEnd(cursor) \in cursor .. Len(events)
      BY <1>1, <3>1, ScanEndIs
    <3> DEFINE d == result.cursor
               s == result.events
    <3> HIDE DEF result
    <3>4. d \in Nat /\ cursor <= d /\ d <= Len(events) /\ request.after <= d
      BY <1>1, <1>2, <3>2, <3>3
    <3>5. s \in Seq(Nat) /\ Ascends(s) /\ Range(s) = Survivors(cursor, d)
      BY <3>2 DEF Ascends
    <3>6. /\ batch'.cursor = d /\ batch'.left = s
          /\ batch' \in [cursor : Nat, left : Seq(Nat), pause : BOOLEAN]
      BY <2>4, <3>4, <3>5
    <3> HIDE DEF d, s
    <3>7. /\ Ascends(yielded \o s) /\ (\A n \in DOMAIN (yielded \o s) : (yielded \o s)[n] \in 1 .. d)
          /\ Covered(yielded \o s, d)
      BY <1>1, <1>2, <2>2, <3>1, <3>4, <3>5, FetchContinues
    <3>8. Given' = yielded \o s /\ Due' = d
      BY <2>1, <2>4, <3>6 DEF Given, Due
    <3>9. LogRight'
      BY <1>1, <2>1 DEF LogRight
    <3>10. Covered(yielded, cursor)'
      BY <1>1, <2>1 DEF Covered, Eligible, Coalesces, Same
    <3>11. Covered(Given, Due)'
      BY <2>1, <3>7, <3>8 DEF Covered, Eligible, Coalesces, Same
    <3>12. Ascends(Given)' /\ (\A n \in DOMAIN Given : Given[n] \in 1 .. Due)'
      BY <3>7, <3>8 DEF Ascends
    <3> QED
      BY <1>1, <2>1, <3>4, <3>6, <3>8, <3>9, <3>10, <3>11, <3>12 DEF SubscriptionInv
  <2> QED
    BY <2>1, <2>3, <2>4
<1>6. ASSUME Yield
      PROVE  SubscriptionInv'
  <2>1. /\ pc = "yielding" /\ batch.left # <<>> /\ yielded' = Append(yielded, Head(batch.left))
        /\ batch' = [batch EXCEPT !.left = Tail(batch.left)] /\ UNCHANGED <<events, request, cursor, pc>>
    BY <1>6 DEF Yield
  <2>2. /\ Append(yielded, Head(batch.left)) \in Seq(Nat) /\ Tail(batch.left) \in Seq(Nat)
        /\ Append(yielded, Head(batch.left)) \o Tail(batch.left) = yielded \o batch.left
        /\ Append(yielded, Head(batch.left)) = yielded \o <<Head(batch.left)>>
        /\ <<Head(batch.left)>> \in Seq(Nat)
    BY <1>1, <1>2, <2>1, YieldIs
  <2>3. /\ batch'.cursor = batch.cursor /\ batch'.left = Tail(batch.left)
        /\ batch' \in [cursor : Nat, left : Seq(Nat), pause : BOOLEAN]
    BY <1>1, <2>1, <2>2
  <2>4. Given' = Given /\ Due' = Due
    BY <2>1, <2>2, <2>3 DEF Given, Due
  <2>5. Covered(yielded \o <<Head(batch.left)>>, cursor)
    BY <1>1, <2>2, CoveredMore
  <2>6. Covered(yielded, cursor)'
    <3>1. PICK q : q = yielded \o <<Head(batch.left)>>
      OBVIOUS
    <3>2. Covered(q, cursor) /\ yielded' = q
      BY <2>1, <2>2, <2>5, <3>1
    <3> QED
      BY <2>1, <3>2 DEF Covered, Eligible, Coalesces, Same
  <2>7. Covered(Given, Due)'
    BY <1>1, <2>1, <2>4 DEF Covered, Eligible, Coalesces, Same
  <2>8. Ascends(Given)' /\ LogRight'
    BY <1>1, <2>1, <2>4 DEF Ascends, LogRight
  <2> QED
    BY <1>1, <2>1, <2>2, <2>3, <2>4, <2>6, <2>7, <2>8 DEF SubscriptionInv
<1>7. ASSUME BatchDone
      PROVE  SubscriptionInv'
  <2>1. /\ pc = "yielding" /\ batch.left = <<>> /\ cursor' = batch.cursor
        /\ pc' \in {"sleeping", "fetching"} /\ batch' = NoBatch /\ UNCHANGED <<events, request, yielded>>
    BY <1>7 DEF BatchDone
  <2>2. Given = yielded \o batch.left /\ Due = batch.cursor
    BY <2>1 DEF Given, Due
  <2>3. Given = yielded
    BY <1>1, <1>2, <2>1, <2>2, JoinIs
  <2>4. Given' = yielded /\ Due' = batch.cursor /\ cursor' = Due
    BY <2>1, <2>2 DEF Given, Due
  <2>5. batch' \in [cursor : Nat, left : Seq(Nat), pause : BOOLEAN]
    BY <2>1 DEF NoBatch
  <2>6. Covered(Given, Due)' /\ Covered(yielded, cursor)'
    BY <1>1, <2>1, <2>2, <2>3, <2>4 DEF Covered, Eligible, Coalesces, Same
  <2>7. Ascends(Given)' /\ LogRight'
    BY <1>1, <2>1, <2>3, <2>4 DEF Ascends, LogRight
  <2>8. request.after <= Due
    BY <1>1, <1>2
  <2> QED
    BY <1>1, <2>1, <2>2, <2>3, <2>4, <2>5, <2>6, <2>7, <2>8 DEF SubscriptionInv
<1>8. ASSUME Wake
      PROVE  SubscriptionInv'
  <2>1. pc = "sleeping" /\ pc' = "fetching" /\ UNCHANGED <<events, request, cursor, batch, yielded>>
    BY <1>8 DEF Wake
  <2>2. Given' = Given /\ Due' = Due
    BY <2>1 DEF Given, Due
  <2> QED
    BY <1>1, <1>4, <2>1, <2>2
<1>9. ASSUME UNCHANGED vars
      PROVE  SubscriptionInv'
  <2>1. UNCHANGED <<events, request, cursor, pc, batch, yielded>>
    BY <1>9 DEF vars
  <2>2. Given' = Given /\ Due' = Due
    BY <2>1 DEF Given, Due
  <2> QED
    BY <1>1, <1>4, <2>1, <2>2
<1> QED
  BY <1>3, <1>5, <1>6, <1>7, <1>8, <1>9 DEF Next

LEMMA SubscriptionSkips ==
  ASSUME SubscriptionInv
  PROVE  NothingSkipped
<1>1. /\ cursor \in Nat /\ Due \in Nat /\ request.after <= cursor /\ cursor <= Due
      /\ (Due <= Len(events) \/ Due = request.after) /\ Covered(yielded, cursor)
  BY DEF SubscriptionInv
<1>2. request.after \in Nat /\ Len(events) \in Nat /\ Ascends(yielded)
  BY SubscriptionIs
<1>3. Min({cursor, Len(events)}) = IF cursor <= Len(events) THEN cursor ELSE Len(events)
  BY <1>1, <1>2, MinIs
<1>4. request.after + 1 .. Min({cursor, Len(events)}) \subseteq request.after + 1 .. cursor
  BY <1>1, <1>2, <1>3
<1> QED
  BY <1>1, <1>2, <1>4 DEF NothingSkipped, Covered, Ascends

LEMMA SubscriptionKept == Spec => []SubscriptionInv
<1>1. Init => SubscriptionInv
  BY SubscriptionInit
<1>2. SubscriptionInv /\ [Next]_vars => SubscriptionInv'
  BY SubscriptionNext
<1> QED
  BY <1>1, <1>2, PTL DEF Spec

-----------------------------------------------------------------------------
(* Theorems.                                                               *)

\* The bounded scan of Store::fetch, with its replacements in place, its early
\* stop and its final sort, returns the survivors of the longest run of events
\* that fits, for every log, cursor, limit and byte budget.
THEOREM FetchesCoalesce == Spec => []ScanIsCoalescedPrefix
<1>1. SubscriptionInv => ScanIsCoalescedPrefix
  BY Coalesced DEF SubscriptionInv
<1> QED
  BY <1>1, SubscriptionKept, PTL

\* Client.fetch accepts every answer of Store::fetch that is not an error: its
\* order, its range, its size, its count, its coalescing and its progress.
THEOREM FetchesAreAccepted == Spec => []NeverRejected
<1>1. SubscriptionInv => NeverRejected
  BY Accepted DEF SubscriptionInv
<1> QED
  BY <1>1, SubscriptionKept, PTL

\* subscribe() gives its consumer every eligible event between its starting
\* point and its cursor, or one that supersedes it, once and in order, across
\* its batches and pauses and whatever is published meanwhile.
THEOREM SubscriptionsSkipNothing == Spec => []NothingSkipped
<1>1. SubscriptionInv => NothingSkipped
  BY SubscriptionSkips
<1> QED
  BY <1>1, SubscriptionKept, PTL
=============================================================================
