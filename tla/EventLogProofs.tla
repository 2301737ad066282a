---------------------------- MODULE EventLogProofs ----------------------------
(***************************************************************************)
(* Acknowledged records survive, a healthy store agrees with its file, a   *)
(* crash leaves a file that opens again, and the store keeps the promise   *)
(* of DurableLog: for any batches and budgets.                             *)
(***************************************************************************)
EXTENDS EventLog, ContainerLemmas, SequenceTheorems, TLAPS

-----------------------------------------------------------------------------
(* Sequences.                                                              *)

\* A set of sequences that holds the empty one and, with every sequence, what
\* an append makes of it holds all.
LEMMA SeqInduction ==
  ASSUME NEW S, NEW Good, <<>> \in Good,
         \A s \in Seq(S), e \in S : s \in Good => Append(s, e) \in Good
  PROVE  Seq(S) \subseteq Good
<1> DEFINE Lengths == {n \in Nat : \A s \in Seq(S) : Len(s) = n => s \in Good}
<1>1. 0 \in Lengths
  <2>1. ASSUME NEW s \in Seq(S), Len(s) = 0 PROVE s = <<>>
    BY <2>1, EmptySeq
  <2> QED
    BY <2>1
<1>2. ASSUME NEW n \in Nat, n \in Lengths
      PROVE  n + 1 \in Lengths
  <2> SUFFICES ASSUME NEW s \in Seq(S), Len(s) = n + 1
               PROVE  s \in Good
    OBVIOUS
  <2>1. s # <<>>
    BY EmptySeq
  <2>2. PICK t \in Seq(S), e \in S : s = Append(t, e)
    BY <2>1, SequenceEmptyOrAppend
  <2>3. Len(t) = n
    BY <2>2, AppendProperties, LenProperties
  <2> QED
    BY <1>2, <2>2, <2>3
<1> HIDE DEF Lengths
<1>3. Nat \subseteq Lengths
  BY <1>1, <1>2, NatSetInduction
<1> QED
  BY <1>3, LenProperties DEF Lengths

\* A prefix agrees with the sequence for as long as it lasts.
LEMMA PrefixIs ==
  ASSUME NEW S, NEW s \in Seq(S), NEW t \in Seq(S)
  PROVE  IsPrefix(s, t) <=> Len(s) <= Len(t) /\ \A i \in 1 .. Len(s) : s[i] = t[i]
<1>1. SubSeq(s, 1, Len(s)) = s
  BY SubSeqFull
<1>2. ASSUME Len(s) <= Len(t)
      PROVE  SubSeq(t, 1, Len(s)) = s <=> \A i \in 1 .. Len(s) : s[i] = t[i]
  <2> DEFINE u == SubSeq(t, 1, Len(s))
  <2>1. \A i \in 1 .. Len(s) : t[i] \in S
    BY <1>2, LenProperties
  <2>2. /\ u \in Seq(S) /\ Len(u) = Len(s)
        /\ \A i \in 1 .. Len(s) : u[i] = t[i]
    BY <2>1, LenProperties, SubSeqProperties
  <2> HIDE DEF u
  <2>3. u = s <=> \A i \in 1 .. Len(s) : s[i] = t[i]
    BY <2>2, SeqEqual
  <2> QED
    BY <2>3 DEF u
<1> QED
  BY <1>1, <1>2 DEF IsPrefix

\* Prefixes of prefixes, of concatenations, and the first n elements.
LEMMA PrefixProperties ==
  ASSUME NEW S, NEW s \in Seq(S), NEW t \in Seq(S), NEW u \in Seq(S)
  PROVE  /\ IsPrefix(s, s) /\ IsPrefix(<<>>, s)
         /\ IsPrefix(s, s \o t)
         /\ IsPrefix(s, t) /\ IsPrefix(t, u) => IsPrefix(s, u)
         /\ IsPrefix(s, t) => s = SubSeq(t, 1, Len(s)) /\ Len(s) \in 0 .. Len(t)
<1>1. IsPrefix(s, s) /\ Len(s) \in Nat /\ Len(t) \in Nat /\ Len(u) \in Nat
  BY PrefixIs, LenProperties
<1>2. IsPrefix(<<>>, s)
  <2>1. Len(<<>>) = 0 /\ SubSeq(<<>>, 1, 0) = <<>> /\ SubSeq(s, 1, 0) = <<>>
    BY SubSeqEmpty
  <2> QED
    BY <1>1, <2>1 DEF IsPrefix
<1>3. IsPrefix(s, s \o t)
  <2>1. /\ s \o t \in Seq(S) /\ Len(s \o t) = Len(s) + Len(t)
        /\ \A i \in 1 .. Len(s) : (s \o t)[i] = s[i]
    BY <1>1, ConcatProperties
  <2> DEFINE st == s \o t
  <2>2. st \in Seq(S) /\ Len(st) = Len(s) + Len(t) /\ \A i \in 1 .. Len(s) : st[i] = s[i]
    BY <2>1
  <2> HIDE DEF st
  <2>3. IsPrefix(s, st) <=> Len(s) <= Len(st) /\ \A i \in 1 .. Len(s) : s[i] = st[i]
    BY <2>2, PrefixIs
  <2>4. Len(s) <= Len(st) /\ \A i \in 1 .. Len(s) : s[i] = st[i]
    BY <1>1, <2>2
  <2>5. IsPrefix(s, st)
    BY <2>3, <2>4
  <2> QED
    BY <2>5 DEF st
<1>4. IsPrefix(s, t) /\ IsPrefix(t, u) => IsPrefix(s, u)
  BY <1>1, PrefixIs
<1>5. IsPrefix(s, t) => s = SubSeq(t, 1, Len(s)) /\ Len(s) \in 0 .. Len(t)
  BY <1>1, SubSeqFull DEF IsPrefix
<1> QED
  BY <1>1, <1>2, <1>3, <1>4, <1>5

\* The first n elements of a sequence, and those of an append.
LEMMA FirstElements ==
  ASSUME NEW S, NEW s \in Seq(S), NEW n \in 0 .. Len(s)
  PROVE  /\ SubSeq(s, 1, n) \in Seq(S) /\ Len(SubSeq(s, 1, n)) = n
         /\ \A i \in 1 .. n : SubSeq(s, 1, n)[i] = s[i]
         /\ \A m \in 0 .. n : SubSeq(SubSeq(s, 1, n), 1, m) = SubSeq(s, 1, m)
         /\ \A e \in S : SubSeq(Append(s, e), 1, n) = SubSeq(s, 1, n)
<1>1. \A i \in 1 .. Len(s) : s[i] \in S
  BY LenProperties
<1>2. Len(s) \in Nat
  BY LenProperties
<1>3. \A m \in 0 .. Len(s) : /\ SubSeq(s, 1, m) \in Seq(S) /\ Len(SubSeq(s, 1, m)) = m
                             /\ \A i \in 1 .. m : SubSeq(s, 1, m)[i] = s[i]
  <2> TAKE m \in 0 .. Len(s)
  <2>1. \A i \in 1 .. m : s[i] \in S
    BY <1>1, <1>2
  <2> QED
    BY <1>2, <2>1, SubSeqProperties
<1>4. ASSUME NEW m \in 0 .. n
      PROVE  SubSeq(SubSeq(s, 1, n), 1, m) = SubSeq(s, 1, m)
  <2> DEFINE t == SubSeq(s, 1, n)
  <2>1. t \in Seq(S) /\ Len(t) = n /\ \A i \in 1 .. n : t[i] = s[i]
    BY <1>3
  <2> HIDE DEF t
  <2>2. \A i \in 1 .. m : t[i] \in S
    BY <1>1, <1>2, <2>1
  <2>3. /\ SubSeq(t, 1, m) \in Seq(S) /\ Len(SubSeq(t, 1, m)) = m
        /\ \A i \in 1 .. m : SubSeq(t, 1, m)[i] = t[i]
    BY <2>2, SubSeqProperties
  <2>4. SubSeq(t, 1, m) = SubSeq(s, 1, m)
    BY <1>2, <1>3, <2>1, <2>3, SeqEqual
  <2> QED
    BY <2>4 DEF t
<1>5. ASSUME NEW e \in S
      PROVE  SubSeq(Append(s, e), 1, n) = SubSeq(s, 1, n)
  <2> DEFINE t == Append(s, e)
  <2>1. t \in Seq(S) /\ Len(t) = Len(s) + 1 /\ \A i \in 1 .. Len(s) : t[i] = s[i]
    BY AppendProperties
  <2> HIDE DEF t
  <2>2. \A i \in 1 .. n : t[i] \in S
    BY <1>1, <1>2, <2>1
  <2>3. /\ SubSeq(t, 1, n) \in Seq(S) /\ Len(SubSeq(t, 1, n)) = n
        /\ \A i \in 1 .. n : SubSeq(t, 1, n)[i] = t[i]
    BY <2>2, SubSeqProperties
  <2>4. SubSeq(t, 1, n) = SubSeq(s, 1, n)
    BY <1>2, <1>3, <2>1, <2>3, SeqEqual
  <2> QED
    BY <2>4 DEF t
<1> QED
  BY <1>3, <1>4, <1>5

-----------------------------------------------------------------------------
(* Sizes.                                                                  *)

\* A batch grows by the bytes of the event that is appended.
LEMMA BytesAppend ==
  ASSUME NEW s \in Seq(Nat), NEW e \in Nat
  PROVE  /\ Bytes(<<>>) = 0 /\ Bytes(s) \in Nat
         /\ Bytes(Append(s, e)) = Bytes(s) + e
<1> DEFINE n == Len(s)
           t == Append(s, e)
<1>1. n \in Nat /\ DOMAIN s = 1 .. n /\ \A i \in 1 .. n : s[i] \in Nat
  BY LenProperties
<1>2. /\ DOMAIN t = 1 .. n + 1
      /\ \A i \in 1 .. n : t[i] = s[i]
      /\ t[n + 1] = e
  <2>1. t \in Seq(Nat) /\ Len(t) = n + 1
    BY AppendProperties
  <2> HIDE DEF t
  <2>2. DOMAIN t = 1 .. n + 1
    BY <2>1, LenProperties
  <2> QED
    BY <2>2, AppendProperties DEF t
<1>3. Bytes(<<>>) = 0
  <2>1. DOMAIN <<>> = {}
    BY EmptySeq, LenProperties
  <2> QED
    BY <2>1, FS_EmptySet, SumStep DEF Bytes, SumFunction
<1> HIDE DEF n, t
<1>4. IsFiniteSet(1 .. n) /\ IsFiniteSet(1 .. n + 1)
  BY <1>1, FS_Interval
<1>5. Bytes(s) \in Nat
  BY <1>1, <1>4, SumType DEF Bytes, SumFunction
<1>6. SumFunctionOnSet(t, 1 .. n + 1) = t[n + 1] + SumFunctionOnSet(t, (1 .. n + 1) \ {n + 1})
  <2>1. \A i \in 1 .. n + 1 : t[i] \in Nat
    BY <1>1, <1>2
  <2>2. n + 1 \in 1 .. n + 1
    BY <1>1
  <2> QED
    BY <1>4, <2>1, <2>2, SumRemove
<1>7. (1 .. n + 1) \ {n + 1} = 1 .. n
  BY <1>1
<1>8. SumFunctionOnSet(t, 1 .. n) = SumFunctionOnSet(s, 1 .. n)
  BY <1>2, <1>4, SumSame
<1>9. Bytes(t) = e + Bytes(s)
  BY <1>1, <1>2, <1>6, <1>7, <1>8 DEF Bytes, SumFunction
<1> QED
  BY <1>3, <1>5, <1>9 DEF t

\* Batches add up.
LEMMA BytesConcat ==
  ASSUME NEW s \in Seq(Nat), NEW t \in Seq(Nat)
  PROVE  Bytes(s \o t) = Bytes(s) + Bytes(t) /\ Bytes(t) \in Nat
<1> DEFINE Good == {u \in Seq(Nat) : Bytes(s \o u) = Bytes(s) + Bytes(u)}
<1>1. Bytes(s) \in Nat /\ Bytes(<<>>) = 0 /\ Bytes(t) \in Nat
  BY BytesAppend
<1>2. <<>> \in Good
  BY <1>1, EmptySeq, ConcatEmptySeq
<1>3. ASSUME NEW u \in Seq(Nat), NEW e \in Nat, u \in Good
      PROVE  Append(u, e) \in Good
  <2>1. s \o u \in Seq(Nat) /\ Append(u, e) \in Seq(Nat)
    BY ConcatProperties, AppendProperties
  <2>2. s \o Append(u, e) = Append(s \o u, e)
    <3>1. <<e>> \in Seq(Nat)
      OBVIOUS
    <3>2. Append(u, e) = u \o <<e>> /\ Append(s \o u, e) = (s \o u) \o <<e>>
      BY <2>1, AppendIsConcat
    <3>3. (s \o u) \o <<e>> = s \o (u \o <<e>>)
      BY <3>1, ConcatAssociative
    <3> QED
      BY <3>2, <3>3
  <2>3. Bytes(Append(s \o u, e)) = Bytes(s \o u) + e
    BY <2>1, BytesAppend
  <2>4. Bytes(Append(u, e)) = Bytes(u) + e /\ Bytes(u) \in Nat
    BY BytesAppend
  <2>5. Bytes(s \o u) = Bytes(s) + Bytes(u)
    BY <1>3
  <2>6. Bytes(s \o Append(u, e)) = Bytes(s) + Bytes(Append(u, e))
    BY <1>1, <2>2, <2>3, <2>4, <2>5
  <2> QED
    BY <2>1, <2>6
<1> HIDE DEF Good
<1>4. Seq(Nat) \subseteq Good
  BY <1>2, <1>3, SeqInduction
<1> QED
  BY <1>1, <1>4 DEF Good

\* A prefix is no larger than the sequence.
LEMMA BytesPrefix ==
  ASSUME NEW s \in Seq(Nat), NEW t \in Seq(Nat), IsPrefix(s, t)
  PROVE  Bytes(s) <= Bytes(t) /\ Bytes(s) \in Nat /\ Bytes(t) \in Nat
<1> DEFINE rest == SubSeq(t, Len(s) + 1, Len(t))
<1>1. s = SubSeq(t, 1, Len(s)) /\ Len(s) \in 0 .. Len(t) /\ Len(t) \in Nat
  BY PrefixProperties, LenProperties
<1>2. rest \in Seq(Nat)
  <2>1. \A i \in Len(s) + 1 .. Len(t) : t[i] \in Nat
    BY <1>1, LenProperties
  <2> QED
    BY <1>1, <2>1, SubSeqProperties
<1>3. SubSeq(t, 1, Len(s)) \o rest = SubSeq(t, 1, Len(t))
  <2>1. /\ 1 \in 1 .. Len(t) + 1 /\ Len(s) \in 1 - 1 .. Len(t) /\ Len(t) \in Len(s) .. Len(t)
    BY <1>1
  <2> QED
    BY <2>1, ConcatAdjacentSubSeq
<1>4. t = s \o rest
  BY <1>1, <1>3, SubSeqFull
<1> HIDE DEF rest
<1>5. Bytes(t) = Bytes(s) + Bytes(rest) /\ Bytes(rest) \in Nat /\ Bytes(s) \in Nat
  BY <1>2, <1>4, BytesConcat, BytesAppend
<1> QED
  BY <1>5

-----------------------------------------------------------------------------
(* Flattening.                                                             *)

\* g is the partial concatenations that FlattenSeq computes for n sequences.
Flattens(g, q, n) ==
  g = [i \in 1 .. n |-> IF i = 1 THEN q[i] ELSE g[i - 1] \o q[i]]

\* Flattening more frames changes nothing of what the first ones flatten to.
LEMMA FlattensAgree ==
  ASSUME NEW n \in Nat, NEW q, NEW r, NEW g, NEW h,
         Flattens(g, r, n + 1), Flattens(h, q, n), \A i \in 1 .. n : r[i] = q[i]
  PROVE  \A i \in 1 .. n : g[i] = h[i]
<1> DEFINE Good == {i \in Nat : i \in 1 .. n => g[i] = h[i]}
<1>1. 0 \in Good
  OBVIOUS
<1>2. ASSUME NEW i \in Nat, i \in Good, i + 1 \in 1 .. n
      PROVE  g[i + 1] = h[i + 1]
  <2>1. i + 1 \in 1 .. n /\ i + 1 \in 1 .. n + 1
    BY <1>2
  <2>2. /\ g[i + 1] = IF i + 1 = 1 THEN r[i + 1] ELSE g[(i + 1) - 1] \o r[i + 1]
        /\ h[i + 1] = IF i + 1 = 1 THEN q[i + 1] ELSE h[(i + 1) - 1] \o q[i + 1]
    BY <2>1 DEF Flattens
  <2>3. (i + 1) - 1 = i /\ q[i + 1] = r[i + 1] /\ (i + 1 # 1 => i \in 1 .. n)
    BY <1>2
  <2>4. i + 1 # 1 => g[i] = h[i]
    BY <1>2, <2>3
  <2> QED
    BY <2>2, <2>3, <2>4
<1>3. \A i \in Nat : i \in Good => i + 1 \in Good
  BY <1>2
<1> HIDE DEF Good
<1>4. Nat \subseteq Good
  BY <1>1, <1>3, NatSetInduction
<1> QED
  BY <1>4 DEF Good

\* There is a flattening of any number of frames, by induction on their number.
LEMMA FlattensExist ==
  ASSUME NEW n \in Nat, NEW q
  PROVE  \E g : Flattens(g, q, n)
<1> DEFINE Good == {m \in Nat : \E g : Flattens(g, q, m)}
<1>1. 0 \in Good
  <2> DEFINE g == [i \in 1 .. 0 |-> q[i]]
  <2>1. g = [i \in 1 .. 0 |-> IF i = 1 THEN q[i] ELSE g[i - 1] \o q[i]]
    OBVIOUS
  <2> HIDE DEF g
  <2>2. Flattens(g, q, 0)
    BY <2>1 DEF Flattens
  <2> QED
    BY <2>2
<1>2. ASSUME NEW m \in Nat, m \in Good
      PROVE  m + 1 \in Good
  <2>1. PICK g : Flattens(g, q, m)
    BY <1>2
  <2> DEFINE End == IF m + 1 = 1 THEN q[m + 1] ELSE g[m] \o q[m + 1]
             h == [i \in 1 .. m + 1 |-> IF i = m + 1 THEN End ELSE g[i]]
  <2>2. ASSUME NEW i \in 1 .. m + 1
        PROVE  h[i] = IF i = 1 THEN q[i] ELSE h[i - 1] \o q[i]
    <3>1. CASE i = m + 1
      <4>1. h[i] = End
        BY <3>1
      <4>2. i # 1 => h[i - 1] = g[m]
        BY <3>1
      <4> HIDE DEF h
      <4> QED
        BY <3>1, <4>1, <4>2
    <3>2. CASE i # m + 1
      <4>1. i \in 1 .. m /\ h[i] = g[i]
        BY <3>2
      <4>2. i # 1 => h[i - 1] = g[i - 1]
        BY <3>2
      <4>3. g[i] = IF i = 1 THEN q[i] ELSE g[i - 1] \o q[i]
        BY <2>1, <4>1 DEF Flattens
      <4> HIDE DEF h
      <4> QED
        BY <4>1, <4>2, <4>3
    <3> QED
      BY <3>1, <3>2
  <2>3. h = [i \in 1 .. m + 1 |-> h[i]]
    OBVIOUS
  <2> HIDE DEF h
  <2>4. h = [i \in 1 .. m + 1 |-> IF i = 1 THEN q[i] ELSE h[i - 1] \o q[i]]
    BY <2>2, <2>3
  <2>5. Flattens(h, q, m + 1)
    BY <2>4 DEF Flattens
  <2> QED
    BY <2>5
<1> HIDE DEF Good
<1>3. Nat \subseteq Good
  BY <1>1, <1>2, NatSetInduction
<1> QED
  BY <1>3 DEF Good

\* The recursion of FlattenSeq.
LEMMA FlattenStep ==
  ASSUME NEW S, NEW q \in Seq(S), NEW e \in S
  PROVE  /\ FlattenSeq(<<>>) = <<>>
         /\ FlattenSeq(Append(q, e)) = IF q = <<>> THEN e ELSE FlattenSeq(q) \o e
<1> DEFINE n == Len(q)
           r == Append(q, e)
           F(p, k) == CHOOSE g : Flattens(g, p, k)
<1>1. FlattenSeq(<<>>) = <<>>
  BY EmptySeq DEF FlattenSeq
<1>2. /\ n \in Nat /\ r \in Seq(S) /\ Len(r) = n + 1
      /\ \A i \in 1 .. n : r[i] = q[i]
      /\ r[n + 1] = e
  BY AppendProperties, LenProperties
<1>3. Flattens(F(r, n + 1), r, n + 1) /\ Flattens(F(q, n), q, n)
  BY <1>2, FlattensExist
<1>4. FlattenSeq(r) = F(r, n + 1)[n + 1]
  <2> HIDE DEF r, n
  <2>1. Len(r) # 0
    BY <1>2
  <2> QED
    BY <1>2, <2>1 DEF FlattenSeq, Flattens
<1>5. q # <<>> => FlattenSeq(q) = F(q, n)[n] /\ n # 0
  BY EmptySeq DEF FlattenSeq, Flattens
<1>6. q = <<>> => n = 0
  BY EmptySeq
<1> DEFINE g == F(r, n + 1)
           h == F(q, n)
<1>7. Flattens(g, r, n + 1) /\ Flattens(h, q, n) /\ FlattenSeq(r) = g[n + 1]
      /\ (q # <<>> => FlattenSeq(q) = h[n])
  BY <1>3, <1>4, <1>5
<1> HIDE DEF n, r, F, g, h
<1>8. g[n + 1] = IF n + 1 = 1 THEN r[n + 1] ELSE g[(n + 1) - 1] \o r[n + 1]
  <2>1. n + 1 \in 1 .. n + 1
    BY <1>2
  <2> QED
    BY <1>7, <2>1 DEF Flattens
<1>9. \A i \in 1 .. n : g[i] = h[i]
  BY <1>2, <1>7, FlattensAgree
<1>10. n # 0 => g[n] = h[n]
  BY <1>2, <1>9
<1>11. (n + 1) - 1 = n /\ (n + 1 = 1 <=> n = 0)
  BY <1>2
<1>12. FlattenSeq(r) = IF q = <<>> THEN e ELSE FlattenSeq(q) \o e
  BY <1>2, <1>5, <1>6, <1>7, <1>8, <1>10, <1>11
<1> QED
  BY <1>1, <1>12 DEF r

-----------------------------------------------------------------------------
(* Files.                                                                  *)

Frames == [first : Nat \ {0}, records : Seq(Nat)]

\* What a frame at the end adds to a function of the frames, one value each.
LEMMA MapAppend ==
  ASSUME NEW fs \in Seq(Frames), NEW f \in Frames, NEW T, NEW op \in [Frames -> T]
  PROVE  /\ [i \in DOMAIN fs |-> op[fs[i]]] \in Seq(T)
         /\ [i \in DOMAIN Append(fs, f) |-> op[Append(fs, f)[i]]]
              = Append([i \in DOMAIN fs |-> op[fs[i]]], op[f])
<1> DEFINE n == Len(fs)
           gs == Append(fs, f)
           p == [i \in DOMAIN fs |-> op[fs[i]]]
           q == [i \in DOMAIN gs |-> op[gs[i]]]
<1>1. n \in Nat /\ DOMAIN fs = 1 .. n /\ \A i \in 1 .. n : fs[i] \in Frames
  BY LenProperties
<1>2. /\ gs \in Seq(Frames) /\ Len(gs) = n + 1
      /\ \A i \in 1 .. n : gs[i] = fs[i]
      /\ gs[n + 1] = f
  BY AppendProperties
<1>3. DOMAIN gs = 1 .. n + 1
  <2> HIDE DEF gs
  <2> QED
    BY <1>2, LenProperties
<1>4. p \in Seq(T) /\ Len(p) = n
  <2>1. p \in [1 .. n -> T]
    BY <1>1
  <2> HIDE DEF p
  <2> QED
    BY <1>1, <2>1
<1>5. q \in Seq(T) /\ Len(q) = n + 1
  <2>1. \A i \in 1 .. n + 1 : gs[i] \in Frames
    BY <1>1, <1>2
  <2> HIDE DEF gs
  <2>2. q \in [1 .. n + 1 -> T]
    BY <1>3, <2>1
  <2> HIDE DEF q
  <2> QED
    BY <1>1, <2>2
<1>6. \A i \in 1 .. n : p[i] = op[fs[i]] /\ q[i] = op[fs[i]]
  <2>1. \A i \in 1 .. n : i \in 1 .. n + 1
    BY <1>1
  <2> HIDE DEF gs
  <2> QED
    BY <1>1, <1>2, <1>3, <2>1
<1>7. q[n + 1] = op[f]
  <2>1. n + 1 \in 1 .. n + 1
    BY <1>1
  <2> HIDE DEF gs
  <2> QED
    BY <1>2, <1>3, <2>1
<1>8. op[f] \in T
  OBVIOUS
<1> HIDE DEF n, p, q, gs
<1>9. /\ Append(p, op[f]) \in Seq(T) /\ Len(Append(p, op[f])) = n + 1
      /\ \A i \in 1 .. n : Append(p, op[f])[i] = p[i]
      /\ Append(p, op[f])[n + 1] = op[f]
  BY <1>4, <1>8, AppendProperties
<1>10. \A i \in 1 .. n + 1 : q[i] = Append(p, op[f])[i]
  BY <1>1, <1>6, <1>7, <1>9
<1>11. q = Append(p, op[f])
  BY <1>5, <1>9, <1>10, SeqEqual
<1> QED
  BY <1>4, <1>11 DEF p, q, gs

\* The records of a file with one more frame.
LEMMA RecordsAppend ==
  ASSUME NEW fs \in Seq(Frames), NEW f \in Frames
  PROVE  /\ RecordsOf(<<>>) = <<>>
         /\ RecordsOf(fs) \in Seq(Nat)
         /\ RecordsOf(Append(fs, f)) = RecordsOf(fs) \o f.records
<1> DEFINE op == [g \in Frames |-> g.records]
           Contents(gs) == [i \in DOMAIN gs |-> op[gs[i]]]
<1>1. op \in [Frames -> Seq(Nat)]
  BY DEF Frames
<1>2. ASSUME NEW gs \in Seq(Frames)
      PROVE  RecordsOf(gs) = FlattenSeq(Contents(gs))
  <2>1. \A i \in DOMAIN gs : op[gs[i]] = gs[i].records
    BY LenProperties
  <2>2. Contents(gs) = [i \in DOMAIN gs |-> gs[i].records]
    BY <2>1
  <2> HIDE DEF Contents
  <2> QED
    BY <2>2 DEF RecordsOf
<1>3. RecordsOf(<<>>) = <<>>
  <2>1. <<>> \in Seq(Frames) /\ DOMAIN <<>> = {} /\ <<>> \in Seq(Seq(Nat))
    BY EmptySeq, LenProperties
  <2>2. Contents(<<>>) = <<>>
    BY <2>1
  <2>3. FlattenSeq(<<>>) = <<>>
    BY EmptySeq DEF FlattenSeq
  <2> HIDE DEF Contents
  <2> QED
    BY <1>2, <2>1, <2>2, <2>3
<1>4. ASSUME NEW gs \in Seq(Frames), NEW g \in Frames, RecordsOf(gs) \in Seq(Nat)
      PROVE  RecordsOf(Append(gs, g)) = RecordsOf(gs) \o g.records
  <2>1. /\ Contents(gs) \in Seq(Seq(Nat))
        /\ Contents(Append(gs, g)) = Append(Contents(gs), op[g])
    <3> DEFINE T == Seq(Nat)
    <3>1. op \in [Frames -> T]
      BY <1>1
    <3> HIDE DEF op, T
    <3>2. /\ Contents(gs) \in Seq(T)
          /\ Contents(Append(gs, g)) = Append(Contents(gs), op[g])
      BY <3>1, MapAppend
    <3> QED
      BY <3>2 DEF T
  <2>2. Append(gs, g) \in Seq(Frames)
    BY AppendProperties
  <2>3. op[g] = g.records /\ g.records \in Seq(Nat)
    BY DEF Frames
  <2>4. RecordsOf(Append(gs, g)) = FlattenSeq(Append(Contents(gs), g.records))
    <3> HIDE DEF op, Contents
    <3> QED
      BY <1>2, <2>1, <2>2, <2>3
  <2>5. RecordsOf(gs) = FlattenSeq(Contents(gs))
    BY <1>2
  <2> HIDE DEF op, Contents
  <2>6. RecordsOf(Append(gs, g))
          = IF Contents(gs) = <<>> THEN g.records ELSE RecordsOf(gs) \o g.records
    <3> DEFINE q == Contents(gs)
               e == g.records
               T == Seq(Nat)
    <3>1. q \in Seq(T) /\ e \in T
      BY <2>1, <2>3
    <3> HIDE DEF q, e, T
    <3>2. FlattenSeq(Append(q, e)) = IF q = <<>> THEN e ELSE FlattenSeq(q) \o e
      BY <3>1, FlattenStep
    <3> QED
      BY <2>4, <2>5, <3>2 DEF q, e
  <2>7. Contents(gs) = <<>> => RecordsOf(gs) = <<>>
    BY <2>1, <2>3, <2>5, FlattenStep
  <2>8. <<>> \o g.records = g.records
    BY <2>3, ConcatEmptySeq
  <2> QED
    BY <2>6, <2>7, <2>8
<1> HIDE DEF op, Contents
<1> DEFINE Good == {gs \in Seq(Frames) : RecordsOf(gs) \in Seq(Nat)}
<1>5. <<>> \in Good
  BY <1>3, EmptySeq
<1>6. ASSUME NEW gs \in Seq(Frames), NEW g \in Frames, gs \in Good
      PROVE  Append(gs, g) \in Good
  <2>1. Append(gs, g) \in Seq(Frames)
    BY AppendProperties
  <2>2. g.records \in Seq(Nat) /\ RecordsOf(gs) \in Seq(Nat)
    BY <1>6 DEF Frames
  <2>3. RecordsOf(gs) \o g.records \in Seq(Nat)
    BY <2>2, ConcatProperties
  <2> QED
    BY <1>4, <2>1, <2>2, <2>3
<1> HIDE DEF Good
<1>7. Seq(Frames) \subseteq Good
  BY <1>5, <1>6, SeqInduction
<1> QED
  BY <1>3, <1>4, <1>7 DEF Good

\* The size of a file with one more frame.
LEMMA FileBytesAppend ==
  ASSUME NEW fs \in Seq(Frames), NEW f \in Frames
  PROVE  /\ FileBytes(<<>>) = MagicBytes
         /\ FileBytes(fs) \in Nat
         /\ FileBytes(Append(fs, f)) = FileBytes(fs) + FrameBytes(f.records)
<1> DEFINE op == [g \in Frames |-> FrameBytes(g.records)]
           Sizes(gs) == [i \in DOMAIN gs |-> op[gs[i]]]
<1>1. op \in [Frames -> Nat]
  <2>1. \A g \in Frames : FrameBytes(g.records) \in Nat
    <3> TAKE g \in Frames
    <3>1. g.records \in Seq(Nat)
      BY DEF Frames
    <3>2. Bytes(g.records) \in Nat
      BY <3>1, BytesConcat
    <3> QED
      BY <3>2, LogAssumption DEF FrameBytes
  <2> QED
    BY <2>1
<1>2. ASSUME NEW gs \in Seq(Frames)
      PROVE  FileBytes(gs) = MagicBytes + Bytes(Sizes(gs))
  <2>1. \A i \in DOMAIN gs : op[gs[i]] = FrameBytes(gs[i].records)
    BY LenProperties
  <2>2. Sizes(gs) = [i \in DOMAIN gs |-> FrameBytes(gs[i].records)]
    BY <2>1
  <2> HIDE DEF Sizes
  <2> QED
    BY <2>2 DEF FileBytes
<1>3. <<>> \in Seq(Frames) /\ DOMAIN <<>> = {} /\ <<>> \in Seq(Nat)
  BY EmptySeq, LenProperties
<1>4. Sizes(<<>>) = <<>>
  BY <1>3
<1>5. /\ Sizes(fs) \in Seq(Nat)
      /\ Sizes(Append(fs, f)) = Append(Sizes(fs), op[f])
  <2> HIDE DEF op
  <2> QED
    BY <1>1, MapAppend
<1>6. op[f] = FrameBytes(f.records) /\ op[f] \in Nat
  BY <1>1
<1>7. Append(fs, f) \in Seq(Frames)
  BY AppendProperties
<1> HIDE DEF op, Sizes
<1>8. /\ Bytes(<<>>) = 0 /\ Bytes(Sizes(fs)) \in Nat
      /\ Bytes(Append(Sizes(fs), op[f])) = Bytes(Sizes(fs)) + op[f]
  BY <1>5, <1>6, BytesAppend
<1>9. FileBytes(<<>>) = MagicBytes + 0
  BY <1>2, <1>3, <1>4, <1>8
<1>10. FileBytes(fs) = MagicBytes + Bytes(Sizes(fs))
  BY <1>2
<1>11. FileBytes(Append(fs, f)) = MagicBytes + (Bytes(Sizes(fs)) + op[f])
  BY <1>2, <1>5, <1>7, <1>8
<1> QED
  BY <1>6, <1>8, <1>9, <1>10, <1>11, LogAssumption

\* The first n frames of a file: their records come first, they are no larger, and
\* they are consecutive if all are.
LEMMA FileFirst ==
  ASSUME NEW fs \in Seq(Frames)
  PROVE  \A n \in 0 .. Len(fs) :
           /\ IsPrefix(RecordsOf(SubSeq(fs, 1, n)), RecordsOf(fs))
           /\ FileBytes(SubSeq(fs, 1, n)) <= FileBytes(fs)
<1> DEFINE Good == {gs \in Seq(Frames) :
                      \A n \in 0 .. Len(gs) :
                        /\ IsPrefix(RecordsOf(SubSeq(gs, 1, n)), RecordsOf(gs))
                        /\ FileBytes(SubSeq(gs, 1, n)) <= FileBytes(gs)}
<1>1. ASSUME NEW gs \in Seq(Frames)
      PROVE  /\ IsPrefix(RecordsOf(SubSeq(gs, 1, Len(gs))), RecordsOf(gs))
             /\ FileBytes(SubSeq(gs, 1, Len(gs))) <= FileBytes(gs)
  <2>1. SubSeq(gs, 1, Len(gs)) = gs
    BY SubSeqFull
  <2>2. [first |-> 1, records |-> <<>>] \in Frames
    BY EmptySeq DEF Frames
  <2>3. RecordsOf(gs) \in Seq(Nat) /\ FileBytes(gs) \in Nat
    BY <2>2, RecordsAppend, FileBytesAppend
  <2>4. IsPrefix(RecordsOf(gs), RecordsOf(gs))
    BY <2>3, PrefixProperties
  <2>5. FileBytes(gs) <= FileBytes(gs)
    BY <2>3
  <2> QED
    BY <2>1, <2>4, <2>5
<1>2. <<>> \in Good
  <2>1. <<>> \in Seq(Frames) /\ Len(<<>>) = 0
    BY EmptySeq
  <2>2. \A n \in 0 .. Len(<<>>) : n = Len(<<>>)
    BY <2>1
  <2> QED
    BY <1>1, <2>1, <2>2
<1>3. ASSUME NEW gs \in Seq(Frames), NEW g \in Frames, gs \in Good
      PROVE  Append(gs, g) \in Good
  <2> DEFINE hs == Append(gs, g)
  <2>1. hs \in Seq(Frames) /\ Len(hs) = Len(gs) + 1 /\ Len(gs) \in Nat
    BY AppendProperties, LenProperties
  <2>2. g.records \in Seq(Nat) /\ RecordsOf(gs) \in Seq(Nat) /\ RecordsOf(hs) \in Seq(Nat)
    BY <2>1, RecordsAppend DEF Frames
  <2>3. IsPrefix(RecordsOf(gs), RecordsOf(hs))
    <3>1. RecordsOf(hs) = RecordsOf(gs) \o g.records
      BY RecordsAppend
    <3>2. IsPrefix(RecordsOf(gs), RecordsOf(gs) \o g.records)
      BY <2>2, PrefixProperties
    <3> QED
      BY <3>1, <3>2
  <2>4. FileBytes(gs) <= FileBytes(hs) /\ FileBytes(gs) \in Nat /\ FileBytes(hs) \in Nat
    <3>1. Bytes(g.records) \in Nat
      BY <2>2, BytesConcat
    <3>2. FileBytes(hs) = FileBytes(gs) + FrameBytes(g.records) /\ FileBytes(gs) \in Nat
      BY FileBytesAppend
    <3> HIDE DEF hs
    <3> QED
      BY <3>1, <3>2, LogAssumption DEF FrameBytes
  <2>5. ASSUME NEW n \in 0 .. Len(gs)
        PROVE  /\ IsPrefix(RecordsOf(SubSeq(hs, 1, n)), RecordsOf(hs))
               /\ FileBytes(SubSeq(hs, 1, n)) <= FileBytes(hs)
    <3>1. SubSeq(hs, 1, n) = SubSeq(gs, 1, n) /\ SubSeq(gs, 1, n) \in Seq(Frames)
      BY FirstElements
    <3>2. IsPrefix(RecordsOf(SubSeq(gs, 1, n)), RecordsOf(gs))
          /\ FileBytes(SubSeq(gs, 1, n)) <= FileBytes(gs)
      BY <1>3
    <3>3. RecordsOf(SubSeq(gs, 1, n)) \in Seq(Nat) /\ FileBytes(SubSeq(gs, 1, n)) \in Nat
      BY <3>1, RecordsAppend, FileBytesAppend
    <3> HIDE DEF hs
    <3>4. IsPrefix(RecordsOf(SubSeq(gs, 1, n)), RecordsOf(hs))
      BY <2>2, <2>3, <3>2, <3>3, PrefixProperties
    <3>5. FileBytes(SubSeq(gs, 1, n)) <= FileBytes(hs)
      BY <2>4, <3>2, <3>3
    <3> QED
      BY <3>1, <3>4, <3>5
  <2> HIDE DEF hs
  <2>6. ASSUME NEW n \in 0 .. Len(hs)
        PROVE  /\ IsPrefix(RecordsOf(SubSeq(hs, 1, n)), RecordsOf(hs))
               /\ FileBytes(SubSeq(hs, 1, n)) <= FileBytes(hs)
    <3>1. n \in 0 .. Len(gs) \/ n = Len(hs)
      BY <2>1
    <3> QED
      BY <1>1, <2>1, <2>5, <3>1
  <2>7. hs \in Good
    BY <2>1, <2>6
  <2> QED
    BY <2>7 DEF hs
<1> HIDE DEF Good
<1>4. Seq(Frames) \subseteq Good
  BY <1>2, <1>3, SeqInduction
<1> QED
  BY <1>4 DEF Good

\* The ends of the frames lie within the records, the last one at their end; those
\* of the first frames are the ones that lie within those.
LEMMA EndsOf ==
  ASSUME NEW fs \in Seq(Frames)
  PROVE  /\ \A e \in Ends(fs) : e \in 0 .. Len(RecordsOf(fs))
         /\ Len(RecordsOf(fs)) \in Ends(fs)
         /\ \A n \in 0 .. Len(fs) :
              LET first == SubSeq(fs, 1, n)
              IN  Ends(first) = {e \in Ends(fs) : e <= Len(RecordsOf(first))}
<1> DEFINE R(i) == RecordsOf(SubSeq(fs, 1, i))
<1>1. Len(fs) \in Nat /\ SubSeq(fs, 1, Len(fs)) = fs
  BY LenProperties, SubSeqFull
<1>2. \A i \in 0 .. Len(fs) : R(i) \in Seq(Nat) /\ Len(R(i)) \in Nat
  <2> TAKE i \in 0 .. Len(fs)
  <2>1. SubSeq(fs, 1, i) \in Seq(Frames)
    BY FirstElements
  <2>2. [first |-> 1, records |-> <<>>] \in Frames
    BY EmptySeq DEF Frames
  <2>3. R(i) \in Seq(Nat)
    BY <2>1, <2>2, RecordsAppend
  <2> QED
    BY <2>3, LenProperties
<1>3. \A n \in 0 .. Len(fs) : \A i \in 0 .. n : Len(R(i)) <= Len(R(n))
  <2> TAKE n \in 0 .. Len(fs)
  <2> TAKE i \in 0 .. n
  <2> DEFINE gs == SubSeq(fs, 1, n)
  <2>1. gs \in Seq(Frames) /\ Len(gs) = n /\ SubSeq(gs, 1, i) = SubSeq(fs, 1, i)
    BY FirstElements
  <2>2. i \in 0 .. Len(fs)
    BY <1>1
  <2> HIDE DEF gs
  <2>3. IsPrefix(RecordsOf(SubSeq(gs, 1, i)), RecordsOf(gs))
    BY <2>1, FileFirst
  <2>4. IsPrefix(R(i), R(n))
    BY <2>1, <2>3 DEF gs
  <2> QED
    BY <1>2, <2>2, <2>4, PrefixIs
<1> HIDE DEF R
<1>4. Ends(fs) = {Len(R(i)) : i \in 0 .. Len(fs)} /\ R(Len(fs)) = RecordsOf(fs)
  BY <1>1 DEF Ends, R
<1>5. ASSUME NEW n \in 0 .. Len(fs)
      PROVE  Ends(SubSeq(fs, 1, n)) = {e \in Ends(fs) : e <= Len(RecordsOf(SubSeq(fs, 1, n)))}
  <2> DEFINE gs == SubSeq(fs, 1, n)
  <2>1. Len(gs) = n /\ \A i \in 0 .. n : SubSeq(gs, 1, i) = SubSeq(fs, 1, i)
    BY FirstElements
  <2> HIDE DEF gs
  <2>2. Ends(gs) = {Len(R(i)) : i \in 0 .. n}
    BY <2>1 DEF Ends, R
  <2>3. \A i \in 0 .. n : Len(R(i)) \in Ends(fs) /\ Len(R(i)) <= Len(R(n))
    <3> TAKE i \in 0 .. n
    <3>1. i \in 0 .. Len(fs)
      BY <1>1
    <3>2. Len(R(i)) <= Len(R(n))
      BY <1>3
    <3> QED
      BY <1>4, <3>1, <3>2
  <2>4. ASSUME NEW i \in 0 .. Len(fs), Len(R(i)) <= Len(R(n))
        PROVE  Len(R(i)) \in Ends(gs)
    <3>1. CASE i <= n
      BY <2>2, <3>1
    <3>2. CASE i > n
      <4>1. Len(R(n)) <= Len(R(i))
        BY <1>3, <3>2
      <4>2. Len(R(i)) = Len(R(n)) /\ n \in 0 .. n
        BY <1>2, <2>4, <4>1
      <4> QED
        BY <2>2, <4>2
    <3> QED
      BY <1>1, <3>1, <3>2
  <2>5. R(n) = RecordsOf(gs)
    BY DEF R, gs
  <2>6. Ends(gs) = {e \in Ends(fs) : e <= Len(R(n))}
    BY <1>4, <2>2, <2>3, <2>4
  <2> QED
    BY <2>5, <2>6 DEF gs
<1>6. Len(fs) \in 0 .. Len(fs)
  BY <1>1
<1>7. Len(RecordsOf(fs)) \in Ends(fs)
  BY <1>4, <1>6
<1>8. \A e \in Ends(fs) : e \in 0 .. Len(RecordsOf(fs))
  <2> TAKE e \in Ends(fs)
  <2>1. PICK i \in 0 .. Len(fs) : e = Len(R(i))
    BY <1>4
  <2>2. Len(R(i)) <= Len(R(Len(fs)))
    BY <1>3, <1>6
  <2>3. Len(R(i)) \in Nat /\ Len(R(Len(fs))) \in Nat
    BY <1>2, <1>6
  <2> QED
    BY <1>4, <2>1, <2>2, <2>3
<1> QED
  BY <1>5, <1>7, <1>8

\* A frame at the end adds its own end.
LEMMA EndsAppend ==
  ASSUME NEW fs \in Seq(Frames), NEW f \in Frames
  PROVE  Ends(Append(fs, f)) = Ends(fs) \cup {Len(RecordsOf(Append(fs, f)))}
<1> DEFINE n == Len(fs)
           gs == Append(fs, f)
<1>1. gs \in Seq(Frames) /\ Len(gs) = n + 1 /\ n \in Nat
  BY AppendProperties, LenProperties
<1>2. \A i \in 0 .. n : SubSeq(gs, 1, i) = SubSeq(fs, 1, i)
  BY FirstElements
<1> HIDE DEF gs
<1>3. SubSeq(gs, 1, n + 1) = gs
  BY <1>1, SubSeqFull
<1>4. Ends(gs) = {Len(RecordsOf(SubSeq(gs, 1, i))) : i \in 0 .. n + 1}
  BY <1>1 DEF Ends
<1>5. Ends(fs) = {Len(RecordsOf(SubSeq(gs, 1, i))) : i \in 0 .. n}
  BY <1>2 DEF Ends
<1>6. Ends(gs) = Ends(fs) \cup {Len(RecordsOf(SubSeq(gs, 1, n + 1)))}
  <2> HIDE DEF n
  <2>1. \A i : i \in 0 .. n + 1 <=> i \in 0 .. n \/ i = n + 1
    BY <1>1
  <2> QED
    BY <1>4, <1>5, <2>1
<1> QED
  BY <1>3, <1>6 DEF gs

\* A frame that starts where the records end keeps the frames consecutive.
LEMMA ConsecutiveAppend ==
  ASSUME NEW fs \in Seq(Frames), NEW f \in Frames, Consecutive(fs),
         f.first = Len(RecordsOf(fs)) + 1
  PROVE  Consecutive(Append(fs, f))
<1> DEFINE n == Len(fs)
           gs == Append(fs, f)
<1>1. /\ gs \in Seq(Frames) /\ Len(gs) = n + 1
      /\ \A i \in 1 .. n : gs[i] = fs[i]
      /\ gs[n + 1] = f /\ n \in Nat
  BY AppendProperties, LenProperties
<1>2. \A i \in 0 .. n : SubSeq(gs, 1, i) = SubSeq(fs, 1, i)
  BY FirstElements
<1>3. SubSeq(fs, 1, n) = fs
  BY SubSeqFull
<1> HIDE DEF gs
<1>4. DOMAIN gs = 1 .. n + 1 /\ DOMAIN fs = 1 .. n
  BY <1>1, LenProperties
<1> HIDE DEF n
<1>5. ASSUME NEW i \in 1 .. n
      PROVE  gs[i].first = Len(RecordsOf(SubSeq(gs, 1, i - 1))) + 1
  <2>1. i - 1 \in 0 .. n
    BY <1>1
  <2>2. fs[i].first = Len(RecordsOf(SubSeq(fs, 1, i - 1))) + 1
    BY <1>4 DEF Consecutive
  <2> QED
    BY <1>1, <1>2, <2>1, <2>2
<1>6. gs[n + 1].first = Len(RecordsOf(SubSeq(gs, 1, (n + 1) - 1))) + 1
  <2>1. (n + 1) - 1 = n /\ n \in 0 .. n
    BY <1>1
  <2> QED
    BY <1>1, <1>2, <1>3, <2>1
<1>7. \A i \in DOMAIN gs : i \in 1 .. n \/ i = n + 1
  BY <1>1, <1>4
<1>8. Consecutive(gs)
  BY <1>5, <1>6, <1>7 DEF Consecutive
<1> QED
  BY <1>8 DEF gs

\* The first of consecutive frames are consecutive.
LEMMA ConsecutiveFirst ==
  ASSUME NEW fs \in Seq(Frames), Consecutive(fs), NEW n \in 0 .. Len(fs)
  PROVE  Consecutive(SubSeq(fs, 1, n))
<1> DEFINE gs == SubSeq(fs, 1, n)
<1>1. /\ gs \in Seq(Frames) /\ Len(gs) = n /\ Len(fs) \in Nat
      /\ \A i \in 1 .. n : gs[i] = fs[i]
      /\ \A m \in 0 .. n : SubSeq(gs, 1, m) = SubSeq(fs, 1, m)
  BY FirstElements, LenProperties
<1> HIDE DEF gs
<1>2. DOMAIN gs = 1 .. n /\ DOMAIN fs = 1 .. Len(fs)
  BY <1>1, LenProperties
<1>3. ASSUME NEW i \in 1 .. n
      PROVE  gs[i].first = Len(RecordsOf(SubSeq(gs, 1, i - 1))) + 1
  <2>1. i - 1 \in 0 .. n /\ i \in DOMAIN fs
    BY <1>1, <1>2
  <2> QED
    BY <1>1, <2>1 DEF Consecutive
<1>4. Consecutive(gs)
  BY <1>2, <1>3 DEF Consecutive
<1> QED
  BY <1>4 DEF gs

-----------------------------------------------------------------------------
(* The inductive invariant.                                                *)

Written == RecordsOf(frames)

\* A file is what one store wrote within its budgets, and a file without its magic
\* is empty: so a crash leaves nothing that replay refuses.
FileRight ==
  /\ frames \in Seq(Frames)
  /\ Consecutive(frames)
  /\ FileBytes(frames) <= MaxWal /\ Bytes(Written) <= MaxRetained
  /\ magic # "whole" => frames = <<>> /\ tail = "none"

\* The memory store has no file.
MemoryRight ==
  ~disk => /\ frames = <<>> /\ tail = "none" /\ magic = "absent"
           /\ step = "idle" /\ ~poisoned /\ batch = <<>>
           /\ acked = events

DownRight ==
  ~up => /\ events = <<>> /\ retained = 0 /\ wal_bytes = 0
         /\ ~poisoned /\ step = "idle" /\ batch = <<>>

\* Between publishes and up to the write the file is what memory says; ...
SettledRight ==
  up /\ disk /\ ~poisoned /\ step \in {"idle", "writing"} =>
    /\ Written = events /\ tail = "none"
    /\ wal_bytes = FileBytes(frames)
    /\ step = "idle" => batch = <<>>
    /\ step = "writing" => batch \in Batches /\ Fits(batch)

\* ... after the write it is one batch ahead; ...
SyncingRight ==
  up /\ disk /\ step = "syncing" =>
    /\ Written = events \o batch /\ tail = "none"
    /\ wal_bytes + FrameBytes(batch) = FileBytes(frames)
    /\ batch \in Batches /\ Fits(batch)

\* ... and after a failure nobody knows which.
PoisonedRight ==
  /\ poisoned => step = "idle"
  /\ up /\ disk /\ poisoned => Written \in {events, events \o batch} /\ batch \in Batches

StoreRight ==
  /\ retained = Bytes(events) /\ retained <= MaxRetained
  /\ up /\ disk => magic = "whole"
  /\ MemoryRight /\ DownRight /\ SettledRight /\ SyncingRight /\ PoisonedRight

\* What is acknowledged is in frames that have been synchronized, and is served.
AckedRight ==
  /\ AckedSurvive
  /\ disk => IsPrefix(acked, RecordsOf(SubSeq(frames, 1, synced)))

LogInv == TypeOK /\ FileRight /\ StoreRight /\ AckedRight

-----------------------------------------------------------------------------
(* Each step keeps it.                                                     *)

\* A batch to be published has bytes, and so has its frame.
LEMMA BatchesAreSequences ==
  ASSUME NEW b \in Batches
  PROVE  b \in Seq(Nat) /\ b # <<>> /\ Bytes(b) \in Nat /\ FrameBytes(b) \in Nat
<1>1. b \in Seq(Nat \ {0}) /\ b # <<>>
  BY LogAssumption
<1>2. b \in Seq(Nat)
  BY <1>1, SeqMonotonic
<1>3. Bytes(b) \in Nat
  BY <1>2, BytesConcat
<1> QED
  BY <1>1, <1>2, <1>3, LogAssumption DEF FrameBytes

\* What the invariant says of the types of what is derived.
LEMMA LogTypes ==
  ASSUME LogInv
  PROVE  /\ Written \in Seq(Nat) /\ FileBytes(frames) \in Nat /\ Len(frames) \in Nat
         /\ events \in Seq(Nat) /\ Bytes(events) \in Nat /\ acked \in Seq(Nat)
         /\ SubSeq(frames, 1, synced) \in Seq(Frames)
         /\ RecordsOf(SubSeq(frames, 1, synced)) \in Seq(Nat)
         /\ IsPrefix(RecordsOf(SubSeq(frames, 1, synced)), Written)
         /\ disk \in BOOLEAN /\ up \in BOOLEAN /\ poisoned \in BOOLEAN
         /\ MaxRetained \in Nat /\ MaxWal \in Nat /\ MagicBytes \in Nat
<1>1. frames \in Seq(Frames) /\ synced \in 0 .. Len(frames) /\ events \in Seq(Nat) /\ acked \in Seq(Nat)
      /\ disk \in BOOLEAN /\ up \in BOOLEAN /\ poisoned \in BOOLEAN
  BY DEF LogInv, TypeOK, FileRight
<1>2. [first |-> 1, records |-> <<>>] \in Frames
  BY EmptySeq DEF Frames
<1>3. \A fs \in Seq(Frames) : RecordsOf(fs) \in Seq(Nat) /\ FileBytes(fs) \in Nat
  BY <1>2, RecordsAppend, FileBytesAppend
<1>4. SubSeq(frames, 1, synced) \in Seq(Frames)
  BY <1>1, FirstElements
<1>5. IsPrefix(RecordsOf(SubSeq(frames, 1, synced)), Written)
  BY <1>1, FileFirst DEF Written
<1>6. Bytes(events) \in Nat /\ Len(frames) \in Nat
  BY <1>1, BytesConcat, LenProperties
<1> QED
  BY <1>1, <1>3, <1>4, <1>5, <1>6, LogAssumption DEF Written

\* Publishing without a file.
LEMMA PublishMemoryKeeps ==
  ASSUME LogInv, UNCHANGED disk, NEW b \in Batches, PublishMemory(b)
  PROVE  LogInv'
<1> USE DEF PublishMemory, file, Commit
<1>1. /\ ~disk /\ up /\ Bytes(b) + retained <= MaxRetained
      /\ b \in Seq(Nat) /\ Bytes(b) \in Nat
  BY BatchesAreSequences DEF Fits
<1>2. events' \in Seq(Nat) /\ Bytes(events') = Bytes(events) + Bytes(b)
  BY <1>1, LogTypes, ConcatProperties, BytesConcat
<1>3. retained' = Bytes(events') /\ retained' <= MaxRetained /\ retained' \in Nat
  BY <1>1, <1>2, LogTypes DEF LogInv, StoreRight
<1>4. TypeOK'
  BY <1>2, <1>3 DEF LogInv, TypeOK
<1>5. FileRight'
  BY DEF LogInv, FileRight, Written
<1>6. StoreRight'
  BY <1>1, <1>3 DEF LogInv, StoreRight, MemoryRight, DownRight, SettledRight, SyncingRight, PoisonedRight
<1>7. AckedRight'
  <2>1. IsPrefix(events', events')
    BY <1>2, PrefixProperties
  <2> QED
    BY <1>1, <2>1 DEF AckedRight, AckedSurvive
<1> QED
  BY <1>4, <1>5, <1>6, <1>7 DEF LogInv

\* Publishing begins: the writer takes the batch, nothing is stored.
LEMMA PublishBeginKeeps ==
  ASSUME LogInv, UNCHANGED disk, NEW b \in Batches, PublishBegin(b)
  PROVE  LogInv'
<1> USE DEF PublishBegin, file, store
<1>1. TypeOK'
  BY DEF LogInv, TypeOK
<1>2. FileRight'
  BY DEF LogInv, FileRight, Written
<1>3. StoreRight'
  BY DEF LogInv, StoreRight, MemoryRight, DownRight, SettledRight, SyncingRight,
         PoisonedRight, Written, Fits
<1>4. AckedRight'
  BY DEF LogInv, AckedRight, AckedSurvive
<1> QED
  BY <1>1, <1>2, <1>3, <1>4 DEF LogInv

\* The frame is written, not synced, and unreadable behind an incomplete one.
LEMMA WriteKeeps ==
  ASSUME LogInv, UNCHANGED disk, Write
  PROVE  LogInv'
<1> USE DEF Write, store
<1>1. /\ step = "writing" /\ disk /\ up /\ ~poisoned /\ magic = "whole"
  BY LogTypes DEF LogInv, TypeOK, StoreRight, MemoryRight, DownRight, PoisonedRight
<1>2. /\ Written = events /\ tail = "none" /\ wal_bytes = FileBytes(frames)
      /\ batch \in Batches /\ Fits(batch)
  BY <1>1 DEF LogInv, StoreRight, SettledRight
<1> DEFINE f == Frame(Len(events) + 1, batch)
<1>3. /\ batch \in Seq(Nat) /\ Bytes(batch) \in Nat /\ FrameBytes(batch) \in Nat
      /\ f \in Frames /\ f.first = Len(Written) + 1 /\ f.records = batch /\ f.first \in Nat \ {0}
  <2>1. batch \in Seq(Nat) /\ Bytes(batch) \in Nat /\ FrameBytes(batch) \in Nat
    BY <1>2, BatchesAreSequences
  <2>2. Len(events) \in Nat
    BY LogTypes, LenProperties
  <2> QED
    BY <1>2, <2>1, <2>2 DEF Frame, Frames
<1>4. frames' = Append(frames, f) /\ UNCHANGED tail
  BY <1>2
<1> HIDE DEF f
<1>5. frames \in Seq(Frames) /\ Consecutive(frames)
  BY DEF LogInv, FileRight
<1>6. /\ frames' \in Seq(Frames) /\ Len(frames') = Len(frames) + 1
      /\ \A i \in 1 .. Len(frames) : frames'[i] = frames[i]
      /\ frames'[Len(frames) + 1] = f
      /\ DOMAIN frames' = 1 .. Len(frames')
  BY <1>3, <1>4, <1>5, AppendProperties, LenProperties
<1>7. Consecutive(frames')
  BY <1>3, <1>4, <1>5, ConsecutiveAppend DEF Written
<1>8. FileBytes(frames') = FileBytes(frames) + FrameBytes(batch)
  BY <1>3, <1>4, <1>5, FileBytesAppend
<1>9. Written' = events \o batch
  BY <1>2, <1>3, <1>4, <1>5, RecordsAppend DEF Written
<1>10. Bytes(Written') = retained + Bytes(batch)
  BY <1>3, <1>9, LogTypes, BytesConcat DEF LogInv, StoreRight
<1>11. TypeOK'
  <2>1. DOMAIN frames = 1 .. Len(frames)
    BY <1>5, LenProperties
  <2>2. ASSUME NEW i \in DOMAIN frames'
        PROVE  frames'[i].first \in Nat \ {0} /\ frames'[i].records \in Batches
    <3>1. i \in 1 .. Len(frames) \/ i = Len(frames) + 1
      BY <1>6, LogTypes
    <3> QED
      BY <1>2, <1>3, <1>6, <2>1, <3>1 DEF LogInv, TypeOK
  <2>3. synced' \in 0 .. Len(frames')
    BY <1>6, LogTypes DEF LogInv, TypeOK
  <2> QED
    BY <1>1, <1>2, <1>4, <2>2, <2>3 DEF LogInv, TypeOK
<1>12. FileRight'
  <2>1. FileBytes(frames') <= MaxWal /\ Bytes(Written') <= MaxRetained
    BY <1>1, <1>2, <1>3, <1>8, <1>10, LogTypes DEF Fits, LogInv, TypeOK
  <2> QED
    BY <1>1, <1>6, <1>7, <2>1 DEF FileRight
<1>13. StoreRight'
  <2>1. wal_bytes + FrameBytes(batch) = FileBytes(frames')
    BY <1>2, <1>8
  <2>2. (Fits(batch))'
    BY <1>2 DEF Fits
  <2> QED
    BY <1>1, <1>2, <1>4, <1>9, <2>1, <2>2
    DEF LogInv, StoreRight, MemoryRight, DownRight, SettledRight, SyncingRight, PoisonedRight
<1>14. AckedRight'
  <2>1. SubSeq(frames', 1, synced') = SubSeq(frames, 1, synced)
    BY <1>3, <1>4, <1>5, FirstElements DEF LogInv, TypeOK
  <2> QED
    BY <1>1, <2>1 DEF LogInv, AckedRight, AckedSurvive
<1> QED
  BY <1>11, <1>12, <1>13, <1>14 DEF LogInv

\* A write or a sync that fails acknowledges nothing.
LEMMA FailKeeps ==
  ASSUME LogInv, UNCHANGED disk, WriteFails \/ SyncFails
  PROVE  LogInv'
<1> USE DEF WriteFails, SyncFails, Fail, file
<1>1. /\ disk /\ up /\ ~poisoned /\ magic = "whole" /\ step # "idle" /\ poisoned'
      /\ UNCHANGED <<magic, frames, synced, magicSafe, up, events, retained, wal_bytes,
                     batch, acked, checkpoint>>
      /\ step' = "idle" /\ tail' \in {"none", "short", "torn"}
  BY LogTypes DEF LogInv, TypeOK, StoreRight, MemoryRight, DownRight, PoisonedRight
<1>2. Written \in {events, events \o batch} /\ batch \in Batches
  BY <1>1 DEF LogInv, TypeOK, StoreRight, SettledRight, SyncingRight
<1>3. TypeOK'
  BY <1>1 DEF LogInv, TypeOK
<1>4. FileRight'
  BY <1>1 DEF LogInv, FileRight, Written
<1>5. StoreRight'
  BY <1>1, <1>2 DEF LogInv, StoreRight, MemoryRight, DownRight, SettledRight, SyncingRight,
                    PoisonedRight, Written
<1>6. AckedRight'
  BY <1>1 DEF LogInv, AckedRight, AckedSurvive
<1> QED
  BY <1>3, <1>4, <1>5, <1>6 DEF LogInv

\* The frame is synced and its events become visible.
LEMMA SyncAndCommitKeeps ==
  ASSUME LogInv, UNCHANGED disk, SyncAndCommit
  PROVE  LogInv'
<1> USE DEF SyncAndCommit, Commit
<1>1. /\ disk /\ up /\ ~poisoned /\ magic = "whole" /\ step = "syncing"
  BY LogTypes DEF LogInv, TypeOK, StoreRight, MemoryRight, DownRight, PoisonedRight
<1>2. /\ Written = events \o batch /\ tail = "none"
      /\ wal_bytes + FrameBytes(batch) = FileBytes(frames)
      /\ batch \in Batches /\ Fits(batch)
  BY <1>1 DEF LogInv, StoreRight, SyncingRight
<1>3. batch \in Seq(Nat) /\ Bytes(batch) \in Nat
  BY <1>2, BatchesAreSequences
<1>4. events' = Written' /\ Written' = Written /\ acked' = Written
  BY <1>2 DEF Written
<1>5. retained' = Bytes(events') /\ retained' <= MaxRetained /\ retained' \in Nat
  <2>1. Bytes(events \o batch) = Bytes(events) + Bytes(batch)
    BY <1>3, LogTypes, BytesConcat
  <2> QED
    BY <1>2, <1>3, <2>1, LogTypes DEF LogInv, StoreRight, Fits
<1>6. TypeOK'
  BY <1>2, <1>4, <1>5, LogTypes DEF LogInv, TypeOK
<1>7. FileRight'
  BY <1>1 DEF LogInv, FileRight, Written
<1>8. StoreRight'
  BY <1>1, <1>2, <1>4, <1>5
  DEF LogInv, StoreRight, MemoryRight, DownRight, SettledRight, SyncingRight, PoisonedRight
<1>9. AckedRight'
  <2>1. SubSeq(frames', 1, synced') = frames
    BY SubSeqFull DEF LogInv, FileRight
  <2>2. IsPrefix(Written, Written)
    BY LogTypes, PrefixProperties
  <2> QED
    BY <1>1, <1>4, <2>1, <2>2 DEF AckedRight, AckedSurvive, Written
<1> QED
  BY <1>6, <1>7, <1>8, <1>9 DEF LogInv

\* A fetch only remembers the events it read.
LEMMA FetchKeeps ==
  ASSUME LogInv, UNCHANGED disk, NEW n \in 1 .. Len(events), Fetch(n)
  PROVE  LogInv'
<1> USE DEF Fetch, file, store
<1>1. checkpoint' \in Seq(Nat)
  <2>1. n \in 0 .. Len(events)
    BY LogTypes, LenProperties
  <2> QED
    BY <2>1, LogTypes, FirstElements
<1>2. TypeOK'
  BY <1>1 DEF LogInv, TypeOK
<1>3. FileRight'
  BY DEF LogInv, FileRight, Written
<1>4. StoreRight'
  BY DEF LogInv, StoreRight, MemoryRight, DownRight, SettledRight, SyncingRight,
         PoisonedRight, Written, Fits
<1>5. AckedRight'
  BY DEF LogInv, AckedRight, AckedSurvive
<1> QED
  BY <1>2, <1>3, <1>4, <1>5 DEF LogInv

\* Opening nothing yet: the file holds no frames.
LEMMA EmptyFile ==
  /\ <<>> \in Seq(Frames) /\ <<>> \in Seq(Nat)
  /\ RecordsOf(<<>>) = <<>> /\ FileBytes(<<>>) = MagicBytes /\ Bytes(<<>>) = 0
  /\ Consecutive(<<>>) /\ Len(<<>>) = 0 /\ DOMAIN <<>> = {} /\ SubSeq(<<>>, 1, 0) = <<>>
  /\ IsPrefix(<<>>, <<>>)
<1>1. <<>> \in Seq(Frames) /\ <<>> \in Seq(Nat) /\ Len(<<>>) = 0 /\ SubSeq(<<>>, 1, 0) = <<>>
  BY EmptySeq, SubSeqEmpty
<1>2. [first |-> 1, records |-> <<>>] \in Frames
  BY EmptySeq DEF Frames
<1>3. RecordsOf(<<>>) = <<>> /\ FileBytes(<<>>) = MagicBytes
  BY <1>1, <1>2, RecordsAppend, FileBytesAppend
<1>4. Bytes(<<>>) = 0
  BY <1>1, BytesAppend
<1>5. DOMAIN <<>> = {}
  BY <1>1, LenProperties
<1>6. Consecutive(<<>>)
  BY <1>5 DEF Consecutive
<1>7. IsPrefix(<<>>, <<>>)
  BY <1>1, PrefixProperties
<1> QED
  BY <1>1, <1>3, <1>4, <1>5, <1>6, <1>7

\* A store without a file starts empty.
LEMMA OpenMemoryKeeps ==
  ASSUME LogInv, UNCHANGED disk, OpenMemory
  PROVE  LogInv'
<1> USE DEF OpenMemory, file
<1>1. TypeOK'
  BY DEF LogInv, TypeOK
<1>2. FileRight'
  BY DEF LogInv, FileRight, Written
<1>3. StoreRight'
  BY DEF LogInv, StoreRight, MemoryRight, DownRight, SettledRight, SyncingRight,
         PoisonedRight, Written
<1>4. AckedRight'
  <2>1. IsPrefix(acked, events)
    BY LogTypes, PrefixProperties DEF LogInv, StoreRight, MemoryRight
  <2> QED
    BY <2>1 DEF AckedRight, AckedSurvive
<1> QED
  BY <1>1, <1>2, <1>3, <1>4 DEF LogInv

\* A file that is absent gets its magic.
LEMMA OpenNewKeeps ==
  ASSUME LogInv, UNCHANGED disk, OpenNew
  PROVE  LogInv'
<1> USE DEF OpenNew
<1>1. frames = <<>> /\ tail = "none" /\ disk /\ ~up
  BY DEF LogInv, FileRight
<1>2. events = <<>> /\ retained = 0 /\ ~poisoned /\ step = "idle" /\ batch = <<>>
  BY <1>1 DEF LogInv, StoreRight, DownRight
<1>3. TypeOK'
  BY LogAssumption DEF LogInv, TypeOK
<1>4. FileRight'
  BY DEF LogInv, FileRight, Written
<1>5. StoreRight'
  BY <1>1, <1>2, EmptyFile
  DEF LogInv, StoreRight, MemoryRight, DownRight, SettledRight, SyncingRight, PoisonedRight, Written
<1>6. AckedRight'
  <2>1. IsPrefix(acked, events')
    BY <1>1, <1>2, EmptyFile DEF LogInv, AckedRight, AckedSurvive
  <2> QED
    BY <2>1 DEF LogInv, AckedRight, AckedSurvive
<1> QED
  BY <1>3, <1>4, <1>5, <1>6 DEF LogInv

\* The process dies, or the disk fails, while the magic of a new file is written.
LEMMA OpenInterruptedKeeps ==
  ASSUME LogInv, UNCHANGED disk, OpenInterrupted
  PROVE  LogInv'
<1> USE DEF OpenInterrupted, store
<1>1. TypeOK'
  BY DEF LogInv, TypeOK
<1>2. FileRight'
  BY DEF LogInv, FileRight, Written
<1>3. StoreRight'
  BY DEF LogInv, StoreRight, MemoryRight, DownRight, SettledRight, SyncingRight,
         PoisonedRight, Written
<1>4. AckedRight'
  BY DEF LogInv, AckedRight, AckedSurvive
<1> QED
  BY <1>1, <1>2, <1>3, <1>4 DEF LogInv

\* Opening a file cuts its torn tail and replays the rest.
LEMMA OpenKeeps ==
  ASSUME LogInv, UNCHANGED disk, Open
  PROVE  LogInv'
<1> USE DEF Open
<1>1. /\ disk /\ ~up /\ up' /\ magic = "whole" /\ FileBytes(frames) <= MaxWal
      /\ Bytes(Written) <= MaxRetained /\ Bytes(Written) \in Nat
  <2>1. Bytes(Written) \in Nat
    BY LogTypes, BytesConcat
  <2> QED
    BY <2>1 DEF CanOpen, Replayable, Written
<1>2. ~poisoned /\ step = "idle" /\ batch = <<>>
  BY <1>1 DEF LogInv, StoreRight, DownRight
<1>3. events' = Written /\ Written' = Written /\ retained' = Bytes(Written)
  BY DEF Written
<1>4. TypeOK'
  <2>1. synced' \in 0 .. Len(frames)
    BY LogTypes DEF LogInv, TypeOK
  <2> QED
    BY <1>1, <1>3, <2>1, LogTypes DEF LogInv, TypeOK
<1>5. FileRight'
  BY <1>1 DEF LogInv, FileRight, Written
<1>6. StoreRight'
  BY <1>1, <1>2, <1>3
  DEF LogInv, StoreRight, MemoryRight, DownRight, SettledRight, SyncingRight, PoisonedRight
<1>7. AckedRight'
  <2>1. IsPrefix(acked, Written)
    BY <1>1 DEF LogInv, AckedRight, AckedSurvive, Written
  <2>2. SubSeq(frames, 1, Len(frames)) = frames
    BY SubSeqFull DEF LogInv, FileRight
  <2>3. IsPrefix(acked, RecordsOf(SubSeq(frames, 1, synced')))
    BY <1>1, <2>1, <2>2 DEF LogInv, AckedRight, Written
  <2> QED
    BY <1>1, <1>3, <2>1, <2>3 DEF AckedRight, AckedSurvive
<1> QED
  BY <1>4, <1>5, <1>6, <1>7 DEF LogInv

\* What is left when the process is gone and the file holds n of its frames, none
\* of those that are safe among the lost.
LEMMA LostKeeps ==
  ASSUME LogInv, UNCHANGED disk, ProcessLost,
         NEW n \in synced .. Len(frames), frames' = SubSeq(frames, 1, n),
         synced' \in 0 .. n, synced' >= synced,
         magic' \in {"absent", "partial", "whole"}, tail' \in {"none", "short", "torn"},
         magicSafe' \in BOOLEAN,
         magic' # "whole" => frames' = <<>> /\ tail' = "none",
         ~disk => tail' = "none" /\ magic' = "absent"
  PROVE  LogInv'
<1> USE DEF ProcessLost
<1>1. /\ frames \in Seq(Frames) /\ Consecutive(frames) /\ synced \in 0 .. Len(frames)
      /\ n \in 0 .. Len(frames)
  BY LogTypes DEF LogInv, FileRight, TypeOK
<1>2. /\ frames' \in Seq(Frames) /\ Len(frames') = n /\ \A i \in 1 .. n : frames'[i] = frames[i]
      /\ \A m \in 0 .. n : SubSeq(frames', 1, m) = SubSeq(frames, 1, m)
  BY <1>1, FirstElements
<1>3. Consecutive(frames')
  BY <1>1, ConsecutiveFirst
<1>4. /\ IsPrefix(Written', Written) /\ FileBytes(frames') <= FileBytes(frames)
      /\ Written' \in Seq(Nat) /\ FileBytes(frames') \in Nat
  <2>1. RecordsOf(frames') \in Seq(Nat) /\ FileBytes(frames') \in Nat
    <3>1. [first |-> 1, records |-> <<>>] \in Frames
      BY EmptySeq DEF Frames
    <3> QED
      BY <1>2, <3>1, RecordsAppend, FileBytesAppend
  <2> QED
    BY <1>1, <2>1, FileFirst DEF Written
<1>5. Bytes(Written') <= Bytes(Written) /\ Bytes(Written') \in Nat /\ Bytes(Written) \in Nat
  BY <1>4, LogTypes, BytesPrefix
<1>6. TypeOK'
  <2>1. DOMAIN frames' = 1 .. n /\ DOMAIN frames = 1 .. Len(frames)
    BY <1>1, <1>2, LenProperties
  <2>2. \A i \in DOMAIN frames' : frames'[i].first \in Nat \ {0} /\ frames'[i].records \in Batches
    BY <1>1, <1>2, <2>1 DEF LogInv, TypeOK
  <2>3. acked' \in Seq(Nat) /\ events' \in Seq(Nat)
    BY EmptyFile, LogTypes
  <2>4. {disk', magicSafe', up', poisoned'} \subseteq BOOLEAN /\ {retained', wal_bytes'} \subseteq Nat
    <3>1. disk' \in BOOLEAN /\ magicSafe' \in BOOLEAN
      BY LogTypes
    <3>2. up' \in BOOLEAN /\ poisoned' \in BOOLEAN
      OBVIOUS
    <3>3. {disk', magicSafe', up', poisoned'} \subseteq BOOLEAN
      BY ONLY <3>1, <3>2
    <3>4. {retained', wal_bytes'} \subseteq Nat
      OBVIOUS
    <3> QED
      BY <3>3, <3>4
  <2>5. batch' \in Batches \cup {<<>>} /\ step' \in {"idle", "writing", "syncing"}
        /\ checkpoint' \in Seq(Nat)
    BY DEF LogInv, TypeOK
  <2> QED
    BY <1>2, <2>2, <2>3, <2>4, <2>5 DEF TypeOK
<1>7. FileRight'
  <2>1. FileBytes(frames) <= MaxWal /\ Bytes(Written) <= MaxRetained
    BY DEF LogInv, FileRight
  <2>2. FileBytes(frames') <= MaxWal
    BY <1>4, <2>1, LogTypes
  <2>3. Bytes(Written') <= MaxRetained
    BY <1>5, <2>1, LogTypes
  <2> QED
    BY <1>2, <1>3, <2>2, <2>3 DEF FileRight
<1>8. StoreRight'
  <2>1. ~disk => frames' = <<>>
    <3>1. ~disk => Len(frames) = 0
      BY EmptyFile DEF LogInv, StoreRight, MemoryRight
    <3>2. ~disk => n = 0
      BY <1>1, <3>1
    <3> QED
      BY <3>2, SubSeqEmpty
  <2> QED
    BY <2>1, EmptyFile, LogTypes
    DEF LogInv, StoreRight, MemoryRight, DownRight, SettledRight, SyncingRight, PoisonedRight
<1>9. AckedRight'
  <2>1. CASE disk
    <3> DEFINE safe == RecordsOf(SubSeq(frames, 1, synced))
               safer == RecordsOf(SubSeq(frames', 1, synced'))
    <3>1. /\ SubSeq(frames', 1, synced') \in Seq(Frames) /\ Len(SubSeq(frames', 1, synced')) = synced'
          /\ SubSeq(SubSeq(frames', 1, synced'), 1, synced) = SubSeq(frames, 1, synced)
      <4>1. synced \in 0 .. synced' /\ synced' \in 0 .. Len(frames') /\ synced \in 0 .. n
        BY <1>1, <1>2
      <4>2. SubSeq(SubSeq(frames', 1, synced'), 1, synced) = SubSeq(frames', 1, synced)
        BY <1>2, <4>1, FirstElements
      <4> QED
        BY <1>2, <4>1, <4>2, FirstElements
    <3>2. IsPrefix(safe, safer)
      <4> DEFINE g == SubSeq(frames', 1, synced')
      <4>1. g \in Seq(Frames) /\ synced \in 0 .. Len(g) /\ SubSeq(g, 1, synced) = SubSeq(frames, 1, synced)
        <5>1. Len(g) = synced' /\ g \in Seq(Frames) /\ SubSeq(g, 1, synced) = SubSeq(frames, 1, synced)
          BY <3>1
        <5>2. synced \in 0 .. synced'
          BY <1>1
        <5> HIDE DEF g
        <5> QED
          BY <5>1, <5>2
      <4> HIDE DEF g
      <4>2. IsPrefix(RecordsOf(SubSeq(g, 1, synced)), RecordsOf(g))
        BY <4>1, FileFirst
      <4> QED
        BY <4>1, <4>2 DEF g
    <3>3. IsPrefix(safer, Written')
      <4>1. synced' \in 0 .. Len(frames')
        BY <1>2
      <4> QED
        BY <1>2, <4>1, FileFirst DEF Written
    <3>4. safe \in Seq(Nat) /\ safer \in Seq(Nat) /\ acked \in Seq(Nat)
      <4>1. [first |-> 1, records |-> <<>>] \in Frames
        BY EmptySeq DEF Frames
      <4> QED
        BY <3>1, <4>1, LogTypes, RecordsAppend
    <3>5. IsPrefix(acked, safe)
      BY <2>1 DEF LogInv, AckedRight
    <3> HIDE DEF safe, safer
    <3>6. IsPrefix(acked, safer)
      BY <3>2, <3>4, <3>5, PrefixProperties
    <3>7. IsPrefix(acked, Written')
      BY <1>4, <3>3, <3>4, <3>6, PrefixProperties
    <3>8. acked' = acked
      BY <2>1
    <3> QED
      BY <3>6, <3>7, <3>8 DEF AckedRight, AckedSurvive, Written, safer
  <2>2. CASE ~disk
    <3>1. IsPrefix(<<>>, Written')
      BY <1>4, PrefixProperties
    <3> QED
      BY <2>2, <3>1 DEF AckedRight, AckedSurvive, Written
  <2> QED
    BY <2>1, <2>2
<1> QED
  BY <1>6, <1>7, <1>8, <1>9 DEF LogInv

\* The process dies; the file keeps what was written, the last frame perhaps in part.
LEMMA KillKeeps ==
  ASSUME LogInv, UNCHANGED disk, Kill
  PROVE  LogInv'
<1> DEFINE n == Len(frames)
<1>1. /\ ProcessLost /\ UNCHANGED <<magic, frames, synced, magicSafe>>
      /\ tail' \in IF step = "writing" THEN {tail, "short"} ELSE {tail}
  BY DEF Kill
<1>2. /\ n \in synced .. Len(frames) /\ synced \in 0 .. n /\ synced >= synced
  BY LogTypes DEF LogInv, TypeOK
<1>3. frames' = SubSeq(frames, 1, n)
  BY <1>1, SubSeqFull DEF LogInv, FileRight
<1>4. /\ magic' \in {"absent", "partial", "whole"} /\ tail' \in {"none", "short", "torn"}
      /\ magicSafe' \in BOOLEAN
  BY <1>1 DEF LogInv, TypeOK
<1>5. magic' # "whole" => frames' = <<>> /\ tail' = "none"
  <2>1. magic # "whole" => step # "writing"
    BY LogTypes DEF LogInv, StoreRight, MemoryRight, DownRight
  <2> QED
    BY <1>1, <2>1 DEF LogInv, FileRight
<1>6. ~disk => tail' = "none" /\ magic' = "absent"
  BY <1>1 DEF LogInv, StoreRight, MemoryRight
<1> HIDE DEF n
<1> QED
  BY <1>1, <1>2, <1>3, <1>4, <1>5, <1>6, LostKeeps

\* The machine dies; the file keeps what was synced and any part of the rest.
LEMMA PowerLossKeeps ==
  ASSUME LogInv, UNCHANGED disk, PowerLoss
  PROVE  LogInv'
<1>1. PICK n \in synced .. Len(frames) :
        /\ frames' = SubSeq(frames, 1, n)
        /\ tail' \in IF n < Len(frames) \/ tail = "short" \/ step = "writing"
                     THEN {"none", "short", "torn"} ELSE {tail}
  BY DEF PowerLoss
<1>2. n \in 0 .. Len(frames) /\ frames \in Seq(Frames) /\ synced \in Nat
  BY LogTypes DEF LogInv, TypeOK, FileRight
<1>3. Len(frames') = n
  BY <1>1, <1>2, FirstElements
<1>4. /\ ProcessLost /\ synced' \in 0 .. n /\ synced' >= synced
  BY <1>1, <1>2, <1>3 DEF PowerLoss
<1>5. /\ magic' \in {"absent", "partial", "whole"} /\ tail' \in {"none", "short", "torn"}
      /\ magicSafe' \in BOOLEAN
  BY <1>1 DEF LogInv, TypeOK, PowerLoss
<1>6. UNCHANGED magic /\ magic # "whole" => frames' = <<>> /\ tail' = "none"
  <2>1. magic # "whole" => step # "writing" /\ frames = <<>> /\ tail = "none"
    BY LogTypes DEF LogInv, StoreRight, MemoryRight, DownRight, FileRight
  <2>2. magic # "whole" => Len(frames) = 0 /\ n = 0
    BY <1>2, <2>1, EmptyFile
  <2> QED
    BY <1>1, <2>1, <2>2, EmptyFile
<1>7. magic' # "whole" => frames' = <<>> /\ tail' = "none"
  BY <1>6 DEF PowerLoss
<1>8. ~disk => tail' = "none" /\ magic' = "absent"
  BY <1>6 DEF LogInv, StoreRight, MemoryRight, PowerLoss
<1> QED
  BY <1>1, <1>4, <1>5, <1>7, <1>8, LostKeeps

\* Every step keeps the invariant.
LEMMA LogNext == LogInv /\ [Next]_vars => LogInv'
<1> SUFFICES ASSUME LogInv, [Next]_vars PROVE LogInv'
  OBVIOUS
<1>1. CASE UNCHANGED vars
  BY <1>1 DEF vars, file, store, LogInv, TypeOK, FileRight, StoreRight, AckedRight, AckedSurvive,
              MemoryRight, DownRight, SettledRight, SyncingRight, PoisonedRight, Written, Fits
<1>2. CASE Next
  BY <1>2, PublishMemoryKeeps, PublishBeginKeeps, WriteKeeps, FailKeeps, SyncAndCommitKeeps,
     FetchKeeps, OpenMemoryKeeps, OpenNewKeeps, OpenInterruptedKeeps, OpenKeeps, KillKeeps,
     PowerLossKeeps DEF Next
<1> QED
  BY <1>1, <1>2

\* The invariant holds before the first open.
LEMMA LogInit == Init => LogInv
<1> SUFFICES ASSUME Init PROVE LogInv
  OBVIOUS
<1>1. TypeOK
  <2>1. {disk, magicSafe, up, poisoned} \subseteq BOOLEAN
    BY DEF Init
  <2>2. /\ \A i \in DOMAIN frames : frames[i].first \in Nat \ {0} /\ frames[i].records \in Batches
        /\ synced \in 0 .. Len(frames)
    BY EmptyFile DEF Init
  <2>3. events \in Seq(Nat) /\ acked \in Seq(Nat) /\ checkpoint \in Seq(Nat)
    BY EmptyFile DEF Init
  <2> QED
    BY <2>1, <2>2, <2>3 DEF Init, TypeOK
<1>2. FileRight
  BY EmptyFile, LogAssumption DEF Init, FileRight, Written
<1>3. StoreRight
  BY EmptyFile, LogAssumption
  DEF Init, StoreRight, MemoryRight, DownRight, SettledRight, SyncingRight, PoisonedRight
<1>4. AckedRight
  BY EmptyFile DEF Init, AckedRight, AckedSurvive
<1> QED
  BY <1>1, <1>2, <1>3, <1>4 DEF LogInv

-----------------------------------------------------------------------------
(* The promise of DurableLog.                                              *)

Log == IF ~disk THEN <<>> ELSE IF up THEN events ELSE Written

\* The batches the store holds.
Bounds == {e \in Ends(frames) : up => e <= Len(events)}

\* An open store holds whole frames, and at most the last frame is beyond them: the
\* batch in doubt.
WholeBatches ==
  up /\ disk => /\ Len(events) \in Ends(frames)
                /\ \A e \in Ends(frames) : e <= Len(events) \/ e = Len(Written)

\* What the ends of the file's frames are.
LEMMA FileEnds ==
  ASSUME LogInv
  PROVE  /\ \A e \in Ends(frames) : e \in Nat /\ e <= Len(Written)
         /\ Len(Written) \in Ends(frames) /\ Len(Written) \in Nat
         /\ Len(events) \in Nat
  BY EndsOf, LogTypes, LenProperties DEF LogInv, FileRight, Written

\* A write adds the end of the frame it writes, which lies beyond the events held.
LEMMA WriteEnds ==
  ASSUME LogInv, Write
  PROVE  /\ Written = events /\ Ends(frames') = Ends(frames) \cup {Len(Written')}
         /\ Len(Written') > Len(events)
<1>1. disk /\ up /\ ~poisoned
  BY LogTypes DEF Write, LogInv, StoreRight, MemoryRight, DownRight, PoisonedRight
<1>2. Written = events /\ tail = "none" /\ batch \in Batches
  BY <1>1 DEF Write, LogInv, StoreRight, SettledRight
<1> DEFINE f == Frame(Len(events) + 1, batch)
<1>3. batch \in Seq(Nat) /\ batch # <<>> /\ events \in Seq(Nat) /\ frames \in Seq(Frames)
  BY <1>2, BatchesAreSequences, LogTypes DEF LogInv, FileRight
<1>4. Len(batch) \in Nat /\ Len(batch) > 0 /\ Len(events) \in Nat
  BY <1>3, LenProperties, EmptySeq
<1>5. f \in Frames /\ f.records = batch
  BY <1>3, <1>4 DEF Frame, Frames
<1>6. frames' = Append(frames, f)
  BY <1>2 DEF Write
<1> HIDE DEF f
<1>7. Written' = events \o batch
  BY <1>2, <1>3, <1>5, <1>6, RecordsAppend DEF Written
<1>8. Len(Written') = Len(events) + Len(batch)
  BY <1>3, <1>7, ConcatProperties
<1>9. Ends(frames') = Ends(frames) \cup {Len(Written')}
  BY <1>3, <1>5, <1>6, EndsAppend DEF Written
<1> QED
  BY <1>2, <1>4, <1>8, <1>9

\* Each step keeps the batches whole.
LEMMA WholeBatchesNext == LogInv /\ LogInv' /\ WholeBatches /\ [Next]_vars => WholeBatches'
<1> SUFFICES ASSUME LogInv, LogInv', WholeBatches, [Next]_vars, up', disk'
             PROVE  /\ Len(events') \in Ends(frames')
                    /\ \A e \in Ends(frames') : e <= Len(events') \/ e = Len(Written')
  BY DEF WholeBatches
<1>1. disk
  BY DEF Next, vars
<1>2. CASE up /\ UNCHANGED <<events, frames>>
  BY <1>1, <1>2 DEF WholeBatches, Written
<1>3. CASE Write
  <2>1. UNCHANGED events
    BY <1>3 DEF Write, store
  <2> QED
    BY <1>3, <2>1, FileEnds, WriteEnds
<1>4. CASE events' = Written'
  <2>1. /\ \A e \in Ends(frames') : e <= Len(Written')
        /\ Len(Written') \in Ends(frames')
    <3>1. frames' \in Seq(Frames)
      BY DEF LogInv, FileRight
    <3> QED
      BY <3>1, EndsOf DEF Written
  <2> QED
    BY <1>4, <2>1
<1>5. CASE SyncAndCommit
  <2>1. up
    BY <1>5 DEF SyncAndCommit, LogInv, StoreRight, DownRight
  <2>2. Written = events \o batch
    BY <1>1, <1>5, <2>1 DEF SyncAndCommit, LogInv, StoreRight, SyncingRight
  <2>3. events' = Written'
    BY <1>5, <2>2 DEF SyncAndCommit, Commit, Written
  <2> QED
    BY <1>4, <2>3
<1>6. CASE OpenNew
  <2>1. events' = Written'
    BY <1>6, EmptyFile DEF OpenNew, LogInv, FileRight, StoreRight, DownRight, Written
  <2> QED
    BY <1>4, <2>1
<1>7. CASE Open
  BY <1>4, <1>7 DEF Open, Written
<1>8. CASE UNCHANGED vars
  BY <1>2, <1>8 DEF vars, file, store
<1>9. ASSUME NEW b \in Batches, PublishMemory(b) \/ PublishBegin(b)
      PROVE  UNCHANGED <<events, frames>> /\ up
  BY <1>1, <1>9 DEF PublishMemory, PublishBegin, file, store
<1>10. CASE WriteFails \/ SyncFails
  <2>1. UNCHANGED <<events, frames>> /\ up
    BY <1>10 DEF WriteFails, SyncFails, Fail, file, LogInv, StoreRight, DownRight
  <2> QED
    BY <1>2, <2>1
<1>11. ASSUME NEW n \in 1 .. Len(events), Fetch(n)
       PROVE  UNCHANGED <<events, frames>> /\ up
  BY <1>11 DEF Fetch, file, store
<1>12. ~OpenMemory /\ ~OpenInterrupted /\ ~Kill /\ ~PowerLoss
  BY <1>1 DEF OpenMemory, OpenInterrupted, Kill, PowerLoss, ProcessLost, store
<1> QED
  BY <1>2, <1>3, <1>5, <1>6, <1>7, <1>8, <1>9, <1>10, <1>11, <1>12 DEF Next

\* Steps that leave the log, its batches, what is acknowledged and what is in doubt
\* alone.
LEMMA Quiet ==
  ASSUME LogInv, LogInv', UNCHANGED disk,
         disk => Log' = Log /\ Bounds' = Bounds /\ acked' = acked /\ batch' = batch
  PROVE  UNCHANGED Promise!logVars
<1>1. CASE disk
  BY <1>1 DEF Promise!logVars, Log, Written, Bounds
<1>2. CASE ~disk
  <2>1. batch = <<>> /\ batch' = <<>>
    BY <1>2 DEF LogInv, StoreRight, MemoryRight
  <2> QED
    BY <1>2, <2>1 DEF Promise!logVars
<1> QED
  BY <1>1, <1>2

\* A crash keeps the first frames of what was written, and so whole batches of what
\* was acknowledged or is in doubt.
LEMMA CrashIsCrash ==
  ASSUME LogInv, LogInv', WholeBatches, UNCHANGED disk, disk, Kill \/ PowerLoss
  PROVE  Promise!Crash
<1>1. /\ ~up' /\ batch' = <<>> /\ acked' = acked
  BY DEF Kill, PowerLoss, ProcessLost
<1>2. /\ Written \in Seq(Nat) /\ Written' \in Seq(Nat) /\ events \in Seq(Nat)
      /\ batch \in Seq(Nat) /\ Log \in Seq(Nat) /\ acked \in Seq(Nat)
  <2>1. batch \in Seq(Nat)
    BY BatchesAreSequences, EmptyFile DEF LogInv, TypeOK
  <2>2. Written \in Seq(Nat) /\ events \in Seq(Nat) /\ acked \in Seq(Nat)
    BY LogTypes
  <2>3. Written' \in Seq(Nat)
    <3>1. [first |-> 1, records |-> <<>>] \in Frames
      BY EmptySeq DEF Frames
    <3> QED
      BY <3>1, RecordsAppend DEF LogInv, FileRight, Written
  <2> QED
    BY <2>1, <2>2, <2>3, EmptyFile DEF Log
<1>3. IsPrefix(Written', Written)
  <2>1. CASE Kill
    <3>1. Written' = Written
      BY <2>1 DEF Kill, Written
    <3> QED
      BY <1>2, <3>1, PrefixProperties
  <2>2. CASE PowerLoss
    <3>1. PICK n \in synced .. Len(frames) : frames' = SubSeq(frames, 1, n)
      BY <2>2 DEF PowerLoss
    <3>2. n \in 0 .. Len(frames)
      BY <3>1, LogTypes DEF LogInv, TypeOK
    <3> QED
      BY <3>1, <3>2, FileFirst DEF LogInv, FileRight, Written
  <2> QED
    BY <2>1, <2>2
<1>4. Written \in {Log, Log \o batch}
  <2>1. CASE up
    BY <2>1, LogTypes DEF LogInv, TypeOK, StoreRight, SettledRight, SyncingRight, PoisonedRight, Log
  <2>2. CASE ~up
    BY <2>2 DEF Log
  <2> QED
    BY <2>1, <2>2
<1> DEFINE all == Log \o batch
<1>5. all \in Seq(Nat) /\ IsPrefix(Log, all) /\ IsPrefix(all, all)
  <2>1. all \in Seq(Nat)
    BY <1>2, ConcatProperties
  <2>2. IsPrefix(Log, Log \o batch)
    BY <1>2, PrefixProperties
  <2> HIDE DEF all
  <2>3. IsPrefix(all, all)
    BY <2>1, PrefixProperties
  <2> QED
    BY <2>1, <2>2, <2>3 DEF all
<1>6. IsPrefix(Written, all)
  BY <1>4, <1>5
<1> HIDE DEF all
<1>7. IsPrefix(Written', all)
  BY <1>2, <1>3, <1>5, <1>6, PrefixProperties
<1>8. Written' = SubSeq(all, 1, Len(Written')) /\ Len(Written') \in 0 .. Len(all)
  BY <1>2, <1>5, <1>7, PrefixProperties
<1>9. Len(acked) <= Len(Written') /\ Len(acked) \in Nat
  BY <1>1, <1>2, LenProperties DEF LogInv, AckedRight, AckedSurvive, IsPrefix, Written
<1>10. Log' = Written'
  BY <1>1 DEF Log
<1>11. /\ Ends(frames') = {e \in Ends(frames) : e <= Len(Written')}
       /\ Len(Written') \in Ends(frames) /\ Len(Written') <= Len(Written)
  <2>1. frames \in Seq(Frames) /\ synced \in 0 .. Len(frames)
    BY DEF LogInv, FileRight, TypeOK
  <2>2. PICK n \in 0 .. Len(frames) : frames' = SubSeq(frames, 1, n)
    <3>1. CASE Kill
      <4>1. frames' = SubSeq(frames, 1, Len(frames)) /\ Len(frames) \in 0 .. Len(frames)
        BY <2>1, <3>1, SubSeqFull, LenProperties DEF Kill
      <4> QED
        BY <4>1
    <3>2. CASE PowerLoss
      <4>1. PICK n \in synced .. Len(frames) : frames' = SubSeq(frames, 1, n)
        BY <3>2 DEF PowerLoss
      <4>2. n \in 0 .. Len(frames)
        BY <2>1, <4>1
      <4> QED
        BY <4>1, <4>2
    <3> QED
      BY <3>1, <3>2
  <2>3. Ends(frames') = {e \in Ends(frames) : e <= Len(Written')}
    BY <2>1, <2>2, EndsOf DEF Written
  <2>4. Len(Written') \in Ends(frames')
    <3>1. frames' \in Seq(Frames)
      BY DEF LogInv, FileRight
    <3> QED
      BY <3>1, EndsOf DEF Written
  <2> QED
    BY <2>3, <2>4, FileEnds
<1> DEFINE allEnds == Bounds \cup {Len(all)}
<1>12. ASSUME NEW e \in Ends(frames)
       PROVE  e \in allEnds
  <2>1. CASE ~up
    BY <2>1 DEF Bounds
  <2>2. CASE up
    <3>1. e <= Len(events) \/ e = Len(Written)
      BY <2>2 DEF WholeBatches
    <3>2. Log = events
      BY <2>2 DEF Log
    <3> QED
      BY <1>4, <2>2, <3>1, <3>2, FileEnds DEF Bounds, all
  <2> QED
    BY <2>1, <2>2, LogTypes
<1>13. ASSUME NEW e \in allEnds, e <= Len(Written')
       PROVE  e \in Ends(frames)
  <2>1. CASE e \in Bounds
    BY <2>1 DEF Bounds
  <2>2. CASE e = Len(all)
    <3>1. Len(Written') = Len(all)
      BY <1>8, <1>13, <2>2
    <3> QED
      BY <1>11, <2>2, <3>1
  <2> QED
    BY <2>1, <2>2
<1>14. /\ Len(Written') \in allEnds
       /\ Ends(frames') = {e \in allEnds : e <= Len(Written')}
  BY <1>11, <1>12, <1>13
<1>15. Bounds' = Ends(frames')
  BY <1>1 DEF Bounds
<1> QED
  BY <1>1, <1>8, <1>9, <1>10, <1>14, <1>15 DEF Promise!Crash, Log, Written, Bounds, all

\* A step of the store is a step of the durable log or none at all.
LEMMA PromiseNext ==
  LogInv /\ LogInv' /\ WholeBatches /\ [Next]_vars => [Promise!Next]_(Promise!logVars)
<1> SUFFICES ASSUME LogInv, LogInv', WholeBatches, [Next]_vars
             PROVE  Promise!Next \/ UNCHANGED Promise!logVars
  OBVIOUS
<1>1. UNCHANGED disk
  BY DEF Next, vars
<1>2. CASE UNCHANGED vars
  BY <1>2, Quiet DEF vars, file, store, Log, Written, Bounds
<1>3. ASSUME NEW b \in Batches, PublishMemory(b)
      PROVE  UNCHANGED Promise!logVars
  BY <1>1, <1>3, Quiet DEF PublishMemory
<1>4. ASSUME NEW b \in Batches, PublishBegin(b)
      PROVE  Promise!Submit
  <2>1. batch = <<>>
    BY <1>4 DEF PublishBegin, LogInv, StoreRight, SettledRight
  <2> QED
    BY <1>1, <1>4, <2>1 DEF PublishBegin, Promise!Submit, file, store
<1>5. CASE Write \/ WriteFails \/ SyncFails
  <2>1. up
    BY <1>5 DEF Write, WriteFails, SyncFails, LogInv, StoreRight, DownRight
  <2>2. CASE Write
    <3>1. UNCHANGED <<up, events, acked, batch>>
      BY <2>2 DEF Write, store
    <3>2. Bounds' = Bounds
      BY <2>1, <2>2, <3>1, FileEnds, WriteEnds DEF Bounds
    <3> QED
      BY <1>1, <2>1, <3>1, <3>2, Quiet DEF Log
  <2>3. CASE WriteFails \/ SyncFails
    BY <1>1, <2>1, <2>3, Quiet DEF WriteFails, SyncFails, Fail, Log, Bounds, file
  <2> QED
    BY <1>5, <2>2, <2>3
<1>6. CASE SyncAndCommit
  <2>1. up /\ disk
    BY <1>6 DEF SyncAndCommit, LogInv, StoreRight, DownRight, MemoryRight
  <2>2. batch # <<>>
    BY <1>6, <2>1, BatchesAreSequences DEF SyncAndCommit, LogInv, StoreRight, SyncingRight
  <2>3. Written = events \o batch /\ events' = events \o batch /\ Written' = Written
        /\ UNCHANGED <<up, frames>> /\ acked' = events'
    BY <1>6, <2>1 DEF SyncAndCommit, Commit, LogInv, StoreRight, SyncingRight, Written
  <2>4. Bounds' = Bounds \cup {Len(events')}
    <3>1. Bounds' = Ends(frames)
      BY <2>1, <2>3, FileEnds DEF Bounds
    <3>2. Len(events') \in Ends(frames)
      BY <2>3, FileEnds
    <3>3. \A e \in Ends(frames) : e \in Bounds \cup {Len(events')}
      BY <2>1, <2>3 DEF Bounds, WholeBatches
    <3>4. Bounds \subseteq Ends(frames)
      BY DEF Bounds
    <3> QED
      BY <3>1, <3>2, <3>3, <3>4
  <2> QED
    BY <1>1, <1>6, <2>1, <2>2, <2>3, <2>4
    DEF SyncAndCommit, Commit, Promise!Next, Promise!Acknowledge, Bounds
<1>7. ASSUME NEW n \in 1 .. Len(events), Fetch(n)
      PROVE  UNCHANGED Promise!logVars
  BY <1>1, <1>7, Quiet DEF Fetch, Log, Written, Bounds, file, store
<1>8. CASE OpenMemory \/ OpenInterrupted
  BY <1>1, <1>8, Quiet DEF OpenMemory, OpenInterrupted, Log, Written, Bounds, file, store
<1>9. CASE OpenNew
  <2>1. Written = <<>> /\ events = <<>>
    BY <1>9, EmptyFile DEF OpenNew, LogInv, FileRight, StoreRight, DownRight, Written
  <2>2. Bounds' = Bounds
    BY <1>9, <2>1, FileEnds DEF OpenNew, Bounds
  <2> QED
    BY <1>1, <1>9, <2>1, <2>2, Quiet DEF OpenNew, Log
<1>10. CASE Open
  <2>1. events' = Written /\ UNCHANGED frames /\ ~up /\ up'
    BY <1>10 DEF Open, Written
  <2>2. Bounds' = Bounds
    BY <2>1, FileEnds DEF Bounds
  <2> QED
    BY <1>1, <1>10, <2>1, <2>2, Quiet DEF Open, Log, Written
<1>11. CASE Kill \/ PowerLoss
  <2>1. CASE disk
    BY <1>1, <1>11, <2>1, CrashIsCrash DEF Promise!Next
  <2>2. CASE ~disk
    BY <1>1, <2>2, Quiet
  <2> QED
    BY <2>1, <2>2
<1> QED
  BY <1>2, <1>3, <1>4, <1>5, <1>6, <1>7, <1>8, <1>9, <1>10, <1>11 DEF Next, Promise!Next

-----------------------------------------------------------------------------

\* The invariant holds always.
LEMMA LogInvariant == Spec => []LogInv
  BY LogInit, LogNext, PTL DEF Spec

\* No acknowledged record is lost or moved: not by an append, a failure, a kill, a
\* power loss or a recovery (Store::publish, Wal::append, Wal::open).
THEOREM AcknowledgedSurvive == Spec => []AckedSurvive
<1>1. LogInv => AckedSurvive
  BY DEF LogInv, AckedRight
<1> QED
  BY <1>1, LogInvariant, PTL

\* A healthy store agrees with its file between publishes, and keeps its budgets.
THEOREM FileAgrees == Spec => []FileMatchesMemory
<1>1. LogInv => FileMatchesMemory
  BY DEF LogInv, FileMatchesMemory, FileRight, StoreRight, SettledRight, Written
<1> QED
  BY <1>1, LogInvariant, PTL

\* Wal::open accepts what any crash leaves, a torn write or header excepted.
THEOREM CrashedFilesOpen == Spec => []ReopensAfterCrash
<1>1. LogInv => ReopensAfterCrash
  BY DEF LogInv, ReopensAfterCrash, CanOpen, Replayable, FileRight, Written
<1> QED
  BY <1>1, LogInvariant, PTL

\* The store over a WAL is a log that only grows while it runs, of which a crash
\* takes nothing acknowledged and splits no batch, the one in doubt included: one
\* frame holds a batch, and recovery keeps whole frames (Wal::append, Wal::open).
THEOREM PromiseIsKept == Spec => KeepsPromise
<1>1. Init => Promise!Init
  <2> SUFFICES ASSUME Init PROVE Promise!Init
    OBVIOUS
  <2>1. frames = <<>> /\ ~up /\ Written = <<>> /\ Len(Written) = 0
    BY EmptyFile DEF Init, Written
  <2>2. Ends(frames) = {0}
    <3>1. \A e \in Ends(frames) : e \in 0 .. 0
      BY <2>1, EmptyFile, EndsOf DEF Written
    <3>2. 0 \in Ends(frames)
      BY <2>1, EmptyFile, EndsOf DEF Written
    <3> QED
      BY <3>1, <3>2
  <2> QED
    BY <2>1, <2>2, EmptyFile DEF Init, Promise!Init
<1>2. Init => WholeBatches
  BY DEF Init, WholeBatches
<1> QED
  BY <1>1, <1>2, LogInvariant, WholeBatchesNext, PromiseNext, PTL
  DEF Spec, KeepsPromise, Promise!Spec

=============================================================================
