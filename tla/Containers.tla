------------------------------ MODULE Containers ------------------------------
(***************************************************************************)
(* The standard containers the broker keeps its state in.  A HashMap is a  *)
(* function whose domain is the set of keys present, a VecDeque a sequence.*)
(* Nothing here is recursive, so that it can be proved about.              *)
(***************************************************************************)
EXTENDS Naturals, Sequences, FiniteSets, Functions

Empty == [x \in {} |-> x]

\* HashMap::insert and HashMap::remove (of every key in S).
Put(f, k, v) == [x \in DOMAIN f \cup {k} |-> IF x = k THEN v ELSE f[x]]
Omit(f, S)   == Restrict(f, DOMAIN f \ S)

\* VecDeque::push_back.
Enqueue(q, x) == Append(q, x)

\* VecDeque::retain(|x| x is not in S): what is kept moves up to its rank.
Kept(q, S) == {i \in DOMAIN q : q[i] \notin S}
Rank(K, i) == Cardinality({k \in K : k <= i})
Nth(K, j)  == CHOOSE i \in K : Rank(K, i) = j
Without(q, S) ==
  [j \in 1 .. Cardinality(Kept(q, S)) |-> q[Nth(Kept(q, S), j)]]

=============================================================================
