----------------------------- MODULE Selection -----------------------------
(***************************************************************************)
(* A list comprehension over a sequence, [x for x in s if ...], given by   *)
(* the positions it keeps, and a stable sort.  The standard module's       *)
(* SelectSeq computes the first by recursion, about which nothing can be   *)
(* proved; here the n-th element is the one that has n positions up to its *)
(* own.                                                                    *)
(***************************************************************************)
EXTENDS Integers, Sequences, FiniteSets

\* The n-th smallest of the positions P.
Position(P, n) == CHOOSE j \in P : Cardinality({i \in P : i <= j}) = n

\* The elements of s at the positions P, in their order in s.
Selected(s, P) == [n \in 1..Cardinality(P) |-> s[Position(P, n)]]

\* The elements of s by increasing key, those of one key in their order in s.
NotAfter(key, i, j) == key[i] < key[j] \/ (key[i] = key[j] /\ i <= j)
Sorted(s, key) ==
  [n \in DOMAIN s |->
     s[CHOOSE j \in DOMAIN s : Cardinality({i \in DOMAIN s : NotAfter(key, i, j)}) = n]]
=============================================================================
