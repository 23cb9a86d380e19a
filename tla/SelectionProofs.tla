--------------------------- MODULE SelectionProofs ---------------------------
(* What a list comprehension (Selection) is made of.                         *)
EXTENDS Selection, FunctionTheorems, FiniteSetTheorems, SequenceTheorems, TLAPS

(* A sequence of n positions has n elements.                                 *)
LEMMA IntervalCardinality ==
  ASSUME NEW n \in Nat
  PROVE  IsFiniteSet(1..n) /\ Cardinality(1..n) = n
<1>1. 1 \in Int /\ n \in Int
  OBVIOUS
<1>2. /\ IsFiniteSet(1..n)
      /\ Cardinality(1..n) = IF 1 > n THEN 0 ELSE n - 1 + 1
  BY <1>1, FS_Interval
<1> QED BY <1>2

(* Every rank up to the number of positions is the rank of one of them.      *)
LEMMA RanksAreReached ==
  ASSUME NEW m \in Nat, NEW P, P \subseteq 1..m, NEW n \in 1..Cardinality(P)
  PROVE  Position(P, n) \in P /\ Cardinality({i \in P : i <= Position(P, n)}) = n
<1> DEFINE Upto(j) == {i \in P : i <= j}
           rank == [j \in P |-> Cardinality(Upto(j))]
<1>1. IsFiniteSet(P) /\ Cardinality(P) \in Nat
  <2>1. IsFiniteSet(1..m)
    BY IntervalCardinality
  <2> QED BY <2>1, FS_Subset, FS_CardinalityType
<1>2. ASSUME NEW j \in P
      PROVE  IsFiniteSet(Upto(j)) /\ Cardinality(Upto(j)) \in 1..Cardinality(P)
  <2>1. Upto(j) \in SUBSET P /\ Upto(j) # {}
    BY <1>2
  <2> HIDE DEF Upto
  <2> QED BY <1>1, <2>1, FS_Subset, FS_CardinalityType, FS_EmptySet
<1>3. ASSUME NEW i \in P, NEW j \in P, i < j
      PROVE  Cardinality(Upto(i)) < Cardinality(Upto(j))
  <2>1. Upto(i) \in SUBSET (Upto(j) \ {j})
    <3>1. P \subseteq Int /\ i \in Int /\ j \in Int
      OBVIOUS
    <3>2. \A x \in P : x <= i => x <= j /\ x # j
      BY <1>3, <3>1
    <3> QED BY <3>2
  <2>2. j \in Upto(j)
    OBVIOUS
  <2>3. IsFiniteSet(Upto(j)) /\ Cardinality(Upto(j)) \in Nat
    BY <1>2, FS_CardinalityType
  <2> HIDE DEF Upto
  <2>4. IsFiniteSet(Upto(j) \ {j}) /\ Cardinality(Upto(j) \ {j}) = Cardinality(Upto(j)) - 1
    BY <2>2, <2>3, FS_RemoveElement
  <2>5. Cardinality(Upto(i)) <= Cardinality(Upto(j) \ {j})
    BY <2>1, <2>4, FS_Subset
  <2>6. Cardinality(Upto(i)) \in Nat
    BY <1>2, FS_CardinalityType
  <2> QED BY <2>3, <2>4, <2>5, <2>6
<1>4. rank \in [P -> 1..Cardinality(P)]
  BY <1>2
<1>5. \A i, j \in P : rank[i] = rank[j] => i = j
  <2> SUFFICES ASSUME NEW i \in P, NEW j \in P, i # j PROVE rank[i] # rank[j]
    OBVIOUS
  <2>1. i < j \/ j < i
    OBVIOUS
  <2>2. Cardinality(Upto(i)) \in Nat /\ Cardinality(Upto(j)) \in Nat
    BY <1>2, FS_CardinalityType
  <2> HIDE DEF Upto
  <2> QED BY <1>3, <2>1, <2>2
<1>6. rank \in Injection(P, 1..Cardinality(P))
  <2> HIDE DEF rank
  <2> QED BY <1>4, <1>5, Fun_IsInj
<1>7. IsFiniteSet(1..Cardinality(P)) /\ Cardinality(1..Cardinality(P)) = Cardinality(P)
  BY <1>1, IntervalCardinality
<1>8. rank \in Surjection(P, 1..Cardinality(P))
  <2> HIDE DEF rank
  <2> QED BY <1>6, <1>7, FS_Injection
<1>9. PICK j \in P : rank[j] = n
  <2> HIDE DEF rank
  <2>1. \A k \in 1..Cardinality(P) : \E j \in P : rank[j] = k
    BY <1>8, Fun_SurjectionProperties
  <2> QED BY <2>1
<1>10. Cardinality({i \in P : i <= j}) = n
  BY <1>9
<1> QED BY <1>10 DEF Position

(* A selection is a sequence of elements of the one it is made from, and no  *)
(* longer.                                                                   *)
LEMMA SelectedType ==
  ASSUME NEW S, NEW s \in Seq(S), NEW P, P \subseteq DOMAIN s
  PROVE  /\ Selected(s, P) \in Seq(S)
         /\ Len(Selected(s, P)) = Cardinality(P)
         /\ Len(Selected(s, P)) <= Len(s)
         /\ \A n \in 1..Cardinality(P) : Position(P, n) \in P /\ Selected(s, P)[n] = s[Position(P, n)]
<1>1. Len(s) \in Nat /\ DOMAIN s = 1..Len(s)
  OBVIOUS
<1>2. Cardinality(P) \in Nat /\ Cardinality(P) <= Len(s)
  <2>1. IsFiniteSet(1..Len(s)) /\ Cardinality(1..Len(s)) = Len(s)
    BY <1>1, IntervalCardinality
  <2> QED BY <1>1, <2>1, FS_Subset, FS_CardinalityType
<1>3. \A n \in 1..Cardinality(P) : Position(P, n) \in P
  BY <1>1, RanksAreReached
<1>4. \A n \in 1..Cardinality(P) : s[Position(P, n)] \in S
  BY <1>1, <1>3
<1> HIDE DEF Position
<1>5. Selected(s, P) \in [1..Cardinality(P) -> S]
  BY <1>4 DEF Selected
<1>6. Selected(s, P) \in Seq(S) /\ Len(Selected(s, P)) = Cardinality(P)
  <2> DEFINE f == Selected(s, P)
  <2>1. f \in [1..Cardinality(P) -> S] BY <1>5
  <2> HIDE DEF f
  <2>2. f \in Seq(S) /\ Len(f) = Cardinality(P) BY <1>2, <2>1
  <2> QED BY <2>2 DEF f
<1> QED BY <1>2, <1>3, <1>6 DEF Selected

(* The positions are taken in their order, each of them once.                *)
LEMMA PositionsInOrder ==
  ASSUME NEW m \in Nat, NEW P, P \subseteq 1..m
  PROVE  /\ \A a, b \in 1..Cardinality(P) : a < b <=> Position(P, a) < Position(P, b)
         /\ \A i \in P : \E n \in 1..Cardinality(P) : Position(P, n) = i
<1> DEFINE Upto(j) == {i \in P : i <= j}
<1>1. IsFiniteSet(P) /\ Cardinality(P) \in Nat
  BY IntervalCardinality, FS_Subset, FS_CardinalityType
<1>2. \A n \in 1..Cardinality(P) : Position(P, n) \in P /\ Cardinality(Upto(Position(P, n))) = n
  BY RanksAreReached
<1>3. ASSUME NEW j \in P
      PROVE  IsFiniteSet(Upto(j)) /\ Cardinality(Upto(j)) \in 1..Cardinality(P)
  <2>1. Upto(j) \in SUBSET P /\ Upto(j) # {}
    OBVIOUS
  <2> HIDE DEF Upto
  <2> QED BY <1>1, <2>1, FS_Subset, FS_CardinalityType, FS_EmptySet
<1>4. ASSUME NEW i \in P, NEW j \in P, i <= j
      PROVE  Cardinality(Upto(i)) <= Cardinality(Upto(j))
  <2>1. Upto(i) \in SUBSET Upto(j)
    <3>1. P \subseteq Int /\ i \in Int /\ j \in Int
      OBVIOUS
    <3>2. \A x \in P : x <= i => x <= j
      BY <1>4, <3>1
    <3> QED BY <3>2
  <2> HIDE DEF Upto
  <2> QED BY <1>3, <2>1, FS_Subset
<1>5. ASSUME NEW i \in P, NEW j \in P, i < j
      PROVE  Cardinality(Upto(i)) # Cardinality(Upto(j))
  <2>1. Upto(i) \in SUBSET (Upto(j) \ {j}) /\ j \in Upto(j)
    <3>1. P \subseteq Int /\ i \in Int /\ j \in Int
      OBVIOUS
    <3>2. \A x \in P : x <= i => x <= j /\ x # j
      BY <1>5, <3>1
    <3>3. j <= j
      BY <3>1
    <3> QED BY <3>2, <3>3
  <2>2. IsFiniteSet(Upto(j)) /\ Cardinality(Upto(j)) \in Nat /\ Cardinality(Upto(i)) \in Nat
    BY <1>3, FS_CardinalityType
  <2> HIDE DEF Upto
  <2>3. IsFiniteSet(Upto(j) \ {j}) /\ Cardinality(Upto(j) \ {j}) = Cardinality(Upto(j)) - 1
    BY <2>1, <2>2, FS_RemoveElement
  <2>4. Cardinality(Upto(i)) <= Cardinality(Upto(j) \ {j})
    BY <2>1, <2>3, FS_Subset
  <2> QED BY <2>2, <2>3, <2>4
<1> HIDE DEF Upto, Position
<1>6. P \subseteq Int
  OBVIOUS
<1>7. ASSUME NEW a \in 1..Cardinality(P), NEW b \in 1..Cardinality(P)
      PROVE  a < b <=> Position(P, a) < Position(P, b)
  <2> DEFINE p == Position(P, a)
             q == Position(P, b)
  <2>1. p \in P /\ q \in P /\ Cardinality(Upto(p)) = a /\ Cardinality(Upto(q)) = b
    BY <1>2
  <2>2. p \in Int /\ q \in Int
    BY <1>6, <2>1
  <2> HIDE DEF p, q
  <2>3. q <= p => b <= a
    BY <1>4, <2>1
  <2>4. p < q => a <= b /\ a # b
    BY <1>4, <1>5, <2>1, <2>2
  <2>5. p < q \/ q <= p
    BY <2>2
  <2>6. p < q <=> ~(q <= p)
    BY <2>2
  <2>7. a \in Int /\ b \in Int
    BY <1>1
  <2>8. a < b <=> p < q
    BY <2>3, <2>4, <2>5, <2>6, <2>7
  <2> QED BY <2>8 DEF p, q
<1>8. ASSUME NEW i \in P PROVE \E n \in 1..Cardinality(P) : Position(P, n) = i
  <2> DEFINE n == Cardinality(Upto(i))
  <2>1. n \in 1..Cardinality(P)
    BY <1>3
  <2>2. Position(P, n) \in P /\ Cardinality(Upto(Position(P, n))) = n
    BY <1>2, <2>1
  <2>3. ~(Position(P, n) < i) /\ ~(i < Position(P, n))
    BY <1>5, <2>2
  <2> DEFINE p == Position(P, n)
  <2>4. p \in Int /\ i \in Int /\ ~(p < i) /\ ~(i < p)
    BY <1>6, <2>2, <2>3
  <2> HIDE DEF p
  <2>5. p = i
    BY <2>4
  <2> QED BY <2>1, <2>5 DEF p
<1> QED BY <1>7, <1>8

(* A selection has the elements at the positions kept and no others, and     *)
(* repeats none if the sequence does not.                                    *)
LEMMA SelectedElements ==
  ASSUME NEW S, NEW s \in Seq(S), NEW P, P \subseteq DOMAIN s
  PROVE  /\ \A n \in DOMAIN Selected(s, P) : \E i \in P : Selected(s, P)[n] = s[i]
         /\ \A i \in P : \E n \in DOMAIN Selected(s, P) : Selected(s, P)[n] = s[i]
         /\ (\A i, j \in DOMAIN s : s[i] = s[j] => i = j)
              => \A a, b \in DOMAIN Selected(s, P) : Selected(s, P)[a] = Selected(s, P)[b] => a = b
<1>1. Len(s) \in Nat /\ DOMAIN s = 1..Len(s)
  OBVIOUS
<1>2. /\ DOMAIN Selected(s, P) = 1..Cardinality(P)
      /\ \A n \in 1..Cardinality(P) : Position(P, n) \in P /\ Selected(s, P)[n] = s[Position(P, n)]
  BY SelectedType DEF Selected
<1>3. /\ \A i \in P : \E n \in 1..Cardinality(P) : Position(P, n) = i
      /\ \A a, b \in 1..Cardinality(P) : a < b <=> Position(P, a) < Position(P, b)
  BY <1>1, PositionsInOrder
<1>4. ASSUME NEW a \in 1..Cardinality(P), NEW b \in 1..Cardinality(P), Position(P, a) = Position(P, b)
      PROVE  a = b
  <2>1. Position(P, a) \in Int
    BY <1>1, <1>2
  <2>2. ~(Position(P, a) < Position(P, b)) /\ ~(Position(P, b) < Position(P, a))
    BY <1>4, <2>1
  <2>3. ~(a < b) /\ ~(b < a)
    BY <1>3, <2>2
  <2> QED BY <2>3
<1> QED BY <1>1, <1>2, <1>3, <1>4

(* A set of naturals that is bounded and not empty has a least and a         *)
(* greatest element.                                                         *)
LEMMA BoundsAreReached ==
  ASSUME NEW m \in Nat, NEW P, P \subseteq 1..m, P # {}
  PROVE  /\ \E x \in P : \A y \in P : x <= y
         /\ \E x \in P : \A y \in P : y <= x
<1> DEFINE c == Cardinality(P)
           last == Position(P, c)
           first == Position(P, 1)
<1>1. IsFiniteSet(P) /\ c \in Nat /\ c # 0
  BY IntervalCardinality, FS_Subset, FS_CardinalityType, FS_EmptySet
<1>2. c \in 1..c /\ 1 \in 1..c
  BY <1>1
<1>3. last \in P /\ Cardinality({i \in P : i <= last}) = c
  BY <1>2, RanksAreReached
<1>4. first \in P /\ Cardinality({i \in P : i <= first}) = 1
  BY <1>2, RanksAreReached
<1> HIDE DEF first, last
<1>5. {i \in P : i <= last} = P
  BY <1>1, <1>3, FS_Subset
<1>6. ASSUME NEW y \in P, ~(first <= y)
      PROVE  FALSE
  <2>1. IsFiniteSet({i \in P : i <= first}) /\ {first, y} \subseteq {i \in P : i <= first} /\ first # y
    BY <1>1, <1>4, <1>6, FS_Subset
  <2>2. IsFiniteSet({first, y}) /\ Cardinality({first, y}) <= 1
    BY <2>1, <1>4, FS_Subset
  <2>3. IsFiniteSet({y}) /\ Cardinality({y}) = 1 /\ first \notin {y}
    BY <2>1, FS_Singleton
  <2>4. Cardinality({y} \cup {first}) = 2
    BY <2>3, FS_AddElement
  <2>5. {y} \cup {first} = {first, y}
    OBVIOUS
  <2> QED BY <2>2, <2>4, <2>5
<1>7. \A y \in P : y \in Nat
  OBVIOUS
<1> QED BY <1>3, <1>4, <1>5, <1>6, <1>7

(* In a finite order every rank is the rank of some element.                 *)
LEMMA OrdersHaveRanks ==
  ASSUME NEW P, IsFiniteSet(P), NEW upto \in [P -> SUBSET P],
         \A i \in P : i \in upto[i],
         \A i, j \in P : i \in upto[j] \/ j \in upto[i],
         \A i, j \in P : i \in upto[j] /\ j \in upto[i] => i = j,
         \A i, j \in P : i \in upto[j] => upto[i] \subseteq upto[j]
  PROVE  /\ Cardinality(P) \in Nat
         /\ \A j \in P : Cardinality(upto[j]) \in 1..Cardinality(P)
         /\ \A i, j \in P : Cardinality(upto[i]) = Cardinality(upto[j]) => i = j
         /\ \A n \in 1..Cardinality(P) : \E j \in P : Cardinality(upto[j]) = n
<1> DEFINE rank == [j \in P |-> Cardinality(upto[j])]
<1>1. Cardinality(P) \in Nat
  BY FS_CardinalityType
<1>2. ASSUME NEW j \in P
      PROVE  IsFiniteSet(upto[j]) /\ Cardinality(upto[j]) \in 1..Cardinality(P)
  <2>1. upto[j] \in SUBSET P /\ j \in upto[j]
    OBVIOUS
  <2> QED BY <1>1, <2>1, FS_Subset, FS_CardinalityType, FS_EmptySet
<1>3. ASSUME NEW i \in P, NEW j \in P, i \in upto[j], i # j
      PROVE  Cardinality(upto[i]) < Cardinality(upto[j])
  <2>1. upto[i] \in SUBSET (upto[j] \ {j}) /\ j \in upto[j]
    BY <1>3
  <2>2. IsFiniteSet(upto[j]) /\ Cardinality(upto[j]) \in Nat /\ Cardinality(upto[i]) \in Nat
    BY <1>2, FS_CardinalityType
  <2>3. IsFiniteSet(upto[j] \ {j}) /\ Cardinality(upto[j] \ {j}) = Cardinality(upto[j]) - 1
    BY <2>1, <2>2, FS_RemoveElement
  <2>4. Cardinality(upto[i]) <= Cardinality(upto[j] \ {j})
    BY <2>1, <2>3, FS_Subset
  <2> QED BY <2>2, <2>3, <2>4
<1>4. rank \in [P -> 1..Cardinality(P)]
  BY <1>2
<1>5. \A i, j \in P : rank[i] = rank[j] => i = j
  <2> SUFFICES ASSUME NEW i \in P, NEW j \in P, i # j PROVE rank[i] # rank[j]
    OBVIOUS
  <2>1. i \in upto[j] \/ j \in upto[i]
    OBVIOUS
  <2>2. Cardinality(upto[i]) \in Nat /\ Cardinality(upto[j]) \in Nat
    BY <1>2, FS_CardinalityType
  <2> QED BY <1>3, <2>1, <2>2
<1>6. rank \in Injection(P, 1..Cardinality(P))
  <2> HIDE DEF rank
  <2> QED BY <1>4, <1>5, Fun_IsInj
<1>7. IsFiniteSet(1..Cardinality(P)) /\ Cardinality(1..Cardinality(P)) = Cardinality(P)
  BY <1>1, IntervalCardinality
<1>8. rank \in Surjection(P, 1..Cardinality(P))
  <2> HIDE DEF rank
  <2> QED BY <1>6, <1>7, FS_Injection
<1>9. \A n \in 1..Cardinality(P) : \E j \in P : rank[j] = n
  <2> DEFINE T == 1..Cardinality(P)
  <2> HIDE DEF rank, T
  <2>1. rank \in Surjection(P, T)
    BY <1>8 DEF T
  <2>2. \A n \in T : \E j \in P : rank[j] = n
    BY <2>1, Fun_SurjectionProperties
  <2> QED BY <2>2 DEF T
<1> QED BY <1>1, <1>2, <1>5, <1>9

(* A sort has the elements of what is sorted, and begins with one of least   *)
(* key.                                                                      *)
LEMMA SortedElements ==
  ASSUME NEW S, NEW s \in Seq(S), NEW key \in [DOMAIN s -> Int]
  PROVE  /\ Sorted(s, key) \in Seq(S) /\ Len(Sorted(s, key)) = Len(s)
         /\ \A n \in DOMAIN s : \E i \in DOMAIN s : Sorted(s, key)[n] = s[i]
         /\ \A i \in DOMAIN s : \E n \in DOMAIN s : Sorted(s, key)[n] = s[i]
         /\ s # <<>> => \E j \in DOMAIN s : Sorted(s, key)[1] = s[j] /\ \A i \in DOMAIN s : key[j] <= key[i]
<1> DEFINE D == DOMAIN s
           Up(j) == {i \in D : NotAfter(key, i, j)}
           upto == [j \in D |-> Up(j)]
           at(n) == CHOOSE j \in D : Cardinality({i \in D : NotAfter(key, i, j)}) = n
<1>1. Len(s) \in Nat /\ D = 1..Len(s)
  OBVIOUS
<1>2. IsFiniteSet(D) /\ Cardinality(D) = Len(s)
  BY <1>1, IntervalCardinality
<1>3. \A i, j \in D : i \in upto[j] <=> NotAfter(key, i, j)
  OBVIOUS
<1>4. \A i, j \in D : i \in Int /\ key[i] \in Int
  BY <1>1
<1>5. /\ \A i \in D : NotAfter(key, i, i)
      /\ \A i, j \in D : NotAfter(key, i, j) \/ NotAfter(key, j, i)
      /\ \A i, j \in D : NotAfter(key, i, j) /\ NotAfter(key, j, i) => i = j
      /\ \A i, j, k \in D : NotAfter(key, i, j) /\ NotAfter(key, j, k) => NotAfter(key, i, k)
  BY <1>4 DEF NotAfter
<1>6. upto \in [D -> SUBSET D] /\ \A j \in D : upto[j] = Up(j)
  OBVIOUS
<1> HIDE DEF D, Up, upto
<1>7. /\ \A i \in D : i \in upto[i]
      /\ \A i, j \in D : i \in upto[j] \/ j \in upto[i]
      /\ \A i, j \in D : i \in upto[j] /\ j \in upto[i] => i = j
      /\ \A i, j \in D : i \in upto[j] => upto[i] \subseteq upto[j]
  BY <1>3, <1>5, <1>6
<1>8. /\ \A j \in D : Cardinality(upto[j]) \in 1..Cardinality(D)
      /\ \A i, j \in D : Cardinality(upto[i]) = Cardinality(upto[j]) => i = j
      /\ \A n \in 1..Cardinality(D) : \E j \in D : Cardinality(upto[j]) = n
  BY ONLY <1>2, <1>6, <1>7, OrdersHaveRanks
<1>9. /\ \A j \in D : Cardinality(Up(j)) \in D
      /\ \A i, j \in D : Cardinality(Up(i)) = Cardinality(Up(j)) => i = j
      /\ \A n \in D : \E j \in D : Cardinality(Up(j)) = n
  BY <1>1, <1>2, <1>6, <1>8
<1>10. \A n \in D : at(n) \in D /\ Cardinality(Up(at(n))) = n
  BY <1>9 DEF Up
<1>11. Sorted(s, key) = [n \in D |-> s[at(n)]]
  BY DEF Sorted, D
<1> HIDE DEF at
<1>12. \A i \in D : at(Cardinality(Up(i))) = i
  BY <1>9, <1>10
<1>13. Sorted(s, key) \in [1..Len(s) -> S]
  BY <1>1, <1>10, <1>11
<1>14. Sorted(s, key) \in Seq(S) /\ Len(Sorted(s, key)) = Len(s)
  <2> DEFINE f == Sorted(s, key)
  <2>1. f \in [1..Len(s) -> S] BY <1>13
  <2> HIDE DEF f
  <2>2. f \in Seq(S) /\ Len(f) = Len(s) BY <1>1, <2>1
  <2> QED BY <2>2 DEF f
<1>15. \A n \in D : Sorted(s, key)[n] = s[at(n)]
  BY <1>11
<1>16. s # <<>> => \E j \in D : Sorted(s, key)[1] = s[j] /\ \A i \in D : key[j] <= key[i]
  <2> SUFFICES ASSUME s # <<>> PROVE \E j \in D : Sorted(s, key)[1] = s[j] /\ \A i \in D : key[j] <= key[i]
    OBVIOUS
  <2>1. 1 \in D
    BY <1>1
  <2>2. PICK j \in D : Sorted(s, key)[1] = s[j] /\ Cardinality(Up(j)) = 1
    BY <2>1, <1>10, <1>15
  <2>3. ASSUME NEW i \in D PROVE NotAfter(key, j, i)
    <3> SUFFICES ASSUME ~NotAfter(key, j, i) PROVE FALSE
      OBVIOUS
    <3>1. i \in Up(j) /\ j \in Up(j) /\ i # j
      BY <1>5 DEF Up
    <3>2. IsFiniteSet(Up(j))
      BY <1>2, FS_Subset DEF Up
    <3>3. IsFiniteSet(Up(j) \ {j}) /\ Cardinality(Up(j) \ {j}) = Cardinality(Up(j)) - 1
      BY <3>1, <3>2, FS_RemoveElement
    <3>4. Up(j) \ {j} = {}
      <4>1. Cardinality(Up(j) \ {j}) = 0
        BY <2>2, <3>3
      <4> QED BY <3>3, <4>1, FS_EmptySet
    <3> QED BY <3>1, <3>4
  <2>4. \A i \in D : key[j] <= key[i]
    BY <1>4, <2>3 DEF NotAfter
  <2> QED BY <2>2, <2>4
<1>17. \A i \in D : \E n \in D : Sorted(s, key)[n] = s[i]
  BY <1>9, <1>12, <1>15
<1>18. \A n \in D : \E i \in D : Sorted(s, key)[n] = s[i]
  BY <1>10, <1>15
<1> QED BY <1>14, <1>16, <1>17, <1>18 DEF D

(* A selection begins with the first element kept.                           *)
LEMMA FirstSelected ==
  ASSUME NEW S, NEW s \in Seq(S), NEW P, P \subseteq DOMAIN s, P # {}
  PROVE  \E i \in P : Selected(s, P)[1] = s[i] /\ \A j \in P : i <= j
<1>1. Len(s) \in Nat /\ DOMAIN s = 1..Len(s)
  OBVIOUS
<1>2. IsFiniteSet(P) /\ Cardinality(P) \in Nat /\ Cardinality(P) # 0
  BY <1>1, IntervalCardinality, FS_Subset, FS_CardinalityType, FS_EmptySet
<1>3. 1 \in 1..Cardinality(P)
  BY <1>2
<1>4. /\ \A n \in 1..Cardinality(P) : Position(P, n) \in P /\ Selected(s, P)[n] = s[Position(P, n)]
      /\ \A i \in P : \E n \in 1..Cardinality(P) : Position(P, n) = i
      /\ \A a, b \in 1..Cardinality(P) : a < b <=> Position(P, a) < Position(P, b)
  BY <1>1, SelectedType, PositionsInOrder
<1> HIDE DEF Position
<1>5. ASSUME NEW j \in P PROVE Position(P, 1) <= j
  <2>1. PICK n \in 1..Cardinality(P) : Position(P, n) = j
    BY <1>4
  <2>2. n = 1 \/ 1 < n
    BY <1>2
  <2>3. Position(P, 1) = j \/ Position(P, 1) < j
    BY <1>3, <1>4, <2>1, <2>2
  <2>4. Position(P, 1) \in Int /\ j \in Int
    BY <1>1, <1>3, <1>4
  <2> QED BY <2>3, <2>4
<1> QED BY <1>3, <1>4, <1>5

(* Numbers that belong to positions have a greatest and a least.             *)
LEMMA ExtremesAreReached ==
  ASSUME NEW n \in Nat, NEW P, P \subseteq 1..n, P # {}, NEW g \in [P -> Int]
  PROVE  /\ \E i \in P : \A j \in P : g[j] <= g[i]
         /\ \E i \in P : \A j \in P : g[i] <= g[j]
<1> DEFINE C == Cardinality(P)
           s == [k \in 1..C |-> g[Position(P, k)]]
           up == [k \in 1..C |-> s[k]]
           down == [k \in 1..C |-> 0 - s[k]]
<1>1. /\ IsFiniteSet(P) /\ C \in Nat /\ C # 0
  <2>1. IsFiniteSet(1..n)
    BY IntervalCardinality
  <2>2. IsFiniteSet(P)
    BY <2>1, FS_Subset
  <2> QED BY <2>2, FS_CardinalityType, FS_EmptySet
<1>2. \A k \in 1..C : Position(P, k) \in P
  BY RanksAreReached
<1>3. \A i \in P : \E k \in 1..C : Position(P, k) = i
  BY PositionsInOrder
<1> HIDE DEF C
<1>4. s \in [1..C -> Int] /\ up \in [1..C -> Int] /\ down \in [1..C -> Int]
  <2>1. \A k \in 1..C : g[Position(P, k)] \in Int
    BY <1>2
  <2>2. s \in [1..C -> Int]
    BY <2>1
  <2>3. \A k \in 1..C : s[k] \in Int
    BY <2>2
  <2> HIDE DEF s
  <2> QED BY <2>2, <2>3
<1>5. s \in Seq(Int) /\ Len(s) = C /\ DOMAIN s = 1..C
  BY <1>1, <1>4
<1>6. s # <<>>
  BY <1>1, <1>5
<1>7. /\ \E k \in 1..C : \A l \in 1..C : up[k] <= up[l]
      /\ \E k \in 1..C : \A l \in 1..C : down[k] <= down[l]
  <2>1. up \in [DOMAIN s -> Int] /\ down \in [DOMAIN s -> Int]
    BY <1>4, <1>5
  <2> HIDE DEF s, up, down
  <2>2. /\ \E k \in DOMAIN s : \A l \in DOMAIN s : up[k] <= up[l]
        /\ \E k \in DOMAIN s : \A l \in DOMAIN s : down[k] <= down[l]
    BY <1>5, <1>6, <2>1, SortedElements
  <2> QED BY <1>5, <2>2
<1>8. \E k \in 1..C : \A l \in 1..C : s[l] <= s[k]
  <2>1. PICK k \in 1..C : \A l \in 1..C : down[k] <= down[l]
    BY <1>7
  <2>2. ASSUME NEW l \in 1..C
        PROVE  s[l] <= s[k]
    <3>1. down[k] = 0 - s[k] /\ down[l] = 0 - s[l] /\ down[k] <= down[l] /\ s[k] \in Int /\ s[l] \in Int
      BY <1>4, <2>1
    <3> HIDE DEF s, down
    <3> QED BY <3>1
  <2> QED BY <2>2
<1>9. \E k \in 1..C : \A l \in 1..C : s[k] <= s[l]
  BY <1>7
<1>10. \A k \in 1..C : s[k] = g[Position(P, k)]
  OBVIOUS
<1> HIDE DEF s
<1>11. \E i \in P : \A j \in P : g[j] <= g[i]
  <2>1. PICK k \in 1..C : \A l \in 1..C : s[l] <= s[k]
    BY <1>8
  <2>2. \A j \in P : g[j] <= g[Position(P, k)]
    BY <1>3, <1>10, <2>1
  <2> QED BY <1>2, <2>2
<1>12. \E i \in P : \A j \in P : g[i] <= g[j]
  <2>1. PICK k \in 1..C : \A l \in 1..C : s[k] <= s[l]
    BY <1>9
  <2>2. \A j \in P : g[Position(P, k)] <= g[j]
    BY <1>3, <1>10, <2>1
  <2> QED BY <1>2, <2>2
<1> QED BY <1>11, <1>12

(* All of a sequence is the sequence.                                        *)
LEMMA AllSelected ==
  ASSUME NEW S, NEW s \in Seq(S)
  PROVE  Selected(s, DOMAIN s) = s
<1> DEFINE m == Len(s)
<1>1. m \in Nat /\ DOMAIN s = 1..m /\ s \in [1..m -> S]
  OBVIOUS
<1>2. Cardinality(1..m) = m
  BY <1>1, IntervalCardinality
<1>3. ASSUME NEW n \in 1..m PROVE Position(1..m, n) = n
  <2>1. Position(1..m, n) \in 1..m /\ Cardinality({i \in 1..m : i <= Position(1..m, n)}) = n
    BY <1>1, <1>2, RanksAreReached
  <2>2. PICK p \in 1..m : p = Position(1..m, n)
    BY <2>1
  <2>3. {i \in 1..m : i <= p} = 1..p /\ p \in Nat
    BY <1>1
  <2>4. Cardinality({i \in 1..m : i <= p}) = p
    BY <2>3, IntervalCardinality
  <2> QED BY <2>1, <2>2, <2>4
<1>4. Selected(s, DOMAIN s) = [n \in 1..m |-> s[n]]
  BY <1>1, <1>2, <1>3 DEF Selected
<1> QED BY <1>1, <1>4

(* Of what is kept, as much has a property as of what it was chosen from.    *)
LEMMA SelectedCount ==
  ASSUME NEW S, NEW s \in Seq(S), NEW P, P \subseteq DOMAIN s, NEW Q, Q \subseteq P
  PROVE  Cardinality({n \in 1..Cardinality(P) : Position(P, n) \in Q}) = Cardinality(Q)
<1> DEFINE N == {n \in 1..Cardinality(P) : Position(P, n) \in Q}
           f == [n \in N |-> Position(P, n)]
<1>1. Len(s) \in Nat /\ DOMAIN s = 1..Len(s) /\ P \subseteq 1..Len(s)
  OBVIOUS
<1>2. IsFiniteSet(P) /\ Cardinality(P) \in Nat
  BY <1>1, IntervalCardinality, FS_Subset, FS_CardinalityType
<1>3. /\ \A a, b \in 1..Cardinality(P) : a < b <=> Position(P, a) < Position(P, b)
      /\ \A i \in P : \E n \in 1..Cardinality(P) : Position(P, n) = i
  BY <1>1, PositionsInOrder
<1>4. IsFiniteSet(N)
  BY <1>2, IntervalCardinality, FS_Subset
<1>5. f \in [N -> Q]
  OBVIOUS
<1>6. \A t \in Q : \E n \in N : f[n] = t
  BY <1>3
<1>7. \A a, b \in N : f[a] = f[b] => a = b
  <2> SUFFICES ASSUME NEW a \in N, NEW b \in N, f[a] = f[b] PROVE a = b
    OBVIOUS
  <2>1. Position(P, a) = Position(P, b) /\ Position(P, a) \in Int
    BY <1>1
  <2>2. ~(a < b) /\ ~(b < a)
    BY <1>3, <2>1
  <2> QED BY <1>2, <2>2
<1>8. f \in Surjection(N, Q) /\ f \in Injection(N, Q)
  BY <1>5, <1>6, <1>7, Zenon DEF Surjection, Injection, IsInjective
<1> QED BY <1>4, <1>8, FS_Surjection
=============================================================================
