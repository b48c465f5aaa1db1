------------------------------ MODULE DataLemmas ------------------------------
(***************************************************************************)
(* Facts about the data of the models: the quotients and remainders that   *)
(* planned send times and hour keys rest on, and the lists of Lists.tla,   *)
(* sorted by rank.                                                         *)
(***************************************************************************)
EXTENDS Lists, FiniteSetTheorems, SequenceTheorems, TLAPS

-------------------------------------------------------------------------------
(* Quotients and remainders *)

\* Division leaves a quotient and a remainder.
LEMMA QuotientRemainder ==
    ASSUME NEW n \in Nat, NEW b \in Nat \ {0}
    PROVE  /\ n \div b \in Nat
           /\ n % b \in 0 .. b - 1
           /\ n = b * (n \div b) + (n % b)
<1>1. n \div b \in Nat
  OBVIOUS
<1>2. n % b \in 0 .. b - 1
  OBVIOUS
<1>3. n = b * (n \div b) + (n % b)
  OBVIOUS
<1> QED BY <1>1, <1>2, <1>3

\* No other pair is a quotient and a remainder.
LEMMA DivisionIsUnique ==
    ASSUME NEW n \in Nat, NEW b \in Nat \ {0},
           NEW q \in Int, NEW r \in 0 .. b - 1,
           n = b * q + r
    PROVE  n \div b = q /\ n % b = r
<1> DEFINE q2 == n \div b
           r2 == n % b
<1>1. q2 \in Nat /\ r2 \in 0 .. b - 1 /\ n = b * q2 + r2
  BY QuotientRemainder
<1> HIDE DEF q2, r2
<1>2. q2 = q /\ r2 = r
  BY <1>1
<1> QED BY <1>2 DEF q2, r2

\* The window and position of the next email.
LEMMA NextPosition ==
    ASSUME NEW n \in Nat, NEW b \in Nat \ {0}
    PROVE  IF (n % b) + 1 < b
           THEN (n + 1) \div b = n \div b /\ (n + 1) % b = (n % b) + 1
           ELSE (n + 1) \div b = (n \div b) + 1 /\ (n + 1) % b = 0
<1> DEFINE q == n \div b
           r == n % b
<1>1. q \in Nat /\ r \in 0 .. b - 1 /\ n = b * q + r
  BY QuotientRemainder
<1> HIDE DEF q, r
<1>2. CASE r + 1 < b
  <2>1. r + 1 \in 0 .. b - 1 /\ n + 1 = b * q + (r + 1)
    BY <1>1, <1>2
  <2>2. (n + 1) \div b = q /\ (n + 1) % b = r + 1
    BY <1>1, <2>1, n + 1 \in Nat, DivisionIsUnique
  <2> QED BY <1>2, <2>2 DEF q, r
<1>3. CASE ~(r + 1 < b)
  <2>1. r + 1 = b
    BY <1>1, <1>3
  <2>2. b * (q + 1) = b * q + b
    BY <1>1
  <2>3. n + 1 = b * (q + 1) + 0 /\ 0 \in 0 .. b - 1 /\ q + 1 \in Int
    BY <1>1, <2>1, <2>2
  <2>4. (n + 1) \div b = q + 1 /\ (n + 1) % b = 0
    BY <2>3, n + 1 \in Nat, DivisionIsUnique
  <2> QED BY <1>3, <2>4 DEF q, r
<1> QED BY <1>2, <1>3

\* The window and position of the email one limit later.
LEMMA SamePositionLater ==
    ASSUME NEW n \in Nat, NEW b \in Nat \ {0}
    PROVE  (n + b) \div b = (n \div b) + 1 /\ (n + b) % b = n % b
<1> DEFINE q == n \div b
           r == n % b
<1>1. q \in Nat /\ r \in 0 .. b - 1 /\ n = b * q + r
  BY QuotientRemainder
<1> HIDE DEF q, r
<1>2. b * (q + 1) = b * q + b
  BY <1>1
<1>3. n + b = b * (q + 1) + r /\ q + 1 \in Int
  BY <1>1, <1>2
<1>4. (n + b) \div b = q + 1 /\ (n + b) % b = r
  BY <1>1, <1>3, n + b \in Nat, DivisionIsUnique
<1> QED BY <1>4 DEF q, r

\* Multiplying by a natural number keeps an order.
LEMMA ProductMonotone ==
    ASSUME NEW k \in Nat, NEW x \in Int, NEW y \in Int, x <= y
    PROVE  k * x <= k * y
OBVIOUS

\* A later time is in the same or in a later interval.
LEMMA QuotientMonotone ==
    ASSUME NEW m \in Nat, NEW n \in Nat, m <= n, NEW b \in Nat \ {0}
    PROVE  m \div b <= n \div b
<1> DEFINE q == m \div b
           r == m % b
           q2 == n \div b
           r2 == n % b
<1>1. q \in Nat /\ r \in 0 .. b - 1 /\ m = b * q + r
  BY QuotientRemainder
<1>2. q2 \in Nat /\ r2 \in 0 .. b - 1 /\ n = b * q2 + r2
  BY QuotientRemainder
<1> HIDE DEF q, r, q2, r2
<1>3. q <= q2
  <2> SUFFICES ASSUME q2 + 1 <= q PROVE FALSE
    BY <1>1, <1>2
  <2>1. b * (q2 + 1) <= b * q
    BY <1>1, <1>2, ProductMonotone
  <2>2. b * (q2 + 1) = b * q2 + b /\ b * q2 \in Nat /\ b * q \in Nat
    BY <1>1, <1>2
  <2> QED BY <1>1, <1>2, <2>1, <2>2
<1> QED BY <1>3 DEF q, q2

-------------------------------------------------------------------------------
(* Lists *)

\* A function on 1 .. n is a list of length n.
LEMMA FunctionIsList ==
    ASSUME NEW S, NEW n \in Nat, NEW f \in [1 .. n -> S]
    PROVE  f \in Seq(S) /\ Len(f) = n /\ DOMAIN f = 1 .. n
<1>1. f \in Seq(S)
  BY SeqDef
<1> QED BY <1>1, LenProperties

-------------------------------------------------------------------------------
(* Sorted lists *)

\* A strict total order, given by what comes before each element.
IsOrder(S, before) ==
    /\ before \in [S -> SUBSET S]
    /\ \A x \in S : x \notin before[x]
    /\ \A x, y \in S : x # y => x \in before[y] \/ y \in before[x]
    /\ \A x, y \in S : x \in before[y] => before[x] \subseteq before[y]

\* A list of elements by the number of those before them.
IsByRank(sorted, S, before) ==
    /\ sorted \in [1 .. Cardinality(S) -> S]
    /\ \A i \in 1 .. Cardinality(S) : Cardinality(before[sorted[i]]) = i - 1

\* The elements of a finite set have the ranks 0 .. n - 1 in a strict total
\* order, given by what comes before each of them.
LEMMA RanksFill ==
    ASSUME NEW S, IsFiniteSet(S), NEW before, IsOrder(S, before)
    PROVE  /\ Cardinality(S) \in Nat
           /\ \A x \in S : Cardinality(before[x]) \in 0 .. Cardinality(S) - 1
           /\ \A x, y \in S :
                 x \in before[y] => Cardinality(before[x]) < Cardinality(before[y])
           /\ \A i \in 1 .. Cardinality(S) :
                 \E x \in S : Cardinality(before[x]) = i - 1
<1> DEFINE n == Cardinality(S)
           rank == [x \in S |-> Cardinality(before[x]) + 1]
<1>0. /\ before \in [S -> SUBSET S]
      /\ \A x \in S : x \notin before[x]
      /\ \A x, y \in S : x # y => x \in before[y] \/ y \in before[x]
      /\ \A x, y \in S : x \in before[y] => before[x] \subseteq before[y]
  BY DEF IsOrder
<1>1. n \in Nat
  BY FS_CardinalityType
<1>2. ASSUME NEW x \in S
      PROVE  IsFiniteSet(before[x]) /\ Cardinality(before[x]) \in 0 .. n - 1
  <2>1. before[x] \in SUBSET S /\ before[x] # S
    BY <1>0
  <2>2. IsFiniteSet(before[x]) /\ Cardinality(before[x]) <= n
        /\ Cardinality(before[x]) # n
    BY <2>1, FS_Subset
  <2>3. Cardinality(before[x]) \in Nat
    BY <2>2, FS_CardinalityType
  <2> QED BY <1>1, <2>2, <2>3
<1>3. ASSUME NEW x \in S, NEW y \in S, x \in before[y]
      PROVE  Cardinality(before[x]) < Cardinality(before[y])
  <2>1. before[x] \in SUBSET before[y] /\ before[x] # before[y]
    BY <1>0, <1>3
  <2>2. IsFiniteSet(before[y])
    BY <1>2
  <2>3. Cardinality(before[x]) <= Cardinality(before[y])
        /\ Cardinality(before[x]) # Cardinality(before[y])
    BY <2>1, <2>2, FS_Subset
  <2> QED BY <1>2, <2>3
<1>4. rank \in [S -> 1 .. n]
  BY <1>1, <1>2
<1>5. ASSUME NEW x \in S, NEW y \in S, x # y PROVE rank[x] # rank[y]
  <2>1. rank[x] < rank[y] \/ rank[y] < rank[x]
    BY <1>0, <1>2, <1>3, <1>5
  <2>2. rank[x] \in Nat /\ rank[y] \in Nat
    BY <1>4
  <2> QED BY <2>1, <2>2
<1>6. rank \in Injection(S, 1 .. n)
  BY <1>4, <1>5 DEF Injection, IsInjective
<1>7. IsFiniteSet(1 .. n) /\ Cardinality(1 .. n) = n
  BY <1>1, FS_Interval
<1>8. rank \in Surjection(S, 1 .. n)
  BY <1>6, <1>7, FS_Injection
<1>9. \A i \in 1 .. n : \E x \in S : rank[x] = i
  BY <1>8 DEF Surjection
<1>10. \A i \in 1 .. n : \E x \in S : Cardinality(before[x]) = i - 1
  BY <1>1, <1>2, <1>9
<1> QED BY <1>1, <1>2, <1>3, <1>10

\* A list of the elements of a finite set by rank has them all, in order.
LEMMA RanksSort ==
    ASSUME NEW S, IsFiniteSet(S), NEW before, IsOrder(S, before),
           NEW sorted, IsByRank(sorted, S, before)
    PROVE  /\ \A i, j \in 1 .. Cardinality(S) :
                 i < j => sorted[i] \in before[sorted[j]]
           /\ \A x \in S : \E i \in 1 .. Cardinality(S) : sorted[i] = x
<1> DEFINE n == Cardinality(S)
<1>0. /\ before \in [S -> SUBSET S]
      /\ \A x \in S : x \notin before[x]
      /\ \A x, y \in S : x # y => x \in before[y] \/ y \in before[x]
      /\ \A x, y \in S : x \in before[y] => before[x] \subseteq before[y]
      /\ sorted \in [1 .. n -> S]
      /\ \A i \in 1 .. n : Cardinality(before[sorted[i]]) = i - 1
  BY DEF IsOrder, IsByRank
<1>1. /\ n \in Nat
      /\ \A x \in S : Cardinality(before[x]) \in 0 .. n - 1
      /\ \A x, y \in S :
            x \in before[y] => Cardinality(before[x]) < Cardinality(before[y])
  BY RanksFill
<1>2. ASSUME NEW x \in S, NEW y \in S, Cardinality(before[x]) = Cardinality(before[y])
      PROVE  x = y
  BY <1>0, <1>1, <1>2
<1>3. ASSUME NEW i \in 1 .. n, NEW j \in 1 .. n, i < j
      PROVE  sorted[i] \in before[sorted[j]]
  <2>1. Cardinality(before[sorted[i]]) < Cardinality(before[sorted[j]])
    BY <1>0, <1>1, <1>3
  <2>2. sorted[i] # sorted[j] /\ sorted[j] \notin before[sorted[i]]
    BY <1>0, <1>1, <2>1
  <2> QED BY <1>0, <2>2
<1>4. ASSUME NEW x \in S PROVE \E i \in 1 .. n : sorted[i] = x
  <2>1. Cardinality(before[x]) + 1 \in 1 .. n
    BY <1>1
  <2>2. Cardinality(before[sorted[Cardinality(before[x]) + 1]]) = Cardinality(before[x])
    BY <1>0, <1>1, <2>1
  <2> QED BY <1>0, <1>2, <2>1, <2>2
<1> QED BY <1>3, <1>4

\* The elements that come after one of a sorted list are listed by the rest of it.
LEMMA RanksOfTail ==
    ASSUME NEW S, IsFiniteSet(S), NEW before, IsOrder(S, before),
           NEW sorted, IsByRank(sorted, S, before),
           NEW i \in 1 .. Cardinality(S),
           NEW tail \in SUBSET S, \A x \in S : x \in tail <=> sorted[i] \in before[x]
    PROVE  /\ Cardinality(tail) = Cardinality(S) - i
           /\ \A k \in 1 .. Cardinality(S) - i :
                 /\ sorted[i + k] \in tail
                 /\ \A x \in tail : Cardinality(before[x] \cap tail) = k - 1
                                       <=> x = sorted[i + k]
<1> DEFINE n == Cardinality(S)
           head == before[sorted[i]] \cup { sorted[i] }
<1>0. /\ before \in [S -> SUBSET S]
      /\ \A x \in S : x \notin before[x]
      /\ \A x, y \in S : x # y => x \in before[y] \/ y \in before[x]
      /\ \A x, y \in S : x \in before[y] => before[x] \subseteq before[y]
      /\ sorted \in [1 .. n -> S]
      /\ \A k \in 1 .. n : Cardinality(before[sorted[k]]) = k - 1
  BY DEF IsOrder, IsByRank
<1>1. /\ n \in Nat
      /\ \A x \in S : Cardinality(before[x]) \in 0 .. n - 1
      /\ \A x, y \in S :
            x \in before[y] => Cardinality(before[x]) < Cardinality(before[y])
  BY RanksFill
<1>2. \A j, k \in 1 .. n : j < k => sorted[j] \in before[sorted[k]]
  BY RanksSort
<1>3. head \in SUBSET S /\ tail = S \ head
  <2>1. ASSUME NEW x \in S
        PROVE  sorted[i] \in before[x] <=> x \notin head
    BY <1>0, <2>1
  <2> QED BY <1>0, <2>1
<1>4. IsFiniteSet(head) /\ Cardinality(head) = i
  <2> DEFINE first == before[sorted[i]]
  <2>1. first \in SUBSET S /\ Cardinality(first) = i - 1 /\ sorted[i] \notin first
    BY <1>0
  <2>2. head = first \cup { sorted[i] }
    OBVIOUS
  <2> HIDE DEF first, head
  <2>3. IsFiniteSet(first)
    BY <2>1, FS_Subset
  <2>4. /\ IsFiniteSet(first \cup { sorted[i] })
        /\ Cardinality(first \cup { sorted[i] }) = Cardinality(first) + 1
    BY <2>1, <2>3, FS_AddElement
  <2> QED BY <2>1, <2>2, <2>4
<1>5. Cardinality(tail) = n - i
  <2> HIDE DEF head
  <2>1. S \cap head = head
    BY <1>3
  <2>2. Cardinality(S \ head) = Cardinality(S) - Cardinality(S \cap head)
    BY FS_Difference
  <2> QED BY <1>3, <1>4, <2>1, <2>2
<1>6. ASSUME NEW x \in tail
      PROVE  Cardinality(before[x] \cap tail) = Cardinality(before[x]) - i
  <2>1. head \subseteq before[x]
    BY <1>0, <1>6
  <2>2. before[x] \cap tail = before[x] \ head /\ before[x] \cap head = head
    BY <1>0, <1>3, <2>1
  <2>3. IsFiniteSet(before[x])
    BY <1>0, <1>6, FS_Subset
  <2> HIDE DEF head
  <2>4. Cardinality(before[x] \ head)
           = Cardinality(before[x]) - Cardinality(before[x] \cap head)
    BY <2>3, FS_Difference
  <2> QED BY <1>4, <2>2, <2>4
<1>7. ASSUME NEW k \in 1 .. n - i
      PROVE  /\ sorted[i + k] \in tail
             /\ \A x \in tail : Cardinality(before[x] \cap tail) = k - 1
                                   <=> x = sorted[i + k]
  <2>1. i + k \in 1 .. n /\ i < i + k
    BY <1>1
  <2>2. sorted[i + k] \in tail
    BY <1>0, <1>2, <2>1
  <2>3. ASSUME NEW x \in tail
        PROVE  Cardinality(before[x]) = i + k - 1 <=> x = sorted[i + k]
    <3>1. Cardinality(before[sorted[i + k]]) = i + k - 1
      BY <1>0, <2>1
    <3>2. ASSUME x # sorted[i + k]
          PROVE  Cardinality(before[x]) # Cardinality(before[sorted[i + k]])
      <4>1. x \in S /\ sorted[i + k] \in S
        BY <1>0, <2>1
      <4>2. /\ Cardinality(before[x]) \in Int
            /\ Cardinality(before[sorted[i + k]]) \in Int
        BY <1>1, <4>1
      <4> QED BY <1>0, <1>1, <3>2, <4>1, <4>2
    <3> QED BY <3>1, <3>2
  <2>4. ASSUME NEW x \in tail
        PROVE  Cardinality(before[x] \cap tail) = k - 1 <=> x = sorted[i + k]
    <3> DEFINE rank == Cardinality(before[x])
               left == Cardinality(before[x] \cap tail)
    <3>1. rank \in Int /\ left = rank - i /\ (rank = i + k - 1 <=> x = sorted[i + k])
      BY <1>1, <1>6, <2>3
    <3> HIDE DEF rank, left
    <3>2. i \in Int /\ k \in Int
      BY <1>1
    <3>3. left = k - 1 <=> rank = i + k - 1
      BY ONLY <3>1, <3>2
    <3> QED BY <3>1, <3>3 DEF left
  <2> QED BY <2>2, <2>4
<1> QED BY <1>5, <1>7

\* Sorting a finite set of numbers.
LEMMA AscendingSorts ==
    ASSUME NEW S \in SUBSET Int, IsFiniteSet(S)
    PROVE  /\ Cardinality(S) \in Nat
           /\ Ascending(S) \in [1 .. Cardinality(S) -> S]
           /\ \A i, j \in 1 .. Cardinality(S) :
                 i < j => Ascending(S)[i] < Ascending(S)[j]
           /\ \A x \in S : \E i \in 1 .. Cardinality(S) : Ascending(S)[i] = x
<1> DEFINE n == Cardinality(S)
           before == [x \in S |-> { y \in S : y < x }]
<1>1. /\ before \in [S -> SUBSET S]
      /\ \A x \in S : x \notin before[x]
      /\ \A x, y \in S : x # y => x \in before[y] \/ y \in before[x]
      /\ \A x, y \in S : x \in before[y] => before[x] \subseteq before[y]
  <2>1. before \in [S -> SUBSET S]
    OBVIOUS
  <2>2. \A x \in S : x \notin before[x]
    OBVIOUS
  <2>3. \A x, y \in S : x # y => x \in before[y] \/ y \in before[x]
    OBVIOUS
  <2>4. ASSUME NEW x \in S, NEW y \in S, x \in before[y]
        PROVE  before[x] \subseteq before[y]
    <3>1. ASSUME NEW z \in before[x] PROVE z \in before[y]
      BY <2>4, <3>1
    <3> QED BY <3>1
  <2> QED BY <2>1, <2>2, <2>3, <2>4
<1>2. \A i \in 1 .. n : \E x \in S : Cardinality(before[x]) = i - 1
  <2> HIDE DEF before
  <2>1. IsOrder(S, before)
    BY <1>1 DEF IsOrder
  <2> QED BY <2>1, RanksFill
<1>3. DOMAIN Ascending(S) = 1 .. n
  BY DEF Ascending, Sorted
<1>4. ASSUME NEW i \in 1 .. n
      PROVE  Ascending(S)[i] \in S /\ Cardinality(before[Ascending(S)[i]]) = i - 1
  BY <1>2 DEF Ascending, Sorted
<1>5. /\ n \in Nat
      /\ \A i, j \in 1 .. n : i < j => Ascending(S)[i] \in before[Ascending(S)[j]]
      /\ \A x \in S : \E i \in 1 .. n : Ascending(S)[i] = x
  <2> HIDE DEF before
  <2>1. n \in Nat
    BY FS_CardinalityType
  <2>2. \A i \in 1 .. n :
           Ascending(S)[i] \in S /\ Cardinality(before[Ascending(S)[i]]) = i - 1
    BY <1>4
  <2>3. /\ \A i, j \in 1 .. n : i < j => Ascending(S)[i] \in before[Ascending(S)[j]]
        /\ \A x \in S : \E i \in 1 .. n : Ascending(S)[i] = x
    <3> DEFINE sorted == Ascending(S)
    <3>1. /\ sorted \in [1 .. Cardinality(S) -> S]
          /\ \A i \in 1 .. Cardinality(S) : Cardinality(before[sorted[i]]) = i - 1
      BY <1>3, <2>2 DEF Ascending, Sorted
    <3> HIDE DEF sorted
    <3>2. IsOrder(S, before) /\ IsByRank(sorted, S, before)
      BY <1>1, <3>1 DEF IsOrder, IsByRank
    <3>3. /\ \A i, j \in 1 .. Cardinality(S) : i < j => sorted[i] \in before[sorted[j]]
          /\ \A x \in S : \E i \in 1 .. Cardinality(S) : sorted[i] = x
      BY <3>2, RanksSort
    <3> QED BY <3>3 DEF sorted
  <2> QED BY <2>1, <2>3
<1>6. Ascending(S) \in [1 .. n -> S]
  BY <1>3, <1>4 DEF Ascending, Sorted
<1> QED BY <1>4, <1>5, <1>6

\* A finite set of numbers that is not empty has a least and a greatest one.
LEMMA LeastAndGreatest ==
    ASSUME NEW S \in SUBSET Int, IsFiniteSet(S), S # {}
    PROVE  /\ \E m \in S : \A x \in S : m <= x
           /\ \E m \in S : \A x \in S : x <= m
<1> DEFINE n == Cardinality(S)
<1>1. n \in Nat /\ n # 0
  BY FS_CardinalityType, FS_EmptySet
<1>2. /\ Ascending(S) \in [1 .. n -> S]
      /\ \A i, j \in 1 .. n : i < j => Ascending(S)[i] < Ascending(S)[j]
      /\ \A x \in S : \E i \in 1 .. n : Ascending(S)[i] = x
  BY AscendingSorts
<1> HIDE DEF n
<1>3. /\ Ascending(S)[1] \in S /\ Ascending(S)[n] \in S
      /\ \A x \in S : Ascending(S)[1] <= x /\ x <= Ascending(S)[n]
  <2>1. 1 \in 1 .. n /\ n \in 1 .. n
    BY <1>1
  <2>2. ASSUME NEW x \in S
        PROVE  Ascending(S)[1] <= x /\ x <= Ascending(S)[n]
    <3>1. PICK i \in 1 .. n : Ascending(S)[i] = x
      BY <1>2
    <3>2. (i = 1 \/ 1 < i) /\ (i = n \/ i < n)
      BY <1>1
    <3>3. Ascending(S)[1] \in Int /\ Ascending(S)[n] \in Int
      BY <1>2, <2>1
    <3> QED BY <1>2, <2>1, <3>1, <3>2, <3>3
  <2> QED BY <1>2, <2>1, <2>2
<1> QED BY <1>3

\* What is taken from a list is in it, in its order.
LEMMA AtTakes ==
    ASSUME NEW T, NEW list \in Seq(T), NEW P \in SUBSET DOMAIN list
    PROVE  /\ At(list, P) \in Seq(T)
           /\ Len(At(list, P)) = Cardinality(P)
           /\ DOMAIN At(list, P) = 1 .. Cardinality(P)
           /\ \A i \in 1 .. Cardinality(P) :
                 /\ Ascending(P)[i] \in P
                 /\ At(list, P)[i] = list[Ascending(P)[i]]
           /\ \A i, j \in 1 .. Cardinality(P) :
                 i < j => Ascending(P)[i] < Ascending(P)[j]
           /\ ToSet(At(list, P)) = { list[i] : i \in P }
<1> DEFINE n == Cardinality(P)
<1>1. P \in SUBSET Int /\ IsFiniteSet(P)
  <2>1. Len(list) \in Nat /\ DOMAIN list = 1 .. Len(list)
    OBVIOUS
  <2>2. IsFiniteSet(1 .. Len(list))
    BY <2>1, FS_Interval
  <2> QED BY <2>1, <2>2, FS_Subset
<1>2. /\ n \in Nat
      /\ Ascending(P) \in [1 .. n -> P]
      /\ \A i, j \in 1 .. n : i < j => Ascending(P)[i] < Ascending(P)[j]
      /\ \A x \in P : \E i \in 1 .. n : Ascending(P)[i] = x
  BY <1>1, AscendingSorts
<1> HIDE DEF n
<1>3. At(list, P) = [i \in 1 .. n |-> list[Ascending(P)[i]]]
  BY <1>2 DEF At
<1>4. \A i \in P : list[i] \in T
  OBVIOUS
<1>5. At(list, P) \in [1 .. n -> T]
  BY <1>2, <1>3, <1>4
<1>6. At(list, P) \in Seq(T) /\ Len(At(list, P)) = n
  BY <1>2, <1>5
<1>7. ToSet(At(list, P)) = { list[i] : i \in P }
  <2>1. ToSet(At(list, P)) = { list[Ascending(P)[i]] : i \in 1 .. n }
    BY <1>3 DEF ToSet
  <2>2. \A i \in 1 .. n : Ascending(P)[i] \in P
    BY <1>2
  <2>3. \A x \in P : \E i \in 1 .. n : Ascending(P)[i] = x
    BY <1>2
  <2> QED BY <2>1, <2>2, <2>3
<1> QED BY <1>2, <1>3, <1>5, <1>6, <1>7 DEF n

\* Distinct keeps each element once, the first time it occurs.
LEMMA DistinctOnce ==
    ASSUME NEW T, NEW list \in Seq(T)
    PROVE  /\ Distinct(list) \in Seq(T)
           /\ ToSet(Distinct(list)) = ToSet(list)
           /\ \A i, j \in 1 .. Len(Distinct(list)) :
                 Distinct(list)[i] = Distinct(list)[j] => i = j
           /\ Len(Distinct(list)) = Cardinality(ToSet(list))
<1> DEFINE P == { i \in DOMAIN list : \A j \in 1 .. i - 1 : list[j] # list[i] }
           d == Distinct(list)
<1>1. d = At(list, P) /\ P \in SUBSET DOMAIN list
  BY DEF Distinct
<1>2. Len(list) \in Nat /\ DOMAIN list = 1 .. Len(list)
  OBVIOUS
<1>3. /\ d \in Seq(T) /\ Len(d) = Cardinality(P)
      /\ \A i \in 1 .. Len(d) : Ascending(P)[i] \in P /\ d[i] = list[Ascending(P)[i]]
      /\ \A i, j \in 1 .. Len(d) : i < j => Ascending(P)[i] < Ascending(P)[j]
      /\ ToSet(d) = { list[i] : i \in P }
  <2> HIDE DEF P, d
  <2> QED BY <1>1, AtTakes
<1>4. \A i, k \in P : i < k => list[i] # list[k]
  BY <1>2
<1>5. ASSUME NEW i \in DOMAIN list PROVE \E k \in P : list[k] = list[i]
  <2> DEFINE same == { k \in DOMAIN list : list[k] = list[i] }
  <2>1. same \in SUBSET Int /\ IsFiniteSet(same) /\ same # {}
    <3>1. IsFiniteSet(1 .. Len(list))
      BY <1>2, FS_Interval
    <3>2. same \in SUBSET (1 .. Len(list))
      BY <1>2
    <3>3. IsFiniteSet(same)
      BY <3>1, <3>2, FS_Subset
    <3> QED BY <1>2, <3>2, <3>3
  <2>2. PICK m \in same : \A k \in same : m <= k
    <3> HIDE DEF same
    <3> QED BY <2>1, LeastAndGreatest
  <2>3. m \in P
    BY <1>2, <2>2
  <2> QED BY <2>2, <2>3
<1>6. ToSet(d) = ToSet(list)
  <2> HIDE DEF d, P
  <2>1. { list[i] : i \in P } = { list[i] : i \in DOMAIN list }
    BY <1>1, <1>5
  <2> QED BY <1>3, <2>1 DEF ToSet
<1>7. ASSUME NEW i \in 1 .. Len(d), NEW j \in 1 .. Len(d), d[i] = d[j]
      PROVE  i = j
  <2> HIDE DEF P, d
  <2>1. ~(i < j) /\ ~(j < i)
    BY <1>3, <1>4, <1>7
  <2> QED BY <2>1
<1>8. Len(d) = Cardinality(ToSet(list))
  <2> HIDE DEF P, d
  <2>1. Len(d) \in Nat /\ DOMAIN d = 1 .. Len(d)
    BY <1>3
  <2>2. d \in [1 .. Len(d) -> ToSet(d)] /\ \A x \in ToSet(d) : \E i \in 1 .. Len(d) : d[i] = x
    BY <1>3, <2>1 DEF ToSet
  <2>3. d \in Bijection(1 .. Len(d), ToSet(d))
    BY <1>7, <2>2 DEF Bijection, Injection, Surjection, IsInjective
  <2> QED BY <1>6, <2>1, <2>3, FS_CountingElements DEF ExistsBijection
<1> QED BY <1>3, <1>6, <1>7, <1>8

\* Without drops the elements of the set and keeps the others.
LEMMA WithoutDrops ==
    ASSUME NEW T, NEW list \in Seq(T), NEW S
    PROVE  /\ Without(list, S) \in Seq(T)
           /\ ToSet(Without(list, S)) = ToSet(list) \ S
<1> DEFINE P == { i \in DOMAIN list : list[i] \notin S }
<1>1. Without(list, S) = At(list, P) /\ P \in SUBSET DOMAIN list
  BY DEF Without
<1>2. { list[i] : i \in P } = ToSet(list) \ S
  BY DEF ToSet
<1> HIDE DEF P
<1> QED BY <1>1, <1>2, AtTakes
===============================================================================
