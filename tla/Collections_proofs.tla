-------------------------- MODULE Collections_proofs --------------------------
(***************************************************************************)
(* What the proofs about several components need of numbers, finite sets   *)
(* and sequences: induction, folds and sorting.                            *)
(*                                                                         *)
(* An induction is a set that holds all numbers, or all subsets of a       *)
(* finite set, because it cannot have a least exception.  A fold of the    *)
(* community modules is such a function on the subsets of a domain; the    *)
(* step is given as a function here, with which the lemma can be used for  *)
(* any operator.                                                           *)
(***************************************************************************)
EXTENDS Ordering, FiniteSetsExt, FiniteSetTheorems, WellFoundedInduction, TLAPS

-----------------------------------------------------------------------------
(* Induction.                                                              *)

\* A set that holds 0 and with every number the next one holds them all.
LEMMA Counting ==
  ASSUME NEW Q, 0 \in Q, \A n \in Nat : n \in Q => n + 1 \in Q
  PROVE  \A n \in Nat : n \in Q
<1> DEFINE R == {p \in Nat \X Nat : p[1] < p[2]}
           B == {n \in Nat : n \notin Q}
<1> SUFFICES ASSUME B # {} PROVE FALSE
  OBVIOUS
<1>1. OpToRel(<, Nat) = R
  BY DEF OpToRel
<1>2. IsWellFoundedOn(R, Nat)
  BY <1>1, NatLessThanWellFounded
<1>3. PICK n \in B : \A m \in B : ~(<<m, n>> \in R)
  <2> HIDE DEF R
  <2> B \subseteq Nat
    OBVIOUS
  <2> HIDE DEF B
  <2> QED
  BY <1>2, WFMin
<1>4. n \in Nat /\ n # 0 /\ n - 1 \in Nat
  BY <1>3
<1>5. <<n - 1, n>> \in R
  BY <1>4
<1>6. n - 1 \in Q
  BY <1>3, <1>4, <1>5
<1>7. (n - 1) + 1 = n
  BY <1>4
<1> QED
  BY <1>3, <1>4, <1>6, <1>7

\* What holds of the empty set, and of a set when it holds of the set without any
\* one element, holds of every finite set.
LEMMA Growing ==
  ASSUME NEW S, IsFiniteSet(S), NEW Q, {} \in Q,
         \A T \in SUBSET S : T # {} /\ (\A x \in T : T \ {x} \in Q) => T \in Q
  PROVE  \A T \in SUBSET S : T \in Q
<1> DEFINE N == {n \in Nat : \A T \in SUBSET S : Cardinality(T) = n => T \in Q}
<1>1. \A T \in SUBSET S : IsFiniteSet(T) /\ Cardinality(T) \in Nat
  BY FS_Subset, FS_CardinalityType
<1>2. 0 \in N
  BY <1>1, FS_EmptySet
<1>3. ASSUME NEW n \in Nat, n \in N PROVE n + 1 \in N
  <2> SUFFICES ASSUME NEW T \in SUBSET S, Cardinality(T) = n + 1 PROVE T \in Q
    OBVIOUS
  <2>1. T # {}
    BY FS_EmptySet, n + 1 # 0
  <2>2. \A x \in T : T \ {x} \in SUBSET S /\ Cardinality(T \ {x}) = n
    BY <1>1, FS_RemoveElement
  <2>3. \A x \in T : T \ {x} \in Q
    BY <1>3, <2>2
  <2> QED
    BY <2>1, <2>3
<1>4. \A n \in Nat : n \in N
  <2> HIDE DEF N
  <2> QED
    BY <1>2, <1>3, Counting
<1> QED
  BY <1>1, <1>4

\* A finite set of numbers that is not empty has a largest one.
LEMMA MaxOf ==
  ASSUME NEW S \in SUBSET Int, IsFiniteSet(S), S # {}
  PROVE  Max(S) \in S /\ \A y \in S : y <= Max(S)
<1> DEFINE Q == {T \in SUBSET S : T = {} \/ \E x \in T : \A y \in T : x >= y}
<1>1. {} \in Q
  OBVIOUS
<1>2. ASSUME NEW T \in SUBSET S, T # {}, \A x \in T : T \ {x} \in Q PROVE T \in Q
  <2>1. PICK z \in T : TRUE
    BY <1>2
  <2>2. T \ {z} = {} \/ \E x \in T \ {z} : \A y \in T \ {z} : x >= y
    BY <1>2
  <2>3. CASE T \ {z} = {}
    <3>1. \A y \in T : z >= y
      BY <2>1, <2>3
    <3> QED BY <2>1, <3>1
  <2>4. CASE \E x \in T \ {z} : \A y \in T \ {z} : x >= y
    <3>1. PICK x \in T \ {z} : \A y \in T \ {z} : x >= y
      BY <2>4
    <3>2. \A y \in T : y \in Int
      OBVIOUS
    <3>3. CASE x >= z
      <4>1. \A y \in T : x >= y
        BY <3>1, <3>3
      <4> QED BY <3>1, <4>1
    <3>4. CASE z >= x
      <4>1. \A y \in T : z >= y
        BY <2>1, <3>1, <3>2, <3>4
      <4> QED BY <2>1, <4>1
    <3> QED BY <2>1, <3>1, <3>2, <3>3, <3>4
  <2> QED BY <2>2, <2>3, <2>4
<1>3. S \in Q
  <2> HIDE DEF Q
  <2> QED BY <1>1, <1>2, Growing
<1>4. \E x \in S : \A y \in S : x >= y
  BY <1>3
<1>5. Max(S) \in S /\ \A y \in S : Max(S) >= y
  BY <1>4 DEF Max
<1> QED BY <1>5

-----------------------------------------------------------------------------
(* Folds over a sequence of n elements.                                    *)

\* g folds the step h over the positions in each set of U, the largest one last.
FoldsTo(g, U, base, h) ==
  g = [T \in U |-> IF T = {} THEN base ELSE h[<<g[T \ {Max(T)}], Max(T)>>]]

\* There is such a function, and what a step preserves it has.
LEMMA FoldExists ==
  ASSUME NEW n \in Nat, NEW A, NEW base \in A, NEW h \in [A \X (1..n) -> A]
  PROVE  \E g \in [SUBSET (1..n) -> A] : FoldsTo(g, SUBSET (1..n), base, h)
<1> DEFINE S == 1..n
           D(m) == {T \in SUBSET S : Cardinality(T) <= m}
           N == {m \in Nat : \E g \in [D(m) -> A] : FoldsTo(g, D(m), base, h)}
<1>1. IsFiniteSet(S) /\ \A T \in SUBSET S : IsFiniteSet(T) /\ Cardinality(T) \in Nat
  <2>1. IsFiniteSet(S)
    BY FS_Interval
  <2> HIDE DEF S
  <2> QED BY <2>1, FS_Subset, FS_CardinalityType
<1>2. \A T \in SUBSET S : T # {} => Max(T) \in T
  <2> SUFFICES ASSUME NEW T \in SUBSET S, T # {} PROVE Max(T) \in T
    OBVIOUS
  <2>1. T \in SUBSET Int
    OBVIOUS
  <2> QED BY <1>1, <2>1, MaxOf
<1>3. \A m \in Nat : \A T \in D(m + 1) : T # {} => T \ {Max(T)} \in D(m) /\ Max(T) \in S
  <2> SUFFICES ASSUME NEW m \in Nat, NEW T \in D(m + 1), T # {}
               PROVE  T \ {Max(T)} \in D(m) /\ Max(T) \in S
    OBVIOUS
  <2>1. Max(T) \in T
    BY <1>2
  <2>2. T \in SUBSET S /\ IsFiniteSet(T) /\ Cardinality(T) \in Nat /\ Cardinality(T) <= m + 1
    BY <1>1
  <2>3. Cardinality(T \ {Max(T)}) = Cardinality(T) - 1
    BY <2>1, <2>2, FS_RemoveElement
  <2>4. Cardinality(T \ {Max(T)}) <= m
    BY <2>2, <2>3
  <2>5. T \ {Max(T)} \in SUBSET S /\ Max(T) \in S
    BY <2>1, <2>2
  <2> HIDE DEF S
  <2> QED BY <2>4, <2>5
<1>4. \A m \in Nat : \A T \in D(m) : T \in D(m + 1)
  BY <1>1
<1>5. D(0) = {{}}
  BY <1>1, FS_EmptySet
<1> HIDE DEF D, S
<1>6. 0 \in N
  <2> DEFINE g == [T \in D(0) |-> base]
  <2>1. g \in [D(0) -> A]
    OBVIOUS
  <2>2. FoldsTo(g, D(0), base, h)
    BY <1>5 DEF FoldsTo
  <2> QED BY <2>1, <2>2
<1>7. ASSUME NEW m \in Nat, m \in N PROVE m + 1 \in N
  <2>1. PICK g \in [D(m) -> A] : FoldsTo(g, D(m), base, h)
    BY <1>7
  <2> DEFINE k == [T \in D(m + 1) |->
           IF T = {} THEN base ELSE h[<<g[T \ {Max(T)}], Max(T)>>]]
  <2>2. \A T \in D(m) : k[T] = g[T]
    BY <1>4, <2>1 DEF FoldsTo
  <2>3. FoldsTo(k, D(m + 1), base, h)
    BY <1>3, <2>2 DEF FoldsTo
  <2>4. k \in [D(m + 1) -> A]
    <3> SUFFICES ASSUME NEW T \in D(m + 1) PROVE k[T] \in A
      OBVIOUS
    <3>1. CASE T = {}
      BY <3>1
    <3>2. CASE T # {}
      <4>1. g[T \ {Max(T)}] \in A /\ Max(T) \in S
        BY <1>3, <2>1, <3>2
      <4>2. h[<<g[T \ {Max(T)}], Max(T)>>] \in A
        BY <4>1 DEF S
      <4> QED BY <3>2, <4>2
    <3> QED BY <3>1, <3>2
  <2> HIDE DEF k
  <2> QED BY <2>3, <2>4
<1>8. \A m \in Nat : m \in N
  <2> HIDE DEF N
  <2> QED BY <1>6, <1>7, Counting
<1>9. D(Cardinality(S)) = SUBSET S
  BY <1>1, FS_Subset DEF D
<1> QED
  <2>1. Cardinality(S) \in N
    BY <1>1, <1>8
  <2>2. PICK g \in [D(Cardinality(S)) -> A] : FoldsTo(g, D(Cardinality(S)), base, h)
    BY <2>1
  <2> QED BY <1>9, <2>2 DEF S

-----------------------------------------------------------------------------
(* Sorting, for every finite set and every total order of it.  How many    *)
(* members are ahead of a member grows along the order, so no two have     *)
(* equally many; as there are no more numbers below the size of the set    *)
(* than members, every place is taken by exactly one.                      *)

\* Who comes later has more ahead.
LEMMA MoreAhead ==
  ASSUME NEW S, NEW R, IsFiniteSet(S), IsTotalOrder(S, R),
         NEW x \in S, NEW y \in S, <<x, y>> \in R
  PROVE  Cardinality(AheadOf(S, R, x)) < Cardinality(AheadOf(S, R, y))
<1>1. AheadOf(S, R, x) \subseteq AheadOf(S, R, y)
  BY DEF AheadOf, IsTotalOrder
<1>2. x \in AheadOf(S, R, y) /\ x \notin AheadOf(S, R, x)
  BY DEF AheadOf, IsTotalOrder
<1>3. AheadOf(S, R, y) \in SUBSET S
  BY DEF AheadOf
<1>4. IsFiniteSet(AheadOf(S, R, y)) /\ Cardinality(AheadOf(S, R, y)) \in Nat
  BY <1>3, FS_Subset, FS_CardinalityType
<1>5. /\ Cardinality(AheadOf(S, R, x)) <= Cardinality(AheadOf(S, R, y))
      /\ Cardinality(AheadOf(S, R, x)) # Cardinality(AheadOf(S, R, y))
      /\ IsFiniteSet(AheadOf(S, R, x))
  BY <1>1, <1>2, <1>4, FS_Subset
<1>6. Cardinality(AheadOf(S, R, x)) \in Nat
  BY <1>5, FS_CardinalityType
<1> QED BY <1>4, <1>5, <1>6

\* The number of those ahead of each member.
AheadCount(S, R) == [x \in S |-> Cardinality(AheadOf(S, R, x))]

\* Every place from 0 on is taken by one member.
LEMMA PlacesTaken ==
  ASSUME NEW S, NEW R, IsFiniteSet(S), IsTotalOrder(S, R)
  PROVE  /\ Cardinality(S) \in Nat
         /\ AheadCount(S, R) \in Bijection(S, 0..(Cardinality(S) - 1))
<1> DEFINE n == Cardinality(S)
           f == AheadCount(S, R)
           T == 0..(n - 1)
<1>1. n \in Nat
  BY FS_CardinalityType
<1>2. ASSUME NEW x \in S PROVE f[x] \in T
  <2>1. AheadOf(S, R, x) \in SUBSET S /\ x \notin AheadOf(S, R, x)
    BY DEF AheadOf, IsTotalOrder
  <2>2. /\ IsFiniteSet(AheadOf(S, R, x)) /\ Cardinality(AheadOf(S, R, x)) <= n
        /\ Cardinality(AheadOf(S, R, x)) # n
    BY <2>1, FS_Subset
  <2>3. Cardinality(AheadOf(S, R, x)) \in Nat
    BY <2>2, FS_CardinalityType
  <2> QED BY <1>1, <2>2, <2>3 DEF AheadCount
<1>3. ASSUME NEW x \in S, NEW y \in S, f[x] = f[y] PROVE x = y
  <2>1. CASE <<x, y>> \in R
    <3>1. f[x] < f[y]
      BY <2>1, MoreAhead DEF AheadCount
    <3> QED BY <1>1, <1>2, <1>3, <3>1
  <2>2. CASE <<y, x>> \in R
    <3>1. f[y] < f[x]
      BY <2>2, MoreAhead DEF AheadCount
    <3> QED BY <1>1, <1>2, <1>3, <3>1
  <2> QED BY <2>1, <2>2 DEF IsTotalOrder
<1>4. f \in [S -> T]
  <2>1. f = [x \in S |-> f[x]]
    BY DEF AheadCount
  <2> HIDE DEF f, T
  <2> QED BY <1>2, <2>1
<1>5. f \in Injection(S, T)
  <2> HIDE DEF f, T
  <2> QED BY <1>3, <1>4 DEF Injection, IsInjective
<1>6. IsFiniteSet(T) /\ Cardinality(T) = n
  BY <1>1, FS_Interval
<1>7. f \in Surjection(S, T)
  <2> HIDE DEF f, T, n
  <2>1. Cardinality(S) = Cardinality(T)
    BY <1>6 DEF n
  <2> QED BY <1>5, <1>6, <2>1, FS_Injection
<1> QED BY <1>1, <1>5, <1>7 DEF Bijection

\* Sorting a finite set by a total order gives every member one place, and the
\* members in that order.
LEMMA ArrangedSorts ==
  ASSUME NEW S, NEW R, IsFiniteSet(S), IsTotalOrder(S, R)
  PROVE  LET L == Arranged(S, R) IN
         /\ Cardinality(S) \in Nat
         /\ L \in [1..Cardinality(S) -> S]
         /\ \A x \in S : \E i \in 1..Cardinality(S) : L[i] = x
         /\ \A i \in 1..Cardinality(S) : Cardinality(AheadOf(S, R, L[i])) = i - 1
         /\ \A i, j \in 1..Cardinality(S) : i < j <=> <<L[i], L[j]>> \in R
<1> DEFINE n == Cardinality(S)
           L == Arranged(S, R)
           at(x) == Cardinality(AheadOf(S, R, x))
<1>1. /\ n \in Nat
      /\ \A x \in S : at(x) \in 0..(n - 1)
      /\ \A k \in 0..(n - 1) : \E x \in S : at(x) = k
      /\ \A x, y \in S : at(x) = at(y) => x = y
  <2> DEFINE f == AheadCount(S, R)
  <2>1. n \in Nat /\ f \in Bijection(S, 0..(n - 1))
    BY PlacesTaken
  <2>2. \A x \in S : f[x] = at(x)
    BY DEF AheadCount
  <2> HIDE DEF f, n, at
  <2>3. /\ f \in [S -> 0..(n - 1)]
        /\ \A k \in 0..(n - 1) : \E x \in S : f[x] = k
        /\ \A x, y \in S : f[x] = f[y] => x = y
    BY <2>1 DEF Bijection, Injection, Surjection, IsInjective
  <2> QED BY <2>1, <2>2, <2>3
<1>2. ASSUME NEW i \in 1..n PROVE L[i] \in S /\ at(L[i]) = i - 1
  <2>1. i - 1 \in 0..(n - 1)
    BY <1>1
  <2>2. L[i] = CHOOSE x \in S : at(x) = i - 1
    BY DEF Arranged
  <2> QED BY <1>1, <2>1, <2>2
<1>3. L \in [1..n -> S]
  <2>1. L = [i \in 1..n |-> L[i]]
    BY DEF Arranged
  <2> HIDE DEF L, n
  <2> QED BY <1>2, <2>1
<1>4. ASSUME NEW x \in S PROVE \E i \in 1..n : L[i] = x
  <2>1. at(x) + 1 \in 1..n /\ (at(x) + 1) - 1 = at(x)
    BY <1>1
  <2>2. L[at(x) + 1] \in S /\ at(L[at(x) + 1]) = at(x)
    BY <1>2, <2>1
  <2> QED BY <1>1, <2>1, <2>2
<1>5. ASSUME NEW i \in 1..n, NEW j \in 1..n PROVE i < j <=> <<L[i], L[j]>> \in R
  <2>1. /\ L[i] \in S /\ L[j] \in S /\ at(L[i]) = i - 1 /\ at(L[j]) = j - 1
    BY <1>2
  <2>2. /\ <<L[i], L[j]>> \in R => at(L[i]) < at(L[j])
        /\ <<L[j], L[i]>> \in R => at(L[j]) < at(L[i])
    BY <2>1, MoreAhead
  <2>3. L[i] = L[j] \/ <<L[i], L[j]>> \in R \/ <<L[j], L[i]>> \in R
    BY <2>1 DEF IsTotalOrder
  <2>4. L[i] = L[j] => at(L[i]) = at(L[j])
    OBVIOUS
  <2>5. L[i] = L[j] => <<L[i], L[j]>> \notin R
    BY <2>1 DEF IsTotalOrder
  <2> HIDE DEF L, at
  <2> QED BY <1>1, <2>1, <2>2, <2>3, <2>4, <2>5
<1> QED BY <1>1, <1>2, <1>3, <1>4, <1>5

\* A list whose members are in order already stays as it is.
LEMMA ArrangedStays ==
  ASSUME NEW S, NEW R, NEW n \in Nat, NEW r \in [1..n -> S], IsTotalOrder(S, R),
         \A x \in S : \E i \in 1..n : r[i] = x,
         \A i, j \in 1..n : i < j => <<r[i], r[j]>> \in R
  PROVE  IsFiniteSet(S) /\ Cardinality(S) = n /\ Arranged(S, R) = r
<1>1. ASSUME NEW i \in 1..n, NEW j \in 1..n, r[i] = r[j] PROVE i = j
  <2>1. <<r[i], r[j]>> \notin R /\ <<r[j], r[i]>> \notin R
    BY <1>1 DEF IsTotalOrder
  <2>2. ~(i < j) /\ ~(j < i)
    BY <2>1
  <2> QED BY <2>2
<1>2. r \in Bijection(1..n, S)
  BY <1>1 DEF Bijection, Injection, Surjection, IsInjective
<1>3. IsFiniteSet(S) /\ Cardinality(S) = n
  <2>1. ExistsBijection(1..n, S)
    BY <1>2 DEF ExistsBijection
  <2>2. IsFiniteSet(1..n) /\ Cardinality(1..n) = n
    BY FS_Interval
  <2> QED BY <2>1, <2>2, FS_Bijection
<1>4. ASSUME NEW i \in 1..n PROVE Cardinality(AheadOf(S, R, r[i])) = i - 1
  <2> DEFINE A == AheadOf(S, R, r[i])
             f == [j \in 1..(i - 1) |-> r[j]]
  <2>1. ASSUME NEW j \in 1..(i - 1) PROVE f[j] \in A
    BY <2>1 DEF AheadOf
  <2>2. ASSUME NEW x \in A PROVE \E j \in 1..(i - 1) : f[j] = x
    <3>1. PICK j \in 1..n : r[j] = x
      BY DEF AheadOf
    <3>2. <<r[j], r[i]>> \in R
      BY <3>1 DEF AheadOf
    <3>3. ~(i < j) /\ i # j
      BY <3>2 DEF IsTotalOrder
    <3> QED BY <3>1, <3>3
  <2>3. \A j, k \in 1..(i - 1) : f[j] = f[k] => j = k
    BY <1>1
  <2>4. f \in Bijection(1..(i - 1), A)
    <3>1. f = [j \in 1..(i - 1) |-> f[j]]
      OBVIOUS
    <3> HIDE DEF f, A
    <3> QED BY <2>1, <2>2, <2>3, <3>1 DEF Bijection, Injection, Surjection, IsInjective
  <2>5. ExistsBijection(1..(i - 1), A)
    BY <2>4 DEF ExistsBijection
  <2>6. IsFiniteSet(1..(i - 1)) /\ Cardinality(1..(i - 1)) = i - 1
    BY FS_Interval
  <2> HIDE DEF A
  <2>7. Cardinality(A) = i - 1
    BY <2>5, <2>6, FS_Bijection
  <2> QED BY <2>7 DEF A
<1>5. ASSUME NEW i \in 1..n PROVE Arranged(S, R)[i] = r[i]
  <2>1. Arranged(S, R)[i] = CHOOSE x \in S : Cardinality(AheadOf(S, R, x)) = i - 1
    BY <1>3 DEF Arranged
  <2>2. ASSUME NEW x \in S, Cardinality(AheadOf(S, R, x)) = i - 1 PROVE x = r[i]
    <3>1. PICK j \in 1..n : r[j] = x
      OBVIOUS
    <3>2. j - 1 = i - 1
      BY <1>4, <2>2, <3>1
    <3> QED BY <3>1, <3>2
  <2> QED BY <1>4, <2>1, <2>2
<1>6. Arranged(S, R) = [i \in 1..n |-> Arranged(S, R)[i]]
  BY <1>3 DEF Arranged
<1>7. Arranged(S, R) = r
  BY <1>5, <1>6
<1> QED BY <1>3, <1>7

=============================================================================
