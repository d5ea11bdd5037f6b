------------------------ MODULE HybridRetriever_proofs ------------------------
(***************************************************************************)
(* Proofs about HybridRetriever for any number of chunks and any depth:    *)
(* the two branches take turns on the session of the request, and the      *)
(* arithmetic that puts a chunk both branches found ahead of the others.   *)
(***************************************************************************)
EXTENDS HybridRetriever, Collections_proofs

-----------------------------------------------------------------------------
(* The arithmetic of the fused scores.                                     *)

\* A chunk that both branches found, at whatever depth up to the rank constant
\* plus one, scores higher than any chunk only one of them found.  With k = 60
\* and lists of at most 30 chunks that covers every rank the code meets.
THEOREM AgreementWins ==
  ASSUME NEW d \in Nat \ {0}, NEW s \in Nat \ {0}, NEW r \in Nat \ {0},
         d <= RrfK + 1, s <= RrfK + 1
  PROVE  /\ Higher(ScoreOf(d, s), ScoreOf(r, 0))
         /\ Higher(ScoreOf(d, s), ScoreOf(0, r))
<1> DEFINE a == RrfK + d
           b == RrfK + s
           c == RrfK + r
           m == RrfK + 1
<1>1. a \in Nat /\ b \in Nat /\ c \in Nat /\ m \in Nat
  BY RrfKOK
<1>2. a >= 1 /\ b >= 1 /\ m >= 1 /\ c >= m /\ a <= 2 * m - 1 /\ b <= 2 * m - 1
  BY RrfKOK
<1> HIDE DEF a, b, c, m
<1>3. (a + b) * c >= (a + b) * m
  BY <1>1, <1>2
<1>4. a * b <= a * (2 * m - 1) /\ a * b <= (2 * m - 1) * b
  BY <1>1, <1>2
<1>5. 2 * (a * b) <= 2 * ((a + b) * m) - (a + b)
  BY <1>1, <1>2, <1>4
<1>6. (a + b) * c > a * b
  BY <1>1, <1>2, <1>3, <1>5
<1>7. (2 * RrfK + d + s) * (RrfK + r) > 1 * ((RrfK + d) * (RrfK + s))
  <2>1. 2 * RrfK + d + s = a + b
    BY RrfKOK DEF a, b
  <2>2. 1 * (a * b) = a * b
    BY <1>1
  <2>3. ((a + b) * c) > 1 * (a * b)
    BY <1>6, <2>2
  <2> QED
    BY <2>1, <2>3 DEF a, b, c
<1> QED
  BY <1>7 DEF Higher, ScoreOf

\* A chunk that both branches rank above another one scores higher than it.
THEOREM BetterInBothWins ==
  ASSUME NEW d \in Nat \ {0}, NEW s \in Nat \ {0}, NEW d2 \in Nat, NEW s2 \in Nat,
         d < d2, s < s2
  PROVE  Higher(ScoreOf(d, s), ScoreOf(d2, s2))
<1> DEFINE a == RrfK + d
           b == RrfK + s
           p == RrfK + d2
           q == RrfK + s2
<1>1. a \in Nat /\ b \in Nat /\ p \in Nat /\ q \in Nat /\ a >= 1 /\ b >= 1 /\ a < p /\ b < q
  BY RrfKOK
<1> HIDE DEF a, b, p, q
<1>2. (a * p) * q > (a * p) * b
  <2>1. a * p \in Nat /\ a * p >= 1
    BY <1>1
  <2> HIDE <1>1
  <2>2. b \in Nat /\ q \in Nat /\ b < q
    BY <1>1
  <2> DEFINE t == a * p
  <2>3. t \in Nat /\ t >= 1
    BY <2>1
  <2> HIDE DEF t
  <2>4. t * q > t * b
    BY <2>2, <2>3
  <2> QED
    BY <2>4 DEF t
<1>3. (b * q) * p > (b * q) * a
  <2>1. b * q \in Nat /\ b * q >= 1
    BY <1>1
  <2>2. a \in Nat /\ p \in Nat /\ a < p
    BY <1>1
  <2> DEFINE t == b * q
  <2>3. t \in Nat /\ t >= 1
    BY <2>1
  <2> HIDE DEF t
  <2>4. t * p > t * a
    BY <2>2, <2>3
  <2> QED
    BY <2>4 DEF t
<1>4. (a + b) * (p * q) > (p + q) * (a * b)
  BY <1>1, <1>2, <1>3
<1>5. (2 * RrfK + d + s) * ((RrfK + d2) * (RrfK + s2))
        > (2 * RrfK + d2 + s2) * ((RrfK + d) * (RrfK + s))
  <2>1. 2 * RrfK + d + s = a + b /\ 2 * RrfK + d2 + s2 = p + q
    BY RrfKOK DEF a, b, p, q
  <2> QED
    BY <1>4, <2>1 DEF a, b, p, q
<1>6. d2 > 0 /\ s2 > 0
  OBVIOUS
<1> QED
  BY <1>5, <1>6 DEF Higher, ScoreOf

-----------------------------------------------------------------------------
(* The fused order.                                                        *)

\* Lists without repetition, as a search returns them.
Distinct(list) == \A i, j \in DOMAIN list : list[i] = list[j] => i = j

\* The rank of the i-th of a list is i; what is not in it has rank 0.
LEMMA Ranks ==
  ASSUME NEW S, NEW list \in Seq(S), Distinct(list)
  PROVE  /\ \A i \in 1..Len(list) : RankIn(list, list[i]) = i
         /\ \A c : c \notin ToSet(list) => RankIn(list, c) = 0
         /\ \A c \in ToSet(list) : RankIn(list, c) \in 1..Len(list) /\ list[RankIn(list, c)] = c
<1> DEFINE I(c) == {i \in 1..Len(list) : list[i] = c}
<1>1. \A c : RankIn(list, c) = IF I(c) # {} THEN Min(I(c)) ELSE 0
  BY DEF RankIn, SelectInSeq
<1>2. ASSUME NEW i \in 1..Len(list) PROVE RankIn(list, list[i]) = i
  <2>1. I(list[i]) = {i}
    BY DEF Distinct
  <2>2. Min({i}) = i
    BY DEF Min
  <2> QED BY <1>1, <2>1, <2>2
<1>3. ASSUME NEW c, c \notin ToSet(list) PROVE RankIn(list, c) = 0
  <2>1. I(c) = {}
    BY <1>3 DEF ToSet
  <2> QED BY <1>1, <2>1
<1>4. ASSUME NEW c \in ToSet(list)
      PROVE  RankIn(list, c) \in 1..Len(list) /\ list[RankIn(list, c)] = c
  <2>1. PICK i \in 1..Len(list) : list[i] = c
    BY DEF ToSet
  <2> QED BY <1>2, <2>1
<1> QED BY <1>2, <1>3, <1>4

\* Fractions are compared transitively, and strictly if one of the steps is.
LEMMA Fractions ==
  ASSUME NEW a \in Nat, NEW b \in Nat \ {0}, NEW c \in Nat, NEW d \in Nat \ {0},
         NEW e \in Nat, NEW f \in Nat \ {0},
         ~Higher(<<c, d>>, <<a, b>>), ~Higher(<<e, f>>, <<c, d>>)
  PROVE  /\ ~Higher(<<e, f>>, <<a, b>>)
         /\ Higher(<<a, b>>, <<c, d>>) \/ Higher(<<c, d>>, <<e, f>>) => Higher(<<a, b>>, <<e, f>>)
<1>1. a * d >= c * b /\ c * f >= e * d
  BY DEF Higher
<1>2. \A x, y, z \in Nat : x * y = y * x /\ x * (y * z) = (x * y) * z /\ x * y \in Nat
  OBVIOUS
<1>3. \A x, y \in Nat : \A z \in Nat \ {0} :
        /\ x >= y => x * z >= y * z
        /\ x > y => x * z > y * z
        /\ x * z >= y * z => x >= y
        /\ x * z > y * z => x > y
  <2> SUFFICES ASSUME NEW x \in Nat, NEW y \in Nat, NEW z \in Nat \ {0}
               PROVE  /\ x >= y => x * z >= y * z
                      /\ x > y => x * z > y * z
                      /\ y > x => y * z > x * z
    OBVIOUS
  <2> QED OBVIOUS
<1>4. (a * d) * f >= (c * b) * f /\ (c * f) * b >= (e * d) * b
  BY <1>1, <1>2, <1>3
<1>5. (c * b) * f = (c * f) * b /\ (a * d) * f = (a * f) * d /\ (e * d) * b = (e * b) * d
  <2>1. (c * b) * f = c * (b * f) /\ b * f = f * b /\ c * (f * b) = (c * f) * b
    BY <1>2
  <2>2. (a * d) * f = a * (d * f) /\ d * f = f * d /\ a * (f * d) = (a * f) * d
    BY <1>2
  <2>3. (e * d) * b = e * (d * b) /\ d * b = b * d /\ e * (b * d) = (e * b) * d
    BY <1>2
  <2> QED BY <2>1, <2>2, <2>3
<1>6. (a * f) * d >= (e * b) * d
  BY <1>2, <1>4, <1>5
<1>7. a * f >= e * b
  BY <1>2, <1>3, <1>6
<1>8. ASSUME a * d > c * b \/ c * f > e * d PROVE a * f > e * b
  <2>1. (a * d) * f > (c * b) * f \/ (c * f) * b > (e * d) * b
    BY <1>2, <1>3, <1>8
  <2>2. (a * f) * d > (e * b) * d
    BY <1>2, <1>4, <1>5, <2>1
  <2> QED BY <1>2, <1>3, <2>2
<1> QED BY <1>2, <1>7, <1>8 DEF Higher

\* The scores of the chunks found are fractions, and no two chunks were
\* inserted at one place.
LEMMA ScoresAreFractions ==
  ASSUME NEW S, NEW dense \in Seq(S), NEW sparse \in Seq(S), Distinct(dense), Distinct(sparse)
  PROVE  /\ \A c \in Fused(dense, sparse) :
              /\ \E a, b \in Nat \ {0} : Score(dense, sparse, c) = <<a, b>>
              /\ Insertion(dense, sparse, c) \in Nat
         /\ \A b, c \in Fused(dense, sparse) :
              Insertion(dense, sparse, b) = Insertion(dense, sparse, c) => b = c
<1>1. \A c : RankIn(dense, c) \in Nat /\ RankIn(sparse, c) \in Nat
  BY Ranks
<1>2. ASSUME NEW c \in Fused(dense, sparse)
      PROVE  /\ \E a, b \in Nat \ {0} : Score(dense, sparse, c) = <<a, b>>
             /\ Insertion(dense, sparse, c) \in Nat
  <2> DEFINE d == RankIn(dense, c)
             s == RankIn(sparse, c)
  <2>1. d \in Nat /\ s \in Nat /\ (d > 0 \/ s > 0) /\ RrfK \in Nat \ {0}
    BY <1>1, Ranks, RrfKOK DEF Fused
  <2>2. Insertion(dense, sparse, c) \in Nat
    BY <2>1 DEF Insertion
  <2> HIDE DEF d, s
  <2>3. \A x, y \in Nat \ {0} : x * y \in Nat \ {0}
    OBVIOUS
  <2>4. \E a, b \in Nat \ {0} : ScoreOf(d, s) = <<a, b>>
    <3>1. RrfK + d \in Nat \ {0} /\ RrfK + s \in Nat \ {0} /\ 2 * RrfK + d + s \in Nat \ {0}
      BY <2>1
    <3>2. (RrfK + d) * (RrfK + s) \in Nat \ {0}
      BY <2>3, <3>1
    <3> QED BY <3>1, <3>2 DEF ScoreOf
  <2> QED BY <2>2, <2>4 DEF Score, d, s
<1>3. ASSUME NEW b \in Fused(dense, sparse), NEW c \in Fused(dense, sparse),
             Insertion(dense, sparse, b) = Insertion(dense, sparse, c)
      PROVE  b = c
  <2>1. \A x \in Fused(dense, sparse) :
          \/ /\ RankIn(dense, x) \in 1..Len(dense) /\ dense[RankIn(dense, x)] = x
             /\ Insertion(dense, sparse, x) = RankIn(dense, x)
          \/ /\ RankIn(sparse, x) \in 1..Len(sparse) /\ sparse[RankIn(sparse, x)] = x
             /\ Insertion(dense, sparse, x) = Len(dense) + RankIn(sparse, x)
    BY Ranks DEF Fused, Insertion
  <2>2. Len(dense) \in Nat /\ Len(sparse) \in Nat
    OBVIOUS
  <2> QED BY <1>3, <2>1, <2>2
<1> QED BY <1>2, <1>3

\* Which of two chunks is ahead never goes round in a circle.
LEMMA FusedIsTotal ==
  ASSUME NEW S, NEW dense \in Seq(S), NEW sparse \in Seq(S), Distinct(dense), Distinct(sparse)
  PROVE  IsTotalOrder(Fused(dense, sparse), FusedOrder(dense, sparse))
<1> DEFINE F == Fused(dense, sparse)
           score(c) == Score(dense, sparse, c)
           place(c) == Insertion(dense, sparse, c)
           level(b, c) == ~Higher(score(c), score(b))
<1>1. \A b, c \in F : <<b, c>> \in FusedOrder(dense, sparse) <=>
        Higher(score(b), score(c)) \/ (level(b, c) /\ place(b) < place(c))
  BY DEF FusedOrder, IsAhead
<1>2. \A c \in F : (\E a, b \in Nat \ {0} : score(c) = <<a, b>>) /\ place(c) \in Nat
  BY ScoresAreFractions
<1>3. \A b, c \in F : place(b) = place(c) => b = c
  BY ScoresAreFractions
<1>4. \A b, c, d \in F : level(b, c) /\ level(c, d) =>
        /\ level(b, d)
        /\ Higher(score(b), score(c)) \/ Higher(score(c), score(d)) => Higher(score(b), score(d))
  BY <1>2, Fractions
<1>5. \A b, c \in F : Higher(score(b), score(c)) => level(b, c)
  <2>1. \A x, y \in Nat : x * y \in Nat
    OBVIOUS
  <2> QED BY <1>2, <2>1 DEF Higher
<1> HIDE DEF F, score, place, level
<1>6. \A x \in F : <<x, x>> \notin FusedOrder(dense, sparse)
  BY <1>1, <1>2, <1>5 DEF level
<1>7. \A x, y \in F : x # y =>
        <<x, y>> \in FusedOrder(dense, sparse) \/ <<y, x>> \in FusedOrder(dense, sparse)
  BY <1>1, <1>2, <1>3 DEF level
<1>8. \A x, y, z \in F :
        <<x, y>> \in FusedOrder(dense, sparse) /\ <<y, z>> \in FusedOrder(dense, sparse)
          => <<x, z>> \in FusedOrder(dense, sparse)
  <2>1. \A b, c \in F : <<b, c>> \in FusedOrder(dense, sparse) <=>
          level(b, c) /\ (Higher(score(b), score(c)) \/ place(b) < place(c))
    BY <1>1, <1>5
  <2> QED BY <1>2, <1>4, <2>1
<1> QED BY <1>6, <1>7, <1>8 DEF IsTotalOrder, F

\* However long the two rankings are, the fused one names every chunk of them
\* once, and one chunk stands before another exactly if it is ahead of it.
THEOREM FusionSorts ==
  ASSUME NEW S, NEW dense \in Seq(S), NEW sparse \in Seq(S), Distinct(dense), Distinct(sparse)
  PROVE  LET L == Sorted(dense, sparse)
             n == Cardinality(Fused(dense, sparse)) IN
         /\ n \in Nat /\ L \in [1..n -> Fused(dense, sparse)]
         /\ \A c \in Fused(dense, sparse) : \E i \in 1..n : L[i] = c
         /\ \A i, j \in 1..n : i < j <=> IsAhead(dense, sparse, L[i], L[j])
<1>1. IsFiniteSet(Fused(dense, sparse))
  <2>1. \A list \in Seq(S) : IsFiniteSet(ToSet(list))
    <3> SUFFICES ASSUME NEW list \in Seq(S) PROVE IsFiniteSet(ToSet(list))
      OBVIOUS
    <3>1. list \in Surjection(1..Len(list), ToSet(list))
      BY DEF Surjection, ToSet
    <3> QED BY <3>1, FS_Interval, FS_Surjection
  <2> QED BY <2>1, FS_Union DEF Fused
<1> DEFINE F == Fused(dense, sparse)
           R == FusedOrder(dense, sparse)
           L == Sorted(dense, sparse)
<1>2. /\ Cardinality(F) \in Nat /\ L \in [1..Cardinality(F) -> F]
      /\ \A c \in F : \E i \in 1..Cardinality(F) : L[i] = c
      /\ \A i, j \in 1..Cardinality(F) : i < j <=> <<L[i], L[j]>> \in R
  BY <1>1, FusedIsTotal, ArrangedSorts DEF Sorted
<1>3. \A b, c \in F : <<b, c>> \in R <=> IsAhead(dense, sparse, b, c)
  BY DEF FusedOrder
<1> QED BY <1>2, <1>3

-----------------------------------------------------------------------------
(* The lock.                                                               *)

\* LockHeldBySearcher is inductive with the types it needs and two facts about
\* where a branch can be: nothing runs before Begin, and nobody waits for the
\* lock when there is none.
LockInv ==
  /\ DOMAIN call = {"store", "session", "top", "out", "result"}
  /\ pc \in [Branches -> Pc]
  /\ lock \in Branches \cup {"free"}
  /\ call.out = "none" => \A b \in Branches : pc[b] = "idle"
  /\ \A b \in Branches : pc[b] = "queue" => Shared
  /\ LockHeldBySearcher

LEMMA LockInit == Init => LockInv
  BY DEF Init, LockInv, LockHeldBySearcher, Branches, Pc

LEMMA LockStep == LockInv /\ [Next]_vars => LockInv'
<1> SUFFICES ASSUME LockInv, [Next]_vars
             PROVE  LockInv'
  OBVIOUS
<1> USE DEF LockInv, LockHeldBySearcher, Branches, Pc, Shared
<1>1. CASE Begin
  BY <1>1 DEF Begin, Entrance
<1>2. CASE Embedded
  BY <1>2 DEF Embedded, Move
<1>3. CASE EmbedFails
  BY <1>3 DEF EmbedFails, Move
<1>4. CASE Gather
  BY <1>4 DEF Gather
<1>5. CASE Cancel
  BY <1>5 DEF Cancel, Settled, Raised
<1>6. ASSUME NEW b \in Branches, Acquire(b)
      PROVE  LockInv'
  BY <1>6 DEF Acquire, Move
<1>7. ASSUME NEW b \in Branches, Searched(b)
      PROVE  LockInv'
  BY <1>7 DEF Searched, Move, Release
<1>8. ASSUME NEW b \in Branches, SearchFails(b)
      PROVE  LockInv'
  BY <1>8 DEF SearchFails, Move, Release
<1>9. ASSUME NEW b \in Branches, SearchRefused(b)
      PROVE  LockInv'
  BY <1>9 DEF SearchRefused, Move, Release
<1>10. CASE UNCHANGED vars
  BY <1>10 DEF vars
<1> QED
  BY <1>1, <1>2, <1>3, <1>4, <1>5, <1>6, <1>7, <1>8, <1>9, <1>10 DEF Next, Finished

\* A branch holds the lock exactly while its statement is in flight, after
\* failures and cancellations too.
THEOREM LockSafe == Spec => []LockHeldBySearcher
<1>1. LockInv => LockHeldBySearcher
  BY DEF LockInv
<1> QED
  BY LockInit, LockStep, <1>1, PTL DEF Spec

\* With a shared session no two statements of a call ever overlap.
THEOREM TurnsTaken == Spec => []BranchesTakeTurns
<1>1. LockInv => BranchesTakeTurns
  BY DEF LockInv, LockHeldBySearcher, BranchesTakeTurns, Branches
<1> QED
  BY LockInit, LockStep, <1>1, PTL DEF Spec

-----------------------------------------------------------------------------
(* One branch is enough.                                                   *)

\* Fused with nothing, a ranking keeps its order.
LEMMA FusedAlone ==
  ASSUME NEW S, NEW list \in Seq(S), Distinct(list)
  PROVE  Sorted(list, <<>>) = list /\ Sorted(<<>>, list) = list
<1> DEFINE n == Len(list)
<1>1. /\ n \in Nat /\ list \in [1..n -> ToSet(list)] /\ RrfK \in Nat \ {0}
      /\ <<>> \in Seq(S) /\ Distinct(<<>>) /\ ToSet(<<>>) = {}
  BY RrfKOK DEF ToSet, Distinct
<1>2. /\ \A i \in 1..n : RankIn(list, list[i]) = i
      /\ \A c : RankIn(<<>>, c) = 0
  BY <1>1, Ranks
<1>3. \A c \in ToSet(list) : \E i \in 1..n : list[i] = c
  BY DEF ToSet
<1>4. Sorted(list, <<>>) = list
  <2>1. Fused(list, <<>>) = ToSet(list)
    BY <1>1 DEF Fused
  <2>2. ASSUME NEW i \in 1..n, NEW j \in 1..n, i < j
        PROVE  <<list[i], list[j]>> \in FusedOrder(list, <<>>)
    <3>1. list[i] \in ToSet(list) /\ list[j] \in ToSet(list)
      BY <1>1
    <3>2. /\ Score(list, <<>>, list[i]) = <<1, RrfK + i>>
          /\ Score(list, <<>>, list[j]) = <<1, RrfK + j>>
      BY <1>2 DEF Score, ScoreOf
    <3>3. Higher(<<1, RrfK + i>>, <<1, RrfK + j>>)
      BY <1>1, <2>2 DEF Higher
    <3> QED BY <2>1, <3>1, <3>2, <3>3 DEF FusedOrder, IsAhead
  <2>3. IsTotalOrder(ToSet(list), FusedOrder(list, <<>>))
    BY <1>1, <2>1, FusedIsTotal
  <2> QED BY <1>1, <1>3, <2>1, <2>2, <2>3, ArrangedStays DEF Sorted
<1>5. Sorted(<<>>, list) = list
  <2>1. Fused(<<>>, list) = ToSet(list)
    BY <1>1 DEF Fused
  <2>2. ASSUME NEW i \in 1..n, NEW j \in 1..n, i < j
        PROVE  <<list[i], list[j]>> \in FusedOrder(<<>>, list)
    <3>1. list[i] \in ToSet(list) /\ list[j] \in ToSet(list)
      BY <1>1
    <3>2. /\ Score(<<>>, list, list[i]) = <<1, RrfK + i>>
          /\ Score(<<>>, list, list[j]) = <<1, RrfK + j>>
      BY <1>2 DEF Score, ScoreOf
    <3>3. Higher(<<1, RrfK + i>>, <<1, RrfK + j>>)
      BY <1>1, <2>2 DEF Higher
    <3> QED BY <2>1, <3>1, <3>2, <3>3 DEF FusedOrder, IsAhead
  <2>3. IsTotalOrder(ToSet(list), FusedOrder(<<>>, list))
    BY <1>1, <2>1, FusedIsTotal
  <2> QED BY <1>1, <1>3, <2>1, <2>2, <2>3, ArrangedStays DEF Sorted
<1> QED BY <1>4, <1>5

\* A branch has a ranking once it is done; a fused call has both branches
\* settled and the fusion of what they found.
Survival ==
  /\ call.top \in Nat \ {0}
  /\ found \in [Branches -> Rankings]
  /\ \A b \in Branches : pc[b] # "done" => found[b] = <<>>
  /\ call.out = "fused" =>
       /\ \A b \in Branches : Settled(b)
       /\ call.result = Fuse(found["dense"], found["sparse"], call.top)
  /\ call.out = "failed" /\ call.session => \A b \in Branches : Raised(b)

LEMMA NothingIsARanking == <<>> \in Rankings
<1>1. 0 \in 0..Depth /\ <<>> \in [1..0 -> Chunks]
  BY BoundsOK
<1> QED BY <1>1 DEF Rankings, SeqOf

LEMMA SurvivalInit == Init => Survival
<1> SUFFICES ASSUME Init PROVE Survival
  OBVIOUS
<1>1. call.top \in Nat \ {0} /\ call.out = "none"
  BY BoundsOK DEF Init
<1> QED BY <1>1, NothingIsARanking DEF Init, Survival

LEMMA SurvivalStep == LockInv /\ Survival /\ [Next]_vars => Survival'
<1> SUFFICES ASSUME LockInv, Survival, [Next]_vars
             PROVE  Survival'
  OBVIOUS
<1> USE DEF Survival, Branches
<1>1. /\ DOMAIN call = {"store", "session", "top", "out", "result"}
      /\ DOMAIN pc = Branches
  BY DEF LockInv
<1>2. CASE Begin
  <2>1. /\ call.out = "none" /\ \A b \in Branches : pc[b] = "idle"
        /\ found' = found /\ call' = [call EXCEPT !.out = call'.out]
        /\ call'.out = IF call.session THEN "running" ELSE "failed"
    BY <1>1, <1>2 DEF Begin, LockInv
  <2>2. call'.top = call.top /\ call'.session = call.session
    BY <1>1, <2>1
  <2> QED BY <2>1, <2>2
<1>3. CASE Embedded
  <2>1. /\ call' = call /\ pc["dense"] = "embed" /\ DOMAIN found = Branches
        /\ pc'["sparse"] = pc["sparse"] /\ found'["sparse"] = found["sparse"]
    BY <1>1, <1>3 DEF Embedded, Move
  <2>2. \/ pc'["dense"] = "queue" /\ found' = found
        \/ pc'["dense"] = "done" /\ \E r \in Rankings : found' = [found EXCEPT !["dense"] = r]
    BY <1>1, <1>3 DEF Embedded, Move
  <2>3. found' \in [Branches -> Rankings] /\ call.out # "fused"
        /\ ~\A b \in Branches : Raised(b)
    BY <2>1, <2>2 DEF Settled, Raised
  <2> QED BY <2>1, <2>2, <2>3
<1>4. CASE Gather
  <2>1. /\ UNCHANGED <<pc, found>> /\ \A b \in Branches : Settled(b)
    BY <1>4 DEF Gather
  <2>2. CASE \A b \in Branches : Raised(b)
    <3>1. call' = [call EXCEPT !.out = "failed"]
      BY <1>4, <2>2 DEF Gather
    <3> QED BY <1>1, <2>1, <2>2, <3>1 DEF Raised, Settled
  <2>3. CASE ~\A b \in Branches : Raised(b)
    <3>1. call' = [call EXCEPT !.out = "fused",
                     !.result = Fuse(found["dense"], found["sparse"], call.top)]
      BY <1>4, <2>3 DEF Gather
    <3>2. /\ call'.out = "fused" /\ call'.top = call.top
          /\ call'.result = Fuse(found["dense"], found["sparse"], call.top)
      BY <1>1, <3>1
    <3> QED BY <2>1, <3>2 DEF Raised, Settled
  <2> QED BY <2>2, <2>3
<1>5. CASE Cancel
  <2>1. /\ call' = [call EXCEPT !.out = "cancelled"] /\ found' = found
        /\ pc' = [b \in Branches |-> IF Settled(b) THEN pc[b] ELSE "cancelled"]
    BY <1>5 DEF Cancel
  <2>2. call'.top = call.top /\ call'.out = "cancelled"
    BY <1>1, <2>1
  <2> QED BY <2>1, <2>2 DEF Settled, Raised
<1>6. ASSUME NEW b \in Branches, Searched(b)
      PROVE  Survival'
  <2>1. /\ call' = call /\ pc[b] = "search" /\ pc' = [pc EXCEPT ![b] = "done"]
        /\ \E r \in Rankings : found' = [found EXCEPT ![b] = r]
    BY <1>6 DEF Searched, Move
  <2>2. call.out # "fused" /\ ~\A o \in Branches : Raised(o)
    BY <2>1 DEF Settled, Raised
  <2> QED BY <1>1, <2>1, <2>2 DEF Raised
<1>7. ASSUME NEW b \in Branches, pc[b] \notin {"done", "failed", "refused"}, call' = call,
             found' = found, NEW where \in Pc \ {"done"}, pc' = [pc EXCEPT ![b] = where]
      PROVE  Survival'
  <2>1. call.out # "fused" /\ ~\A o \in Branches : Raised(o)
    BY <1>7 DEF Settled, Raised
  <2> QED BY <1>1, <1>7, <2>1 DEF Raised
<1>8. CASE EmbedFails
  BY <1>7, <1>8 DEF EmbedFails, Move, Pc
<1>9. CASE \E b \in Branches : Acquire(b) \/ SearchFails(b) \/ SearchRefused(b)
  BY <1>7, <1>9 DEF Acquire, SearchFails, SearchRefused, Move, Pc
<1>10. CASE UNCHANGED vars
  BY <1>10 DEF vars, Settled, Raised
<1> QED
  BY <1>2, <1>3, <1>4, <1>5, <1>6, <1>8, <1>9, <1>10 DEF Next, Finished

\* A statement is refused only where another one of the same session has failed:
\* with the in-memory store there is only one.
Refusal ==
  /\ \A b \in Branches : pc[b] = "refused" => Shared /\ tx = "aborted"
  /\ ~Shared => pc["dense"] # "search" /\ (tx = "aborted" => pc["sparse"] = "failed")

LEMMA RefusalInit == Init => Refusal
  BY DEF Init, Refusal, Branches

LEMMA RefusalStep == LockInv /\ Refusal /\ [Next]_vars => Refusal'
<1> SUFFICES ASSUME LockInv, Refusal, [Next]_vars
             PROVE  Refusal'
  OBVIOUS
<1> USE DEF Refusal, Branches
<1>1. /\ DOMAIN call = {"store", "session", "top", "out", "result"}
      /\ DOMAIN pc = Branches
      /\ \A b \in Branches : pc[b] = "queue" => Shared
      /\ call.out = "none" => \A b \in Branches : pc[b] = "idle"
  BY DEF LockInv
<1>2. Shared' = Shared
  <2>1. call'.store = call.store
    <3>1. \/ call' = call
          \/ \E out : call' = [call EXCEPT !.out = out]
          \/ \E out, result : call' = [call EXCEPT !.out = out, !.result = result]
      BY DEF Next, Begin, Embedded, EmbedFails, Gather, Cancel, Finished, Acquire, Searched,
             SearchFails, SearchRefused, vars
    <3> QED BY <1>1, <3>1
  <2> QED BY <2>1 DEF Shared
<1>3. CASE Begin
  BY <1>1, <1>2, <1>3 DEF Begin, Entrance
<1>4. CASE Embedded \/ EmbedFails
  BY <1>1, <1>2, <1>4 DEF Embedded, EmbedFails, Move
<1>5. CASE Gather
  BY <1>2, <1>5 DEF Gather
<1>6. CASE Cancel
  BY <1>2, <1>6 DEF Cancel, Settled, Raised
<1>7. ASSUME NEW b \in Branches, Acquire(b) \/ Searched(b) \/ SearchFails(b) \/ SearchRefused(b)
      PROVE  Refusal'
  <2>1. CASE Acquire(b)
    BY <1>1, <1>2, <2>1 DEF Acquire, Move
  <2>2. CASE Searched(b)
    BY <1>1, <1>2, <2>2 DEF Searched, Move
  <2>3. CASE SearchFails(b)
    BY <1>1, <1>2, <2>3 DEF SearchFails, Move
  <2>4. CASE SearchRefused(b)
    BY <1>1, <1>2, <2>4 DEF SearchRefused, Move
  <2> QED BY <1>7, <2>1, <2>2, <2>3, <2>4
<1>8. CASE UNCHANGED vars
  BY <1>2, <1>8 DEF vars
<1> QED
  BY <1>3, <1>4, <1>5, <1>6, <1>7, <1>8 DEF Next, Finished

\* A call with a session fails only when both branches failed, or one of them
\* aborted the transaction they share; with one branch it answers that branch's
\* ranking, cut to top_k, in its own order.
THEOREM OneIsEnough == Spec => []SurvivesOneBranch
<1>1. ASSUME LockInv, Survival, Refusal PROVE SurvivesOneBranch
  <2>1. ASSUME call.out = "fused", NEW b \in Branches, NEW o \in Branches, b # o, Raised(b)
        PROVE  /\ call.result = SubSeq(found[o], 1, Len(call.result))
               /\ Len(call.result) \in {Len(found[o]), call.top}
    <3>1. found[b] = <<>>
      BY <1>1, <2>1 DEF Raised, Survival
    <3>2. found[o] \in Seq(Chunks) /\ Distinct(found[o])
      <4>1. found[o] \in Rankings
        BY <1>1 DEF Survival
      <4> QED BY <4>1 DEF Rankings, SeqOf, Distinct
    <3>3. Fuse(found["dense"], found["sparse"], call.top) = First(found[o], call.top)
      <4>1. Sorted(found["dense"], found["sparse"]) = found[o]
        BY <2>1, <3>1, <3>2, FusedAlone DEF Branches
      <4> QED BY <4>1 DEF Fuse
    <3>4. call.result = First(found[o], call.top) /\ call.top \in Nat
      BY <1>1, <2>1, <3>3 DEF Survival
    <3> DEFINE m == IF Len(found[o]) < call.top THEN Len(found[o]) ELSE call.top
    <3>5. /\ m \in Nat /\ m <= Len(found[o]) /\ m \in {Len(found[o]), call.top}
          /\ call.result = SubSeq(found[o], 1, m)
      BY <3>2, <3>4 DEF First
    <3> HIDE DEF m
    <3>6. Len(SubSeq(found[o], 1, m)) = m
      BY <3>2, <3>5
    <3> QED BY <3>5, <3>6
  <2>2. ASSUME call.out = "failed", call.session
        PROVE  \/ \A b \in Branches : pc[b] = "failed"
               \/ Shared /\ tx = "aborted" /\ \A b \in Branches : Raised(b)
    BY <1>1, <2>2 DEF Survival, Refusal, Raised
  <2> QED BY <2>1, <2>2 DEF SurvivesOneBranch
<1> QED
  BY LockInit, LockStep, SurvivalInit, SurvivalStep, RefusalInit, RefusalStep, <1>1, PTL DEF Spec

=============================================================================
