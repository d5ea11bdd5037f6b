------------------------- MODULE QueryPipeline_proofs -------------------------
(***************************************************************************)
(* What a finished query guarantees about its reply, for every number of   *)
(* chunks, sentences and documents, every budget and every reply a         *)
(* provider may give.                                                      *)
(*                                                                         *)
(* The properties speak of the end of a query; a stream builds its reply   *)
(* one step earlier, before the fallback event, so the invariant carries   *)
(* what was established there over the step in between.                    *)
(***************************************************************************)
EXTENDS QueryPipeline, Collections_proofs

-----------------------------------------------------------------------------
(* The verdict of GroundingValidator.                                      *)

LEMMA SupportedCount ==
  ASSUME NEW a \in Answer, NEW n
  PROVE  /\ Cardinality(Supported(a, n)) \in Nat
         /\ Cardinality(Supported(a, n)) <= Len(a.sentences)
<1>1. a.sentences \in Seq(Sentence) /\ Len(a.sentences) \in Nat
  BY DEF Answer
<1>2. DOMAIN a.sentences = 1..Len(a.sentences)
  BY <1>1
<1>3. IsFiniteSet(1..Len(a.sentences)) /\ Cardinality(1..Len(a.sentences)) = Len(a.sentences)
  BY <1>1, FS_Interval
<1>4. Supported(a, n) \subseteq 1..Len(a.sentences)
  BY <1>2 DEF Supported
<1> QED
  BY <1>3, <1>4, FS_Subset, FS_CardinalityType

LEMMA MissingCount ==
  ASSUME NEW a \in Answer, Missing(a) # {}
  PROVE  Cardinality(Missing(a)) \in Nat /\ Cardinality(Missing(a)) > 0
<1>1. a.sentences \in Seq(Sentence) /\ Len(a.sentences) \in Nat
  BY DEF Answer
<1>2. IsFiniteSet(1..Len(a.sentences))
  BY <1>1, FS_Interval
<1>3. Missing(a) \subseteq 1..Len(a.sentences)
  BY <1>1 DEF Missing
<1>4. IsFiniteSet(Missing(a))
  BY <1>2, <1>3, FS_Subset
<1> QED
  BY <1>4, FS_CardinalityType, FS_EmptySet

\* An answer that claims something and cites nothing is never grounded, however
\* many of its sentences the evaluator finds in the context: without a citation
\* the confidence stays at or below 0.675, and the threshold is above it.
THEOREM UncitedNeverGrounded ==
  ASSUME ConfidenceThreshold >= 68,
         NEW a \in Answer, NEW n, CitedIds(a) = {},
         NEW i \in DOMAIN a.sentences, a.sentences[i].claim
  PROVE  ~Grounded(a, n)
<1> DEFINE len == Len(a.sentences)
           s == Cardinality(Supported(a, n))
<1>1. a.sentences \in Seq(Sentence) /\ len \in Nat /\ len >= 1 /\ a.sentences # <<>>
  BY DEF Answer
<1>2. Cardinality(Citations(a)) = 0
  <2>1. Citations(a) = {}
    BY DEF Citations
  <2> QED
    BY <2>1, FS_EmptySet
<1>3. i \in Missing(a)
  <2>1. a.sentences[i].cites \subseteq CitedIds(a)
    BY DEF CitedIds
  <2> QED
    BY <2>1 DEF Missing
<1>4. Cardinality(Missing(a)) \in Nat /\ Cardinality(Missing(a)) > 0
  BY <1>3, MissingCount
<1>5. CitationRatio(a, n) = <<0, 1>>
  BY <1>2, <1>4 DEF CitationRatio
<1>6. Quality(a, n) = 50
  BY DEF Quality
<1>7. ClaimRatio(a, n) = <<s, len>>
  BY <1>1 DEF ClaimRatio
<1>8. s \in Nat /\ s <= len
  BY SupportedCount
<1>9. ConfidenceThreshold \in Nat
  BY ThresholdsOK
<1> HIDE DEF s, len
<1>10. 100 * ConfidenceThreshold * len >= 6800 * len
  <2>1. ASSUME NEW t \in Nat, t >= 68
        PROVE  100 * t * len >= 6800 * len
    BY <1>1, <2>1
  <2> QED
    BY <1>9, <2>1
<1>11. ~(6000 * s * 1 + 2500 * 0 * len + 15 * 50 * len * 1 >= 100 * ConfidenceThreshold * len * 1)
  BY <1>1, <1>8, <1>9, <1>10
<1>12. ~Confident(a, n)
  BY <1>5, <1>6, <1>7, <1>11 DEF Confident
<1> QED
  BY <1>12 DEF Grounded

-----------------------------------------------------------------------------
(* The context: Prune, the deduplicator, the order and the budget.         *)

\* The position a fold takes next is one of its positions.
LEMMA LastPosition ==
  ASSUME NEW n \in Nat, NEW T \in SUBSET (1..n), T # {}
  PROVE  Max(T) \in T
<1>1. IsFiniteSet(1..n)
  BY FS_Interval
<1>2. IsFiniteSet(T)
  BY <1>1, FS_Subset
<1>3. T \in SUBSET Int
  OBVIOUS
<1> QED BY <1>2, <1>3, MaxOf

\* The chunks that may be shown to the tenant of the request.
Shown == {c \in Chunks : Owner[c] \in {req.tenant, NoTenant}}

\* What is left of a ranking is its caller's or nobody's.
LEMMA PruneKeeps ==
  ASSUME NEW list \in Seq(Chunks)
  PROVE  Prune(list) \in Seq(Shown)
<1> DEFINE n == Len(list)
           S == 1..n
           A == Seq(Shown)
           step(own, c) == IF Owner[c] \in {req.tenant, NoTenant} THEN Append(own, c) ELSE own
           h == [p \in A \X S |-> step(p[1], list[p[2]])]
           iter == CHOOSE f : f = [T \in SUBSET S |->
                     IF T = {} THEN <<>> ELSE step(f[T \ {Max(T)}], list[Max(T)])]
<1>1. n \in Nat /\ DOMAIN list = S /\ \A i \in S : list[i] \in Chunks
  OBVIOUS
<1>2. <<>> \in A
  OBVIOUS
<1>3. ASSUME NEW own \in A, NEW c \in Chunks PROVE step(own, c) \in A
  <2>1. CASE Owner[c] \in {req.tenant, NoTenant}
    <3>1. c \in Shown
      BY <2>1 DEF Shown
    <3> QED BY <2>1, <3>1
  <2> QED BY <2>1
<1>4. Prune(list) = iter[S]
  BY <1>1 DEF Prune, FoldLeft, MapThenFoldSet
<1> HIDE DEF A
<1>5. h \in [A \X S -> A]
  <2> HIDE DEF step, S
  <2> QED BY <1>1, <1>3
<1> HIDE DEF h
<1>6. PICK g \in [SUBSET S -> A] : FoldsTo(g, SUBSET S, <<>>, h)
  <2> HIDE DEF n
  <2> QED BY <1>1, <1>2, <1>5, FoldExists
<1>7. \A T \in SUBSET S : T # {} => Max(T) \in T /\ Max(T) \in S
  <2> HIDE DEF n
  <2> QED BY <1>1, LastPosition
<1> HIDE DEF S, step
<1>8. g = [T \in SUBSET S |-> IF T = {} THEN <<>> ELSE step(g[T \ {Max(T)}], list[Max(T)])]
  <2>1. \A T \in SUBSET S : T # {} => h[<<g[T \ {Max(T)}], Max(T)>>] = step(g[T \ {Max(T)}], list[Max(T)])
    BY <1>6, <1>7 DEF h
  <2> QED BY <1>6, <2>1 DEF FoldsTo
<1>9. iter = [T \in SUBSET S |-> IF T = {} THEN <<>> ELSE step(iter[T \ {Max(T)}], list[Max(T)])]
  BY <1>8
<1> HIDE DEF iter
<1> DEFINE Q == {T \in SUBSET S : iter[T] \in A}
<1>10. {} \in Q
  BY <1>2, <1>9
<1>11. ASSUME NEW T \in SUBSET S, T # {}, \A x \in T : T \ {x} \in Q PROVE T \in Q
  <2>1. iter[T \ {Max(T)}] \in A /\ list[Max(T)] \in Chunks
    BY <1>1, <1>7, <1>11
  <2>2. iter[T] = step(iter[T \ {Max(T)}], list[Max(T)])
    BY <1>9, <1>11
  <2> QED BY <1>3, <2>1, <2>2
<1>12. S \in Q
  <2>1. IsFiniteSet(S)
    <3> HIDE DEF n
    <3> QED BY <1>1, FS_Interval DEF S
  <2> HIDE DEF Q
  <2>2. \A T \in SUBSET S : T # {} /\ (\A x \in T : T \ {x} \in Q) => T \in Q
    BY <1>11
  <2>3. \A T \in SUBSET S : T \in Q
    BY <1>10, <2>1, <2>2, Growing
  <2> QED BY <2>3
<1> QED BY <1>4, <1>12 DEF A

\* Lists of chunks of E no two of which are near-twins.
Apart(E) ==
  {list \in Seq(E) : \A i, j \in 1..Len(list) : i # j => ~AsNear(list[i], list[j])}

\* What the deduplicator keeps are candidates, and no two of them near-twins.
LEMMA DeduplicateKeeps ==
  ASSUME NEW E \in SUBSET Chunks, NEW list \in Seq(E)
  PROVE  Deduplicate(list) \in Apart(E)
<1> DEFINE n == Len(list)
           S == 1..n
           A == Apart(E)
           step(kept, c) == IF c \in Blank \/ \E i \in DOMAIN kept : Repeats(kept[i], c)
                            THEN kept ELSE Append(kept, c)
           h == [p \in A \X S |-> step(p[1], list[p[2]])]
           iter == CHOOSE f : f = [T \in SUBSET S |->
                     IF T = {} THEN <<>> ELSE step(f[T \ {Max(T)}], list[Max(T)])]
<1>1. n \in Nat /\ DOMAIN list = S /\ \A i \in S : list[i] \in E
  OBVIOUS
<1>2. <<>> \in A
  BY DEF Apart
<1>3. ASSUME NEW kept \in A, NEW c \in E PROVE step(kept, c) \in A
  <2>1. CASE \A i \in 1..Len(kept) : ~AsNear(kept[i], c)
    <3> DEFINE new == Append(kept, c)
               m == Len(kept)
    <3>1. /\ kept \in Seq(E) /\ m \in Nat
          /\ \A i, j \in 1..m : i # j => ~AsNear(kept[i], kept[j])
      BY DEF Apart
    <3>2. /\ new \in Seq(E) /\ Len(new) = m + 1 /\ new[m + 1] = c
          /\ \A i \in 1..m : new[i] = kept[i]
      BY <3>1
    <3>3. \A i \in 1..m : ~AsNear(c, kept[i])
      <4>1. \A i \in 1..m : kept[i] \in Chunks /\ c \in Chunks
        BY <3>1
      <4> QED BY <2>1, <4>1, ContextConstantsOK DEF AsNear
    <3> HIDE DEF new
    <3>4. ASSUME NEW i \in 1..(m + 1), NEW j \in 1..(m + 1), i # j PROVE ~AsNear(new[i], new[j])
      <4>1. CASE i \in 1..m /\ j \in 1..m
        BY <3>1, <3>2, <3>4, <4>1
      <4>2. CASE i = m + 1
        <5>1. j \in 1..m
          BY <3>1, <3>4, <4>2
        <5> QED BY <3>2, <3>3, <4>2, <5>1
      <4>3. CASE j = m + 1
        <5>1. i \in 1..m
          BY <3>1, <3>4, <4>3
        <5> QED BY <2>1, <3>2, <4>3, <5>1
      <4> QED BY <3>1, <4>1, <4>2, <4>3
    <3>5. new \in A
      BY <3>2, <3>4 DEF Apart
    <3> QED BY <3>5 DEF new
  <2>2. CASE \E i \in 1..Len(kept) : AsNear(kept[i], c)
    <3>1. DOMAIN kept = 1..Len(kept)
      BY DEF Apart
    <3> QED BY <2>2, <3>1 DEF Repeats
  <2> QED BY <2>1, <2>2
<1>4. Deduplicate(list) = iter[S]
  BY <1>1 DEF Deduplicate, FoldLeft, MapThenFoldSet
<1> HIDE DEF A
<1>5. h \in [A \X S -> A]
  <2> HIDE DEF step, S
  <2> QED BY <1>1, <1>3
<1> HIDE DEF h
<1>6. PICK g \in [SUBSET S -> A] : FoldsTo(g, SUBSET S, <<>>, h)
  <2> HIDE DEF n
  <2> QED BY <1>1, <1>2, <1>5, FoldExists
<1>7. \A T \in SUBSET S : T # {} => Max(T) \in T /\ Max(T) \in S
  <2> HIDE DEF n
  <2> QED BY <1>1, LastPosition
<1> HIDE DEF S, step
<1>8. g = [T \in SUBSET S |-> IF T = {} THEN <<>> ELSE step(g[T \ {Max(T)}], list[Max(T)])]
  <2>1. \A T \in SUBSET S : T # {} => h[<<g[T \ {Max(T)}], Max(T)>>] = step(g[T \ {Max(T)}], list[Max(T)])
    BY <1>6, <1>7 DEF h
  <2> QED BY <1>6, <2>1 DEF FoldsTo
<1>9. iter = [T \in SUBSET S |-> IF T = {} THEN <<>> ELSE step(iter[T \ {Max(T)}], list[Max(T)])]
  BY <1>8
<1> HIDE DEF iter
<1> DEFINE Q == {T \in SUBSET S : iter[T] \in A}
<1>10. {} \in Q
  BY <1>2, <1>9
<1>11. ASSUME NEW T \in SUBSET S, T # {}, \A x \in T : T \ {x} \in Q PROVE T \in Q
  <2>1. iter[T \ {Max(T)}] \in A /\ list[Max(T)] \in E
    BY <1>1, <1>7, <1>11
  <2>2. iter[T] = step(iter[T \ {Max(T)}], list[Max(T)])
    BY <1>9, <1>11
  <2> QED BY <1>3, <2>1, <2>2
<1>12. S \in Q
  <2>1. IsFiniteSet(S)
    <3> HIDE DEF n
    <3> QED BY <1>1, FS_Interval DEF S
  <2> HIDE DEF Q
  <2>2. \A T \in SUBSET S : T # {} /\ (\A x \in T : T \ {x} \in Q) => T \in Q
    BY <1>11
  <2>3. \A T \in SUBSET S : T \in Q
    BY <1>10, <2>1, <2>2, Growing
  <2> QED BY <2>3
<1> QED BY <1>4, <1>12 DEF A

\* Reordering takes every document to a place of its own.
LEMMA MiddleKeeps ==
  ASSUME NEW E \in SUBSET Chunks, NEW list \in Apart(E)
  PROVE  LostInTheMiddle(list) \in Apart(E)
<1> DEFINE n == Len(list)
           at(i) == IF 2 * i <= n + 1 THEN 2 * i - 1 ELSE 2 * (n - i + 1)
           new == LostInTheMiddle(list)
<1>1. list \in Seq(E) /\ n \in Nat /\ \A i \in 1..n : list[i] \in E
  BY DEF Apart
<1>2. \A i, j \in 1..n : i # j => ~AsNear(list[i], list[j])
  BY DEF Apart
<1> HIDE DEF n
<1>3. \A i \in 1..n : at(i) \in 1..n
  BY <1>1
<1>4. \A i, j \in 1..n : at(i) = at(j) => i = j
  BY <1>1
<1>5. new = [i \in 1..n |-> list[at(i)]]
  BY <1>1 DEF LostInTheMiddle, n
<1> HIDE DEF new, at
<1>6. new \in Seq(E) /\ Len(new) = n
  BY <1>1, <1>3, <1>5
<1>7. \A i, j \in 1..n : i # j => ~AsNear(new[i], new[j])
  BY <1>2, <1>3, <1>4, <1>5
<1> QED BY <1>6, <1>7 DEF Apart, new

\* An empty context costs nothing.
LEMMA NoTokens == Tokens(<<>>) = 0
<1> DEFINE iter == CHOOSE f : f = [T \in SUBSET {} |->
                     IF T = {} THEN 0 ELSE f[T \ {Max(T)}] + Size[<<>>[Max(T)]]]
           g == [T \in SUBSET {} |-> 0]
<1>1. g = [T \in SUBSET {} |-> IF T = {} THEN 0 ELSE g[T \ {Max(T)}] + Size[<<>>[Max(T)]]]
  OBVIOUS
<1> HIDE DEF g
<1>2. iter = [T \in SUBSET {} |-> IF T = {} THEN 0 ELSE iter[T \ {Max(T)}] + Size[<<>>[Max(T)]]]
  BY <1>1
<1> HIDE DEF iter
<1>3. iter[{}] = 0
  BY <1>2
<1>4. DOMAIN <<>> = {}
  OBVIOUS
<1>5. Tokens(<<>>) = iter[{}] + 0
  BY <1>4 DEF Tokens, FoldLeft, MapThenFoldSet, iter
<1> QED BY <1>3, <1>5

\* What is packed is within the budget.
LEMMA PackKeeps ==
  ASSUME NEW E \in SUBSET Chunks, NEW list \in Apart(E), NEW mt \in Nat, NEW mc \in Nat
  PROVE  Pack(list, mt, mc) \in Apart(E) /\ Fits(Pack(list, mt, mc), mt, mc)
<1> DEFINE fitting == {n \in 0..Len(list) : Fits(SubSeq(list, 1, n), mt, mc)}
           k == CHOOSE n \in fitting : \A m \in fitting : m <= n
           new == SubSeq(list, 1, k)
<1>1. list \in Seq(E) /\ Len(list) \in Nat
  BY DEF Apart
<1>2. 0 \in fitting
  <2>1. SubSeq(list, 1, 0) = <<>>
    BY <1>1
  <2>2. Fits(<<>>, mt, mc)
    <3>1. Len(<<>>) = 0
      OBVIOUS
    <3> QED BY <3>1, NoTokens DEF Fits
  <2>3. Fits(SubSeq(list, 1, 0), mt, mc)
    BY <2>1, <2>2
  <2>4. 0 \in 0..Len(list)
    BY <1>1
  <2> QED BY <2>3, <2>4
<1>3. k \in fitting
  <2>1. IsFiniteSet(0..Len(list))
    BY <1>1, FS_Interval
  <2>2. IsFiniteSet(fitting)
    BY <2>1, FS_Subset
  <2>3. fitting \in SUBSET Int
    BY <1>1
  <2> HIDE DEF fitting
  <2>4. \E n \in fitting : \A m \in fitting : m <= n
    BY <1>2, <2>2, <2>3, MaxOf
  <2> QED BY <2>4
<1> HIDE DEF k
<1>4. /\ k \in 0..Len(list) /\ new \in Seq(E) /\ Len(new) = k
      /\ \A i \in 1..k : new[i] = list[i]
  BY <1>1, <1>3
<1>5. new \in Apart(E)
  <2>1. \A i, j \in 1..Len(list) : i # j => ~AsNear(list[i], list[j])
    BY DEF Apart
  <2>2. \A i \in 1..k : i \in 1..Len(list)
    BY <1>1, <1>4
  <2> HIDE DEF new
  <2>3. \A i, j \in 1..k : i # j => ~AsNear(new[i], new[j])
    BY <1>4, <2>1, <2>2
  <2> QED BY <1>4, <2>3 DEF Apart
<1>6. Fits(new, mt, mc)
  BY <1>3
<1>7. Pack(list, mt, mc) = new
  BY DEF Pack, k
<1> QED BY <1>5, <1>6, <1>7

LEMMA ContextKeeps ==
  ASSUME NEW E \in SUBSET Chunks, NEW list \in Seq(E)
  PROVE  LET docs == BuildContext(list, MaxTokens, MaxChunks)
         IN  docs \in Apart(E) /\ Fits(docs, MaxTokens, MaxChunks)
BY PipelineConstantsOK, DeduplicateKeeps, MiddleKeeps, PackKeeps DEF BuildContext

-----------------------------------------------------------------------------
(* What the pipeline hands from stage to stage.                            *)

\* A route keeps a number of candidates.
LEMMA KeepsSome ==
  ASSUME NEW q \in Queries
  PROVE  RerankK(q) \in Nat
<1> USE UnderstandingConstantsOK
<1>1. CASE q.rerankK # {}
  <2>1. IsFiniteSet(q.rerankK) /\ q.rerankK \in SUBSET Nat
    BY PipelineConstantsOK
  <2>2. Max(q.rerankK) \in q.rerankK
    BY <1>1, <2>1, MaxOf
  <2> QED BY <1>1, <2>1, <2>2 DEF RerankK
<1>2. ASSUME NEW i, i \in DOMAIN KeepCap PROVE Min({DefaultRerankK, KeepCap[i]}) \in Nat
  <2> DEFINE S == {DefaultRerankK, KeepCap[i]}
  <2>1. DefaultRerankK \in Nat /\ KeepCap[i] \in Nat
    BY <1>2
  <2>2. \E x \in S : \A y \in S : x <= y
    BY <2>1
  <2>3. Min(S) \in S
    BY <2>2 DEF Min
  <2> QED BY <2>1, <2>3
<1>3. CASE q.rerankK = {}
  <2> DEFINE i == Intent(q)
  <2>1. i \in DOMAIN KeepFloor => KeepFloor[i] \in Nat
    OBVIOUS
  <2> HIDE DEF i
  <2> QED BY <1>2, <1>3, <2>1 DEF RerankK, Larger, i
<1> QED BY <1>1, <1>3

\* Candidates and documents are the caller's or nobody's; a context is one the
\* builder makes.
ContextInv ==
  /\ route.keep \in Nat
  /\ cands \in Seq(Shown)
  /\ ctx \in Apart(Shown)
  /\ Fits(ctx, MaxTokens, MaxChunks)

LEMMA FirstKeeps ==
  ASSUME NEW E, NEW list \in Seq(E), NEW n \in Nat
  PROVE  FirstOf(list, n) \in Seq(E)
<1> DEFINE m == IF Len(list) < n THEN Len(list) ELSE n
<1>1. m \in 0..Len(list)
  OBVIOUS
<1> HIDE DEF m
<1>2. SubSeq(list, 1, m) \in Seq(E)
  BY <1>1
<1> QED BY <1>2 DEF FirstOf, m

\* Whoever made the list, as long as its chunks may be shown.
LEMMA AssembleKeeps ==
  ASSUME NEW list \in Seq(Shown), Assemble(list), UNCHANGED req
  PROVE  ContextInv'
<1>1. Shown' = Shown /\ Shown \in SUBSET Chunks
  BY DEF Shown
<1>2. ctx' \in Apart(Shown) /\ Fits(ctx', MaxTokens, MaxChunks)
  BY <1>1, ContextKeeps DEF Assemble
<1>3. route'.keep \in Nat /\ cands' \in Seq(Shown)
  BY DEF Assemble, NoRoute
<1> QED BY <1>1, <1>2, <1>3 DEF ContextInv

LEMMA ContextInit == Init => ContextInv
<1> SUFFICES ASSUME Init PROVE ContextInv
  OBVIOUS
<1>1. route.keep = 0 /\ cands = <<>> /\ ctx = <<>>
  BY DEF Init, NoRoute
<1>2. <<>> \in Apart(Shown)
  BY DEF Apart
<1>3. Fits(<<>>, MaxTokens, MaxChunks)
  BY NoTokens, PipelineConstantsOK DEF Fits
<1> QED BY <1>1, <1>2, <1>3 DEF ContextInv

LEMMA ContextStep ==
  ASSUME ContextInv, [Next]_vars
  PROVE  ContextInv'
<1>1. route.keep \in Nat /\ cands \in Seq(Shown)
  BY DEF ContextInv
<1>2. ASSUME UNCHANGED <<req, cands, ctx>>, route'.keep \in Nat PROVE ContextInv'
  BY <1>2 DEF ContextInv, Shown
<1>3. CASE Scan
  <2>1. PICK q \in Queries : route' = Route(q, req.rerank) \/ UNCHANGED route
    BY <1>3 DEF Scan
  <2>2. route'.keep \in Nat
    BY <1>1, <2>1, KeepsSome DEF Route
  <2> QED BY <1>2, <1>3, <2>2 DEF Scan
<1>4. CASE Retrieved
  <2>1. PICK r \in Rankings :
          LET own == Prune(r) IN
          IF req.rerank /\ own # <<>>
          THEN pc' = "rerank" /\ cands' = own /\ UNCHANGED <<route, ctx>>
          ELSE Assemble(FirstOf(own, route.keep))
    BY <1>4 DEF Retrieved
  <2>2. r \in Seq(Chunks)
    BY DEF Rankings, SeqOf
  <2> DEFINE own == Prune(r)
  <2>3. own \in Seq(Shown)
    BY <2>2, PruneKeeps
  <2>4. UNCHANGED req
    BY <1>4 DEF Retrieved
  <2> HIDE DEF own
  <2>5. CASE Assemble(FirstOf(own, route.keep))
    BY <1>1, <2>3, <2>4, <2>5, FirstKeeps, AssembleKeeps
  <2>6. CASE cands' = own /\ UNCHANGED <<route, ctx>>
    BY <2>3, <2>4, <2>6 DEF ContextInv, Shown
  <2> QED BY <2>1, <2>5, <2>6 DEF own
<1>5. CASE Reranked
  <2>1. PICK r \in SeqOf(ToSet(cands), route.keep) : Assemble(r)
    BY <1>5 DEF Reranked
  <2>2. ToSet(cands) \in SUBSET Shown
    BY <1>1 DEF ToSet
  <2>3. r \in Seq(Shown)
    BY <2>2 DEF SeqOf
  <2> QED BY <1>5, <2>1, <2>3, AssembleKeeps DEF Reranked
<1>6. CASE RerankFails
  BY <1>1, <1>6, FirstKeeps, AssembleKeeps DEF RerankFails
<1>7. CASE \/ RetrievalFails \/ Generated \/ Timeout \/ GenerationFails \/ Token \/ LastToken
           \/ Complete \/ Disconnect \/ Finished \/ UNCHANGED vars
  <2>1. UNCHANGED <<req, route, cands, ctx>>
    BY <1>7 DEF RetrievalFails, Generated, Timeout, GenerationFails, Token, LastToken,
                Complete, Disconnect, Finished, vars
  <2> QED BY <1>1, <1>2, <2>1
<1> QED BY <1>3, <1>4, <1>5, <1>6, <1>7 DEF Next

LEMMA ContextAlways ==
  Spec => []ContextInv
<1>1. ContextInv /\ [Next]_vars => ContextInv'
  BY ContextStep
<1> QED
  BY <1>1, ContextInit, PTL DEF Spec

\* No retriever and no reranker can put a chunk of another tenant into the
\* prompt, whatever they return.
THEOREM OwnTenant ==
  Spec => []OwnTenantOnly
<1>1. ContextInv => OwnTenantOnly
  BY DEF ContextInv, Apart, Shown, OwnTenantOnly
<1> QED
  BY <1>1, ContextAlways, PTL

\* The prompt keeps its budgets and no two of its documents are near-twins,
\* for any similarity that is symmetric, transitive or not.
THEOREM PromptIsSound ==
  Spec => []PromptSound
<1>1. ASSUME ContextInv PROVE PromptSound
  <2>1. Fits(ctx, MaxTokens, MaxChunks)
    BY <1>1 DEF ContextInv
  <2>2. ctx \in Seq(Shown) /\ \A i, j \in 1..Len(ctx) : i # j => ~AsNear(ctx[i], ctx[j])
    BY <1>1 DEF ContextInv, Apart
  <2>3. DOMAIN ctx = 1..Len(ctx) /\ Len(ctx) \in Nat
    BY <2>2
  <2>4. \A i, j \in 1..Len(ctx) : i < j => i # j
    BY <2>3
  <2> QED BY <2>1, <2>2, <2>3, <2>4 DEF PromptSound
<1> QED
  BY <1>1, ContextAlways, PTL

-----------------------------------------------------------------------------
(* A query.                                                                *)

\* An answer that claims something and cites nothing.
Uncited(a) == /\ \E i \in DOMAIN a.sentences : a.sentences[i].claim
              /\ CitedIds(a) = {}

\* What a reply owes to the answer and the context it was built from.
Vouched(r, a) ==
  /\ ctx = <<>> => ~r.grounded /\ r.insufficient /\ r.confidence = "none"
  /\ conf.mandatory /\ conf.validator /\ r.answer = "raw" => ~Verdict(a, Len(ctx)).fallback
  /\ req.kind = "stream" => r.citations \subseteq 1..Len(ctx)
  /\ Validated /\ r.grounded /\ ~a.uncertain =>
       CitedIds(a) \subseteq 1..Len(ctx) /\ (ConfidenceThreshold >= 68 => ~Uncited(a))

ReplyInv ==
  /\ req.kind \in {"json", "stream"}
  /\ ans \in Answer
  /\ pc \notin {"complete", "over"} => screen = "raw"
  /\ pc = "complete" => req.kind = "stream"
  /\ out = "answered" => pc = "over"
  /\ pc = "complete" \/ out = "answered" =>
       /\ Vouched(reply, ans)
       /\ req.kind = "stream" => screen = reply.answer

-----------------------------------------------------------------------------

LEMMA JudgedFields ==
  ASSUME NEW a, NEW own
  PROVE  /\ Validated => /\ Judged(a, own).fallback = Verdict(a, Len(ctx)).fallback
                         /\ Judged(a, own).grounded = Verdict(a, Len(ctx)).grounded
         /\ Judged(a, own) =
              [grounded |-> Judged(a, own).grounded, insufficient |-> Judged(a, own).insufficient,
               fallback |-> Judged(a, own).fallback, confidence |-> Judged(a, own).confidence]
<1>1. Verdict(a, Len(ctx)) =
        [grounded |-> Verdict(a, Len(ctx)).grounded,
         insufficient |-> Verdict(a, Len(ctx)).insufficient,
         fallback |-> Verdict(a, Len(ctx)).fallback,
         confidence |-> Verdict(a, Len(ctx)).confidence]
  BY DEF Verdict
<1> HIDE DEF Verdict
<1> QED
  BY <1>1 DEF Judged, Claimed

\* A reply is as good as the verdict it rests on.
LEMMA ReplyVouched ==
  ASSUME NEW a \in Answer, NEW own, NEW declared,
         req.kind = "stream" => declared = {}
  PROVE  /\ Vouched(ReplyTo(a, own, declared), a)
         /\ ReplyTo(a, own, declared).answer =
              IF ReplyTo(a, own, declared).fallback THEN Replacement ELSE "raw"
<1> DEFINE j == Judged(a, own)
           v == EmptyOverride(j)
           r == ReplyTo(a, own, declared)
<1>1. /\ r.grounded = v.grounded /\ r.insufficient = v.insufficient
      /\ r.fallback = v.fallback /\ r.confidence = v.confidence
      /\ r.answer = IF v.fallback THEN Replacement ELSE "raw"
      /\ r.citations = Cited(a, v, declared)
  BY DEF ReplyTo
<1>2. /\ v.fallback = j.fallback
      /\ ctx # <<>> => v = j
      /\ ctx = <<>> => v.grounded = FALSE /\ v.insufficient = TRUE /\ v.confidence = "none"
  <2> HIDE DEF j
  <2>1. j = [grounded |-> j.grounded, insufficient |-> j.insufficient,
             fallback |-> j.fallback, confidence |-> j.confidence]
    BY JudgedFields DEF j
  <2> QED
    BY <2>1 DEF EmptyOverride
<1> HIDE DEF j, v, r
<1>3. ctx = <<>> => ~r.grounded /\ r.insufficient /\ r.confidence = "none"
  BY <1>1, <1>2
<1>4. ASSUME conf.mandatory, conf.validator, r.answer = "raw"
      PROVE  ~Verdict(a, Len(ctx)).fallback
  <2>1. ~v.fallback
    BY <1>1, <1>4 DEF Replacement
  <2> QED
    BY <1>2, <1>4, <2>1, JudgedFields DEF Validated, j
<1>5. ASSUME req.kind = "stream"
      PROVE  r.citations \subseteq 1..Len(ctx)
  BY <1>1, <1>5 DEF Cited
<1>6. ASSUME Validated, r.grounded, ~a.uncertain
      PROVE  CitedIds(a) \subseteq 1..Len(ctx) /\ (ConfidenceThreshold >= 68 => ~Uncited(a))
  <2>1. Verdict(a, Len(ctx)).grounded
    BY <1>1, <1>2, <1>6, JudgedFields DEF j
  <2>2. Grounded(a, Len(ctx))
    BY <1>6, <2>1 DEF Verdict
  <2>3. CitedIds(a) \subseteq 1..Len(ctx)
    BY <2>2 DEF Grounded, Phantoms
  <2>4. ConfidenceThreshold >= 68 => ~Uncited(a)
    BY <2>2, UncitedNeverGrounded DEF Uncited
  <2> QED
    BY <2>3, <2>4
<1> QED
  BY <1>1, <1>3, <1>4, <1>5, <1>6 DEF Vouched, r

-----------------------------------------------------------------------------

LEMMA ReplyInit ==
  ASSUME Init
  PROVE  ReplyInv
<1>1. NoAnswer \in Answer
  BY DEF NoAnswer, Answer
<1> QED
  BY <1>1 DEF Init, ReplyInv

LEMMA AnswerTyped ==
  ASSUME NEW u \in BOOLEAN, NEW q \in Qualities, NEW text \in SeqOf(Sentences, MaxSentences)
  PROVE  [uncertain |-> u, sentences |-> text, quality |-> q] \in Answer
<1>1. text \in Seq(Sentence)
  BY PipelineConstantsOK DEF SeqOf
<1> QED
  BY <1>1, PipelineConstantsOK DEF Answer

\* The steps that neither touch an answer nor finish with one.
LEMMA Uneventful ==
  ASSUME ReplyInv, UNCHANGED <<conf, req, ans, screen, reply>>,
         pc \notin {"over", "complete"} \/ UNCHANGED ctx,
         pc' \notin {"complete"}, out' # "answered",
         pc = "over" => pc' = "over", pc = "complete" => pc' = "over"
  PROVE  ReplyInv'
BY DEF ReplyInv

LEMMA ReplyStep ==
  ASSUME ReplyInv, [Next]_vars
  PROVE  ReplyInv'
<1>1. CASE Scan
  BY <1>1, Uneventful DEF Scan, End, ReplyInv
<1>2. CASE Retrieved \/ RetrievalFails \/ Reranked \/ RerankFails
  <2>1. ASSUME NEW list, Assemble(list) PROVE pc' = "generate"
    BY <2>1 DEF Assemble
  <2>2. pc \in {"retrieve", "rerank"} /\ UNCHANGED <<conf, req, ans, screen, reply>>
    BY <1>2 DEF Retrieved, RetrievalFails, Reranked, RerankFails
  <2>3. (pc' \in {"rerank", "generate"} /\ UNCHANGED out) \/ End("failed")
    <3> HIDE DEF Assemble
    <3> QED
      BY <1>2, <2>1 DEF Retrieved, RetrievalFails, Reranked, RerankFails
  <2> QED
    BY <2>2, <2>3, Uneventful DEF End, ReplyInv
<1>3. CASE Generated
  <2>1. PICK u \in BOOLEAN, q \in Qualities, text \in SeqOf(Sentences, MaxSentences),
             own \in [grounded : BOOLEAN, insufficient : BOOLEAN], declared \in Declared :
          LET a == [uncertain |-> u, sentences |-> text, quality |-> q] IN
          /\ ans' = a
          /\ IF Raises(a)
             THEN End("failed") /\ UNCHANGED reply
             ELSE End("answered") /\ reply' = ReplyTo(a, own, declared)
    BY <1>3 DEF Generated
  <2>2. req.kind = "json" /\ pc = "generate" /\ UNCHANGED <<conf, req, ctx, screen>>
    BY <1>3 DEF Generated
  <2>3. ans' \in Answer
    BY <2>1, AnswerTyped
  <2>4. pc' = "over"
    BY <2>1 DEF End
  <2>5. ASSUME out' = "answered" PROVE Vouched(reply, ans)'
    <3>1. reply' = ReplyTo(ans', own, declared)
      BY <2>1, <2>5 DEF End
    <3>2. Vouched(reply', ans')
      BY <2>2, <2>3, <3>1, ReplyVouched
    <3> QED
      BY <2>2, <3>2 DEF Vouched, Validated
  <2> QED
    BY <2>2, <2>3, <2>4, <2>5 DEF ReplyInv
<1>4. CASE Timeout \/ GenerationFails
  BY <1>4, Uneventful DEF Timeout, GenerationFails, End, ReplyInv
<1>5. CASE Token
  <2>1. PICK s \in Sentences : ans' = [ans EXCEPT !.sentences = Append(@, s)]
    BY <1>5 DEF Token
  <2>2. ans' \in Answer
    <3>1. s \in Sentence /\ ans.sentences \in Seq(Sentence)
      BY PipelineConstantsOK DEF ReplyInv, Answer
    <3>2. Append(ans.sentences, s) \in Seq(Sentence)
      BY <3>1
    <3> QED
      BY <2>1, <3>2 DEF ReplyInv, Answer
  <2>3. pc = "generate" /\ screen' = "raw" /\ UNCHANGED <<conf, req, pc, out>>
    BY <1>5 DEF Token, Streaming
  <2>4. pc' # "complete" /\ pc' # "over" /\ out' # "answered"
    BY <2>3 DEF ReplyInv
  <2>5. req'.kind \in {"json", "stream"}
    BY <2>3 DEF ReplyInv
  <2> QED
    BY <2>2, <2>3, <2>4, <2>5 DEF ReplyInv
<1>6. CASE LastToken
  <2>1. PICK u \in BOOLEAN, q \in Qualities :
          LET a == [ans EXCEPT !.uncertain = u, !.quality = q]
              r == ReplyTo(a, [grounded |-> FALSE, insufficient |-> FALSE], {})
          IN  /\ ans' = a
              /\ IF Raises(a)
                 THEN End("failed") /\ UNCHANGED <<screen, reply>>
                 ELSE /\ pc' = "complete"
                      /\ reply' = r
                      /\ ShowReplacement(r)
                      /\ UNCHANGED out
    BY <1>6 DEF LastToken
  <2>2. pc = "generate" /\ req.kind = "stream" /\ UNCHANGED <<conf, req, ctx>>
    BY <1>6 DEF LastToken, Streaming
  <2>3. ans' \in Answer
    BY <2>1, PipelineConstantsOK DEF ReplyInv, Answer
  <2>4. CASE End("failed")
    BY <2>2, <2>3, <2>4 DEF ReplyInv, End
  <2>5. CASE /\ pc' = "complete" /\ UNCHANGED out
             /\ reply' = ReplyTo(ans', [grounded |-> FALSE, insufficient |-> FALSE], {})
             /\ ShowReplacement(reply')
    <3>1. /\ Vouched(reply', ans')
          /\ reply'.answer = IF reply'.fallback THEN Replacement ELSE "raw"
      BY <2>3, <2>5, ReplyVouched
    <3>2. Vouched(reply, ans)'
      BY <2>2, <3>1 DEF Vouched, Validated
    <3>3. screen' = reply'.answer
      BY <2>2, <2>5, <3>1 DEF ShowReplacement, ReplyInv
    <3>4. out' # "answered"
      BY <2>2, <2>5 DEF ReplyInv
    <3> QED
      BY <2>2, <2>3, <2>5, <3>2, <3>3, <3>4 DEF ReplyInv
  <2> QED
    BY <2>1, <2>4, <2>5
<1>7. CASE Complete
  BY <1>7 DEF Complete, End, ReplyInv, Vouched, Validated
<1>8. CASE Disconnect
  BY <1>8, Uneventful DEF Disconnect, End
<1>9. CASE Finished \/ UNCHANGED vars
  BY <1>9 DEF Finished, vars, ReplyInv, Vouched, Validated
<1> QED
  BY <1>1, <1>2, <1>3, <1>4, <1>5, <1>6, <1>7, <1>8, <1>9 DEF Next

\* What a reply owes to its answer and its context holds from the step that
\* builds it to the end of the query.
LEMMA ReplyAlways ==
  Spec => []ReplyInv
<1>1. Init => ReplyInv
  BY ReplyInit
<1>2. ReplyInv /\ [Next]_vars => ReplyInv'
  BY ReplyStep
<1> QED
  BY <1>1, <1>2, PTL DEF Spec

\* No context, no grounding: stage 7's override holds on every path that ends
\* with an answer.
THEOREM EmptyContext ==
  Spec => []EmptyNeverGrounded
<1>1. ReplyInv => EmptyNeverGrounded
  BY DEF ReplyInv, Vouched, EmptyNeverGrounded
<1> QED
  BY <1>1, ReplyAlways, PTL

\* Mandatory grounding cannot be switched off by the request.
THEOREM Mandatory ==
  Spec => []MandatoryHolds
<1>1. ReplyInv => MandatoryHolds
  BY DEF ReplyInv, Vouched, MandatoryHolds
<1> QED
  BY <1>1, ReplyAlways, PTL

\* Whatever was streamed before validation, the client of a finished stream
\* displays the answer the server stands by.
THEOREM ScreenAgrees ==
  Spec => []ScreenShowsAnswer
<1>1. ReplyInv => ScreenShowsAnswer
  BY DEF ReplyInv, ScreenShowsAnswer
<1> QED
  BY <1>1, ReplyAlways, PTL

\* The citations of a finished stream resolve.
THEOREM StreamCites ==
  Spec => []StreamCitesContext
<1>1. ReplyInv => StreamCitesContext
  BY DEF ReplyInv, Vouched, StreamCitesContext
<1> QED
  BY <1>1, ReplyAlways, PTL

\* A validated answer reported as grounded cites its context and nothing else,
\* and cites it at all when it claims something, provided confidence_threshold
\* is at least 0.68 (its default is 0.70).
THEOREM GroundedCites ==
  ASSUME ConfidenceThreshold >= 68
  PROVE  Spec => []GroundedIsCited
<1>1. ReplyInv => GroundedIsCited
  BY DEF ReplyInv, Vouched, Uncited, GroundedIsCited
<1> QED
  BY <1>1, ReplyAlways, PTL

=============================================================================
