------------------------------ MODULE RankFusion ------------------------------
(***************************************************************************)
(* Reciprocal Rank Fusion of two ranked lists of chunks, the strategy the  *)
(* HybridRetriever uses unless it is given another one.  A list never      *)
(* names a chunk twice: chunk_embeddings has one row for a chunk.          *)
(*                                                                         *)
(* A score is a fraction <<numerator, denominator>> of integers, so that   *)
(* comparing two scores is exact.                                          *)
(***************************************************************************)
EXTENDS Ordering, Sequences, SequencesExt

CONSTANT RrfK        \* the rank constant k of ReciprocalRankFusion

ASSUME RrfKOK == RrfK \in Nat \ {0}     \* __init__ raises ValueError otherwise

\* The score of a chunk by its two ranks; rank 0 stands for "not in that list".
ScoreOf(d, s) ==
  CASE d > 0 /\ s > 0 -> <<2 * RrfK + d + s, (RrfK + d) * (RrfK + s)>>
    [] d > 0 /\ s = 0 -> <<1, RrfK + d>>
    [] OTHER          -> <<1, RrfK + s>>

Higher(x, y) == x[1] * y[2] > y[1] * x[2]

RankIn(list, c) == SelectInSeq(list, LAMBDA e : e = c)

\* The keys of fused_map.
Fused(dense, sparse) == ToSet(dense) \cup ToSet(sparse)

\* When a key was inserted: those of the dense list first.
Insertion(dense, sparse, c) ==
  IF RankIn(dense, c) > 0 THEN RankIn(dense, c) ELSE Len(dense) + RankIn(sparse, c)

Score(dense, sparse, c) == ScoreOf(RankIn(dense, c), RankIn(sparse, c))

\* A chunk is ahead of another one by its score; sorted(..., reverse=True) is
\* stable, so that equal scores keep the order of their insertion.
IsAhead(dense, sparse, b, c) ==
  \/ Higher(Score(dense, sparse, b), Score(dense, sparse, c))
  \/ /\ ~Higher(Score(dense, sparse, c), Score(dense, sparse, b))
     /\ Insertion(dense, sparse, b) < Insertion(dense, sparse, c)

FusedOrder(dense, sparse) ==
  {p \in Fused(dense, sparse) \X Fused(dense, sparse) : IsAhead(dense, sparse, p[1], p[2])}

Sorted(dense, sparse) == Arranged(Fused(dense, sparse), FusedOrder(dense, sparse))

\* The first n elements of a list, fewer when it is shorter: list[:n].
First(list, n) == SubSeq(list, 1, IF Len(list) < n THEN Len(list) ELSE n)

Fuse(dense, sparse, topK) == First(Sorted(dense, sparse), topK)

=============================================================================
