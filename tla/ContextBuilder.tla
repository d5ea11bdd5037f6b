---------------------------- MODULE ContextBuilder ----------------------------
(***************************************************************************)
(* ContextBuilder.build_context: from ranked candidates to the numbered    *)
(* documents of the prompt.  A candidate list is in descending order of    *)
(* score, as the fusion and every reranker leave it, so that "the best"    *)
(* candidate is the first one.  The citation [i] is the i-th document.     *)
(* Ordering lost_in_the_middle and compression none, the defaults.         *)
(***************************************************************************)
EXTENDS Integers, Sequences, SequencesExt

CONSTANTS
  Chunks,       \* the chunks of the store
  Near,         \* pairs of chunks the deduplicator takes for the same text
  Blank,        \* chunks whose text is only white space
  Size,         \* Size[c]: tokens of the formatted block of chunk c
  Separator     \* tokens of the blank line between two blocks

\* Equal texts and Jaccard similarity do not ask which chunk comes first.
ASSUME ContextConstantsOK ==
  /\ Near \subseteq Chunks \X Chunks
  /\ \A c \in Chunks : <<c, c>> \in Near
  /\ \A b, c \in Chunks : <<b, c>> \in Near => <<c, b>> \in Near
  /\ Size \in [Chunks -> Nat] /\ Separator \in Nat

AsNear(b, c) == <<b, c>> \in Near

\* Whether a candidate repeats one that is already kept.
Repeats(b, c) == AsNear(b, c)

\* From the best to the worst, a candidate is kept unless its text is blank or
\* near-identical to that of a kept one.  Near is not transitive: what is kept
\* depends on the order.
Deduplicate(cands) ==
  LET keep(kept, c) ==
        IF c \in Blank \/ \E i \in DOMAIN kept : Repeats(kept[i], c)
        THEN kept ELSE Append(kept, c)
  IN  FoldLeft(keep, <<>>, cands)

\* Ranks 1, 3, 5, ... from the front, ranks 2, 4, 6, ... from the back.
LostInTheMiddle(list) ==
  LET n == Len(list)
  IN  [i \in 1..n |-> IF 2 * i <= n + 1 THEN list[2 * i - 1] ELSE list[2 * (n - i + 1)]]

\* Tokens of the blocks and of the separators between them.
Tokens(docs) ==
  FoldLeft(LAMBDA sum, c : sum + Size[c], 0, docs)
    + (IF docs = <<>> THEN 0 ELSE Separator * (Len(docs) - 1))

Fits(docs, maxTokens, maxChunks) == Len(docs) <= maxChunks /\ Tokens(docs) <= maxTokens

\* Mutant: the separators between the blocks are not counted.
PackBlocks(list, maxTokens, maxChunks) ==
  LET blocks(n) == FoldLeft(LAMBDA sum, c : sum + Size[c], 0, SubSeq(list, 1, n))
      fitting   == {n \in 0..Len(list) : n <= maxChunks /\ blocks(n) <= maxTokens}
  IN  SubSeq(list, 1, CHOOSE n \in fitting : \A m \in fitting : m <= n)

\* Blocks are added from the front until one does not fit: nothing behind that
\* one is tried.
Pack(list, maxTokens, maxChunks) ==
  LET fitting == {n \in 0..Len(list) : Fits(SubSeq(list, 1, n), maxTokens, maxChunks)}
  IN  SubSeq(list, 1, CHOOSE n \in fitting : \A m \in fitting : m <= n)

BuildContext(cands, maxTokens, maxChunks) ==
  Pack(LostInTheMiddle(Deduplicate(cands)), maxTokens, maxChunks)

=============================================================================
