------------------------- MODULE QueryUnderstanding -------------------------
(***************************************************************************)
(* What the pipeline decides about a query before it retrieves anything:   *)
(* StandardQueryPreprocessor, PromptGuard, QueryClassifier, QueryRouter.   *)
(*                                                                         *)
(* A query is what they look at: its length as typed and as normalised,    *)
(* the families of intent patterns it matches, the weights of the          *)
(* injection patterns it matches (in percent), and the depths its sender   *)
(* asks for, as a set of none or one number.                               *)
(***************************************************************************)
EXTENDS Integers, Sequences, FiniteSets, FiniteSetsExt

CONSTANTS
  MinLength,        \* min_query_length
  MaxLength,        \* max_query_length
  GuardEnabled,     \* prompt_injection_detection_enabled
  HighRisk,         \* prompt_injection_threshold, in percent
  DefaultTopK,      \* default_retrieval_top_k
  DefaultRerankK,   \* default_rerank_top_k
  TopFloor,         \* the depth an intent calls for: summary 12, comparison 14, multi_hop 15
  KeepFloor,        \* and how many are kept: summary, comparison 6, multi_hop 7
  KeepCap           \* no more than 4 for a definition

Intents == {"summary", "comparison", "multi_hop", "factual", "definition", "exploratory"}

ASSUME UnderstandingConstantsOK ==
  /\ MinLength \in Nat \ {0} /\ MaxLength \in Nat /\ MinLength <= MaxLength
  /\ GuardEnabled \in BOOLEAN /\ HighRisk \in 0..100
  /\ DefaultTopK \in Nat \ {0} /\ DefaultRerankK \in Nat \ {0}
  /\ \A f \in {TopFloor, KeepFloor, KeepCap} : DOMAIN f \subseteq Intents /\ \A i \in DOMAIN f : f[i] \in Nat \ {0}

-----------------------------------------------------------------------------
(* Whether the query is answered at all.                                   *)

\* Blank, too short or too long once normalised: QueryValidationError.
WellFormed(q) == q.typed > 0 /\ q.length \in MinLength..MaxLength

\* The gravest pattern decides; several light ones do not add up.
Risk(q) == Max(q.marks \cup {0})

Safe(q) == GuardEnabled => Risk(q) < HighRisk

Accepted(q) == WellFormed(q) /\ Safe(q)

-----------------------------------------------------------------------------
(* How deep the pipeline searches for it.                                  *)

\* The families of patterns in the order they are tried.
Precedence == <<"summary", "comparison", "multi_hop", "factual", "definition">>

Intent(q) ==
  LET matched == {i \in DOMAIN Precedence : Precedence[i] \in q.families}
  IN  IF matched = {} THEN "exploratory" ELSE Precedence[Min(matched)]

Larger(m, n) == IF m < n THEN n ELSE m

TopK(q) ==
  LET i == Intent(q) IN
  IF q.topK # {} THEN Max(q.topK)
  ELSE IF i \in DOMAIN TopFloor THEN Larger(DefaultTopK, TopFloor[i]) ELSE DefaultTopK

RerankK(q) ==
  LET i == Intent(q) IN
  IF q.rerankK # {} THEN Max(q.rerankK)
  ELSE IF i \in DOMAIN KeepFloor THEN Larger(DefaultRerankK, KeepFloor[i])
  ELSE IF i \in DOMAIN KeepCap THEN Min({DefaultRerankK, KeepCap[i]})
  ELSE DefaultRerankK

\* A reranker wants at least as many candidates as it is to keep.
Route(q, rerank) ==
  [pool |-> IF rerank THEN Larger(TopK(q), RerankK(q)) ELSE TopK(q), keep |-> RerankK(q)]

=============================================================================
