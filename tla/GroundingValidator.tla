-------------------------- MODULE GroundingValidator --------------------------
(***************************************************************************)
(* GroundingValidator.validate: the verdict on an answer against a context *)
(* of n documents, whose citation identifiers are 1..n.                    *)
(*                                                                         *)
(* An answer is                                                            *)
(*   uncertain   it contains one of the phrases that declare uncertainty   *)
(*   sentences   each with the identifiers it cites, whether it makes a    *)
(*               claim (has content words) and whether the evaluator finds *)
(*               it in the evidence it is shown                            *)
(*   quality     the mean score, in percent and at most 100, of the        *)
(*               documents it cites                                        *)
(* A sentence names an identifier at most once.  Ratios are compared as    *)
(* fractions of integers; the code rounds the confidence to four digits    *)
(* before it compares it.                                                  *)
(***************************************************************************)
EXTENDS Integers, Sequences, FiniteSets

CONSTANTS
  GroundingThreshold,     \* grounding_threshold, in percent
  ConfidenceThreshold     \* confidence_threshold, in percent

ASSUME ThresholdsOK == GroundingThreshold \in 0..100 /\ ConfidenceThreshold \in 0..100

Sentence == [cites : SUBSET Nat, claim : BOOLEAN, entailed : BOOLEAN]

Answer == [uncertain : BOOLEAN, sentences : Seq(Sentence), quality : 0..100]

CitedIds(a)    == UNION {a.sentences[i].cites : i \in DOMAIN a.sentences}
Phantoms(a, n) == CitedIds(a) \ (1..n)

\* Every occurrence of a citation, with the sentence it stands in.
Citations(a) == {p \in (DOMAIN a.sentences) \X CitedIds(a) : p[2] \in a.sentences[p[1]].cites}

Missing(a) == {i \in DOMAIN a.sentences :
                 a.sentences[i].claim /\ a.sentences[i].cites = {}}

CitedUpTo(a, i) == \E j \in 1..i : a.sentences[j].cites # {}

\* A sentence that cites a document that is not there is unsupported; so is a
\* claim without a citation when no sentence up to it has one.
Supported(a, n) ==
  {i \in DOMAIN a.sentences :
     /\ a.sentences[i].entailed
     /\ a.sentences[i].cites \subseteq 1..n
     /\ i \in Missing(a) => CitedUpTo(a, i)}

\* Ratios as <<numerator, denominator>>.
ClaimRatio(a, n) == IF a.sentences = <<>> THEN <<1, 1>>
                    ELSE <<Cardinality(Supported(a, n)), Len(a.sentences)>>

\* 1 - (2 * invalid + missing) / (total + missing), not below 0.
CitationRatio(a, n) ==
  LET total   == Cardinality(Citations(a))
      missing == Cardinality(Missing(a))
      valid   == total - 2 * Cardinality(Phantoms(a, n))
  IN  IF total = 0 THEN <<IF missing > 0 THEN 0 ELSE 1, 1>>
      ELSE <<IF valid > 0 THEN valid ELSE 0, total + missing>>

\* Without a resolved citation the quality of the evidence counts as one half.
Quality(a, n) == IF CitedIds(a) \cap (1..n) # {} THEN a.quality ELSE 50

\* 0.60 * claims + 0.25 * citations + 0.15 * quality >= confidence_threshold
Confident(a, n) ==
  LET g == ClaimRatio(a, n)
      c == CitationRatio(a, n)
  IN  6000 * g[1] * c[2] + 2500 * c[1] * g[2] + 15 * Quality(a, n) * g[2] * c[2]
        >= 100 * ConfidenceThreshold * g[2] * c[2]

Grounded(a, n) ==
  LET g == ClaimRatio(a, n)
  IN  /\ Phantoms(a, n) = {}
      /\ 100 * g[1] >= GroundingThreshold * g[2]
      /\ Confident(a, n)

\* fallback says that the answer is replaced (or, in mode raise, refused with
\* an exception).
Verdict(a, n) ==
  IF a.uncertain
  THEN [grounded |-> TRUE, insufficient |-> TRUE, fallback |-> FALSE, confidence |-> "full"]
  ELSE IF n = 0
  THEN [grounded |-> FALSE, insufficient |-> TRUE, fallback |-> TRUE, confidence |-> "none"]
  ELSE [grounded |-> Grounded(a, n), insufficient |-> FALSE,
        fallback |-> ~Grounded(a, n), confidence |-> "scored"]

=============================================================================
