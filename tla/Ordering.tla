------------------------------- MODULE Ordering -------------------------------
(***************************************************************************)
(* Python's sorted(), as its callers use it: the members of a finite set   *)
(* in the order of a relation, a set of pairs.  Where a sort has to be     *)
(* stable the relation itself says how ties are broken, so that it is a    *)
(* total order and there is one result.                                    *)
(***************************************************************************)
EXTENDS Integers, FiniteSets

\* The members of S that come before x.
AheadOf(S, order, x) == {y \in S : <<y, x>> \in order}

\* S as a sequence: the i-th has i - 1 ahead of it.
Arranged(S, order) ==
  [i \in 1..Cardinality(S) |-> CHOOSE x \in S : Cardinality(AheadOf(S, order, x)) = i - 1]

\* The relations for which there is one such sequence.
IsTotalOrder(S, order) ==
  /\ \A x \in S : <<x, x>> \notin order
  /\ \A x, y \in S : x # y => <<x, y>> \in order \/ <<y, x>> \in order
  /\ \A x, y, z \in S : <<x, y>> \in order /\ <<y, z>> \in order => <<x, z>> \in order

=============================================================================
