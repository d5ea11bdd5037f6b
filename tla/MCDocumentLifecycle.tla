------------------------ MODULE MCDocumentLifecycle ------------------------
(* Small instances of DocumentLifecycle for TLC.                           *)
EXTENDS DocumentRefinement, Integers, TLC

\* Requests are told apart only by what they do: safety runs permute them.
Symmetry == Permutations(Requests)

\* Symmetry is not sound for liveness.  There the requests are numbers that
\* begin in their order, and the first one is made for a given tenant: that
\* leaves one behaviour of those that only rename requests and tenants.
SomeTenant == CHOOSE t \in Tenants : TRUE

BeginInOrder ==
  \A r \in Requests :
    IF r - 1 \in Requests
    THEN req'[r].pc # "idle" => req'[r - 1].pc # "idle"
    ELSE req'[r].tenant \in Tenants => req'[r].tenant = SomeTenant

OrderedSpec == Init /\ [][Next /\ BeginInOrder]_vars /\ Fairness

=============================================================================
