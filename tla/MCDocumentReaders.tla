--------------------------- MODULE MCDocumentReaders ---------------------------
(* A small instance of DocumentReaders for TLC.                            *)
EXTENDS DocumentReaders, TLC

Symmetry == Permutations(Requests) \cup Permutations(Tenants)

=============================================================================
