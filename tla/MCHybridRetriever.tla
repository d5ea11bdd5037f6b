-------------------------- MODULE MCHybridRetriever --------------------------
(* Small instances of HybridRetriever for TLC.                             *)
EXTENDS HybridRetriever

=============================================================================
