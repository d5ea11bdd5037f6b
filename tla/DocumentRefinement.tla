------------------------- MODULE DocumentRefinement -------------------------
(***************************************************************************)
(* DocumentLifecycle implements DocumentCatalogue: whatever the requests   *)
(* do, and however they are interleaved, aborted or cut off by a crash,    *)
(* the committed tables change like the catalogue, by one operation on one *)
(* document at a time.                                                     *)
(***************************************************************************)
EXTENDS DocumentInvariant

\* A document exists from the commit of its upload to the commit of a delete.
CatalogueState(d) ==
  IF row[d].status = "PARSED" THEN "parsed"
  ELSE IF row[d].status = "CHUNKED" THEN "empty"
  ELSE IF row[d].status = "EMBEDDED" THEN "searchable"
  ELSE IF Known(d) THEN "gone" ELSE "new"

Catalogue == INSTANCE DocumentCatalogue
               WITH Ids <- Requests,
                    state <- [d \in Requests |-> CatalogueState(d)],
                    batch <- chunks

\* Every behaviour of the requests is one of the catalogue.
CatalogueSpec == Catalogue!CSpec

=============================================================================
