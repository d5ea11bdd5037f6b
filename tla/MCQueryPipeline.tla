--------------------------- MODULE MCQueryPipeline ---------------------------
(* A small store for QueryPipeline: three chunks of tenant tA of which the *)
(* middle one is long and a near-twin of both others, a chunk without a    *)
(* tenant, and one of tenant tB.                                           *)
EXTENDS QueryPipeline

CONSTANTS a1, a2, a3, shared, foreign, tA, tB

MCChunks == {a1, a2, a3, shared, foreign}
MCNear   == {<<c, c>> : c \in MCChunks} \cup {<<a1, a2>>, <<a2, a1>>, <<a2, a3>>, <<a3, a2>>}
MCOwner  == [c \in MCChunks |-> CASE c = shared -> NoTenant [] c = foreign -> tB [] OTHER -> tA]
MCSize   == [c \in MCChunks |-> CASE c = a2 -> 4 [] c = shared -> 2 [] OTHER -> 1]

\* Every intent, asked for with and without depths of its own, and queries that
\* are blank, too short, too long or suspicious.
MCQueries ==
  LET plain == [typed |-> 9, length |-> 9, families |-> {}, marks |-> {}, topK |-> {}, rerankK |-> {}]
  IN  {[plain EXCEPT !.families = f] : f \in SUBSET (Intents \ {"exploratory"})}
        \cup {[plain EXCEPT !.topK = {1}], [plain EXCEPT !.topK = {3}, !.rerankK = {1}]}
        \cup {[plain EXCEPT !.typed = 0, !.length = 0], [plain EXCEPT !.length = 1],
              [plain EXCEPT !.length = 11], [plain EXCEPT !.marks = {80, 95}]}
MCTopFloor  == [i \in {"summary", "comparison", "multi_hop"} |-> 3]
MCKeepFloor == [i \in {"summary", "comparison", "multi_hop"} |-> IF i = "multi_hop" THEN 3 ELSE 2]
MCKeepCap   == [i \in {"definition"} |-> 1]

\* Supported and unsupported claims with and without a citation, an aside, and
\* a claim that cites a document that is not there.
MCSentences ==
  {[cites |-> cs, claim |-> TRUE, entailed |-> e] : cs \in {{}, {1}}, e \in BOOLEAN}
    \cup {[cites |-> {}, claim |-> FALSE, entailed |-> TRUE],
          [cites |-> {1, 9}, claim |-> TRUE, entailed |-> TRUE]}

=============================================================================
