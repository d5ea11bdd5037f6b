---------------------------- MODULE MCServerProcess ----------------------------
(* Small instances, for TLC, of what one server process does by itself and *)
(* of what it does for one query: AppLifecycle, and the two searches of    *)
(* HybridRetriever.  They share no state: a behaviour is one of either,    *)
(* chosen at its beginning, while the other stays in an initial state.     *)
EXTENDS MCHybridRetriever, MCAppLifecycle

VARIABLE part

\* The one initial state of the component that stays in its own.
NoServer == settings = Hardened("production") /\ router
NoSearch == call.store = "in_memory" /\ call.session /\ call.top = 1

SInit ==
  /\ part \in {"server", "search"}
  /\ Init /\ LInit
  /\ part = "server" \/ NoServer
  /\ part = "search" \/ NoSearch

Server(A) == part = "server" /\ A /\ UNCHANGED <<part, vars>>
Search(A) == part = "search" /\ A /\ UNCHANGED <<part, lvars>>

SNext == Server(LNext) \/ Search(Next)

\* The fairness of LSpec and of FairSpec.
SSpec ==
  /\ SInit /\ [][SNext]_<<part, vars, lvars>>
  /\ WF_lvars(Server(Lifespan)) /\ WF_lvars(Server(ProbeDatabase)) /\ WF_lvars(Server(ProbeRedis))
  /\ WF_vars(Search(Begin)) /\ WF_vars(Search(Embedded \/ EmbedFails)) /\ WF_vars(Search(Gather))
  /\ \A b \in Branches : /\ WF_vars(Search(Acquire(b)))
                         /\ WF_vars(Search(Searched(b) \/ SearchFails(b) \/ SearchRefused(b)))

=============================================================================
