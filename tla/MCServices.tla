------------------------------ MODULE MCServices ------------------------------
(* Small instances, for TLC, of three components on the way to and from    *)
(* the services outside the program: the limiter in Redis, the calls of    *)
(* the model providers, and the chunker that makes the texts they are      *)
(* sent.  They share no state: a behaviour is one of a single component,   *)
(* chosen at its beginning, while the others stay in an initial state.     *)
EXTENDS RedisRateLimiter, ProviderClient, Chunker, TLC

VARIABLE part

\* Calls are told apart only by what they are answered.
Symmetry == Permutations(Calls)

\* The one initial state of the components that stay in theirs.
NoProvider == call = [client |-> "embedding", key |-> TRUE, n |-> 0]
NoChunker  == mute = {} /\ joint = <<>>

CInit ==
  /\ part \in {"limiter", "provider", "chunker"}
  /\ RateInit /\ ProviderInit /\ ChunkInit
  /\ part = "provider" \/ NoProvider
  /\ part = "chunker" \/ NoChunker

\* Every call has been answered and no time is left.
RateEnded == now = Horizon /\ (\A c \in Calls : check[c].pc = "done") /\ UNCHANGED rateVars

CNext ==
  /\ UNCHANGED part
  /\ \/ part = "limiter" /\ (RateNext \/ RateEnded) /\ UNCHANGED <<providerVars, chunkVars>>
     \/ part = "provider" /\ ProviderNext /\ UNCHANGED <<rateVars, chunkVars>>
     \/ part = "chunker" /\ ChunkNext /\ UNCHANGED <<rateVars, providerVars>>

CSpec == CInit /\ [][CNext]_<<part, rateVars, providerVars, chunkVars>>

=============================================================================
