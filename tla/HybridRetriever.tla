--------------------------- MODULE HybridRetriever ---------------------------
(***************************************************************************)
(* One call of HybridRetriever.retrieve: the dense and the lexical branch  *)
(* run as two tasks under asyncio.gather(return_exceptions=True) and their *)
(* rankings are fused.  Both branches find the AsyncSession of the request *)
(* through a context variable.  With the pgvector store both would use it  *)
(* at the same time, so their statements take turns under a lock kept on   *)
(* the session; with the in-memory store only the lexical branch uses it   *)
(* and there is no lock.                                                   *)
(*                                                                         *)
(* A step is the code between two awaits.  A ranking is whatever a search  *)
(* may return: its scores only order it, and a score_threshold or a filter *)
(* only shortens it.  The session belongs to one request, so one call is   *)
(* all that ever competes for its lock.                                    *)
(***************************************************************************)
EXTENDS RankFusion

CONSTANTS
  Chunks,      \* the chunks a search may find
  Depth,       \* dense_top_k and sparse_top_k
  MaxTop       \* bound on the top_k a caller asks for

ASSUME BoundsOK == Depth \in Nat /\ MaxTop \in Nat \ {0}

VARIABLES
  call,      \* the call: the store and session it meets, its top_k, its outcome
  pc,        \* where each branch stands
  found,     \* the ranking each branch returned
  lock,      \* the holder of session._hybrid_session_lock
  tx         \* whether the session's transaction still accepts statements

vars == <<call, pc, found, lock, tx>>

Branches == {"dense", "sparse"}
Rankings == {r \in SeqOf(Chunks, Depth) : \A i, j \in DOMAIN r : r[i] = r[j] => i = j}
Outcomes == {"none", "running", "fused", "failed", "cancelled"}
Pc       == {"idle", "embed", "queue", "search", "done", "failed", "refused", "cancelled"}

Over == {"fused", "failed", "cancelled"}

TypeOK ==
  /\ call \in [store : {"pgvector", "in_memory"}, session : BOOLEAN, top : 1..MaxTop,
               out : Outcomes, result : Seq(Chunks)]
  /\ Len(call.result) <= call.top
  /\ pc \in [Branches -> Pc]
  /\ found \in [Branches -> Seq(Chunks)]
  /\ lock \in Branches \cup {"free"}
  /\ tx \in {"open", "aborted"}

Init ==
  /\ call \in [store : {"pgvector", "in_memory"}, session : BOOLEAN, top : 1..MaxTop,
               out : {"none"}, result : {<<>>}]
  /\ pc = [b \in Branches |-> "idle"]
  /\ found = [b \in Branches |-> <<>>]
  /\ lock = "free"
  /\ tx = "open"

-----------------------------------------------------------------------------

Shared == call.store = "pgvector"

\* A branch whose result or exception gather has collected.
Raised(b)  == pc[b] \in {"failed", "refused"}
Settled(b) == Raised(b) \/ pc[b] = "done"

Move(b, where) == pc' = [pc EXCEPT ![b] = where]

\* async with session_lock gives the lock back however its body ends.
Release(b) == lock' = IF lock = b THEN "free" ELSE lock

\* Where a branch goes for its statement: to the lock, or straight to it.
Entrance(b) == IF Shared THEN "queue" ELSE "search"

\* retrieve() looks the sessions up before it starts the branches.  hasattr
\* lets the DatabaseError through that PGLexicalRetriever.session raises when
\* the context variable holds no session.
Begin ==
  /\ call.out = "none"
  /\ IF call.session
     THEN /\ call' = [call EXCEPT !.out = "running"]
          /\ pc' = [dense |-> "embed", sparse |-> Entrance("sparse")]
     ELSE /\ call' = [call EXCEPT !.out = "failed"]
          /\ UNCHANGED pc
  /\ UNCHANGED <<found, lock, tx>>

\* The embedding of the query is back.  The in-memory search that follows has
\* no await in it: the branch is done in the same step.
Embedded ==
  /\ pc["dense"] = "embed"
  /\ IF Shared
     THEN /\ Move("dense", "queue")
          /\ UNCHANGED found
     ELSE /\ Move("dense", "done")
          /\ \E r \in Rankings : found' = [found EXCEPT !["dense"] = r]
  /\ UNCHANGED <<call, lock, tx>>

EmbedFails ==
  /\ pc["dense"] = "embed"
  /\ Move("dense", "failed")
  /\ UNCHANGED <<call, found, lock, tx>>

Acquire(b) ==
  /\ pc[b] = "queue" /\ lock = "free"
  /\ lock' = b
  /\ Move(b, "search")
  /\ UNCHANGED <<call, found, tx>>

Searched(b) ==
  /\ pc[b] = "search" /\ tx = "open"
  /\ \E r \in Rankings : found' = [found EXCEPT ![b] = r]
  /\ Move(b, "done")
  /\ Release(b)
  /\ UNCHANGED <<call, tx>>

\* Mutant: acquire() and release() around the search, without a finally.
SearchFailsLocked(b) ==
  /\ pc[b] = "search" /\ tx = "open"
  /\ tx' \in {"open", "aborted"}
  /\ Move(b, "failed")
  /\ UNCHANGED <<call, found, lock>>

\* A search raises.  When the failure is the database's, PostgreSQL aborts the
\* transaction the statement was part of; neither branch rolls it back.
SearchFails(b) ==
  /\ pc[b] = "search" /\ tx = "open"
  /\ tx' \in {"open", "aborted"}
  /\ Move(b, "failed")
  /\ Release(b)
  /\ UNCHANGED <<call, found>>

\* PostgreSQL refuses every statement of an aborted transaction.
SearchRefused(b) ==
  /\ pc[b] = "search" /\ tx = "aborted"
  /\ Move(b, "refused")
  /\ Release(b)
  /\ UNCHANGED <<call, found, tx>>

\* Mutant: gather without return_exceptions, the first failure is the call's.
GatherStrict ==
  /\ call.out = "running" /\ \A b \in Branches : Settled(b)
  /\ IF \E b \in Branches : Raised(b)
     THEN call' = [call EXCEPT !.out = "failed"]
     ELSE call' = [call EXCEPT !.out = "fused",
                     !.result = Fuse(found["dense"], found["sparse"], call.top)]
  /\ UNCHANGED <<pc, found, lock, tx>>

\* gather has both: one failure is survived, two are not.
Gather ==
  /\ call.out = "running" /\ \A b \in Branches : Settled(b)
  /\ IF \A b \in Branches : Raised(b)
     THEN call' = [call EXCEPT !.out = "failed"]
     ELSE call' = [call EXCEPT !.out = "fused",
                     !.result = Fuse(found["dense"], found["sparse"], call.top)]
  /\ UNCHANGED <<pc, found, lock, tx>>

\* Mutant: a cancelled branch takes the lock with it.
CancelLocked ==
  /\ call.out = "running"
  /\ call' = [call EXCEPT !.out = "cancelled"]
  /\ pc' = [b \in Branches |-> IF Settled(b) THEN pc[b] ELSE "cancelled"]
  /\ UNCHANGED <<found, lock, tx>>

\* The caller's asyncio.timeout cancels the call: gather cancels the branches
\* that are still waiting and ends when both have.
Cancel ==
  /\ call.out = "running"
  /\ call' = [call EXCEPT !.out = "cancelled"]
  /\ pc' = [b \in Branches |-> IF Settled(b) THEN pc[b] ELSE "cancelled"]
  /\ lock' = IF lock \in Branches /\ ~Settled(lock) THEN "free" ELSE lock
  /\ UNCHANGED <<found, tx>>

\* Nothing is left to do.
Finished == call.out \in Over /\ UNCHANGED vars

Next ==
  \/ Begin \/ Embedded \/ EmbedFails \/ Gather \/ Cancel \/ Finished
  \/ \E b \in Branches : Acquire(b) \/ Searched(b) \/ SearchFails(b) \/ SearchRefused(b)

Spec == Init /\ [][Next]_vars

\* The provider answers or fails, its client having a timeout, and the event loop
\* resumes whoever is ready; nobody is obliged to cancel.  That the database
\* answers or fails is assumed of it: the engine is created without a statement
\* timeout.
FairSpec ==
  /\ Spec
  /\ WF_vars(Begin) /\ WF_vars(Embedded \/ EmbedFails) /\ WF_vars(Gather)
  /\ \A b \in Branches : /\ WF_vars(Acquire(b))
                         /\ WF_vars(Searched(b) \/ SearchFails(b) \/ SearchRefused(b))

-----------------------------------------------------------------------------
(* Properties.                                                             *)

\* Two statements never overlap on the one session of the request, whatever
\* the order in which the embedding and the lexical search come back.
BranchesTakeTurns == Shared => \E b \in Branches : pc[b] # "search"

\* The lock is held exactly by the branch whose statement is in flight: an
\* exception or a cancellation under async with never leaves it taken.
LockHeldBySearcher == \A b \in Branches : lock = b <=> Shared /\ pc[b] = "search"

\* With a session, the call fails only when both branches failed on their own, or
\* when one failed and took the transaction both need; with one branch left its
\* ranking is the answer, in its own order.
SurvivesOneBranch ==
  /\ call.out = "failed" /\ call.session =>
       \/ \A b \in Branches : pc[b] = "failed"
       \/ Shared /\ tx = "aborted" /\ \A b \in Branches : Raised(b)
  /\ call.out = "fused" => \A b, o \in Branches :
       b # o /\ Raised(b) =>
         /\ call.result = SubSeq(found[o], 1, Len(call.result))
         /\ Len(call.result) \in {Len(found[o]), call.top}

\* test_fusion_strategies.py: "If lexical retrieval raises an exception, hybrid
\* succeeds with dense results."  A branch that failed does not take the other's
\* results with it: with a session, the call fails only when both failed on their
\* own.
FallsBack == call.out = "failed" /\ call.session => \A b \in Branches : pc[b] = "failed"

\* Every call that has begun comes back: a failed or cancelled branch leaves
\* neither the other branch nor gather waiting.
RetrieveEnds == call.out = "running" ~> call.out \in Over

=============================================================================
