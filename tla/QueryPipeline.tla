---------------------------- MODULE QueryPipeline ----------------------------
(***************************************************************************)
(* One query through RAGOrchestratorService: execute behind POST /query    *)
(* ("json") and execute_stream behind POST /query/stream ("stream").       *)
(* Queries share no state the pipeline writes, so one query shows them     *)
(* all.  The orchestrator is the one its constructor builds when it is     *)
(* given a query router (rag_service.py:99 cannot build the default one).  *)
(*                                                                         *)
(* A step is the code between two awaits or yields: context assembly and   *)
(* validation have none, so they belong to the step that calls them.  The  *)
(* retriever, the reranker and the model are the environment: they answer  *)
(* with anything their protocol allows, fail, or never come back.          *)
(***************************************************************************)
EXTENDS ContextBuilder, GroundingValidator, QueryUnderstanding

CONSTANTS
  Tenants,        \* tenant identifiers
  Callers,        \* the tenants that ask
  Owner,          \* Owner[c]: metadata["tenant_id"] of chunk c, or NoTenant
  NoTenant,
  Queries,        \* the queries a caller may send
  MaxTokens,      \* resolved_max_tokens
  MaxChunks,      \* resolved_max_chunks
  Sentences,      \* the sentences a model may write
  MaxSentences,   \* bound on the length of an answer
  Qualities,      \* mean scores the cited documents may have, in percent
  Declared        \* citation lists a structured answer may declare

ASSUME PipelineConstantsOK ==
  /\ Callers \subseteq Tenants /\ NoTenant \notin Tenants
  /\ Owner \in [Chunks -> Tenants \cup {NoTenant}]
  /\ MaxTokens \in Nat /\ MaxChunks \in Nat
  /\ \A q \in Queries :
       /\ q.typed \in Nat /\ q.length \in Nat /\ q.marks \subseteq 0..100
       /\ q.families \subseteq Intents \ {"exploratory"}
       /\ \A ks \in {q.topK, q.rerankK} :
            IsFiniteSet(ks) /\ Cardinality(ks) <= 1 /\ \A k \in ks : k \in Nat \ {0}
  /\ Sentences \subseteq Sentence /\ MaxSentences \in Nat /\ Qualities \subseteq 0..100
  /\ Declared \subseteq SUBSET Nat

VARIABLES
  conf,      \* settings: mandatory grounding, a validator, its fallback mode
  req,       \* the request: endpoint, tenant, flags
  pc,        \* the await the pipeline stands at
  route,     \* effective_retrieval_k and resolved_rerank_top_k, until stage 4
  cands,     \* the candidates for the context
  ctx,       \* the documents of the assembled context
  ans,       \* the model's answer, as far as it has come
  screen,    \* what a client of the stream displays as the answer
  out,       \* how the query ended
  reply      \* the response body, or the complete event

vars == <<conf, req, pc, route, cands, ctx, ans, screen, out, reply>>

Texts == {"raw", "refusal", "annotated"}

Nothing == [answer |-> "raw", grounded |-> FALSE, insufficient |-> FALSE,
            fallback |-> FALSE, confidence |-> "none", citations |-> {}]
NoRoute  == [pool |-> 0, keep |-> 0]
NoAnswer == [uncertain |-> FALSE, sentences |-> <<>>, quality |-> 50]

Ids == UNION ({s.cites : s \in Sentences} \cup Declared)

TypeOK ==
  /\ conf \in [mandatory : BOOLEAN, validator : BOOLEAN,
               mode : {"refusal", "annotate", "raise"}]
  /\ req \in [kind : {"json", "stream"}, tenant : Callers, rerank : BOOLEAN,
              ground : BOOLEAN]
  /\ pc \in {"scan", "retrieve", "rerank", "generate", "complete", "over"}
  /\ route \in {NoRoute} \cup {Route(q, req.rerank) : q \in Queries}
  /\ cands \in SeqOf(Chunks, route.pool) /\ ctx \in SeqOf(Chunks, MaxChunks)
  /\ ans \in Answer
  /\ screen \in Texts
  /\ out \in {"none", "rejected", "failed", "answered"} \cup
       (IF req.kind = "json" THEN {"timeout"} ELSE {"gone"})
  /\ reply \in [answer : Texts, grounded : BOOLEAN, insufficient : BOOLEAN,
                fallback : BOOLEAN, confidence : {"none", "scored", "full"},
                citations : SUBSET Ids]

Init ==
  /\ conf \in [mandatory : BOOLEAN, validator : BOOLEAN,
               mode : {"refusal", "annotate", "raise"}]
  /\ req \in [kind : {"json", "stream"}, tenant : Callers, rerank : BOOLEAN,
              ground : BOOLEAN]
  /\ pc = "scan" /\ route = NoRoute /\ cands = <<>> /\ ctx = <<>> /\ ans = NoAnswer
  /\ screen = "raw" /\ out = "none" /\ reply = Nothing

-----------------------------------------------------------------------------
(* Stages 1 to 4: from the query to the context.                           *)

End(how) == pc' = "over" /\ out' = how

\* The preprocessor and the prompt guard let the query pass or raise; the
\* classifier and the router choose the depths.
Scan ==
  /\ pc = "scan"
  /\ \E q \in Queries :
       IF Accepted(q)
       THEN pc' = "retrieve" /\ route' = Route(q, req.rerank) /\ UNCHANGED out
       ELSE End("rejected") /\ UNCHANGED route
  /\ UNCHANGED <<conf, req, cands, ctx, ans, screen, reply>>

\* Mutant: the second line of defence is dropped.
PruneNothing(list) == list

\* Candidates of another tenant are pruned, whatever the retriever returned for
\* the filter that names the tenant.
Prune(list) ==
  FoldLeft(LAMBDA own, c : IF Owner[c] \in {req.tenant, NoTenant} THEN Append(own, c) ELSE own,
           <<>>, list)

FirstOf(list, n) == SubSeq(list, 1, IF Len(list) < n THEN Len(list) ELSE n)

\* Stage 4 follows at once.
Assemble(list) ==
  /\ ctx' = BuildContext(list, MaxTokens, MaxChunks)
  /\ cands' = <<>> /\ route' = NoRoute
  /\ pc' = "generate"

\* A retriever returns a ranking of at most as many chunks as it was asked for.
Rankings == {r \in SeqOf(Chunks, route.pool) : IsInjective(r)}

Retrieved ==
  /\ pc = "retrieve"
  /\ \E r \in Rankings :
       LET own == Prune(r) IN
       IF req.rerank /\ own # <<>>
       THEN pc' = "rerank" /\ cands' = own /\ UNCHANGED <<route, ctx>>
       ELSE Assemble(FirstOf(own, route.keep))
  /\ UNCHANGED <<conf, req, ans, screen, out, reply>>

RetrievalFails ==
  /\ pc = "retrieve"
  /\ End("failed")
  /\ UNCHANGED <<conf, req, route, cands, ctx, ans, screen, reply>>

\* A reranker returns at most route.keep of the candidates in a new order; nothing
\* checks that a provider names an index only once.
Reranked ==
  /\ pc = "rerank"
  /\ \E r \in SeqOf(ToSet(cands), route.keep) : Assemble(r)
  /\ UNCHANGED <<conf, req, ans, screen, out, reply>>

\* Any exception of the reranker falls back to the order of the retrieval.
RerankFails ==
  /\ pc = "rerank"
  /\ Assemble(FirstOf(cands, route.keep))
  /\ UNCHANGED <<conf, req, ans, screen, out, reply>>

-----------------------------------------------------------------------------
(* Stages 6 and 7: from an answer to the reply.                            *)

\* resolved_enable_grounding, and a validator to do it.
Validated == conf.validator /\ (conf.mandatory \/ req.ground)

\* What stage 6 starts from: a structured answer states its own grounding, the
\* text of a stream has none.
Claimed(own) ==
  [grounded |-> own.grounded, insufficient |-> own.insufficient, fallback |-> FALSE,
   confidence |-> IF req.kind = "json" THEN "scored" ELSE "none"]

\* Mutant: the model's own claim to be grounded counts beside the validator's.
JudgedByEither(a, own) ==
  IF ~Validated THEN Claimed(own)
  ELSE LET v == Verdict(a, Len(ctx))
       IN  [v EXCEPT !.grounded = @ \/ own.grounded, !.insufficient = @ \/ own.insufficient]

\* What validation makes of it.
Judged(a, own) ==
  IF ~Validated THEN Claimed(own)
  ELSE LET v == Verdict(a, Len(ctx))
       IN  [v EXCEPT !.insufficient = @ \/ own.insufficient]

Replacement == IF conf.mode = "annotate" THEN "annotated" ELSE "refusal"

\* "Guarantee empty context is never marked grounded under any condition."
EmptyOverride(v) ==
  IF ctx = <<>> THEN [v EXCEPT !.grounded = FALSE, !.insufficient = TRUE, !.confidence = "none"]
  ELSE v

\* Mutant: the identifiers in the text are taken as they are.
CitedAll(a, v, declared) == IF v.fallback THEN {} ELSE CitedIds(a) \cup declared

\* resolve_citations drops the identifiers in the text that are not in the
\* context; those a structured answer declares stay.
Cited(a, v, declared) ==
  IF v.fallback THEN {} ELSE (CitedIds(a) \cap 1..Len(ctx)) \cup declared

ReplyTo(a, own, declared) ==
  LET v == EmptyOverride(Judged(a, own))
  IN  [answer |-> IF v.fallback THEN Replacement ELSE "raw",
       grounded |-> v.grounded, insufficient |-> v.insufficient, fallback |-> v.fallback,
       confidence |-> v.confidence, citations |-> Cited(a, v, declared)]

\* In mode raise the validator raises where it would otherwise replace.
Raises(a) == conf.mode = "raise" /\ Validated /\ Verdict(a, Len(ctx)).fallback

-----------------------------------------------------------------------------
(* Stage 5 of execute.                                                     *)

\* The answer arrives and the rest of the pipeline runs without an await.
Generated ==
  /\ req.kind = "json" /\ pc = "generate"
  /\ \E u \in BOOLEAN, q \in Qualities, text \in SeqOf(Sentences, MaxSentences),
        own \in [grounded : BOOLEAN, insufficient : BOOLEAN], declared \in Declared :
       LET a == [uncertain |-> u, sentences |-> text, quality |-> q] IN
       /\ ans' = a
       /\ IF Raises(a)
          THEN End("failed") /\ UNCHANGED reply
          ELSE End("answered") /\ reply' = ReplyTo(a, own, declared)
  /\ UNCHANGED <<conf, req, route, cands, ctx, screen>>

\* Mutant: the time limit is the provider's alone.
TimeoutWhileGenerating ==
  /\ req.kind = "json" /\ pc = "generate"
  /\ End("timeout")
  /\ UNCHANGED <<conf, req, route, cands, ctx, ans, screen, reply>>

\* asyncio.timeout of the endpoint, at whatever await the pipeline stands.
Timeout ==
  /\ req.kind = "json" /\ pc \in {"retrieve", "rerank", "generate"}
  /\ End("timeout")
  /\ UNCHANGED <<conf, req, route, cands, ctx, ans, screen, reply>>

-----------------------------------------------------------------------------
(* Stage 5 of execute_stream.                                              *)

Streaming == req.kind = "stream" /\ pc = "generate"

\* Tokens go to the client as they come; a sentence of them is a step here.
Token ==
  /\ Streaming /\ Len(ans.sentences) < MaxSentences
  /\ \E s \in Sentences : ans' = [ans EXCEPT !.sentences = Append(@, s)]
  /\ screen' = "raw"
  /\ UNCHANGED <<conf, req, pc, route, cands, ctx, out, reply>>

\* Mutant: the fallback is told in the complete event only.
QuietReplacement(r) == UNCHANGED screen

\* A fallback event tells the client to replace what it displays.
ShowReplacement(r) == screen' = IF r.fallback THEN r.answer ELSE screen

\* The stream of tokens ends.  The whole text is validated; the yield of the
\* fallback event is the last point at which the client can get in between.
LastToken ==
  /\ Streaming
  /\ \E u \in BOOLEAN, q \in Qualities :
       LET a == [ans EXCEPT !.uncertain = u, !.quality = q]
           r == ReplyTo(a, [grounded |-> FALSE, insufficient |-> FALSE], {})
       IN  /\ ans' = a
           /\ IF Raises(a)
              THEN End("failed") /\ UNCHANGED <<screen, reply>>
              ELSE /\ pc' = "complete"
                   /\ reply' = r
                   /\ ShowReplacement(r)
                   /\ UNCHANGED out
  /\ UNCHANGED <<conf, req, route, cands, ctx>>

Complete ==
  /\ pc = "complete"
  /\ End("answered")
  /\ UNCHANGED <<conf, req, route, cands, ctx, ans, screen, reply>>

\* The client of a stream closes the connection: the generator is cancelled.
Disconnect ==
  /\ req.kind = "stream" /\ pc \notin {"scan", "over"}
  /\ End("gone")
  /\ UNCHANGED <<conf, req, route, cands, ctx, ans, screen, reply>>

\* The model fails: 5xx for execute, an error event after the tokens already
\* sent for a stream.
GenerationFails ==
  /\ pc = "generate"
  /\ End("failed")
  /\ UNCHANGED <<conf, req, route, cands, ctx, ans, screen, reply>>

Finished == pc = "over" /\ UNCHANGED vars

Next ==
  \/ Scan \/ Retrieved \/ RetrievalFails \/ Reranked \/ RerankFails
  \/ Generated \/ Timeout \/ GenerationFails
  \/ Token \/ LastToken \/ Complete \/ Disconnect \/ Finished

Spec == Init /\ [][Next]_vars

\* The program's own steps and its clock run; no provider is obliged to answer.
FairSpec == Spec /\ WF_vars(Scan) /\ WF_vars(Timeout) /\ WF_vars(Complete)

-----------------------------------------------------------------------------
(* Properties.                                                             *)

\* No chunk of another tenant reaches the prompt, even when a retriever ignores
\* the filter it is given or a reranker mixes the candidates up.
OwnTenantOnly == \A i \in DOMAIN ctx : Owner[ctx[i]] \in {req.tenant, NoTenant}

\* Whatever order or repetition the reranker returns, the prompt keeps its
\* budget, separators included, and no two of its documents are near-twins.
PromptSound ==
  /\ Fits(ctx, MaxTokens, MaxChunks)
  /\ \A i, j \in DOMAIN ctx : i < j => ~AsNear(ctx[i], ctx[j])

\* An answer that had no context to rest on never leaves as grounded or with
\* any confidence, not even a refusal the validator itself approves.
EmptyNeverGrounded ==
  out = "answered" /\ ctx = <<>> =>
    ~reply.grounded /\ reply.insufficient /\ reply.confidence = "none"

\* While grounding is mandatory and there is a validator, the model's text is
\* sent as the answer only if the validator accepts it, whatever the request
\* says about grounding.
MandatoryHolds ==
  out = "answered" /\ conf.mandatory /\ conf.validator /\ reply.answer = "raw" =>
    ~Verdict(ans, Len(ctx)).fallback

\* A validated answer that is reported as grounded and does not declare itself
\* uncertain cites only documents of its context, and cites at least one of
\* them if it claims anything.
GroundedIsCited ==
  out = "answered" /\ Validated /\ reply.grounded /\ ~ans.uncertain =>
    /\ CitedIds(ans) \subseteq 1..Len(ctx)
    /\ (\E i \in DOMAIN ans.sentences : ans.sentences[i].claim) => CitedIds(ans) # {}

\* What the client of a finished stream displays is the answer of the complete
\* event: tokens it was shown before validation do not outlive a refusal.
ScreenShowsAnswer == out = "answered" /\ req.kind = "stream" => screen = reply.answer

\* A finished stream cites only documents of its context.
StreamCitesContext ==
  out = "answered" /\ req.kind = "stream" => reply.citations \subseteq 1..Len(ctx)

\* A JSON query is over some time, even if every provider hangs.
QueryEnds == req.kind = "json" => <>(pc = "over")

=============================================================================
