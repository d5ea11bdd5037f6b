--------------------------- MODULE ProviderClient ---------------------------
(***************************************************************************)
(* One call of an HTTP adapter: OpenAIEmbeddingProvider.embed_documents,   *)
(* OpenAILLMProvider.generate and generate_stream, CohereReranker.rerank.  *)
(* The first two and the last share one retry loop and differ in a few     *)
(* values; a stream is the same loop without retries.  Calls share nothing *)
(* but the connection pool of their client, and waiting for a connection   *)
(* too long is one more timeout.                                           *)
(*                                                                         *)
(* A step is the code between two awaits.  The provider is the environment:*)
(* it answers with any status, any Retry-After header and any body that    *)
(* the adapter reads something from.  A vector is the number of the text   *)
(* it was computed from, time is counted in ticks.                         *)
(***************************************************************************)
EXTENDS Ordering, Sequences, SequencesExt

CONSTANTS
  MaxRetries,     \* max_retries of the three adapters
  BackoffFactor,  \* backoff_factor, in ticks
  MaxBackoff,     \* max_backoff_seconds, in ticks
  EmbedJitter,    \* bound of random.uniform in the embedding adapter, in ticks
  OtherJitter,    \* and in the other two
  RetryAfters,    \* the numbers a Retry-After header may hold, in ticks
  BatchSize,      \* batch_size of the embedding adapter
  TopK,           \* top_k of a rerank call
  MaxItems,       \* bound on the texts or candidates of a call
  MaxResults,     \* bound on the results a reranker answers with
  Scores          \* relevance scores

\* config.py lets max_retries be 0, and the other settings nothing but positive.
ASSUME ClientConstantsOK ==
  /\ MaxRetries \in Nat /\ BackoffFactor \in Nat /\ MaxBackoff \in Nat \ {0}
  /\ EmbedJitter \in Nat /\ OtherJitter \in Nat /\ RetryAfters \subseteq Nat
  /\ BatchSize \in Nat \ {0} /\ TopK \in Nat \ {0}
  /\ MaxItems \in Nat \ {0} /\ MaxResults \in Nat /\ Scores \subseteq Nat

VARIABLES
  call,      \* the call: its adapter, whether there is a key, how many items
  pc,        \* the await the call stands at
  attempt,   \* attempt
  batch,     \* the batches that were answered
  result,    \* all_vectors, or reranked
  out,       \* what the caller gets
  last,      \* what the last request came to
  raw,       \* the last body of a reranker, to compare the result with
  sent,      \* requests for the present batch
  slept      \* ticks asleep for the present batch

providerVars == <<call, pc, attempt, batch, result, out, last, raw, sent, slept>>

-----------------------------------------------------------------------------
(* What the adapters differ in.                                            *)

EmbeddingClient  == [retries |-> MaxRetries, jitter |-> EmbedJitter, needsKey |-> FALSE,
                     limited |-> "rate_limit", broken |-> "error"]
GenerationClient == [retries |-> MaxRetries, jitter |-> OtherJitter, needsKey |-> TRUE,
                     limited |-> "rate_limit", broken |-> "error"]
RerankClient     == [retries |-> MaxRetries, jitter |-> OtherJitter, needsKey |-> TRUE,
                     limited |-> "error", broken |-> "error"]
\* generate_stream catches timeouts only: a network error stays httpx's own.
StreamClient     == [retries |-> 0, jitter |-> 0, needsKey |-> TRUE,
                     limited |-> "rate_limit", broken |-> "raw"]

Client == [embedding |-> EmbeddingClient, generation |-> GenerationClient,
           rerank |-> RerankClient, stream |-> StreamClient]

Adapters == {"embedding", "generation", "rerank", "stream"}
Retried  == {"rate", "server", "timeout", "network"}
Final    == {"denied", "rejected", "garbled", "unusable"}
Failures == {"auth", "rate_limit", "timeout", "error", "raw", "cancelled"}

Me == Client[call.client]

TypeOK ==
  /\ call \in [client : Adapters, key : BOOLEAN, n : 0..MaxItems]
  /\ pc \in {"start", "request", "backoff", "over"}
  /\ attempt \in 0..MaxRetries
  /\ batch \in 0..MaxItems
  /\ result \in Seq(1..MaxItems)
  /\ out \in {"none", "ok"} \cup Failures
  /\ last \in {"none", "ok"} \cup Retried \cup Final
  /\ raw \in Seq([index : -1..MaxItems, score : Scores])
  /\ sent \in 0..(MaxRetries + 1)
  /\ slept \in Nat

ProviderInit ==
  /\ call \in [client : Adapters, key : BOOLEAN, n : 0..MaxItems]
  /\ call.client \in {"generation", "stream"} => call.n = 1
  /\ pc = "start" /\ attempt = 0 /\ batch = 0 /\ result = <<>>
  /\ out = "none" /\ last = "none" /\ raw = <<>> /\ sent = 0 /\ slept = 0

-----------------------------------------------------------------------------
(* The retry loop.                                                         *)

End(how) == pc' = "over" /\ out' = how

\* Nothing to embed or to rerank is answered without a request; a missing key
\* ends the call where the provider cannot be asked without one.
Begin ==
  /\ pc = "start"
  /\ IF call.n = 0 THEN End("ok") /\ UNCHANGED sent
     ELSE IF Me.needsKey /\ ~call.key THEN End("auth") /\ UNCHANGED sent
     ELSE pc' = "request" /\ sent' = 1 /\ UNCHANGED out
  /\ UNCHANGED <<call, attempt, batch, result, last, raw, slept>>

Capped(ticks) == IF ticks < MaxBackoff THEN ticks ELSE MaxBackoff

\* The exponential backoff with its jitter.
Backoffs == {d \in 0..MaxBackoff : \E j \in 0..Me.jitter : d = Capped(BackoffFactor * 2^attempt + j)}

\* Mutant: the ceiling applies to the backoff only.
DelaysUncapped(after) == IF after # {} THEN after ELSE Backoffs

\* The delays the loop may choose: the header's when it holds a number.
Delays(after) == IF after # {} THEN {Capped(r) : r \in after} ELSE Backoffs

\* What is worth another request gets one while retries are left.
TryAgain(after, failure) ==
  IF attempt >= Me.retries
  THEN End(failure) /\ UNCHANGED slept
  ELSE /\ pc' = "backoff" /\ UNCHANGED out
       /\ \E d \in Delays(after) : slept' = slept + d

Answered(kind) == pc = "request" /\ last' = kind

\* A header without a number counts as none.
Headers == {{}} \cup {{r} : r \in RetryAfters}

\* 429 and 500, 502, 503, 504.
Transient ==
  /\ \E h \in Headers : \/ Answered("rate") /\ TryAgain(h, Me.limited)
                        \/ Answered("server") /\ TryAgain(h, "error")
  /\ UNCHANGED <<call, attempt, batch, result, raw, sent>>

\* httpx.TimeoutException and httpx.NetworkError.
Unreachable ==
  /\ \/ Answered("timeout") /\ TryAgain({}, "timeout")
     \/ Answered("network") /\ TryAgain({}, Me.broken)
  /\ UNCHANGED <<call, attempt, batch, result, raw, sent>>

\* Mutant: 401 and 403 are put among the transient codes.
DeniedRetried ==
  /\ Answered("denied") /\ TryAgain({}, "auth")
  /\ UNCHANGED <<call, attempt, batch, result, raw, sent>>

Denied ==
  /\ Answered("denied") /\ End("auth")
  /\ UNCHANGED <<call, attempt, batch, result, raw, sent, slept>>

\* Any other status that is an error.
Rejected ==
  /\ Answered("rejected") /\ End("error")
  /\ UNCHANGED <<call, attempt, batch, result, raw, sent, slept>>

\* A protocol error of httpx, or a body that is no JSON, is caught by nobody;
\* a stream skips lines it cannot parse, but not a protocol error.
Garbled ==
  /\ Answered("garbled") /\ End("raw")
  /\ UNCHANGED <<call, attempt, batch, result, raw, sent, slept>>

\* A body with nothing in it or with vectors of another length is refused; an
\* answer that does not fit the schema, fences removed, is pydantic's error.
Unusable ==
  /\ Answered("unusable")
  /\ \/ call.client = "embedding" /\ End("error")
     \/ call.client = "generation" /\ \E e \in {"error", "raw"} : End(e)
  /\ UNCHANGED <<call, attempt, batch, result, raw, sent, slept>>

Wake ==
  /\ pc = "backoff"
  /\ pc' = "request" /\ attempt' = attempt + 1 /\ sent' = sent + 1
  /\ UNCHANGED <<call, batch, result, out, last, raw, slept>>

\* The caller's time limit, or its client's disconnection.
Cancel ==
  /\ pc \in {"request", "backoff"} /\ End("cancelled")
  /\ UNCHANGED <<call, attempt, batch, result, last, raw, sent, slept>>

-----------------------------------------------------------------------------
(* Answers.                                                                *)

\* Positions by their keys, those with equal keys as they are.
ByKey(D, key) ==
  {p \in D \X D : key[p[1]] < key[p[2]] \/ (key[p[1]] = key[p[2]] /\ p[1] < p[2])}

\* sorted(): s by the key of each position, equal keys in their order in s.
Stable(s, key) ==
  LET order == Arranged(DOMAIN s, ByKey(DOMAIN s, key)) IN [k \in DOMAIN s |-> s[order[k]]]

Offset == BatchSize * batch
BatchLen == IF call.n - Offset < BatchSize THEN call.n - Offset ELSE BatchSize

Less(t) == {p \in t \X t : p[1] < p[2]}

\* Vectors with the positions of their texts in the batch, in any order.
Named(t) ==
  {[k \in DOMAIN p |-> [index |-> p[k] - Offset - 1, text |-> p[k]]] : p \in SetToSeqs(t)}

\* Vectors without positions, in the order of the texts.
Unnamed(t) ==
  LET p == Arranged(t, Less(t)) IN [k \in DOMAIN p |-> [index |-> 0, text |-> p[k]]]

\* An honest provider embeds some of the texts, all as a rule, and either
\* names the position of each or keeps the order of the input.
Vectors ==
  UNION {Named(t) \cup {Unnamed(t)} : t \in (SUBSET {Offset + k : k \in 1..BatchLen}) \ {{}}}

\* Mutant: the order of the response is taken for the order of the input.
InOrderReceived(items) == [k \in DOMAIN items |-> items[k].text]

InOrder(items) ==
  LET s == Stable(items, [k \in DOMAIN items |-> items[k].index]) IN [k \in DOMAIN s |-> s[k].text]

\* The next batch starts with an attempt counter of its own.
Embedded ==
  /\ call.client = "embedding" /\ Answered("ok")
  /\ \E items \in Vectors : result' = result \o InOrder(items)
  /\ batch' = batch + 1
  /\ IF Offset + BatchSize < call.n
     THEN attempt' = 0 /\ sent' = 1 /\ slept' = 0 /\ UNCHANGED <<pc, out>>
     ELSE End("ok") /\ UNCHANGED <<attempt, sent, slept>>
  /\ UNCHANGED <<call, raw>>

\* Results without a candidate are skipped; index -1 stands for a missing one.
Ranked(items, n) ==
  LET known == SelectSeq(items, LAMBDA x : x.index \in 0..(n - 1))
      best  == Stable(known, [k \in DOMAIN known |-> -known[k].score])
  IN  SubSeq(best, 1, IF Len(best) < TopK THEN Len(best) ELSE TopK)

Results == SeqOf([index : -1..call.n, score : Scores], MaxResults)

Reranked ==
  /\ call.client = "rerank" /\ Answered("ok") /\ End("ok")
  /\ \E items \in Results :
       LET best == Ranked(items, call.n) IN
       raw' = items /\ result' = [k \in DOMAIN best |-> best[k].index + 1]
  /\ UNCHANGED <<call, attempt, batch, sent, slept>>

\* A structured answer was parsed, or a stream has come to its end.
Generated ==
  /\ call.client \in {"generation", "stream"} /\ Answered("ok") /\ End("ok")
  /\ UNCHANGED <<call, attempt, batch, result, raw, sent, slept>>

Finished == pc = "over" /\ UNCHANGED providerVars

ProviderNext ==
  \/ Begin \/ Wake \/ Cancel \/ Finished
  \/ Transient \/ Unreachable \/ Denied \/ Rejected \/ Garbled \/ Unusable
  \/ Embedded \/ Reranked \/ Generated

ProviderSpec == ProviderInit /\ [][ProviderNext]_providerVars

-----------------------------------------------------------------------------
(* What every step of the loop keeps.                                      *)

\* Requests and sleep are counted by attempt.
Counted ==
  /\ pc = "start" => sent = 0 /\ attempt = 0 /\ slept = 0 /\ last = "none"
  /\ pc \in {"request", "backoff"} => sent = attempt + 1
  /\ pc = "backoff" => attempt < Me.retries /\ slept <= (attempt + 1) * MaxBackoff
  /\ pc = "request" => slept <= attempt * MaxBackoff
  /\ slept <= MaxRetries * MaxBackoff

\* The call is over when nothing can be gained from another request.
Stopped ==
  /\ pc # "over" => last \notin Final
  /\ pc = "over" /\ out # "cancelled" /\ last \in Retried => sent = Me.retries + 1
  /\ sent <= Me.retries + 1

LoopInv ==
  /\ call.client \in Adapters
  /\ pc \in {"start", "request", "backoff", "over"}
  /\ attempt \in 0..Me.retries
  /\ sent \in Nat /\ slept \in Nat
  /\ Counted /\ Stopped

-----------------------------------------------------------------------------
(* Properties.                                                             *)

\* A batch costs at most max_retries + 1 requests.  A failure that another
\* request might have cured reaches the caller only when all were spent; an
\* answer that no repetition can change ends the call at once.
AllTriesUsed ==
  /\ sent <= Me.retries + 1
  /\ pc = "over" /\ out # "cancelled" /\ last \in Retried => sent = Me.retries + 1
  /\ last \in Final => pc = "over"

\* The provider cannot make a batch sleep longer than its retries times the
\* ceiling, whatever its Retry-After headers say.
PatienceKept == slept <= MaxRetries * MaxBackoff

\* embed_chunks compares nothing but the number of vectors with the number of
\* chunks.  When they agree, every chunk gets the vector of its own text, even
\* if batches were answered out of order, retried, or incompletely.
OwnVectors ==
  call.client = "embedding" /\ out = "ok" /\ Len(result) = call.n =>
    \A i \in 1..call.n : result[i] = i

=============================================================================
