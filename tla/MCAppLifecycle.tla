---------------------------- MODULE MCAppLifecycle ----------------------------
(* Small instances of AppLifecycle for TLC.                                *)
EXTENDS AppLifecycle

\* Settings that pass in every environment.
Hardened(env) ==
  [env |-> env, key |-> "strong", debug |-> FALSE, anyOrigin |-> FALSE,
   corsCredentials |-> TRUE, store |-> "pgvector", database |-> "postgres",
   llm |-> "openai", embeddings |-> "openai", reranker |-> "cohere",
   backend |-> "redis", redisUrl |-> [user |-> "", password |-> ""],
   redisPassword |-> "pw"]

\* One thing is different, or two where one of them alone is never refused.
Deviations(s) ==
  { s,
    [s EXCEPT !.key = "empty"], [s EXCEPT !.key = "weak"],
    [s EXCEPT !.debug = TRUE], [s EXCEPT !.anyOrigin = TRUE],
    [s EXCEPT !.store = "mock", !.database = "sqlite"], [s EXCEPT !.database = "sqlite"],
    [s EXCEPT !.llm = "mock"], [s EXCEPT !.embeddings = "fastembed"],
    [s EXCEPT !.embeddings = "mock"],
    [s EXCEPT !.reranker = "flashrank"], [s EXCEPT !.reranker = "mock"],
    [s EXCEPT !.backend = "memory"],
    [s EXCEPT !.redisPassword = ""],
    [s EXCEPT !.redisPassword = "", !.redisUrl.password = "inurl"] }

MCSettingsSpace == UNION {Deviations(Hardened(e)) : e \in {"production", "staging", "development"}}

\* What a developer runs.
MCDevelopment == {[Hardened("development") EXCEPT !.backend = "memory"]}

=============================================================================
