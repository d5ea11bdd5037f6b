----------------------------- MODULE AppLifecycle -----------------------------
(***************************************************************************)
(* The life of one server process: the checks of its settings, the         *)
(* components built while it starts, the probe of Redis, the singletons    *)
(* that worker threads build on first use, the readiness probe, and the    *)
(* shutdown.  A supervisor may start the process again.                    *)
(*                                                                         *)
(* Dependencies written as plain functions run on worker threads, so the   *)
(* statements of two of them interleave; a singleton is a module global    *)
(* that is read, assigned and read again.  The settings are read once.     *)
(*                                                                         *)
(* The orchestrator's constructor names a variable that does not exist     *)
(* unless it is given a router, and create_rag_orchestrator gives it none. *)
(* RouterGiven is {FALSE} for the code as it stands; TRUE is the           *)
(* construction with a router, which the constructor also accepts and      *)
(* without which no production process comes as far as its last steps.     *)
(***************************************************************************)
EXTENDS Integers, Sequences, FiniteSets

CONSTANTS
  SettingsSpace,   \* the settings a process may be started with
  RouterGiven,     \* a set of Booleans: whether the orchestrator is given a router
  Threads,         \* worker threads
  Main,            \* the event loop's thread, which runs the start-up
  Instances        \* bound: limiters one process constructs

\* The Literal types of Settings; the worker threads are those of a bounded pool.
ASSUME LifecycleConstants ==
  /\ \A s \in SettingsSpace : s.backend \in {"memory", "redis"} /\ s.store \in {"pgvector", "mock"}
  /\ RouterGiven \subseteq BOOLEAN /\ Instances \in Nat
  /\ IsFiniteSet(Threads) /\ Main \notin Threads

VARIABLES
  settings,   \* Settings of the process
  router,     \* whether the orchestrator is given a router
  phase,      \* starting, building, checking, serving, failed, stopped
  built,      \* the globals of init_rag_components that are assigned
  at,         \* at[t]: the component thread t constructs next; 0 for none
  stage,      \* stage[t]: where a worker thread is in the dependencies of a request
  limiter,    \* the instance _rate_limiter names; 0 for None
  made,       \* instances constructed so far
  using,      \* using[t]: the instance a request of thread t calls
  up,         \* up.database, up.redis: whether the backends can be reached
  probe       \* /ready: the check that is running and the last answer

serverVars == <<phase, built, at, stage, limiter, made, using>>
lvars == <<settings, router, serverVars, up, probe>>

Order == <<"embedding", "store", "dense", "lexical", "hybrid", "reranker", "llm",
           "orchestrator">>

Strict == settings.env \in {"production", "staging"}

-----------------------------------------------------------------------------
(* validate_production_settings: the exception that is raised, in the      *)
(* order of the checks, is abstracted to whether one is.                   *)

\* resolve_redis_url: an explicit password replaces the one in the URL.
Credentials(url, password) == [url EXCEPT !.password = IF password # "" THEN password ELSE @]

RedisPassword(s) == Credentials(s.redisUrl, s.redisPassword).password

Valid(s) ==
  \/ s.env \notin {"production", "staging"}
  \/ /\ s.key = "strong" /\ ~(s.anyOrigin /\ s.corsCredentials) /\ s.llm # "mock"
     /\ s.store = "pgvector" => s.database = "postgres"
     /\ s.backend = "redis" => RedisPassword(s) # ""
     /\ s.env = "production" => ~s.debug /\ s.store # "mock" /\ s.backend # "memory"

-----------------------------------------------------------------------------
(* Components.                                                             *)

\* The factories and the constructor of the orchestrator raise.
EmbeddingRaises(s) == s.embeddings = "fastembed"
StoreRaises(s)     == s.store = "pgvector" /\ s.database = "sqlite"
RerankerRaises(s)  == s.reranker = "flashrank"
OrchestratorRaises == ~router

Raises(component) ==
  \/ component = "embedding" /\ EmbeddingRaises(settings)
  \/ component = "store" /\ StoreRaises(settings)
  \/ component = "reranker" /\ RerankerRaises(settings)
  \/ component = "orchestrator" /\ OrchestratorRaises

\* One component of init_rag_components, by the start-up or by a query whose
\* process has no orchestrator.  Components already assigned are replaced.
Construct(t) ==
  /\ at[t] \in 1..Len(Order) /\ ~Raises(Order[at[t]])
  /\ built' = built \cup {Order[at[t]]}
  /\ at' = [at EXCEPT ![t] = IF @ = Len(Order) THEN 0 ELSE @ + 1]
  /\ phase' = IF t = Main /\ at[t] = Len(Order) THEN "checking" ELSE phase
  /\ UNCHANGED <<settings, router, stage, limiter, made, using, up, probe>>

\* A component raises: a query is answered 500; the start-up fails where the
\* environment is strict and otherwise goes on with a warning.
ConstructFails(t) ==
  /\ at[t] \in 1..Len(Order) /\ Raises(Order[at[t]])
  /\ at' = [at EXCEPT ![t] = 0]
  /\ phase' = IF t # Main THEN phase ELSE IF Strict THEN "failed" ELSE "checking"
  /\ UNCHANGED <<settings, router, built, stage, limiter, made, using, up, probe>>

-----------------------------------------------------------------------------
(* Start-up and shutdown: the lifespan of the application.                 *)

StartUp ==
  /\ phase = "starting"
  /\ IF Valid(settings) THEN phase' = "building" /\ at' = [at EXCEPT ![Main] = 1]
                        ELSE phase' = "failed" /\ UNCHANGED at
  /\ UNCHANGED <<settings, router, built, stage, limiter, made, using, up, probe>>

\* Only a strict environment with the Redis limiter pings Redis.
CheckRedis ==
  /\ phase = "checking"
  /\ phase' = IF Strict /\ settings.backend = "redis" /\ ~up.redis THEN "failed"
              ELSE "serving"
  /\ UNCHANGED <<settings, router, built, at, stage, limiter, made, using, up, probe>>

Idle(t) == stage[t] = "idle" /\ at[t] = 0

\* shutdown_rag_components, once the running requests are answered.  The
\* limiter, the authenticator, the policy and the engine stay as they are.
Shutdown ==
  /\ phase = "serving" /\ (\A t \in Threads : Idle(t)) /\ probe.running = "no"
  /\ phase' = "stopped" /\ built' = {}
  /\ UNCHANGED <<settings, router, at, stage, limiter, made, using, up, probe>>

\* The process ends, by itself or by a crash, and a new one is started.
Restart ==
  /\ phase \in {"serving", "failed", "stopped"}
  /\ phase' = "starting" /\ built' = {} /\ limiter' = 0 /\ made' = 0
  /\ at' = [t \in Threads \cup {Main} |-> 0]
  /\ stage' = [t \in Threads |-> "idle"] /\ using' = [t \in Threads |-> 0]
  /\ probe' = [running |-> "no", answer |-> "none", database |-> TRUE]
  /\ UNCHANGED <<settings, router, up>>

-----------------------------------------------------------------------------
(* get_rate_limiter: read, construct and assign, read again.               *)

\* Mutant: a limiter is constructed for every request.
LookForLimiterAlways(t) ==
  /\ phase = "serving" /\ Idle(t)
  /\ stage' = [stage EXCEPT ![t] = "missing"]
  /\ UNCHANGED <<settings, router, phase, built, at, limiter, made, using, up, probe>>

LookForLimiter(t) ==
  /\ phase = "serving" /\ Idle(t)
  /\ stage' = [stage EXCEPT ![t] = IF limiter = 0 THEN "missing" ELSE "return"]
  /\ UNCHANGED <<settings, router, phase, built, at, limiter, made, using, up, probe>>

MakeLimiter(t) ==
  /\ stage[t] = "missing" /\ made < Instances
  /\ made' = made + 1 /\ limiter' = made + 1
  /\ stage' = [stage EXCEPT ![t] = "return"]
  /\ UNCHANGED <<settings, router, phase, built, at, using, up, probe>>

\* The request is let through and goes on to its endpoint.
UseLimiter(t) ==
  /\ stage[t] = "return"
  /\ using' = [using EXCEPT ![t] = limiter]
  /\ stage' = [stage EXCEPT ![t] = "limited"]
  /\ UNCHANGED <<settings, router, phase, built, at, limiter, made, up, probe>>

\* A document request ends; a query asks for the orchestrator, and initialises
\* the components again while there is none.
Finish(t) ==
  /\ stage[t] = "limited"
  /\ stage' = [stage EXCEPT ![t] = "idle"] /\ using' = [using EXCEPT ![t] = 0]
  /\ \/ UNCHANGED at
     \/ "orchestrator" \notin built /\ at' = [at EXCEPT ![t] = 1]
  /\ UNCHANGED <<settings, router, phase, built, limiter, made, up, probe>>

-----------------------------------------------------------------------------
(* /ready: SELECT 1, and PING where the limiter is the Redis one.          *)

ProbeDatabase ==
  /\ phase = "serving" /\ probe.running = "no"
  /\ probe' = [probe EXCEPT !.running = "redis", !.database = up.database]
  /\ UNCHANGED <<settings, router, serverVars, up>>

\* Mutant: whatever Redis says decides.
ProbeRedisOnly ==
  /\ phase = "serving" /\ probe.running = "redis"
  /\ LET ready == settings.backend = "redis" /\ Strict => up.redis IN
       probe' = [probe EXCEPT !.running = "no", !.answer = IF ready THEN "ready" ELSE "503"]
  /\ UNCHANGED <<settings, router, serverVars, up>>

ProbeRedis ==
  /\ phase = "serving" /\ probe.running = "redis"
  /\ LET ready == probe.database /\ (settings.backend = "redis" /\ Strict => up.redis) IN
       probe' = [probe EXCEPT !.running = "no", !.answer = IF ready THEN "ready" ELSE "503"]
  /\ UNCHANGED <<settings, router, serverVars, up>>

\* A backend fails or comes back.
Toggle(b) == up' = [up EXCEPT ![b] = ~@] /\ UNCHANGED <<settings, router, serverVars, probe>>

-----------------------------------------------------------------------------
LInit ==
  /\ settings \in SettingsSpace /\ router \in RouterGiven
  /\ phase = "starting" /\ built = {} /\ limiter = 0 /\ made = 0
  /\ at = [t \in Threads \cup {Main} |-> 0]
  /\ stage = [t \in Threads |-> "idle"] /\ using = [t \in Threads |-> 0]
  /\ up = [database |-> TRUE, redis |-> TRUE]
  /\ probe = [running |-> "no", answer |-> "none", database |-> TRUE]

Lifespan == StartUp \/ Construct(Main) \/ ConstructFails(Main) \/ CheckRedis

Request(t) ==
  \/ LookForLimiter(t) \/ MakeLimiter(t) \/ UseLimiter(t) \/ Finish(t)
  \/ Construct(t) \/ ConstructFails(t)

LNext ==
  \/ Lifespan \/ Shutdown \/ Restart \/ ProbeDatabase \/ ProbeRedis
  \/ (\E t \in Threads : Request(t)) \/ \E b \in {"database", "redis"} : Toggle(b)

\* The start-up goes on, and the orchestrator of containers asks /ready for ever.
LSpec ==
  /\ LInit /\ [][LNext]_lvars
  /\ WF_lvars(Lifespan) /\ WF_lvars(ProbeDatabase) /\ WF_lvars(ProbeRedis)

-----------------------------------------------------------------------------
(* Properties.                                                             *)

Running == phase \in {"building", "checking", "serving"}


\* What the race of get_rate_limiter costs.  Threads that look before the first
\* assignment each construct a limiter, and the last to assign takes the place of
\* the others with their counts; but nobody constructs one who looks later, so no
\* more counts are lost than those of one limiter for each other worker thread,
\* however many requests come; and none of them goes on to its endpoint without
\* an instance that counted it.
OneLimiterPerThread ==
  /\ made <= Cardinality(Threads)
  /\ \A t \in Threads : stage[t] = "limited" => using[t] \in 1..made

\* While requests are served the readiness probe tells a lasting outage of the
\* database, and tells when it is over.
ReadyTracksDatabase ==
  /\ <>[](phase = "serving" /\ ~up.database) => <>[](probe.answer = "503")
  /\ <>[](phase = "serving" /\ up.database /\ up.redis) => <>[](probe.answer = "ready")

\* A process that serves requests has its orchestrator.
InitialisedOnce == phase = "serving" => "orchestrator" \in built

=============================================================================
