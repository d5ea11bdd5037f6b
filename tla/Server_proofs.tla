----------------------------- MODULE Server_proofs -----------------------------
(***************************************************************************)
(* A server process and the rate limiter it shares with the others.        *)
(*                                                                         *)
(* The process, for any settings, any number of worker threads and any     *)
(* number of restarts: what the race for the rate limiter can and cannot   *)
(* do.  A thread that stands before its second read of the global finds it *)
(* assigned (Assigned), because only the end of the process takes the      *)
(* assignment back; and a thread can only be about to construct a limiter  *)
(* if it looked before the first was assigned (Racing), so every thread    *)
(* constructs at most one.                                                 *)
(*                                                                         *)
(* The shared limiter, for any number of clients and calls, any window,    *)
(* delay and skew.  A timestamp that was let through stays in Redis until  *)
(* the most advanced clock has it outside its window (Stored); so what a   *)
(* transaction counts is at least every call of the window shortened by    *)
(* what delay and skew can displace.                                       *)
(***************************************************************************)
EXTENDS AppLifecycle, RedisRateLimiter, FiniteSetTheorems, TLAPS

-----------------------------------------------------------------------------
(* The process.                                                            *)

TypeOK ==
  /\ settings \in SettingsSpace
  /\ phase \in {"starting", "building", "checking", "serving", "failed", "stopped"}
  /\ at \in [Threads \cup {Main} -> Nat]
  /\ stage \in [Threads -> {"idle", "missing", "return", "limited"}]
  /\ using \in [Threads -> Nat]
  /\ made \in Nat /\ limiter \in 0..made

\* A thread that is about to return the limiter, or has, finds one.
Assigned ==
  \A t \in Threads : /\ stage[t] = "return" => limiter # 0
                     /\ stage[t] = "limited" => using[t] \in 1..made

Missing == {t \in Threads : stage[t] = "missing"}

\* The limiters constructed and those still to come are at most one a thread.
Racing == (made = 0 <=> limiter = 0) /\ made + Cardinality(Missing) <= Cardinality(Threads)

IInv == TypeOK /\ Assigned /\ Racing

-----------------------------------------------------------------------------
(* Frames.                                                                 *)

LEMMA MissingFinite ==
  /\ Cardinality(Threads) \in Nat
  /\ \A S \in SUBSET Threads : IsFiniteSet(S) /\ Cardinality(S) \in Nat
                               /\ Cardinality(S) <= Cardinality(Threads)
BY LifecycleConstants, FS_Subset, FS_CardinalityType DEF LifecycleConstants

\* The limiter and the threads that ask for it are left alone.
LimiterKept == stage' = stage /\ limiter' = limiter /\ made' = made /\ using' = using

LEMMA LimiterStays ==
  ASSUME IInv, LimiterKept
  PROVE  Assigned' /\ Racing'
BY DEF IInv, LimiterKept, Assigned, Racing, Missing

-----------------------------------------------------------------------------
(* The initial state, and one lemma for each group of actions.             *)

LEMMA InitHolds == ASSUME LInit PROVE IInv
<1>1. TypeOK
  BY DEF LInit, TypeOK
<1>2. Missing = {}
  BY DEF LInit, Missing
<1>3. Racing
  BY <1>2, MissingFinite, FS_EmptySet DEF LInit, Racing
<1>4. Assigned
  BY DEF LInit, Assigned
<1> QED
  BY <1>1, <1>3, <1>4 DEF IInv

LEMMA LifespanKeeps == ASSUME IInv, Lifespan PROVE IInv'
<1>1. LimiterKept
  BY DEF LimiterKept, Lifespan, StartUp, Construct, ConstructFails, CheckRedis
<1>2. TypeOK'
  BY DEF IInv, TypeOK, Lifespan, StartUp, Construct, ConstructFails, CheckRedis, Order
<1> QED
  BY <1>1, <1>2, LimiterStays DEF IInv

LEMMA EndKeeps == ASSUME IInv, Shutdown \/ Restart PROVE IInv'
<1>1. TypeOK'
  BY DEF IInv, TypeOK, Shutdown, Restart
<1>2. CASE Shutdown
  BY <1>1, <1>2, LimiterStays DEF Shutdown, LimiterKept, IInv
<1>3. CASE Restart
  <2>1. Missing' = {}
    BY <1>3 DEF Restart, Missing
  <2>2. Racing'
    BY <1>3, <2>1, MissingFinite, FS_EmptySet DEF Restart, Racing
  <2>3. Assigned'
    BY <1>3 DEF Restart, Assigned
  <2> QED
    BY <1>1, <2>2, <2>3 DEF IInv
<1> QED
  BY <1>2, <1>3

\* get_rate_limiter.
LEMMA LookKeeps ==
  ASSUME IInv, NEW t \in Threads, LookForLimiter(t)
  PROVE  IInv'
<1>1. TypeOK'
  BY DEF IInv, TypeOK, LookForLimiter
<1>3. Assigned'
  BY DEF IInv, TypeOK, Assigned, LookForLimiter
<1>4. CASE limiter = 0
  <2>1. made' = 0 /\ limiter' = 0
    BY <1>4 DEF IInv, Racing, LookForLimiter
  <2>2. Missing' \in SUBSET Threads
    BY DEF Missing
  <2> QED
    BY <1>1, <1>3, <2>1, <2>2, MissingFinite DEF IInv, Racing
<1>5. CASE limiter # 0
  <2>1. Missing' = Missing
    BY <1>5 DEF IInv, TypeOK, Missing, LookForLimiter, Idle
  <2> QED
    BY <1>1, <1>3, <2>1 DEF IInv, Racing, LookForLimiter
<1> QED
  BY <1>4, <1>5

LEMMA MakeKeeps ==
  ASSUME IInv, NEW t \in Threads, MakeLimiter(t)
  PROVE  IInv'
<1>1. TypeOK'
  BY DEF IInv, TypeOK, MakeLimiter
<1>3. Assigned'
  BY DEF IInv, TypeOK, Assigned, MakeLimiter
<1>4. t \in Missing /\ Missing' = Missing \ {t}
  BY DEF IInv, TypeOK, Missing, MakeLimiter
<1>5. IsFiniteSet(Missing) /\ Cardinality(Missing) \in Nat
  BY MissingFinite DEF Missing
<1>6. Cardinality(Missing \ {t}) = Cardinality(Missing) - 1
  BY <1>4, <1>5, FS_RemoveElement
<1>7. Racing'
  BY <1>4, <1>5, <1>6, MissingFinite DEF IInv, TypeOK, Racing, MakeLimiter
<1> QED
  BY <1>1, <1>3, <1>7 DEF IInv

LEMMA UseKeeps ==
  ASSUME IInv, NEW t \in Threads, UseLimiter(t) \/ Finish(t)
  PROVE  IInv'
<1>1. TypeOK'
  BY LifecycleConstants DEF IInv, TypeOK, UseLimiter, Finish, LifecycleConstants
<1>3. Assigned'
  BY DEF IInv, TypeOK, Assigned, UseLimiter, Finish
<1>4. Missing' = Missing /\ made' = made /\ limiter' = limiter
  BY DEF IInv, TypeOK, Missing, UseLimiter, Finish
<1> QED
  BY <1>1, <1>3, <1>4 DEF IInv, Racing

\* A query that initialises the components, the probes and the backends.
LEMMA RestKeeps ==
  ASSUME IInv,
         \/ \E t \in Threads : Construct(t) \/ ConstructFails(t)
         \/ ProbeDatabase \/ ProbeRedis \/ \E b \in {"database", "redis"} : Toggle(b)
         \/ UNCHANGED lvars
  PROVE  IInv'
<1>1. settings' = settings /\ phase' = phase /\ LimiterKept
  BY LifecycleConstants DEF Construct, ConstructFails, ProbeDatabase, ProbeRedis, Toggle, serverVars, lvars,
       LimiterKept, LifecycleConstants
<1>2. at' \in [Threads \cup {Main} -> Nat] /\ at'[Main] = at[Main]
  BY LifecycleConstants DEF IInv, TypeOK, Construct, ConstructFails, ProbeDatabase, ProbeRedis, Toggle,
       serverVars, lvars, LifecycleConstants, Order
<1>3. TypeOK'
  BY <1>1, <1>2 DEF IInv, TypeOK, LimiterKept
<1> QED
  BY <1>1, <1>3, LimiterStays DEF IInv

\* The invariant the theorems are read off.
THEOREM Inductive == LSpec => []IInv
<1>1. LInit => IInv
  BY InitHolds
<1>2. IInv /\ [LNext]_lvars => IInv'
  BY LifespanKeeps, EndKeeps, LookKeeps, MakeKeeps, UseKeeps, RestKeeps DEF LNext, Request
<1> QED
  BY <1>1, <1>2, PTL DEF LSpec

-----------------------------------------------------------------------------
(* The theorems.                                                           *)

\* The race constructs at most one limiter a thread, so that counts are split
\* over no more instances than the process has worker threads; and a request
\* that goes on to its endpoint was counted by one of them: get_rate_limiter
\* never hands out None, however the threads interleave.
THEOREM LimitersBounded == LSpec => []OneLimiterPerThread
<1>1. ASSUME IInv PROVE OneLimiterPerThread
  <2>1. Cardinality(Missing) \in Nat /\ Cardinality(Threads) \in Nat
    BY MissingFinite DEF Missing
  <2> QED
    BY <1>1, <2>1 DEF IInv, TypeOK, Racing, Assigned, OneLimiterPerThread
<1> QED
  BY <1>1, Inductive, PTL

-----------------------------------------------------------------------------
(* The shared limiter.                                                     *)

CallType == [key : Keys \cup {NoKey}, began : Nat, at : Int,
             pc : {"none", "send", "undo", "done"},
             out : {"none", "admitted", "limited", "unavailable"}]

RTypeOK ==
  /\ now \in Nat
  /\ check \in [Calls -> CallType]
  /\ zset \in [Keys -> SUBSET Int] /\ \A k \in Keys : IsFiniteSet(zset[k])
  /\ expiry \in [Keys -> Nat]

\* A call is executed within the delay, and its clock is off by the skew at most.
OnTime == \A c \in Calls : check[c].pc # "none" =>
  /\ check[c].key \in Keys /\ check[c].began <= now
  /\ check[c].at - check[c].began <= Skew /\ check[c].began - check[c].at <= Skew
  /\ check[c].pc = "send" => now <= check[c].began + MaxDelay

\* A call that is under way has no answer yet.
Answered == \A c \in Calls : check[c].out # "none" => check[c].pc = "done"

\* The timestamp of a call that was let through is in Redis until no clock, however
\* far ahead, has the call outside its window, unless a refused call shares it.
Stored == \A c \in Calls : check[c].out = "admitted" =>
  /\ check[c].began + Window <= expiry[check[c].key]
  /\ check[c].at > now + Skew - Window /\ check[c].at \notin Undone(check[c].key)
       => check[c].at \in zset[check[c].key]

RInv == RTypeOK /\ OnTime /\ Answered /\ Stored /\ Ceiling

LEMMA CallsFinite ==
  \A S \in SUBSET Calls : IsFiniteSet(S) /\ Cardinality(S) \in Nat
BY RedisConstants, FS_Subset, FS_CardinalityType DEF RedisConstants

LEMMA Numbers ==
  Window \in Nat /\ Window > 0 /\ Margin \in Nat /\ MaxDelay \in Nat /\ Skew \in Nat /\ Limit \in Nat
BY RedisConstants DEF RedisConstants

\* Redis has not dropped what Stored keeps.
LEMMA StoredIsLive ==
  ASSUME RTypeOK, OnTime, Answered, Stored, NEW c \in Calls, check[c].out = "admitted",
         check[c].at > now + Skew - Window, check[c].at \notin Undone(check[c].key)
  PROVE  check[c].at \in Entries(check[c].key)
<1>1. /\ check[c].key \in Keys /\ check[c].at - check[c].began <= Skew
      /\ check[c].began + Window <= expiry[check[c].key] /\ check[c].at \in zset[check[c].key]
  BY DEF OnTime, Answered, Stored
<1>2. now \in Nat /\ check[c].at \in Int /\ check[c].began \in Nat /\ expiry[check[c].key] \in Nat
  BY <1>1 DEF RTypeOK, CallType
<1>3. now < expiry[check[c].key]
  BY <1>1, <1>2, Numbers
<1> QED
  BY <1>1, <1>3 DEF Entries

\* When a transaction counts, it counts every instant at which a call of its
\* client was let through in a window shortened by delay and skew, and at which
\* none was refused.
LEMMA Counts ==
  ASSUME RInv, NEW e \in Calls, check[e].pc = "send", Cardinality(Kept(e)) < Limit,
         NEW T,
         \A t \in T : /\ t \notin Undone(check[e].key)
                      /\ \E c \in Calls :
                           /\ t = check[c].at /\ check[c].key = check[e].key /\ check[c].out = "admitted"
                           /\ check[c].began > check[e].began - Window + MaxDelay + 2 * Skew
  PROVE  IsFiniteSet(T) /\ Cardinality(T) \in Nat /\ Cardinality(T) < Limit
<1>1. /\ check[e].key \in Keys /\ check[e].at - check[e].began <= Skew
      /\ now <= check[e].began + MaxDelay
      /\ now \in Nat /\ check[e].began \in Nat /\ check[e].at \in Int
  BY DEF RInv, RTypeOK, OnTime, CallType
<1>2. ASSUME NEW t \in T PROVE t \in Kept(e)
  <2>1. PICK c \in Calls :
          /\ t = check[c].at /\ check[c].key = check[e].key /\ check[c].out = "admitted"
          /\ check[c].began > check[e].began - Window + MaxDelay + 2 * Skew
    OBVIOUS
  <2>2. /\ check[c].began - check[c].at <= Skew
        /\ check[c].began \in Nat /\ check[c].at \in Int
    BY <2>1 DEF RInv, RTypeOK, OnTime, Answered, CallType
  <2>3. check[c].at > now + Skew - Window /\ check[c].at > check[e].at - Window
    BY <1>1, <2>1, <2>2, Numbers
  <2>4. check[c].at \in Entries(check[c].key)
    BY <2>1, <2>3, StoredIsLive DEF RInv
  <2> QED
    BY <2>1, <2>3, <2>4 DEF Kept
<1>3. Kept(e) \subseteq zset[check[e].key] /\ IsFiniteSet(zset[check[e].key])
  BY <1>1 DEF RInv, RTypeOK, Kept, Entries
<1>4. IsFiniteSet(Kept(e)) /\ Cardinality(Kept(e)) \in Nat
  BY <1>3, FS_Subset, FS_CardinalityType
<1>5. T \subseteq Kept(e)
  BY <1>2
<1>6. IsFiniteSet(T) /\ Cardinality(T) <= Cardinality(Kept(e)) /\ Cardinality(T) \in Nat
  BY <1>4, <1>5, FS_Subset, FS_CardinalityType
<1> QED
  BY <1>4, <1>6, Numbers

-----------------------------------------------------------------------------
(* The steps of the shared limiter.                                        *)

\* What a step does to the calls when it lets none through: one may be refused.
NobodyNew ==
  \A c \in Calls : /\ check'[c].out = "admitted" <=> check[c].out = "admitted"
                   /\ check[c].out = "admitted" \/ check[c].out = "limited" =>
                        /\ check'[c].key = check[c].key /\ check'[c].began = check[c].began
                        /\ check'[c].at = check[c].at
                   /\ check[c].out = "limited" => check'[c].out = "limited"

LEMMA UndoneGrows ==
  ASSUME NobodyNew, NEW k
  PROVE  Undone(k) \subseteq Undone(k)'
BY DEF NobodyNew, Undone

LEMMA InstantsFinite ==
  ASSUME NEW d \in Calls
  PROVE  IsFiniteSet(Instants(d)) /\ Cardinality(Instants(d)) \in Nat
<1>1. IsFiniteSet(Near(d))
  BY CallsFinite DEF Near
<1> DEFINE f == [c \in Near(d) |-> check[c].at]
<1>2. IsFiniteSet({f[c] : c \in Near(d)})
  <2>1. f \in Surjection(Near(d), {f[c] : c \in Near(d)})
    BY DEF Surjection
  <2> HIDE DEF f
  <2> QED
    BY <1>1, <2>1, FS_Surjection
<1>3. Instants(d) \subseteq {f[c] : c \in Near(d)}
  BY DEF Instants
<1> QED
  BY <1>2, <1>3, FS_Subset, FS_CardinalityType

LEMMA CeilingStays ==
  ASSUME Ceiling, NobodyNew
  PROVE  Ceiling'
<1> SUFFICES ASSUME NEW d \in Calls, check'[d].out = "admitted"
             PROVE  Cardinality(Instants(d)') <= Limit
  BY DEF Ceiling
<1>1. check[d].out = "admitted" /\ check'[d].key = check[d].key
  BY DEF NobodyNew
<1>2. Near(d)' = Near(d) /\ \A c \in Near(d) : check'[c].at = check[c].at
  BY <1>1 DEF NobodyNew, Near
<1>3. Undone(check[d].key) \subseteq Undone(check[d].key)'
  <2>1. PICK k : k = check[d].key
    OBVIOUS
  <2>2. Undone(k) \subseteq Undone(k)'
    BY UndoneGrows
  <2> QED
    BY <1>1, <2>1, <2>2
<1>4. Instants(d)' \subseteq Instants(d)
  BY <1>1, <1>2, <1>3 DEF Instants, Undone
<1>5. IsFiniteSet(Instants(d)) /\ Cardinality(Instants(d)) \in Nat
  BY InstantsFinite
<1>6. Cardinality(Instants(d)') <= Cardinality(Instants(d)) /\ Cardinality(Instants(d)') \in Nat
  BY <1>4, <1>5, FS_Subset, FS_CardinalityType
<1>7. Cardinality(Instants(d)) <= Limit
  BY <1>1 DEF Ceiling
<1> QED
  BY <1>5, <1>6, <1>7, Numbers

LEMMA RInit == ASSUME RateInit PROVE RInv
<1>1. RTypeOK
  BY FS_EmptySet DEF RateInit, RTypeOK, CallType, Unmade
<1>2. OnTime /\ Answered /\ Stored /\ Ceiling
  BY DEF RateInit, Unmade, OnTime, Answered, Stored, Ceiling
<1> QED
  BY <1>1, <1>2 DEF RInv

LEMMA TickKeeps == ASSUME RInv, Tick PROVE RInv'
<1>1. now \in Nat /\ now' = now + 1 /\ check' = check /\ zset' = zset /\ expiry' = expiry
  BY DEF RInv, RTypeOK, Tick
<1>2. RTypeOK'
  BY <1>1 DEF RInv, RTypeOK
<1>3. OnTime'
  <2> SUFFICES ASSUME NEW c \in Calls, check[c].pc # "none"
               PROVE  /\ check[c].key \in Keys /\ check[c].began <= now + 1
                      /\ check[c].at - check[c].began <= Skew /\ check[c].began - check[c].at <= Skew
                      /\ check[c].pc = "send" => now + 1 <= check[c].began + MaxDelay
    BY <1>1 DEF OnTime
  <2>1. check[c].began \in Nat
    BY DEF RInv, RTypeOK, CallType
  <2>2. check[c].pc = "send" => now < check[c].began + MaxDelay
    BY DEF Tick
  <2> QED
    BY <1>1, <2>1, <2>2, Numbers DEF RInv, OnTime
<1>4. Answered'
  BY <1>1 DEF RInv, Answered
<1>5. Stored'
  <2> SUFFICES ASSUME NEW c \in Calls, check[c].out = "admitted"
               PROVE  /\ check[c].began + Window <= expiry[check[c].key]
                      /\ check[c].at > (now + 1) + Skew - Window /\ check[c].at \notin Undone(check[c].key)
                           => check[c].at \in zset[check[c].key]
    BY <1>1 DEF Stored, Undone
  <2>1. check[c].at \in Int
    BY DEF RInv, RTypeOK, CallType
  <2> QED
    BY <1>1, <2>1, Numbers DEF RInv, Stored
<1>6. Ceiling'
  BY <1>1, CeilingStays DEF RInv, NobodyNew
<1> QED
  BY <1>2, <1>3, <1>4, <1>5, <1>6 DEF RInv

LEMMA ReadClockKeeps ==
  ASSUME RInv, NEW c \in Calls, ReadClock(c)
  PROVE  RInv'
<1>1. PICK k \in Keys, s \in -Skew..Skew :
        check' = [check EXCEPT ![c] = [key |-> k, began |-> now, at |-> now + s,
                                     pc |-> "send", out |-> "none"]]
  BY DEF ReadClock
<1>2. now \in Nat /\ now' = now /\ zset' = zset /\ expiry' = expiry /\ check[c].pc = "none"
  BY DEF RInv, RTypeOK, ReadClock
<1>3. s \in Int /\ s <= Skew /\ -s <= Skew /\ now + s \in Int
  BY <1>1, <1>2, Numbers
<1>4. /\ check'[c] = [key |-> k, began |-> now, at |-> now + s, pc |-> "send", out |-> "none"]
      /\ \A d \in Calls : d # c => check'[d] = check[d]
  BY <1>1 DEF RInv, RTypeOK
<1>5. RTypeOK'
  BY <1>1, <1>2, <1>3 DEF RInv, RTypeOK, CallType
<1>6. OnTime'
  <2>1. /\ check'[c].key \in Keys /\ check'[c].began <= now
        /\ check'[c].at - check'[c].began <= Skew /\ check'[c].began - check'[c].at <= Skew
        /\ now <= check'[c].began + MaxDelay
    BY <1>2, <1>3, <1>4, Numbers
  <2> QED
    BY <1>2, <1>4, <2>1 DEF RInv, OnTime
<1>7. /\ check[c].out \notin {"admitted", "limited"} /\ check'[c].out \notin {"admitted", "limited"}
      /\ check'[c].pc = "send"
  BY <1>2, <1>4 DEF RInv, Answered
<1>8. NobodyNew
  BY <1>4, <1>7 DEF NobodyNew
<1>9. Answered' /\ Stored'
  <2>1. \A k2 : Undone(k2) \subseteq Undone(k2)'
    BY <1>8, UndoneGrows
  <2> QED
    BY <1>2, <1>4, <1>7, <2>1 DEF RInv, Answered, Stored
<1>10. Ceiling'
  BY <1>8, CeilingStays DEF RInv
<1> QED
  BY <1>5, <1>6, <1>9, <1>10 DEF RInv

\* A call that is answered keeps its client and its times.
LEMMA Moved ==
  ASSUME RInv, NEW c \in Calls, check[c].pc \in {"send", "undo"}, now' = now,
         NEW to \in {"undo", "done"}, NEW out \in {"none", "admitted", "limited", "unavailable"},
         out # "none" => to = "done", Move(c, to, out)
  PROVE  /\ check' \in [Calls -> CallType]
         /\ check'[c] = [check[c] EXCEPT !.pc = to, !.out = out]
         /\ \A d \in Calls : d # c => check'[d] = check[d]
         /\ \A d \in Calls : check'[d].key = check[d].key /\ check'[d].began = check[d].began
                             /\ check'[d].at = check[d].at
         /\ check'[c].out = out /\ check[c].out = "none"
         /\ OnTime' /\ Answered'
<1>1. check[c] \in CallType /\ check \in [Calls -> CallType]
  BY DEF RInv, RTypeOK
<1>2. /\ check'[c] = [check[c] EXCEPT !.pc = to, !.out = out]
      /\ \A d \in Calls : d # c => check'[d] = check[d]
  BY <1>1 DEF Move
<1>3. /\ check'[c].key = check[c].key /\ check'[c].began = check[c].began /\ check'[c].at = check[c].at
      /\ check'[c].pc = to /\ check'[c].out = out
  BY <1>1, <1>2 DEF CallType
<1>4. check' \in [Calls -> CallType]
  BY <1>1 DEF Move, CallType
<1>5. check[c].out = "none"
  BY <1>1 DEF RInv, Answered, CallType
<1>6. OnTime'
  BY <1>2, <1>3 DEF RInv, OnTime
<1>7. Answered'
  BY <1>2, <1>3 DEF RInv, Answered
<1> QED
  BY <1>2, <1>3, <1>4, <1>5, <1>6, <1>7

\* A transaction forgets no timestamp that Stored speaks of.
LEMMA TransactionStores ==
  ASSUME RInv, NEW c \in Calls, Transaction(c)
  PROVE  /\ zset' \in [Keys -> SUBSET Int] /\ \A k \in Keys : IsFiniteSet(zset'[k])
         /\ expiry' \in [Keys -> Nat] /\ now' = now
         /\ check[c].at \in zset'[check[c].key]
         /\ check[c].began + Window <= expiry'[check[c].key]
         /\ \A d \in Calls : check[d].out = "admitted" =>
              /\ check[d].began + Window <= expiry'[check[d].key]
              /\ check[d].at > now + Skew - Window /\ check[d].at \notin Undone(check[d].key)
                   => check[d].at \in zset'[check[d].key]
<1>1. PICK k \in Keys : k = check[c].key
  BY DEF RInv, OnTime, Transaction
<1>2. /\ check[c].pc = "send" /\ now' = now
      /\ zset' = [zset EXCEPT ![k] = Kept(c) \cup {check[c].at}]
      /\ expiry' = [expiry EXCEPT ![k] = now + Window + Margin]
  BY <1>1 DEF Transaction
<1>3. /\ check[c].began <= now /\ check[c].at - check[c].began <= Skew
      /\ now \in Nat /\ check[c].began \in Nat /\ check[c].at \in Int
  BY <1>2 DEF RInv, RTypeOK, OnTime, CallType
<1>4. Kept(c) \subseteq zset[k] /\ IsFiniteSet(zset[k]) /\ zset[k] \subseteq Int
  BY <1>1 DEF RInv, RTypeOK, Kept, Entries
<1>5. IsFiniteSet(Kept(c) \cup {check[c].at})
  BY <1>4, FS_Subset, FS_AddElement
<1>6. now + Window + Margin \in Nat
  BY <1>3, Numbers
<1>7. /\ zset' \in [Keys -> SUBSET Int] /\ \A j \in Keys : IsFiniteSet(zset'[j])
      /\ expiry' \in [Keys -> Nat]
  <2>1. zset'[k] = Kept(c) \cup {check[c].at} /\ \A j \in Keys : j # k => zset'[j] = zset[j]
    BY <1>2 DEF RInv, RTypeOK
  <2>2. zset' \in [Keys -> SUBSET Int]
    BY <1>2, <1>3, <1>4 DEF RInv, RTypeOK
  <2>3. expiry' \in [Keys -> Nat]
    BY <1>2, <1>6 DEF RInv, RTypeOK
  <2> QED
    BY <1>5, <2>1, <2>2, <2>3 DEF RInv, RTypeOK
<1>8. /\ zset'[k] = Kept(c) \cup {check[c].at} /\ expiry'[k] = now + Window + Margin
      /\ \A j \in Keys : j # k => zset'[j] = zset[j] /\ expiry'[j] = expiry[j]
  BY <1>2 DEF RInv, RTypeOK
<1>9. ASSUME NEW d \in Calls, check[d].out = "admitted"
      PROVE  /\ check[d].began + Window <= expiry'[check[d].key]
             /\ check[d].at > now + Skew - Window /\ check[d].at \notin Undone(check[d].key)
                  => check[d].at \in zset'[check[d].key]
  <2>1. check[d].key \in Keys /\ check[d].began <= now /\ check[d].began \in Nat /\ check[d].at \in Int
    BY <1>9 DEF RInv, RTypeOK, OnTime, Answered, CallType
  <2>2. CASE check[d].key # k
    BY <1>8, <1>9, <2>1, <2>2 DEF RInv, Stored
  <2>3. CASE check[d].key = k
    <3>1. check[d].began + Window <= expiry'[k]
      BY <1>3, <1>8, <2>1, Numbers
    <3>2. ASSUME check[d].at > now + Skew - Window, check[d].at \notin Undone(k)
          PROVE  check[d].at \in zset'[k]
      <4>1. check[d].at \in Entries(k)
        BY <1>9, <2>3, <3>2, StoredIsLive DEF RInv
      <4>2. check[d].at > check[c].at - Window
        BY <1>3, <2>1, <3>2, Numbers
      <4> QED
        BY <1>1, <1>8, <4>1, <4>2 DEF Kept
    <3> QED
      BY <2>3, <3>1, <3>2
  <2> QED
    BY <2>2, <2>3
<1>10. check[c].began + Window <= expiry'[k]
  BY <1>3, <1>8, Numbers
<1> QED
  BY <1>1, <1>2, <1>7, <1>8, <1>9, <1>10

\* A call that is let through is the last of Limit in the window of anyone.
LEMMA AdmitKeepsCeiling ==
  ASSUME RInv, NEW e \in Calls, check[e].pc = "send", Cardinality(Kept(e)) < Limit,
         \A c \in Calls : c # e => check'[c] = check[c],
         check'[e].key = check[e].key, check'[e].began = check[e].began, check'[e].at = check[e].at,
         check'[e].out # "limited"
  PROVE  Ceiling'
<1> SUFFICES ASSUME NEW d \in Calls, check'[d].out = "admitted"
             PROVE  Cardinality(Instants(d)') <= Limit
  BY DEF Ceiling
<1>1. \A c \in Calls : /\ check'[c].key = check[c].key /\ check'[c].began = check[c].began
                       /\ check'[c].at = check[c].at
  OBVIOUS
<1>2. \A k : Undone(k) \subseteq Undone(k)'
  <2>1. check[e].out # "limited"
    BY DEF RInv, Answered
  <2> QED
    BY <1>1, <2>1 DEF Undone
<1>3. CASE e \in Near(d)' \/ d = e
  <2> DEFINE T == Instants(d)' \ {check[e].at}
  <2>1. \A c \in Calls : check[c].began \in Nat
    BY DEF RInv, RTypeOK, CallType
  <2>2. check[e].key = check[d].key /\ check[e].began <= check[d].began
    BY <1>1, <1>3, <2>1 DEF Near
  <2>3. ASSUME NEW t \in T
        PROVE  /\ t \notin Undone(check[e].key)
               /\ \E c \in Calls :
                    /\ t = check[c].at /\ check[c].key = check[e].key /\ check[c].out = "admitted"
                    /\ check[c].began > check[e].began - Window + MaxDelay + 2 * Skew
    <3>1. PICK c \in Near(d)' : t = check'[c].at
      BY DEF Instants
    <3>2. c \in Calls /\ c # e
      BY <1>1, <3>1 DEF Near
    <3>3. /\ t = check[c].at /\ check[c].key = check[e].key /\ check[c].out = "admitted"
          /\ check[c].began > check[d].began - Window + MaxDelay + 2 * Skew
      BY <1>1, <2>2, <3>1, <3>2 DEF Near
    <3>4. check[c].began > check[e].began - Window + MaxDelay + 2 * Skew
      BY <2>1, <2>2, <3>2, <3>3, Numbers
    <3>5. t \notin Undone(check[d].key)
      BY <1>1, <1>2 DEF Instants
    <3> QED
      BY <2>2, <3>2, <3>3, <3>4, <3>5
  <2>4. IsFiniteSet(T) /\ Cardinality(T) \in Nat /\ Cardinality(T) < Limit
    <3> HIDE DEF T
    <3> QED
      BY <2>3, Counts
  <2>5. IsFiniteSet(T \cup {check[e].at}) /\ Cardinality(T \cup {check[e].at}) = Cardinality(T) + 1
    <3>1. check[e].at \notin T
      OBVIOUS
    <3> HIDE DEF T
    <3> QED
      BY <2>4, <3>1, FS_AddElement
  <2>6. Instants(d)' \subseteq T \cup {check[e].at}
    OBVIOUS
  <2>7. Cardinality(Instants(d)') <= Cardinality(T) + 1 /\ Cardinality(Instants(d)') \in Nat
    <3> HIDE DEF T
    <3> QED
      BY <2>5, <2>6, FS_Subset, FS_CardinalityType
  <2> QED
    BY <2>4, <2>7, Numbers
<1>4. CASE e \notin Near(d)' /\ d # e
  <2>1. Near(d)' \subseteq Near(d) /\ check[d].out = "admitted"
    BY <1>1, <1>4 DEF Near
  <2>2. Instants(d)' \subseteq Instants(d)
    <3> SUFFICES ASSUME NEW t \in Instants(d)' PROVE t \in Instants(d)
      OBVIOUS
    <3>1. PICK c \in Near(d)' : t = check'[c].at
      BY DEF Instants
    <3>2. c \in Near(d) /\ t = check[c].at
      BY <1>1, <2>1, <3>1 DEF Near
    <3>3. t \notin Undone(check[d].key)
      BY <1>1, <1>2 DEF Instants
    <3> QED
      BY <3>2, <3>3 DEF Instants
  <2>3. IsFiniteSet(Instants(d)) /\ Cardinality(Instants(d)) \in Nat
    BY InstantsFinite
  <2>4. Cardinality(Instants(d)') <= Cardinality(Instants(d)) /\ Cardinality(Instants(d)') \in Nat
    BY <2>2, <2>3, FS_Subset, FS_CardinalityType
  <2>5. Cardinality(Instants(d)) <= Limit
    BY <2>1 DEF RInv, Ceiling
  <2> QED
    BY <2>3, <2>4, <2>5, Numbers
<1> QED
  BY <1>3, <1>4

LEMMA ExecuteKeeps == ASSUME RInv, NEW c \in Calls, Execute(c) PROVE RInv'
<1>1. Transaction(c) /\ check[c].pc = "send"
  BY DEF Execute, Transaction
<1>2. /\ zset' \in [Keys -> SUBSET Int] /\ \A k \in Keys : IsFiniteSet(zset'[k])
      /\ expiry' \in [Keys -> Nat] /\ now' = now
      /\ check[c].at \in zset'[check[c].key]
      /\ check[c].began + Window <= expiry'[check[c].key]
      /\ \A d \in Calls : check[d].out = "admitted" =>
           /\ check[d].began + Window <= expiry'[check[d].key]
           /\ check[d].at > now + Skew - Window /\ check[d].at \notin Undone(check[d].key)
                => check[d].at \in zset'[check[d].key]
  BY <1>1, TransactionStores
<1>3. PICK to \in {"undo", "done"}, out \in {"none", "admitted"} :
        /\ Move(c, to, out)
        /\ to = "done" <=> out = "admitted"
        /\ out = "admitted" => Cardinality(Kept(c)) < Limit
  BY DEF Execute
<1>4. /\ check' \in [Calls -> CallType]
      /\ \A d \in Calls : d # c => check'[d] = check[d]
      /\ \A d \in Calls : check'[d].key = check[d].key /\ check'[d].began = check[d].began
                          /\ check'[d].at = check[d].at
      /\ check'[c].out = out /\ check[c].out = "none"
      /\ OnTime' /\ Answered'
  BY <1>1, <1>2, <1>3, Moved
<1>5. RTypeOK'
  BY <1>2, <1>4 DEF RInv, RTypeOK
<1>6. Stored'
  <2>1. \A k : Undone(k)' = Undone(k)
    BY <1>4 DEF Undone
  <2> QED
    BY <1>2, <1>4, <2>1 DEF Stored
<1>7. Ceiling'
  <2>1. CASE out = "admitted"
    BY <1>1, <1>3, <1>4, <2>1, AdmitKeepsCeiling
  <2>2. CASE out # "admitted"
    BY <1>4, <2>2, CeilingStays DEF RInv, NobodyNew
  <2> QED
    BY <2>1, <2>2
<1> QED
  BY <1>4, <1>5, <1>6, <1>7 DEF RInv

LEMMA FailSendKeeps ==
  ASSUME FailClosed, RInv, NEW c \in Calls, FailSend(c)
  PROVE  RInv'
<1>1. Move(c, "done", "unavailable") /\ check[c].pc = "send" /\ now' = now
  BY DEF FailSend, Unavailable, Transaction
<1>2. /\ check' \in [Calls -> CallType]
      /\ \A d \in Calls : d # c => check'[d] = check[d]
      /\ \A d \in Calls : check'[d].key = check[d].key /\ check'[d].began = check[d].began
                          /\ check'[d].at = check[d].at
      /\ check'[c].out = "unavailable" /\ check[c].out = "none"
      /\ OnTime' /\ Answered'
  BY <1>1, Moved
<1>3. Ceiling' /\ \A k : Undone(k)' = Undone(k)
  BY <1>2, CeilingStays DEF RInv, NobodyNew, Undone
<1>4. CASE Transaction(c)
  <2>1. /\ zset' \in [Keys -> SUBSET Int] /\ \A k \in Keys : IsFiniteSet(zset'[k])
        /\ expiry' \in [Keys -> Nat] /\ now' = now
        /\ \A d \in Calls : check[d].out = "admitted" =>
             /\ check[d].began + Window <= expiry'[check[d].key]
             /\ check[d].at > now + Skew - Window /\ check[d].at \notin Undone(check[d].key)
                  => check[d].at \in zset'[check[d].key]
    BY <1>4, TransactionStores
  <2>2. RTypeOK'
    BY <1>2, <2>1 DEF RInv, RTypeOK
  <2>3. Stored'
    BY <1>2, <1>3, <2>1 DEF Stored
  <2> QED
    BY <1>2, <1>3, <2>2, <2>3 DEF RInv
<1>5. CASE UNCHANGED <<now, zset, expiry>>
  <2>1. RTypeOK'
    BY <1>2, <1>5 DEF RInv, RTypeOK
  <2>2. Stored'
    BY <1>2, <1>3, <1>5 DEF RInv, Stored
  <2> QED
    BY <1>2, <1>3, <2>1, <2>2 DEF RInv
<1> QED
  BY <1>4, <1>5 DEF FailSend

LEMMA UndoKeeps == ASSUME RInv, NEW c \in Calls, Undo(c) PROVE RInv'
<1>1. /\ Move(c, "done", "limited") /\ check[c].pc = "undo" /\ now' = now /\ expiry' = expiry
  BY DEF Undo
<1>2. /\ check' \in [Calls -> CallType]
      /\ \A d \in Calls : d # c => check'[d] = check[d]
      /\ \A d \in Calls : check'[d].key = check[d].key /\ check'[d].began = check[d].began
                          /\ check'[d].at = check[d].at
      /\ check'[c].out = "limited" /\ check[c].out = "none"
      /\ OnTime' /\ Answered'
  BY <1>1, Moved
<1>3. Ceiling'
  BY <1>2, CeilingStays DEF RInv, NobodyNew
<1>4. PICK k \in Keys : k = check[c].key
  BY <1>1 DEF RInv, OnTime
<1>5. \/ zset' = [zset EXCEPT ![k] = Entries(k) \ {check[c].at}]
      \/ zset' = zset
  BY <1>4 DEF Undo
<1>6. /\ zset'[k] \subseteq zset[k] /\ zset'[k] \subseteq Int
      /\ Entries(k) \ {check[c].at} \subseteq zset'[k]
      /\ \A j \in Keys : j # k => zset'[j] = zset[j]
      /\ zset' \in [Keys -> SUBSET Int]
  BY <1>5 DEF RInv, RTypeOK, Entries
<1>7. \A j \in Keys : IsFiniteSet(zset'[j])
  <2>1. IsFiniteSet(zset'[k])
    BY <1>6, FS_Subset DEF RInv, RTypeOK
  <2> QED
    BY <1>6, <2>1 DEF RInv, RTypeOK
<1>8. RTypeOK'
  BY <1>1, <1>2, <1>6, <1>7 DEF RInv, RTypeOK
<1>9. Stored'
  <2> SUFFICES ASSUME NEW d \in Calls, check[d].out = "admitted", d # c
               PROVE  /\ check[d].began + Window <= expiry[check[d].key]
                      /\ check[d].at > now + Skew - Window /\ check[d].at \notin Undone(check[d].key)'
                           => check[d].at \in zset'[check[d].key]
    BY <1>1, <1>2 DEF Stored
  <2>0. /\ Undone(check[d].key) \subseteq Undone(check[d].key)' /\ Undone(k) \subseteq Undone(k)'
        /\ check'[d].key = check[d].key
    BY <1>2, UndoneGrows DEF NobodyNew
  <2>1. /\ check[d].key \in Keys /\ check[d].began + Window <= expiry[check[d].key]
        /\ check[d].at > now + Skew - Window /\ check[d].at \notin Undone(check[d].key)'
             => check[d].at \in zset[check[d].key]
    BY <2>0 DEF RInv, Stored, OnTime, Answered
  <2>2. CASE check[d].key = k
    <3>1. check[d].at \notin Undone(k)' => check[d].at # check[c].at
      BY <1>2, <1>4 DEF Undone
    <3>2. check[d].at > now + Skew - Window /\ check[d].at \notin Undone(k)'
            => check[d].at \in Entries(k)
      BY <2>0, <2>2, StoredIsLive DEF RInv
    <3>3. Undone(check[d].key)' = Undone(k)'
      BY <2>0, <2>2 DEF Undone
    <3> QED
      BY <1>6, <2>1, <2>2, <3>1, <3>2, <3>3
  <2> QED
    BY <1>6, <2>1, <2>2
<1> QED
  BY <1>2, <1>3, <1>8, <1>9 DEF RInv

\* Whatever the processes, the network and Redis do, however their clocks differ
\* within the skew and whichever of them agree: in no window, shortened by delay
\* and skew, are calls of a client let through at more than Limit instants, but
\* for instants it shares with a refused call.  It is stated for a limiter that
\* fails closed, which is what production and staging run.
THEOREM CeilingKept ==
  ASSUME FailClosed
  PROVE  RateSpec => []Ceiling
<1>1. RateInit => RInv
  BY RInit
<1>2. ASSUME RInv, [RateNext]_rateVars PROVE RInv'
  <2>1. CASE UNCHANGED rateVars
    BY <1>2, <2>1 DEF rateVars, RInv, RTypeOK, OnTime, Answered, Stored, Ceiling, Instants, Near, Undone
  <2> QED
    BY <1>2, <2>1, TickKeeps, ReadClockKeeps, ExecuteKeeps, FailSendKeeps, UndoKeeps DEF RateNext
<1>3. RInv => Ceiling
  BY DEF RInv
<1> QED
  BY <1>1, <1>2, <1>3, PTL DEF RateSpec

=============================================================================
