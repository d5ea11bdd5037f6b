-------------------------- MODULE RedisRateLimiter --------------------------
(***************************************************************************)
(* The sliding-window limiter that several server processes share through  *)
(* Redis: one sorted set per client, whose members are timestamps.         *)
(*                                                                         *)
(* A call reads the clock of its own process, sends ONE transaction        *)
(* (prune, count, add, expire), which Redis executes later and atomically, *)
(* and, when the count was at the limit, takes its timestamp out again     *)
(* with a second command.  Both commands may fail, before or after Redis   *)
(* has executed them.                                                      *)
(*                                                                         *)
(* Member and score of an entry are both the timestamp, so the sorted set  *)
(* of a client is a set of timestamps: equal ones are one entry.           *)
(***************************************************************************)
EXTENDS Integers, FiniteSets

CONSTANTS
  Keys,         \* clients, as get_client_identifier names them
  Calls,        \* the calls of check_rate_limit, each made at most once
  Limit,        \* max_requests
  Window,       \* window_seconds, in ticks of the clock
  Margin,       \* what is added to the window for the expiry of the key
  MaxDelay,     \* the longest time from reading the clock to the execution
  Skew,         \* how far the clock of a process is from that of Redis
  FailClosed,   \* fail_closed: production and staging
  Horizon,      \* bound of a behaviour: the last instant of the clock
  NoKey         \* the client of a call that has not been made

ASSUME RedisConstants ==
  /\ IsFiniteSet(Calls) /\ Limit \in Nat \ {0} /\ Window \in Nat \ {0}
  /\ Margin \in Nat /\ MaxDelay \in Nat /\ Skew \in Nat /\ Horizon \in Nat
  /\ FailClosed \in BOOLEAN /\ NoKey \notin Keys

VARIABLES
  now,     \* the clock of the Redis server
  check,   \* what each call is and where it stands
  zset,    \* zset[k]: the timestamps in the sorted set of client k
  expiry   \* expiry[k]: when Redis drops the sorted set of client k

rateVars == <<now, check, zset, expiry>>

\* pc: "none", "send" before the transaction, "undo" before its entry is
\* removed, "done"; out: "none", "admitted", "limited" or "unavailable".
Unmade == [key |-> NoKey, began |-> 0, at |-> 0, pc |-> "none", out |-> "none"]

\* Redis answers for an expired key as for one that does not exist.
Entries(k) == IF now < expiry[k] THEN zset[k] ELSE {}

Move(c, pc, out) == check' = [check EXCEPT ![c].pc = pc, ![c].out = out]

\* now = time.time(), in the process that serves the request.
ReadClock(c) ==
  /\ check[c].pc = "none"
  /\ \E k \in Keys, s \in -Skew..Skew :
       check' = [check EXCEPT ![c] = [key |-> k, began |-> now, at |-> now + s,
                                      pc |-> "send", out |-> "none"]]
  /\ UNCHANGED <<now, zset, expiry>>

\* Mutant: the timestamps are pruned by half of the window.
KeptHalf(c) == {t \in Entries(check[c].key) : t > check[c].at - Window \div 2}

\* ZREMRANGEBYSCORE 0 window_start leaves the timestamps of the window, and
\* those that other processes read later.
Kept(c) == {t \in Entries(check[c].key) : t > check[c].at - Window}

\* The transaction, as Redis executes it.
Transaction(c) ==
  LET k == check[c].key IN
  /\ check[c].pc = "send"
  /\ zset' = [zset EXCEPT ![k] = Kept(c) \cup {check[c].at}]
  /\ expiry' = [expiry EXCEPT ![k] = now + Window + Margin]
  /\ UNCHANGED now

\* ZCARD counts what is left before the new timestamp is added.
Execute(c) ==
  /\ Transaction(c)
  /\ IF Cardinality(Kept(c)) < Limit
     THEN Move(c, "done", "admitted") ELSE Move(c, "undo", "none")

\* Any other exception: refused in production, let through in development.
Unavailable(c) == Move(c, "done", IF FailClosed THEN "unavailable" ELSE "admitted")

\* The transaction does not reach Redis, or it does and the answer is lost.
FailSend(c) ==
  /\ check[c].pc = "send"
  /\ Unavailable(c)
  /\ Transaction(c) \/ UNCHANGED <<now, zset, expiry>>

\* ZREM of the tentative timestamp; a failure is swallowed.
Undo(c) ==
  LET k == check[c].key IN
  /\ check[c].pc = "undo"
  /\ zset' \in {[zset EXCEPT ![k] = Entries(k) \ {check[c].at}], zset}
  /\ Move(c, "done", "limited")
  /\ UNCHANGED <<now, expiry>>

\* Time does not pass beyond the delay of a transaction under way: the socket
\* timeouts turn a longer one into a failure.
Tick ==
  /\ now < Horizon
  /\ \A c \in Calls : check[c].pc = "send" => now < check[c].began + MaxDelay
  /\ now' = now + 1
  /\ UNCHANGED <<check, zset, expiry>>

RateInit ==
  /\ now = 0
  /\ check = [c \in Calls |-> Unmade]
  /\ zset = [k \in Keys |-> {}]
  /\ expiry = [k \in Keys |-> 0]

RateNext == Tick \/ \E c \in Calls : ReadClock(c) \/ Execute(c) \/ FailSend(c) \/ Undo(c)

RateSpec == RateInit /\ [][RateNext]_rateVars

-----------------------------------------------------------------------------
(* Properties.                                                             *)

\* The calls of the client of d that were let through in the window that ends
\* with d, shortened by what delays and clocks can displace a timestamp.
Near(d) == {c \in Calls : /\ check[c].key = check[d].key /\ check[c].out = "admitted"
                          /\ check[c].began <= check[d].began
                          /\ check[c].began > check[d].began - Window + MaxDelay + 2 * Skew}

\* The timestamps a refused call of client k has taken out, or tried to.
Undone(k) == {check[c].at : c \in {b \in Calls : check[b].key = k /\ check[b].out = "limited"}}

\* The instants at which those calls were made, without those that a refused call
\* of the client shares: its ZREM takes the one entry away from both.
Instants(d) == {check[c].at : c \in Near(d)} \ Undone(check[d].key)

\* However the processes interleave, whatever fails and whichever calls read the
\* same timestamp: no shortened window sees calls of a client let through at more
\* than Limit instants, but for instants at which another call was refused.  So
\* whatever is let through beyond the limit shares its instant with another call.
Ceiling == \A d \in Calls : check[d].out = "admitted" => Cardinality(Instants(d)) <= Limit

=============================================================================
