------------------------- MODULE InMemoryRateLimiter -------------------------
(***************************************************************************)
(* The sliding-window limiter that one server process keeps in memory.     *)
(*                                                                         *)
(* check_rate_limit is one step here although it is a coroutine with two   *)
(* locks: its only suspension points are the two "async with", nothing is  *)
(* awaited while either lock is held, so no call ever finds one taken and  *)
(* an uncontended asyncio.Lock is acquired without yielding to the loop.   *)
(*                                                                         *)
(* The list of timestamps kept for a client is the set of the calls that   *)
(* appended them: lists only grow at the end and the clock does not go     *)
(* back, so order and equal timestamps need no sequence.  A client is in   *)
(* the dictionary when its set is not empty.                               *)
(***************************************************************************)
EXTENDS Integers, FiniteSets

CONSTANTS
  Keys,       \* clients, as get_client_identifier names them
  Calls,      \* the calls of check_rate_limit, each made at most once
  Limit,      \* max_requests
  Window,     \* window_seconds, in ticks of the clock
  MaxKeys,    \* max_keys
  Second,     \* ticks in a second: time.time() is finer than one second
  Horizon,    \* bound of a behaviour: the last instant of the clock
  NoKey       \* the client of a call that has not been made

ASSUME LimiterConstants ==
  /\ Limit \in Nat \ {0} /\ Window \in Nat \ {0} /\ MaxKeys \in Nat \ {0}
  /\ Second \in Nat \ {0} /\ Horizon \in Nat
  /\ IsFiniteSet(Keys) /\ IsFiniteSet(Calls) /\ NoKey \notin Keys

VARIABLES
  now,        \* time.time()
  call,       \* call[c]: the client, the time and the verdict of a call
  retry,      \* retry[c]: retry_after_seconds of a refused call, else 0
  requests    \* requests[k]: the calls whose timestamps are kept for client k

vars == <<now, call, retry, requests>>

Unmade == [key |-> NoKey, at |-> 0, out |-> "none"]

CallType == [key : Keys \cup {NoKey}, at : Nat, out : {"none", "admitted", "limited"}]

-----------------------------------------------------------------------------
(* The dictionary.                                                         *)

Stored == {k \in Keys : requests[k] # {}}

Expired(k) == \A c \in requests[k] : call[c].at <= now - Window

\* The newest timestamp of i is not after the newest of j.
NotNewer(i, j) == \A c \in requests[i] : \E d \in requests[j] : call[c].at <= call[d].at

\* What is left for k once the expired timestamps are pruned.
Live(k) == {c \in requests[k] : call[c].at > now - Window}

\* Mutant: room is made only when the dictionary is over its capacity.
VictimsLate(k) ==
  LET others == Stored \ {k} IN
  IF Live(k) # {} \/ Cardinality(others) <= MaxKeys THEN {{}}
  ELSE {V \in SUBSET others :
          /\ Cardinality(others \ V) = MaxKeys - 1
          /\ \A i \in V, j \in others \ V :
               Expired(i) \/ (~Expired(j) /\ NotNewer(i, j))}

\* The sets of clients that may be dropped before k is stored: none while k is
\* stored or there is room; otherwise just enough, expired clients first, then
\* those that were let through least recently.
Victims(k) ==
  LET others == Stored \ {k} IN
  IF Live(k) # {} \/ Cardinality(others) < MaxKeys THEN {{}}
  ELSE {V \in SUBSET others :
          /\ Cardinality(others \ V) = MaxKeys - 1
          /\ \A i \in V, j \in others \ V :
               Expired(i) \/ (~Expired(j) /\ NotNewer(i, j))}

-----------------------------------------------------------------------------
(* check_rate_limit.                                                       *)

\* The answer given to a call.
Verdict(c, k, out) == call' = [call EXCEPT ![c] = [key |-> k, at |-> now, out |-> out]]

\* int(max(1.0, oldest + window - now)) in seconds: int() cuts off the fraction.
RetryAfter(oldest) ==
  LET seconds == (call[oldest].at + Window - now) \div Second
  IN  IF seconds < 1 THEN 1 ELSE seconds

\* Mutant: the refused call is counted too, as clients that hammer deserve.
RefuseCounted(c, k) ==
  /\ call[c].out = "none"
  /\ Cardinality(Live(k)) >= Limit
  /\ Verdict(c, k, "limited")
  /\ \E o \in Live(k) :
       /\ \A d \in Live(k) : call[o].at <= call[d].at
       /\ retry' = [retry EXCEPT ![c] = RetryAfter(o)]
  /\ requests' = [requests EXCEPT ![k] = Live(k) \cup {c}]
  /\ UNCHANGED now

Refuse(c, k) ==
  /\ call[c].out = "none"
  /\ Cardinality(Live(k)) >= Limit
  /\ Verdict(c, k, "limited")
  /\ \E o \in Live(k) :
       /\ \A d \in Live(k) : call[o].at <= call[d].at
       /\ retry' = [retry EXCEPT ![c] = RetryAfter(o)]
  /\ requests' = [requests EXCEPT ![k] = Live(k)]
  /\ UNCHANGED now

Admit(c, k) ==
  /\ call[c].out = "none"
  /\ Cardinality(Live(k)) < Limit
  /\ Verdict(c, k, "admitted")
  /\ \E V \in Victims(k) :
       requests' = [j \in Keys |-> IF j = k THEN Live(k) \cup {c}
                                   ELSE IF j \in V THEN {} ELSE requests[j]]
  /\ UNCHANGED <<now, retry>>

Tick == now < Horizon /\ now' = now + 1 /\ UNCHANGED <<call, retry, requests>>

Init ==
  /\ now = 0
  /\ call = [c \in Calls |-> Unmade]
  /\ retry = [c \in Calls |-> 0]
  /\ requests = [k \in Keys |-> {}]

Next == Tick \/ \E c \in Calls, k \in Keys : Refuse(c, k) \/ Admit(c, k)

Spec == Init /\ [][Next]_vars

-----------------------------------------------------------------------------
(* Properties.                                                             *)

\* The promise of the protocol, for a limiter that remembers MaxKeys clients.
Promise == INSTANCE SlidingWindow

\* Clocks, verdicts and Retry-After are of their types, and the dictionary
\* holds calls that were let through for that client.
TypeOK ==
  /\ now \in Nat /\ call \in [Calls -> CallType] /\ retry \in [Calls -> Nat]
  /\ requests \in [Keys -> SUBSET Calls]
  /\ \A k \in Keys : requests[k] \subseteq Promise!LetThrough(k)

\* The dictionary never holds more clients than max_keys, however many clients
\* there are and whichever of them are active.
KeysBounded == Cardinality(Stored) <= MaxKeys

\* The limiter implements the sliding window: a call is refused only at the
\* limit, and let through beyond it only when max_keys other clients have
\* pushed its client out of the dictionary.
WindowKept == Promise!WSpec

=============================================================================
