---------------------------- MODULE SlidingWindow ----------------------------
(***************************************************************************)
(* What RateLimiterProtocol promises, without a word of how the calls are  *)
(* remembered.  A call is refused exactly when Limit calls of its client   *)
(* were let through during the window that ends with it; a limiter with    *)
(* room for MaxKeys clients may let more calls of a client through only    *)
(* when MaxKeys other clients have been let through meanwhile.  With no    *)
(* more than MaxKeys clients that is the exact sliding window.             *)
(***************************************************************************)
EXTENDS Integers, FiniteSets

CONSTANTS
  Keys,      \* clients, as get_client_identifier names them
  Calls,     \* the calls of check_rate_limit, each made at most once
  Limit,     \* max_requests
  Window,    \* the length of the window, in ticks of the clock
  MaxKeys,   \* the number of clients that are remembered for certain
  NoKey      \* the client of a call that has not been made

VARIABLES
  now,       \* the clock
  call       \* call[c]: the client, the time and the verdict of a call

wvars == <<now, call>>

LetThrough(k) == {c \in Calls : call[c].key = k /\ call[c].out = "admitted"}
Recent(k)     == {c \in LetThrough(k) : call[c].at > now - Window}

\* The other clients let through since call c of client k.
Since(k, c) == {j \in Keys \ {k} : \E e \in LetThrough(j) : call[e].at >= call[c].at}

Crowded(k) == \E c \in Recent(k) : Cardinality(Since(k, c)) >= MaxKeys

Verdicts(k) == IF Cardinality(Recent(k)) < Limit THEN {"admitted"}
               ELSE IF Crowded(k) THEN {"admitted", "limited"}
               ELSE {"limited"}

WInit == now = 0 /\ call = [c \in Calls |-> [key |-> NoKey, at |-> 0, out |-> "none"]]

Answer(c, k) ==
  /\ call[c].out = "none"
  /\ \E out \in Verdicts(k) :
       call' = [call EXCEPT ![c] = [key |-> k, at |-> now, out |-> out]]
  /\ UNCHANGED now

Pass == now' \in Nat /\ now' > now /\ UNCHANGED call

WNext == Pass \/ \E c \in Calls, k \in Keys : Answer(c, k)

WSpec == WInit /\ [][WNext]_wvars

=============================================================================
