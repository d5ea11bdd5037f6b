-------------------------- MODULE RequestPath_proofs --------------------------
(***************************************************************************)
(* Proofs about a request on its way through the application, for any      *)
(* settings, any requests and any number of overlapping calls.             *)
(*                                                                         *)
(* The limiter alone keeps its dictionary within max_keys clients and      *)
(* implements the sliding window.  The heart of that is Forgotten: a call  *)
(* of the window whose timestamp is no longer stored was evicted, and the  *)
(* clients that were stored then are newer than it; there were MaxKeys - 1 *)
(* of them, and the one that pushed it out makes MaxKeys.                  *)
(*                                                                         *)
(* A request drives the limiter like a caller the limiter was specified    *)
(* for, so what is proved of the limiter alone holds behind the            *)
(* dependencies.  The rest needs an invariant that ties the stage of a     *)
(* request to what the authenticator decides about it: nothing but a       *)
(* request that is not refused gets past verify_api_key, and the limiter   *)
(* knows a request by the bucket its credentials prove.                    *)
(***************************************************************************)
EXTENDS RequestPath, FiniteSetTheorems, TLAPS

-----------------------------------------------------------------------------
(* The limiter alone.                                                      *)

\* No call was answered in the future.
NotAhead == \A c \in Calls : call[c].at <= now

\* A call of the window that is not stored has MaxKeys clients after it.
Forgotten ==
  \A k \in Keys : \A c \in Promise!Recent(k) :
    c \notin requests[k] => Cardinality(Promise!Since(k, c)) >= MaxKeys

IInv == TypeOK /\ KeysBounded /\ NotAhead /\ Forgotten

-----------------------------------------------------------------------------
(* Facts about the dictionary.                                             *)

LEMMA Finite ==
  /\ \A S \in SUBSET Keys : IsFiniteSet(S) /\ Cardinality(S) \in Nat
  /\ \A S \in SUBSET Calls : IsFiniteSet(S) /\ Cardinality(S) \in Nat
BY FS_Subset, FS_CardinalityType, LimiterConstants DEF LimiterConstants

\* FiniteSets reaches SlidingWindow twice, under two names.
LEMMA SameCardinality == \A S : Promise!Cardinality(S) = Cardinality(S)
BY DEF Cardinality, Promise!Cardinality

LEMMA Larger ==
  /\ \A T \in SUBSET Keys : \A S \in SUBSET T : Cardinality(S) <= Cardinality(T)
  /\ \A T \in SUBSET Calls : \A S \in SUBSET T : Cardinality(S) <= Cardinality(T)
BY FS_Subset, Finite

\* What is stored and live is recent.
LEMMA LiveIsRecent ==
  ASSUME TypeOK, NEW k \in Keys
  PROVE  Live(k) \subseteq Promise!Recent(k) /\ Live(k) \subseteq requests[k]
BY DEF TypeOK, Live, Promise!Recent

\* Calls that are let through once stay let through, so Since only grows.
LEMMA SinceGrows ==
  ASSUME NEW c \in Calls, NEW k \in Keys, NEW out,
         call \in [Calls -> CallType], call[c].out = "none", Verdict(c, k, out)
  PROVE  /\ \A d \in Calls : d # c => call'[d] = call[d]
         /\ call'[c] = [key |-> k, at |-> now, out |-> out]
         /\ \A j \in Keys : Promise!LetThrough(j) \subseteq Promise!LetThrough(j)'
         /\ \A j \in Keys : \A d \in Promise!LetThrough(j) :
              Promise!Since(j, d) \subseteq Promise!Since(j, d)'
<1>1. /\ \A d \in Calls : d # c => call'[d] = call[d]
      /\ call'[c] = [key |-> k, at |-> now, out |-> out]
  BY DEF Verdict
<1>2. \A j \in Keys : Promise!LetThrough(j) \subseteq Promise!LetThrough(j)'
  BY <1>1 DEF Promise!LetThrough
<1>3. \A j \in Keys : \A d \in Promise!LetThrough(j) :
        Promise!Since(j, d) \subseteq Promise!Since(j, d)'
  <2> SUFFICES ASSUME NEW j \in Keys, NEW d \in Promise!LetThrough(j),
                      NEW i \in Promise!Since(j, d)
               PROVE  i \in Promise!Since(j, d)'
    OBVIOUS
  <2>1. PICK e \in Promise!LetThrough(i) : call[e].at >= call[d].at
    BY DEF Promise!Since
  <2>2. i \in Keys \ {j} /\ e \in Calls /\ e # c /\ d \in Calls /\ d # c
    BY DEF Promise!Since, Promise!LetThrough
  <2>3. e \in Promise!LetThrough(i)' /\ call'[e].at >= call'[d].at
    BY <1>1, <1>2, <2>1, <2>2
  <2> QED BY <2>2, <2>3 DEF Promise!Since
<1> QED BY <1>1, <1>2, <1>3

-----------------------------------------------------------------------------
(* The steps keep the invariant.                                           *)

LEMMA InitInv == Init => IInv
<1> SUFFICES ASSUME Init PROVE IInv
  OBVIOUS
<1>1. TypeOK
  BY DEF Init, TypeOK, Unmade, CallType, Promise!LetThrough
<1>2. KeysBounded
  <2>1. Stored = {}
    BY DEF Init, Stored
  <2> QED BY <2>1, FS_EmptySet, LimiterConstants DEF KeysBounded, LimiterConstants
<1>3. NotAhead
  BY DEF Init, NotAhead, Unmade
<1>4. Forgotten
  BY DEF Init, Forgotten, Unmade, Promise!Recent, Promise!LetThrough
<1> QED BY <1>1, <1>2, <1>3, <1>4 DEF IInv

\* As time passes fewer calls are recent.
LEMMA TickStep == IInv /\ Tick => IInv'
<1> SUFFICES ASSUME IInv, Tick PROVE IInv'
  OBVIOUS
<1>1. /\ now' = now + 1 /\ now \in Nat /\ Window \in Nat
      /\ call' = call /\ requests' = requests /\ retry' = retry
  BY LimiterConstants DEF IInv, TypeOK, Tick, LimiterConstants
<1>2. TypeOK'
  BY <1>1 DEF IInv, TypeOK, Promise!LetThrough
<1>3. KeysBounded'
  BY <1>1 DEF IInv, KeysBounded, Stored
<1>4. NotAhead'
  BY <1>1 DEF IInv, NotAhead, TypeOK, CallType
<1>5. Forgotten'
  <2> SUFFICES ASSUME NEW k \in Keys, NEW c \in Promise!Recent(k)', c \notin requests[k]
               PROVE  Cardinality(Promise!Since(k, c)) >= MaxKeys
    BY <1>1 DEF Forgotten, Promise!Since, Promise!LetThrough
  <2>1. c \in Promise!Recent(k)
    BY <1>1 DEF Promise!Recent, Promise!LetThrough, IInv, TypeOK, CallType
  <2> QED BY <2>1 DEF IInv, Forgotten
<1> QED BY <1>2, <1>3, <1>4, <1>5 DEF IInv

\* The answer to a call changes nothing about the others; what is recent
\* afterwards was recent before, or is the call itself.
LEMMA AnswerStep ==
  ASSUME IInv, NEW c \in Calls, NEW k \in Keys, NEW out \in {"admitted", "limited"},
         call[c].out = "none", Verdict(c, k, out), UNCHANGED now
  PROVE  /\ call' \in [Calls -> CallType]
         /\ NotAhead'
         /\ \A j \in Keys : Promise!Recent(j)' \subseteq
              Promise!Recent(j) \cup (IF j = k /\ out = "admitted" THEN {c} ELSE {})
         /\ \A j \in Keys : \A d \in Promise!Recent(j) :
              Cardinality(Promise!Since(j, d)) >= MaxKeys =>
                Cardinality(Promise!Since(j, d)') >= MaxKeys
<1>1. /\ call \in [Calls -> CallType] /\ now \in Nat /\ now' = now
      /\ MaxKeys \in Nat /\ Window \in Nat
  BY LimiterConstants DEF IInv, TypeOK, LimiterConstants
<1>2. /\ \A d \in Calls : d # c => call'[d] = call[d]
      /\ call'[c] = [key |-> k, at |-> now, out |-> out]
      /\ \A j \in Keys : \A d \in Promise!LetThrough(j) :
           Promise!Since(j, d) \subseteq Promise!Since(j, d)'
  BY <1>1, SinceGrows
<1>3. call' \in [Calls -> CallType]
  BY <1>1 DEF Verdict, CallType
<1>4. NotAhead'
  BY <1>1, <1>2 DEF IInv, NotAhead
<1>5. \A j \in Keys : Promise!Recent(j)' \subseteq
        Promise!Recent(j) \cup (IF j = k /\ out = "admitted" THEN {c} ELSE {})
  BY <1>1, <1>2 DEF Promise!Recent, Promise!LetThrough
<1>6. ASSUME NEW j \in Keys, NEW d \in Promise!Recent(j),
             Cardinality(Promise!Since(j, d)) >= MaxKeys
      PROVE  Cardinality(Promise!Since(j, d)') >= MaxKeys
  <2>1. Promise!Since(j, d) \subseteq Promise!Since(j, d)'
    BY <1>2 DEF Promise!Recent
  <2>2. Promise!Since(j, d)' \in SUBSET Keys
    BY DEF Promise!Since
  <2>3. Cardinality(Promise!Since(j, d)) <= Cardinality(Promise!Since(j, d)')
    BY <2>1, <2>2, Larger
  <2>4. /\ Cardinality(Promise!Since(j, d)) \in Nat
        /\ Cardinality(Promise!Since(j, d)') \in Nat
    BY <2>1, <2>2, Finite
  <2> QED BY <1>1, <1>6, <2>3, <2>4
<1> QED BY <1>3, <1>4, <1>5, <1>6

\* A refusal only prunes what is not recent any more.
LEMMA RefuseStep ==
  ASSUME IInv, NEW c \in Calls, NEW k \in Keys, Refuse(c, k)
  PROVE  IInv'
<1>1. /\ TypeOK /\ now' = now /\ call[c].out = "none" /\ Verdict(c, k, "limited")
      /\ requests' = [requests EXCEPT ![k] = Live(k)]
      /\ requests \in [Keys -> SUBSET Calls]
  BY DEF Refuse, IInv, TypeOK
<1>2. /\ call' \in [Calls -> CallType] /\ NotAhead'
      /\ \A j \in Keys : Promise!Recent(j)' \subseteq Promise!Recent(j)
      /\ \A j \in Keys : \A d \in Promise!Recent(j) :
           Cardinality(Promise!Since(j, d)) >= MaxKeys =>
             Cardinality(Promise!Since(j, d)') >= MaxKeys
  BY <1>1, AnswerStep
<1>3. /\ Live(k) \subseteq requests[k] /\ Live(k) \subseteq Promise!Recent(k)
      /\ \A j \in Keys : requests'[j] \subseteq requests[j]
  BY <1>1, LiveIsRecent
<1>4. TypeOK'
  <2>1. retry' \in [Calls -> Nat]
    <3>1. PICK o \in Live(k) : retry' = [retry EXCEPT ![c] = RetryAfter(o)]
      BY DEF Refuse
    <3>2. RetryAfter(o) \in Nat
      BY <1>1, <1>3, LimiterConstants DEF RetryAfter, LimiterConstants, TypeOK, CallType
    <3> QED BY <3>1, <3>2, <1>1 DEF TypeOK
  <2>2. \A j \in Keys : Promise!LetThrough(j) \subseteq Promise!LetThrough(j)'
    BY <1>1, SinceGrows DEF TypeOK
  <2> QED BY <1>1, <1>2, <1>3, <2>1, <2>2 DEF TypeOK
<1>5. KeysBounded'
  <2>1. Stored' \subseteq Stored /\ Stored \in SUBSET Keys
    BY <1>1, <1>3 DEF Stored
  <2>2. Cardinality(Stored') <= Cardinality(Stored)
    BY <2>1, Larger
  <2> QED BY <2>1, <2>2, Finite, LimiterConstants DEF IInv, KeysBounded, LimiterConstants
<1>6. Forgotten'
  <2> SUFFICES ASSUME NEW j \in Keys, NEW d \in Promise!Recent(j)', d \notin requests'[j]
               PROVE  Cardinality(Promise!Since(j, d)') >= MaxKeys
    BY DEF Forgotten
  <2>1. d \in Promise!Recent(j)
    BY <1>2
  <2>2. d \notin requests[j]
    BY <1>1, <2>1 DEF Live, Promise!Recent
  <2> QED BY <1>2, <2>1, <2>2 DEF IInv, Forgotten
<1> QED BY <1>2, <1>4, <1>5, <1>6 DEF IInv

\* The clients that stay when V is dropped to store k, and the room there is.
LEMMA RoomMade ==
  ASSUME TypeOK, KeysBounded, NEW k \in Keys, NEW V \in Victims(k), Live(k) = {}
  PROVE  /\ V \subseteq Stored \ {k}
         /\ Cardinality((Stored \ {k}) \ V) + 1 <= MaxKeys
         /\ V # {} => Cardinality((Stored \ {k}) \ V) + 1 = MaxKeys
         /\ \A i \in V, j \in (Stored \ {k}) \ V :
              Expired(i) \/ (~Expired(j) /\ NotNewer(i, j))
<1> DEFINE others == Stored \ {k}
<1>1. MaxKeys \in Nat \ {0} /\ others \in SUBSET Keys /\ Cardinality(others) \in Nat
  BY Finite, LimiterConstants DEF LimiterConstants, Stored
<1>2. CASE Cardinality(others) < MaxKeys
  <2>1. V = {} /\ others \ V = others
    BY <1>2 DEF Victims
  <2> QED BY <1>1, <1>2, <2>1
<1>3. CASE ~(Cardinality(others) < MaxKeys)
  <2>1. /\ V \in SUBSET others
        /\ Cardinality(others \ V) = MaxKeys - 1
        /\ \A i \in V, j \in others \ V :
             Expired(i) \/ (~Expired(j) /\ NotNewer(i, j))
    BY <1>3 DEF Victims
  <2> QED BY <1>1, <2>1
<1> QED BY <1>2, <1>3

\* One client is stored in the room that has been made.
LEMMA AdmitKeysBounded ==
  ASSUME IInv, NEW c \in Calls, NEW k \in Keys, NEW V \in Victims(k),
         requests' = [j \in Keys |-> IF j = k THEN Live(k) \cup {c}
                                    ELSE IF j \in V THEN {} ELSE requests[j]]
  PROVE  KeysBounded'
<1>1. TypeOK /\ KeysBounded /\ Live(k) \subseteq requests[k]
  BY LiveIsRecent DEF IInv
<1>2. CASE Live(k) # {}
  <2>1. V = {}
    BY <1>2 DEF Victims
  <2>2. Stored' = Stored
    BY <1>1, <1>2, <2>1 DEF Stored
  <2> QED BY <1>1, <2>2 DEF KeysBounded
<1>3. CASE Live(k) = {}
  <2> DEFINE stay == (Stored \ {k}) \ V
  <2>1. Cardinality(stay) + 1 <= MaxKeys
    BY <1>1, <1>3, RoomMade
  <2>2. Stored' = stay \cup {k} /\ k \notin stay
    BY DEF Stored
  <2>3. stay \in SUBSET Keys
    BY DEF Stored
  <2>4. Cardinality(stay \cup {k}) = Cardinality(stay) + 1
    BY <2>2, <2>3, Finite, FS_AddElement
  <2> QED BY <2>1, <2>2, <2>4 DEF KeysBounded
<1> QED BY <1>2, <1>3

\* An evicted call of the window has the clients that stay, and the one that
\* is stored now, after it.
LEMMA EvictedIsCrowded ==
  ASSUME IInv, NEW c \in Calls, NEW k \in Keys, NEW V \in Victims(k),
         call[c].out = "none", Verdict(c, k, "admitted"), UNCHANGED now,
         NEW j \in V, NEW d \in requests[j], d \in Promise!Recent(j)
  PROVE  Cardinality(Promise!Since(j, d)') >= MaxKeys
<1> DEFINE stay == (Stored \ {k}) \ V
<1>1. TypeOK /\ KeysBounded /\ NotAhead /\ MaxKeys \in Nat /\ now \in Nat /\ Window \in Nat
  BY LimiterConstants DEF IInv, TypeOK, LimiterConstants
<1>2. Live(k) = {}
  BY DEF Victims
<1>3. /\ j \in Stored \ {k} /\ Cardinality(stay) + 1 = MaxKeys
      /\ \A i \in stay : Expired(j) \/ NotNewer(j, i)
  BY <1>1, <1>2, RoomMade
<1>4. /\ \A e \in Calls : e # c => call'[e] = call[e]
      /\ call'[c] = [key |-> k, at |-> now, out |-> "admitted"]
      /\ Promise!Since(j, d) \subseteq Promise!Since(j, d)'
  BY <1>1, <1>3, SinceGrows DEF TypeOK, Stored, Promise!Recent
<1>5. d \in Calls /\ d # c /\ ~Expired(j) /\ call[d].at <= now /\ call[d].at \in Nat
  BY <1>1 DEF Promise!Recent, Promise!LetThrough, Expired, NotAhead, TypeOK, CallType
<1>6. stay \subseteq Promise!Since(j, d)
  <2> SUFFICES ASSUME NEW i \in stay PROVE i \in Promise!Since(j, d)
    OBVIOUS
  <2>1. PICK e \in requests[i] : call[d].at <= call[e].at
    BY <1>3, <1>5 DEF NotNewer
  <2>2. i \in Keys \ {j}
    BY DEF Stored
  <2>3. e \in Promise!LetThrough(i) /\ call[e].at \in Nat
    BY <1>1, <2>2 DEF TypeOK, CallType, Promise!LetThrough
  <2>4. call[e].at >= call[d].at
    BY <1>5, <2>1, <2>3
  <2> QED BY <2>2, <2>3, <2>4 DEF Promise!Since
<1>7. k \in Promise!Since(j, d)'
  <2>1. c \in Promise!LetThrough(k)' /\ call'[c].at >= call'[d].at /\ k \in Keys \ {j}
    BY <1>1, <1>3, <1>4, <1>5 DEF Promise!LetThrough
  <2> QED BY <2>1 DEF Promise!Since
<1>8. Cardinality(stay \cup {k}) = MaxKeys
  <2>1. stay \in SUBSET Keys /\ k \notin stay
    BY DEF Stored
  <2> QED BY <1>3, <2>1, Finite, FS_AddElement
<1>9. Cardinality(stay \cup {k}) <= Cardinality(Promise!Since(j, d)')
  <2>1. stay \cup {k} \subseteq Promise!Since(j, d)' /\ Promise!Since(j, d)' \in SUBSET Keys
    BY <1>4, <1>6, <1>7 DEF Promise!Since
  <2> QED BY <2>1, Larger
<1>10. Cardinality(Promise!Since(j, d)') \in Nat
  BY Finite DEF Promise!Since
<1> QED BY <1>1, <1>8, <1>9, <1>10

LEMMA AdmitStep ==
  ASSUME IInv, NEW c \in Calls, NEW k \in Keys, Admit(c, k)
  PROVE  IInv'
<1>1. PICK V \in Victims(k) :
        requests' = [j \in Keys |-> IF j = k THEN Live(k) \cup {c}
                                   ELSE IF j \in V THEN {} ELSE requests[j]]
  BY DEF Admit
<1>2. /\ TypeOK /\ now' = now /\ retry' = retry
      /\ call[c].out = "none" /\ Verdict(c, k, "admitted")
  BY DEF Admit, IInv
<1>3. /\ call' \in [Calls -> CallType] /\ NotAhead'
      /\ \A j \in Keys : Promise!Recent(j)' \subseteq
           Promise!Recent(j) \cup (IF j = k THEN {c} ELSE {})
      /\ \A j \in Keys : \A d \in Promise!Recent(j) :
           Cardinality(Promise!Since(j, d)) >= MaxKeys =>
             Cardinality(Promise!Since(j, d)') >= MaxKeys
  BY <1>2, AnswerStep
<1>4. Live(k) \subseteq requests[k] /\ Live(k) \subseteq Promise!Recent(k)
  BY <1>2, LiveIsRecent
<1>5. TypeOK'
  <2>1. /\ \A j \in Keys : Promise!LetThrough(j) \subseteq Promise!LetThrough(j)'
        /\ call'[c] = [key |-> k, at |-> now, out |-> "admitted"]
    BY <1>2, SinceGrows DEF TypeOK
  <2>2. c \in Promise!LetThrough(k)'
    BY <2>1 DEF Promise!LetThrough
  <2>3. \A j \in Keys : requests'[j] \subseteq Promise!LetThrough(j)'
    BY <1>1, <1>2, <1>4, <2>1, <2>2 DEF TypeOK
  <2>4. requests' \in [Keys -> SUBSET Calls]
    BY <1>1, <1>2, <1>4 DEF TypeOK
  <2> QED BY <1>2, <1>3, <2>3, <2>4 DEF TypeOK
<1>6. KeysBounded'
  BY <1>1, AdmitKeysBounded
<1>7. Forgotten'
  <2> SUFFICES ASSUME NEW j \in Keys, NEW d \in Promise!Recent(j)', d \notin requests'[j]
               PROVE  Cardinality(Promise!Since(j, d)') >= MaxKeys
    BY DEF Forgotten
  <2>1. d \in Promise!Recent(j)
    BY <1>1, <1>3
  <2>2. CASE d \notin requests[j]
    BY <1>3, <2>1, <2>2 DEF IInv, Forgotten
  <2>3. CASE d \in requests[j]
    <3>1. j # k
      BY <1>1, <2>1, <2>3 DEF Live, Promise!Recent
    <3>2. j \in V
      BY <1>1, <2>3, <3>1
    <3> QED BY <1>2, <2>1, <2>3, <3>2, EvictedIsCrowded
  <2> QED BY <2>2, <2>3
<1> QED BY <1>3, <1>5, <1>6, <1>7 DEF IInv

LEMMA StutterInv == IInv /\ UNCHANGED vars => IInv'
<1> SUFFICES ASSUME IInv, UNCHANGED vars PROVE IInv'
  OBVIOUS
<1> USE DEF vars
<1>1. TypeOK' /\ KeysBounded' /\ NotAhead'
  BY DEF IInv, TypeOK, KeysBounded, Stored, NotAhead, Promise!LetThrough
<1>2. Forgotten'
  BY DEF IInv, Forgotten, Promise!Recent, Promise!Since, Promise!LetThrough
<1> QED BY <1>1, <1>2 DEF IInv

-----------------------------------------------------------------------------
(* The theorems.                                                           *)

\* The invariant holds in every reachable state, for all values of the
\* constants.
THEOREM Inductive == Spec => []IInv
<1>1. IInv /\ [Next]_vars => IInv'
  BY TickStep, RefuseStep, AdmitStep, StutterInv DEF Next
<1> QED BY <1>1, InitInv, PTL DEF Spec

\* Clocks, verdicts and stored calls keep their types.
THEOREM TypeCorrect == Spec => []TypeOK
<1>1. IInv => TypeOK
  BY DEF IInv
<1> QED BY <1>1, Inductive, PTL

\* check_rate_limit never leaves more than max_keys clients in the dictionary.
THEOREM Bounded == Spec => []KeysBounded
<1>1. IInv => KeysBounded
  BY DEF IInv
<1> QED BY <1>1, Inductive, PTL

\* At the limit by its own count, the limiter is at the limit of the window.
LEMMA RefuseRefines ==
  ASSUME IInv, NEW c \in Calls, NEW k \in Keys, Refuse(c, k)
  PROVE  Promise!Answer(c, k)
<1>1. /\ Live(k) \subseteq Promise!Recent(k) /\ Cardinality(Live(k)) >= Limit
      /\ now' = now /\ call[c].out = "none" /\ Verdict(c, k, "limited")
  BY LiveIsRecent DEF IInv, Refuse
<1>2. /\ Cardinality(Live(k)) <= Cardinality(Promise!Recent(k))
      /\ Cardinality(Live(k)) \in Nat /\ Cardinality(Promise!Recent(k)) \in Nat
  <2>1. Promise!Recent(k) \in SUBSET Calls
    BY DEF Promise!Recent, Promise!LetThrough
  <2> QED BY <1>1, <2>1, Larger, Finite
<1>3. ~(Cardinality(Promise!Recent(k)) < Limit)
  BY <1>1, <1>2, LimiterConstants DEF LimiterConstants
<1>4. "limited" \in Promise!Verdicts(k)
  BY <1>3, SameCardinality DEF Promise!Verdicts
<1> QED BY <1>1, <1>4 DEF Promise!Answer, Verdict

\* Below the limit by its own count, it is below the limit of the window or
\* has forgotten a call of it.
LEMMA AdmitRefines ==
  ASSUME IInv, NEW c \in Calls, NEW k \in Keys, Admit(c, k)
  PROVE  Promise!Answer(c, k)
<1>1. /\ Cardinality(Live(k)) < Limit /\ now' = now
      /\ call[c].out = "none" /\ Verdict(c, k, "admitted")
  BY DEF Admit
<1>2. "admitted" \in Promise!Verdicts(k)
  <2>1. CASE Cardinality(Promise!Recent(k)) < Limit
    BY <2>1, SameCardinality DEF Promise!Verdicts
  <2>2. CASE ~(Cardinality(Promise!Recent(k)) < Limit)
    <3>1. Live(k) # Promise!Recent(k)
      BY <1>1, <2>2
    <3>2. PICK d \in Promise!Recent(k) : d \notin Live(k)
      BY <3>1, LiveIsRecent DEF IInv
    <3>3. d \notin requests[k]
      BY <3>2 DEF Live, Promise!Recent
    <3>4. Promise!Crowded(k)
      BY <3>2, <3>3, SameCardinality DEF IInv, Forgotten, Promise!Crowded
    <3> QED BY <2>2, <3>4, SameCardinality DEF Promise!Verdicts
  <2> QED BY <2>1, <2>2
<1> QED BY <1>1, <1>2 DEF Promise!Answer, Verdict

\* The in-memory limiter implements the sliding window: refused exactly at the
\* limit, except where eviction by max_keys other clients lets a call through.
THEOREM Implements == Spec => WindowKept
<1>1. Init => Promise!WInit
  BY DEF Init, Unmade, Promise!WInit
<1>2. IInv /\ [Next]_vars => [Promise!WNext]_(Promise!wvars)
  <2> SUFFICES ASSUME IInv, [Next]_vars PROVE [Promise!WNext]_(Promise!wvars)
    OBVIOUS
  <2>1. CASE Tick
    BY <2>1 DEF Tick, IInv, TypeOK, Promise!WNext, Promise!Pass
  <2>2. CASE \E c \in Calls, k \in Keys : Refuse(c, k) \/ Admit(c, k)
    BY <2>2, RefuseRefines, AdmitRefines DEF Promise!WNext
  <2>3. CASE UNCHANGED vars
    BY <2>3 DEF vars, Promise!wvars
  <2> QED BY <2>1, <2>2, <2>3 DEF Next
<1> QED BY <1>1, <1>2, Inductive, PTL DEF Spec, WindowKept, Promise!WSpec

-----------------------------------------------------------------------------
(* The request.                                                            *)

MeterType == [requests : Nat, errors : Nat, latency : Nat, begun : Nat, ended : Nat]

\* A request that was sent is one of those clients make.
PathType ==
  /\ security \in Settings
  /\ request \in [Calls -> Arrivals \cup {NoRequest}]
  /\ stage \in [Calls -> Stages]
  /\ DOMAIN status = Calls /\ DOMAIN touched = Calls
  /\ meter \in MeterType
  /\ \A c \in Calls : stage[c] # "unsent" => request[c] \in Arrivals

\* Only who is not refused comes to the endpoint.
Vetted == \A c \in Calls :
  stage[c] \in {"verified", "raised"} => Refusal(security, request[c]) = "none"

\* What was touched is what the endpoint was asked for, by a caller not refused.
Targeted == \A c \in Calls :
  touched[c] # Absent => /\ stage[c] \in {"answered", "left"}
                         /\ Refusal(security, request[c]) = "none"
                         /\ touched[c] = Target(c)

\* The limiter counts a request in the bucket of its credentials.
Bucketed == \A c \in Calls :
  call[c].out # "none" => /\ stage[c] # "unsent"
                          /\ call[c].key = Bucket(security, request[c])

PathInv == PathType /\ Vetted /\ Targeted /\ Bucketed

-----------------------------------------------------------------------------
(* The limiter behind the dependencies.                                    *)

LEMMA BucketIsKey ==
  ASSUME PathType, NEW c \in Calls, stage[c] # "unsent"
  PROVE  Bucket(security, request[c]) \in Keys
BY RequestConstants DEF PathType

\* Every step of a request is a step of the limiter, or leaves it alone.
LEMMA StepOfLimiter ==
  ASSUME PathType, [PathNext]_pvars
  PROVE  [Next]_vars
<1>1. CASE Tick /\ UNCHANGED path
  BY <1>1 DEF Next
<1>2. ASSUME NEW c \in Calls, Step(c) PROVE [Next]_vars
  <2>1. CASE CheckRateLimit(c)
    <3>1. Bucket(security, request[c]) \in Keys
      BY <2>1, BucketIsKey DEF CheckRateLimit
    <3>2. Refuse(c, Bucket(security, request[c])) \/ Admit(c, Bucket(security, request[c]))
      BY <2>1 DEF CheckRateLimit
    <3> QED BY <3>1, <3>2 DEF Next
  <2>2. CASE ~CheckRateLimit(c)
    <3>1. UNCHANGED vars
      BY <1>2, <2>2 DEF Step, Arrive, RejectBody, VerifyApiKey, Handle, HandleOpen, Raise,
                        Respond, RespondRaised, vars
    <3> QED BY <3>1
  <2> QED BY <2>1, <2>2
<1>3. CASE UNCHANGED pvars
  BY <1>3 DEF pvars
<1> QED BY <1>1, <1>2, <1>3 DEF PathNext

-----------------------------------------------------------------------------
(* The invariant.                                                          *)

\* What a step leaves alone: the settings, and whatever belongs to other requests.
LEMMA OthersStay ==
  ASSUME PathType, call \in [Calls -> CallType], NEW c \in Calls, Step(c)
  PROVE  /\ security' = security
         /\ \A d \in Calls \ {c} :
              /\ request'[d] = request[d] /\ stage'[d] = stage[d] /\ status'[d] = status[d]
              /\ touched'[d] = touched[d] /\ call'[d] = call[d]
BY DEF PathType, Step, Arrive, RejectBody, CheckRateLimit, VerifyApiKey, Handle, HandleOpen,
       Raise, Respond, RespondRaised, Answered, Move, Refuse, Admit, Verdict, vars

LEMMA TypeStep ==
  ASSUME PathType, NEW c \in Calls, Step(c)
  PROVE  PathType'
<1>1. /\ security' \in Settings /\ DOMAIN status' = Calls /\ DOMAIN touched' = Calls
      /\ stage' \in [Calls -> Stages]
  BY DEF PathType, Step, Arrive, RejectBody, CheckRateLimit, VerifyApiKey, Handle, HandleOpen,
         Raise, Respond, RespondRaised, Answered, Move, Stages
<1>2. /\ request' \in [Calls -> Arrivals \cup {NoRequest}]
      /\ \A d \in Calls : stage'[d] # "unsent" => request'[d] \in Arrivals
  BY DEF PathType, Step, Arrive, RejectBody, CheckRateLimit, VerifyApiKey, Handle, HandleOpen,
         Raise, Respond, RespondRaised, Answered, Move, Stages
<1>3. meter' \in MeterType
  <2>1. meter \in MeterType
    BY DEF PathType
  <2>2. CASE Arrive(c)
    BY <2>1, <2>2 DEF Arrive, MeterType
  <2>3. CASE Respond(c)
    <3> DEFINE errors == IF status[c] >= 400 THEN meter.errors + 1 ELSE meter.errors
    <3>1. meter' = [meter EXCEPT !.requests = @ + 1, !.latency = @ + 1, !.ended = @ + 1,
                                 !.errors = errors]
      BY <2>3 DEF Respond
    <3>2. errors \in Nat
      BY <2>1 DEF MeterType
    <3> HIDE DEF errors
    <3>3. meter' = [requests |-> meter.requests + 1, errors |-> errors,
                    latency |-> meter.latency + 1, begun |-> meter.begun,
                    ended |-> meter.ended + 1]
      BY <2>1, <3>1 DEF MeterType
    <3> QED BY <2>1, <3>2, <3>3 DEF MeterType
  <2>4. CASE RespondRaised(c)
    <3>1. meter' = [meter EXCEPT !.errors = @ + 1, !.latency = @ + 1, !.ended = @ + 1]
      BY <2>4 DEF RespondRaised
    <3>2. meter' = [requests |-> meter.requests, errors |-> meter.errors + 1,
                    latency |-> meter.latency + 1, begun |-> meter.begun,
                    ended |-> meter.ended + 1]
      BY <2>1, <3>1 DEF MeterType
    <3> QED BY <2>1, <3>2 DEF MeterType
  <2>5. CASE ~(Arrive(c) \/ Respond(c) \/ RespondRaised(c))
    <3>1. meter' = meter
      BY <2>5 DEF Step, RejectBody, CheckRateLimit, VerifyApiKey, Handle, HandleOpen, Raise
    <3> QED BY <2>1, <3>1
  <2> QED BY <2>2, <2>3, <2>4, <2>5
<1> QED BY <1>1, <1>2, <1>3 DEF PathType

LEMMA VettedStep ==
  ASSUME PathType, Vetted, call \in [Calls -> CallType], NEW c \in Calls, Step(c)
  PROVE  Vetted'
<1>1. /\ security' = security
      /\ \A d \in Calls \ {c} : request'[d] = request[d] /\ stage'[d] = stage[d]
  BY OthersStay
<1>2. stage'[c] \in {"verified", "raised"} =>
        request'[c] = request[c] /\ Refusal(security, request[c]) = "none"
  BY DEF PathType, Vetted, Step, Arrive, RejectBody, CheckRateLimit, VerifyApiKey, Handle,
         HandleOpen, Raise, Respond, RespondRaised, Answered, Move
<1> QED BY <1>1, <1>2 DEF Vetted

LEMMA TargetedStep ==
  ASSUME PathType, Vetted, Targeted, call \in [Calls -> CallType], NEW c \in Calls, Step(c)
  PROVE  Targeted'
<1>1. /\ security' = security
      /\ \A d \in Calls \ {c} : /\ request'[d] = request[d] /\ stage'[d] = stage[d]
                                /\ touched'[d] = touched[d]
  BY OthersStay
<1>2. touched'[c] # Absent => /\ stage'[c] \in {"answered", "left"} /\ request'[c] = request[c]
                              /\ Refusal(security, request[c]) = "none"
                              /\ touched'[c] = Target(c)
  BY DEF PathType, Vetted, Targeted, Step, Arrive, RejectBody, CheckRateLimit, VerifyApiKey,
         Handle, HandleOpen, Raise, Respond, RespondRaised, Answered, Move
<1>3. \A d \in Calls : request'[d] = request[d] => Target(d)' = Target(d)
  BY <1>1 DEF Target
<1> QED BY <1>1, <1>2, <1>3 DEF Targeted

LEMMA BucketedStep ==
  ASSUME PathType, Bucketed, call \in [Calls -> CallType], NEW c \in Calls, Step(c)
  PROVE  Bucketed'
<1>1. /\ security' = security
      /\ \A d \in Calls \ {c} : /\ request'[d] = request[d] /\ stage'[d] = stage[d]
                                /\ call'[d] = call[d]
  BY OthersStay
<1>2. call'[c].out # "none" => /\ stage'[c] # "unsent" /\ request'[c] = request[c]
                               /\ call'[c].key = Bucket(security, request[c])
  <2>1. CASE CheckRateLimit(c)
    BY <2>1 DEF CheckRateLimit, Refuse, Admit, Verdict, Answered, Move, PathType
  <2>2. CASE ~CheckRateLimit(c)
    BY <2>2 DEF PathType, Bucketed, Step, Arrive, RejectBody, VerifyApiKey, Handle, HandleOpen,
                Raise, Respond, RespondRaised, Answered, Move, vars
  <2> QED BY <2>1, <2>2
<1> QED BY <1>1, <1>2 DEF Bucketed

LEMMA PathInvStep ==
  ASSUME PathInv, IInv, [PathNext]_pvars
  PROVE  PathInv'
<1>1. call \in [Calls -> CallType] /\ PathType /\ Vetted /\ Targeted /\ Bucketed
  BY DEF IInv, TypeOK, PathInv
<1>2. ASSUME NEW c \in Calls, Step(c) PROVE PathInv'
  BY <1>1, <1>2, TypeStep, VettedStep, TargetedStep, BucketedStep DEF PathInv
<1>3. CASE UNCHANGED <<path, call>>
  <2>1. \A c \in Calls : Target(c)' = Target(c)
    BY <1>3 DEF Target, path
  <2> QED BY <1>1, <1>3, <2>1 DEF PathInv, PathType, Vetted, Targeted, Bucketed, path
<1>4. (Tick /\ UNCHANGED path) \/ UNCHANGED pvars => UNCHANGED <<path, call>>
  BY DEF Tick, pvars, path, vars
<1> QED BY <1>2, <1>3, <1>4 DEF PathNext

LEMMA PathInvInit == PathInit => PathInv
BY DEF PathInit, PathInv, PathType, Vetted, Targeted, Bucketed, Init, Unmade, NoMeter, MeterType,
       Stages

\* Requests behind their dependencies use the limiter as its specification says.
THEOREM DrivesTheLimiter == PathSpec => Spec /\ []IInv /\ []PathInv
<1>1. PathInit => Init /\ PathInv
  BY PathInvInit DEF PathInit
<1>2. PathInv /\ [PathNext]_pvars => [Next]_vars
  BY StepOfLimiter DEF PathInv
<1>3. IInv /\ [Next]_vars => IInv'
  BY TickStep, RefuseStep, AdmitStep, StutterInv DEF Next
<1>4. PathInv /\ IInv /\ [PathNext]_pvars => PathInv'
  BY PathInvStep
<1> QED BY <1>1, <1>2, <1>3, <1>4, InitInv, PTL DEF PathSpec, Spec

\* max_keys bounds the dictionary, whatever requests arrive.
THEOREM PathBounded == PathSpec => []KeysBounded
BY DrivesTheLimiter, Bounded, PTL

\* Behind the dependencies of its routes the limiter implements the sliding window.
THEOREM PathImplements == PathSpec => WindowKept
BY DrivesTheLimiter, Implements, PTL

-----------------------------------------------------------------------------
(* Bound keys.                                                             *)

\* Authenticator, policy and upload handler leave a bound key its own tenant.
LEMMA TargetOfBound ==
  ASSUME NEW c \in Calls, security.enforced, ~Unconfigured(security),
         request[c].key \notin security.masters,
         Refusal(security, request[c]) = "none", Target(c) # Absent
  PROVE  /\ request[c].key \notin security.revoked
         /\ Target(c) = security.tenantOf[request[c].key]
<1>1. ~BadKey(security, request[c].key)
  BY DEF Refusal
<1>2. /\ Context(security, request[c]).tenant = security.tenantOf[request[c].key]
      /\ ~Context(security, request[c]).admin /\ Context(security, request[c]).known
  BY DEF Context
<1>3. Target(c) = Context(security, request[c]).tenant
  BY <1>2 DEF Target, CanAccess, UploadRefused, UploadTenant, Locked
<1> QED BY <1>1, <1>2, <1>3 DEF BadKey

\* For any keys, tenants and headers, a key bound to a tenant touches its documents only.
THEOREM StaysHome == PathSpec => []BoundKeysStayHome
<1>1. PathInv => BoundKeysStayHome
  BY TargetOfBound DEF PathInv, Targeted, BoundKeysStayHome
<1> QED BY <1>1, DrivesTheLimiter, PTL

-----------------------------------------------------------------------------
(* Whose traffic limits whom.                                              *)

\* The calls a caller with a valid key made of its own within the window of call c.
Own(c) == {d \in Before(c) : /\ request[d].key = request[c].key
                             /\ Refusal(security, request[d]) = "none"
                             /\ Context(security, request[d]) = Context(security, request[c])}

\* A call that was limited although its credentials hold.
Limited(c) == /\ call[c].out = "limited" /\ Refusal(security, request[c]) = "none"
              /\ Context(security, request[c]).known

\* The bucket of a proved identity holds requests of that identity only.
LEMMA SameBucket ==
  ASSUME NEW r, NEW q, Refusal(security, r) = "none", Context(security, r).known,
         Bucket(security, q) = Bucket(security, r)
  PROVE  /\ q.key = r.key /\ Refusal(security, q) = "none"
         /\ Context(security, q) = Context(security, r)
<1>1. Bucket(security, r) = <<"auth", Context(security, r).tenant, r.key>>
  BY DEF Bucket
<1>2. Refusal(security, q) = "none" /\ Context(security, q).known
  <2>1. \A a : <<"ip", a>> # <<"auth", Context(security, r).tenant, r.key>>
    OBVIOUS
  <2> QED BY <1>1, <2>1 DEF Bucket
<1>3. Bucket(security, q) = <<"auth", Context(security, q).tenant, q.key>>
  BY <1>2 DEF Bucket
<1>4. q.key = r.key /\ Context(security, q).tenant = Context(security, r).tenant
  BY <1>1, <1>3
<1>5. ~Unconfigured(security)
  BY DEF Context
<1> QED BY <1>2, <1>4, <1>5 DEF Context

\* Answered calls keep their verdict, and their requests what they carry.
LEMMA AnsweredStays ==
  ASSUME PathInv, IInv, NEW c \in Calls, Step(c), NEW d \in Calls, call[d].out # "none"
  PROVE  call'[d] = call[d] /\ request'[d] = request[d]
<1>1. call \in [Calls -> CallType] /\ PathType
  BY DEF IInv, TypeOK, PathInv
<1>2. CASE d # c
  BY <1>1, <1>2, OthersStay
<1>3. CASE d = c
  <2>1. ~Arrive(c)
    BY <1>1, <1>3 DEF Arrive, Move, PathInv, Bucketed
  <2>2. request' = request
    BY <2>1 DEF Step, RejectBody, CheckRateLimit, VerifyApiKey, Handle, HandleOpen, Raise,
                Respond, RespondRaised
  <2>3. UNCHANGED vars
    BY <1>3, <2>1 DEF Step, RejectBody, CheckRateLimit, Refuse, Admit, VerifyApiKey, Handle,
                      HandleOpen, Raise, Respond, RespondRaised
  <2> QED BY <2>2, <2>3 DEF vars
<1> QED BY <1>2, <1>3

LEMMA OwnGrows ==
  ASSUME PathInv, IInv, NEW c \in Calls, Step(c), NEW d \in Calls, call[d].out # "none"
  PROVE  Own(d) \subseteq Own(d)'
<1>1. security' = security
  BY OthersStay DEF PathInv, IInv, TypeOK
<1>2. call'[d] = call[d] /\ request'[d] = request[d]
  BY AnsweredStays
<1>3. ASSUME NEW e \in Own(d) PROVE e \in Own(d)'
  <2>1. e \in Calls /\ call[e].out = "admitted"
    BY DEF Own, Before
  <2>2. call'[e] = call[e] /\ request'[e] = request[e]
    BY <2>1, AnsweredStays
  <2> QED BY <1>1, <1>2, <2>1, <2>2 DEF Own, Before
<1> QED BY <1>3

\* When a call is refused, the calls that fill its bucket are its caller's own.
LEMMA RefusedByOwn ==
  ASSUME PathInv, IInv, NEW c \in Calls, Step(c), call[c].out = "none", Limited(c)'
  PROVE  Cardinality(Own(c)') >= Limit
<1> DEFINE k == Bucket(security, request[c])
<1>1. call \in [Calls -> CallType] /\ PathType /\ Bucketed /\ NotAhead /\ TypeOK
  BY DEF IInv, TypeOK, PathInv
<1>2. Refuse(c, k) /\ request' = request /\ security' = security /\ k \in Keys
  <2>1. CheckRateLimit(c)
    BY <1>1 DEF Limited, Step, Arrive, RejectBody, VerifyApiKey, Handle, HandleOpen, Raise,
                Respond, RespondRaised, vars
  <2>2. k \in Keys
    BY <1>1, <2>1, BucketIsKey DEF CheckRateLimit
  <2>3. ~Admit(c, k)
    BY <1>1 DEF Admit, Verdict, Limited
  <2> QED BY <2>1, <2>2, <2>3 DEF CheckRateLimit
<1>3. call'[c].at = now /\ \A d \in Calls \ {c} : call'[d] = call[d]
  BY <1>1, <1>2 DEF Refuse, Verdict
<1>4. ASSUME NEW d \in Live(k) PROVE d \in Own(c)'
  <2>1. /\ d \in Calls /\ call[d].key = k /\ call[d].out = "admitted"
        /\ call[d].at > now - Window
    BY <1>1, <1>2 DEF Live, TypeOK, Promise!LetThrough
  <2>2. d # c /\ call'[d] = call[d]
    BY <1>3, <2>1
  <2>3. call[d].at \in (now - Window + 1)..now
    <3>1. call[d].at \in Nat /\ now \in Nat /\ Window \in Nat /\ call[d].at <= now
      BY <1>1, <2>1, LimiterConstants DEF CallType, NotAhead, TypeOK
    <3> QED BY <2>1, <3>1
  <2>4. Bucket(security, request[d]) = Bucket(security, request[c])
    BY <1>1, <2>1 DEF Bucketed
  <2>5. /\ request[d].key = request[c].key /\ Refusal(security, request[d]) = "none"
        /\ Context(security, request[d]) = Context(security, request[c])
    BY <1>2, <2>4, SameBucket DEF Limited
  <2> QED BY <1>2, <1>3, <2>1, <2>2, <2>3, <2>5 DEF Own, Before
<1>5. Live(k) \subseteq Own(c)' /\ Own(c)' \subseteq Calls
  BY <1>4 DEF Own, Before
<1>6. Cardinality(Live(k)) <= Cardinality(Own(c)')
  BY <1>5, Larger
<1>7. Cardinality(Live(k)) \in Nat /\ Cardinality(Own(c)') \in Nat /\ Limit \in Nat
  BY <1>5, Finite, LimiterConstants
<1> QED BY <1>2, <1>6, <1>7 DEF Refuse

\* The others' requests never use up the allowance of a proved identity.
LEMMA OwnTrafficStep ==
  ASSUME PathInv, IInv, OwnTrafficOnly, [PathNext]_pvars
  PROVE  OwnTrafficOnly'
<1>1. OwnTrafficOnly <=> \A c \in Calls : Limited(c) => Cardinality(Own(c)) >= Limit
  BY DEF OwnTrafficOnly, Limited, Own
<1>2. ASSUME NEW c \in Calls, Step(c), NEW d \in Calls, Limited(d)'
      PROVE  Cardinality(Own(d)') >= Limit
  <2>1. CASE call[d].out = "none"
    <3>1. d = c
      BY <1>2, <2>1, OthersStay DEF Limited, PathInv, IInv, TypeOK
    <3> QED BY <1>2, <2>1, <3>1, RefusedByOwn
  <2>2. CASE call[d].out # "none"
    <3>1. security' = security /\ call'[d] = call[d] /\ request'[d] = request[d]
      BY <1>2, <2>2, AnsweredStays, OthersStay DEF PathInv, IInv, TypeOK
    <3>2. Limited(d)
      BY <1>2, <3>1 DEF Limited
    <3>3. Own(d) \subseteq Own(d)' /\ Own(d)' \subseteq Calls
      BY <1>2, <2>2, OwnGrows DEF Own, Before
    <3>4. Cardinality(Own(d)) <= Cardinality(Own(d)')
      BY <3>3, Larger
    <3>5. Cardinality(Own(d)) \in Nat /\ Cardinality(Own(d)') \in Nat /\ Limit \in Nat
      BY <3>3, Finite, LimiterConstants
    <3> QED BY <1>1, <3>2, <3>4, <3>5
  <2> QED BY <2>1, <2>2
<1>3. (\E c \in Calls : Step(c)) => OwnTrafficOnly'
  BY <1>2 DEF OwnTrafficOnly, Limited, Own
<1>4. UNCHANGED <<path, call>> => OwnTrafficOnly'
  BY DEF OwnTrafficOnly, Before, path
<1>5. (Tick /\ UNCHANGED path) \/ UNCHANGED pvars => UNCHANGED <<path, call>>
  BY DEF Tick, pvars, path, vars
<1> QED BY <1>3, <1>4, <1>5 DEF PathNext

\* A caller with a valid key is limited by its own requests only, for any number of clients.
THEOREM LimitedByOwn == PathSpec => []OwnTrafficOnly
<1>1. PathInit => OwnTrafficOnly
  BY DEF PathInit, Init, Unmade, OwnTrafficOnly
<1> QED BY <1>1, OwnTrafficStep, DrivesTheLimiter, PTL DEF PathSpec

-----------------------------------------------------------------------------
(* The meters.                                                             *)

Sent    == {c \in Calls : stage[c] # "unsent"}
Gone    == {c \in Calls : stage[c] = "left"}
Erred   == {c \in Gone : status[c] >= 400}

\* One more member is counted as one more.
LEMMA OneMore ==
  ASSUME NEW S \in SUBSET Calls, NEW c \in Calls, c \notin S
  PROVE  Cardinality(S \cup {c}) = Cardinality(S) + 1 /\ Cardinality(S) \in Nat
BY FS_AddElement, Finite

\* Every way a request leaves counts it once wherever it belongs.
LEMMA MetersStep ==
  ASSUME PathInv, IInv, MetersAgree, NEW c \in Calls, Step(c)
  PROVE  MetersAgree'
<1>1. /\ PathType /\ meter \in MeterType
      /\ \A d \in Calls \ {c} : stage'[d] = stage[d] /\ status'[d] = status[d]
  BY OthersStay DEF PathInv, PathType, IInv, TypeOK
<1>2. /\ meter.latency = Cardinality(Gone) /\ meter.ended = meter.latency
      /\ meter.begun = Cardinality(Sent) /\ meter.errors = Cardinality(Erred)
      /\ meter.requests <= meter.latency /\ meter.latency - meter.requests <= meter.errors
  BY DEF MetersAgree, Gone, Sent, Erred
<1>3. SUFFICES /\ meter'.latency = Cardinality(Gone') /\ meter'.ended = meter'.latency
               /\ meter'.begun = Cardinality(Sent') /\ meter'.errors = Cardinality(Erred')
               /\ meter'.requests <= meter'.latency
               /\ meter'.latency - meter'.requests <= meter'.errors
  BY DEF MetersAgree, Gone, Sent, Erred
<1>4. /\ Gone \subseteq Calls /\ Sent \subseteq Calls /\ Erred \subseteq Calls
      /\ meter.requests \in Nat /\ meter.latency \in Nat /\ meter.errors \in Nat
      /\ meter.begun \in Nat /\ meter.ended \in Nat
  BY <1>1 DEF Gone, Sent, Erred, MeterType
<1>5. CASE Arrive(c)
  <2>1. /\ meter'.begun = meter.begun + 1 /\ meter'.latency = meter.latency
        /\ meter'.ended = meter.ended /\ meter'.errors = meter.errors
        /\ meter'.requests = meter.requests
    BY <1>1, <1>5 DEF Arrive, MeterType
  <2>2. Gone' = Gone /\ Erred' = Erred
    BY <1>1, <1>5 DEF Arrive, Move, Gone, Erred, PathType
  <2>3. c \notin Sent /\ Sent' = Sent \cup {c}
    BY <1>1, <1>5 DEF Arrive, Move, Sent, PathType
  <2> QED BY <1>2, <1>4, <2>1, <2>2, <2>3, OneMore
<1>6. ASSUME stage[c] \in {"answered", "raised"}, stage' = [stage EXCEPT ![c] = "left"]
      PROVE  /\ c \notin Gone /\ Gone' = Gone \cup {c} /\ Sent' = Sent
             /\ c \notin Erred
             /\ Erred' = IF status'[c] >= 400 THEN Erred \cup {c} ELSE Erred
  BY <1>1, <1>6 DEF Gone, Sent, Erred, PathType
<1>7. CASE Respond(c)
  <2> DEFINE errors == IF status[c] >= 400 THEN meter.errors + 1 ELSE meter.errors
  <2>1. meter' = [meter EXCEPT !.requests = @ + 1, !.latency = @ + 1, !.ended = @ + 1,
                               !.errors = errors]
    BY <1>7 DEF Respond
  <2>2. /\ meter'.begun = meter.begun /\ meter'.latency = meter.latency + 1
        /\ meter'.ended = meter.ended + 1 /\ meter'.requests = meter.requests + 1
        /\ meter'.errors = errors
    <3> HIDE DEF errors
    <3> QED BY <1>1, <2>1 DEF MeterType
  <2>3. status' = status /\ stage[c] = "answered" /\ stage' = [stage EXCEPT ![c] = "left"]
    BY <1>7 DEF Respond, Move
  <2>4. errors = Cardinality(Erred') /\ errors >= meter.errors /\ errors \in Nat
    BY <1>2, <1>4, <1>6, <2>3, OneMore
  <2>5. Cardinality(Gone') = Cardinality(Gone) + 1 /\ Sent' = Sent
    BY <1>4, <1>6, <2>3, OneMore
  <2> HIDE DEF errors
  <2> QED BY <1>2, <1>4, <2>2, <2>4, <2>5
<1>8. CASE RespondRaised(c)
  <2>1. meter' = [meter EXCEPT !.errors = @ + 1, !.latency = @ + 1, !.ended = @ + 1]
    BY <1>8 DEF RespondRaised
  <2>2. /\ meter'.begun = meter.begun /\ meter'.latency = meter.latency + 1
        /\ meter'.ended = meter.ended + 1 /\ meter'.requests = meter.requests
        /\ meter'.errors = meter.errors + 1
    BY <1>1, <2>1 DEF MeterType
  <2>3. /\ status'[c] = 500 /\ stage[c] = "raised" /\ stage' = [stage EXCEPT ![c] = "left"]
    BY <1>1, <1>8 DEF RespondRaised, Move, UnhandledStatus, PathType
  <2>4. Cardinality(Erred') = Cardinality(Erred) + 1
    BY <1>4, <1>6, <2>3, OneMore
  <2>5. Cardinality(Gone') = Cardinality(Gone) + 1 /\ Sent' = Sent
    BY <1>4, <1>6, <2>3, OneMore
  <2> QED BY <1>2, <1>4, <2>2, <2>4, <2>5
<1>9. CASE ~(Arrive(c) \/ Respond(c) \/ RespondRaised(c))
  <2>1. /\ meter' = meter /\ stage[c] \notin {"unsent", "left"}
        /\ stage'[c] \notin {"unsent", "left"}
    BY <1>1, <1>9 DEF Step, RejectBody, CheckRateLimit, VerifyApiKey, Handle, HandleOpen, Raise,
                      Answered, Move, PathType
  <2>2. Gone' = Gone /\ Sent' = Sent /\ Erred' = Erred
    BY <1>1, <2>1 DEF Gone, Sent, Erred
  <2> QED BY <1>2, <2>1, <2>2
<1> QED BY <1>5, <1>7, <1>8, <1>9

\* However requests overlap and end, the meters show what clients were told.
THEOREM MetersTrue == PathSpec => []MetersAgree
<1>1. PathInit => MetersAgree
  <2> SUFFICES ASSUME PathInit PROVE MetersAgree
    OBVIOUS
  <2>1. Sent = {} /\ Gone = {} /\ Erred = {}
    BY DEF PathInit, Sent, Gone, Erred
  <2>2. Cardinality({}) = 0
    BY FS_EmptySet
  <2>3. MetersAgree <=>
          /\ meter.latency = Cardinality(Gone) /\ meter.ended = meter.latency
          /\ meter.begun = Cardinality(Sent) /\ meter.errors = Cardinality(Erred)
          /\ meter.requests <= meter.latency
          /\ meter.latency - meter.requests <= meter.errors
    BY DEF MetersAgree, Gone, Sent, Erred
  <2> QED BY <2>1, <2>2, <2>3 DEF PathInit, NoMeter
<1>2. PathInv /\ IInv /\ MetersAgree /\ [PathNext]_pvars => MetersAgree'
  <2>1. (Tick /\ UNCHANGED path) \/ UNCHANGED pvars => UNCHANGED path
    BY DEF pvars
  <2>2. MetersAgree /\ UNCHANGED path => MetersAgree'
    BY DEF MetersAgree, path
  <2> QED BY <2>1, <2>2, MetersStep DEF PathNext
<1> QED BY <1>1, <1>2, DrivesTheLimiter, PTL DEF PathSpec
-----------------------------------------------------------------------------
(* How fast credentials can be tried.                                      *)

\* The calls of k in the window that ends with c which the limiter still knows for certain.
Remembered(k, c) ==
  {d \in Promise!LetThrough(k) :
     /\ call[d].at > call[c].at - Window /\ call[d].at <= call[c].at
     /\ Cardinality(Promise!Since(k, d)) < MaxKeys}

\* No more than Limit calls of a window are let through while they are known.
Spaced == \A k \in Keys : \A c \in Promise!LetThrough(k) : Cardinality(Remembered(k, c)) <= Limit

\* Only who passed the limiter is told that its credentials do not do.
Told == \A c \in Calls :
  /\ stage[c] = "unsent" => status[c] = 0
  /\ stage[c] = "admitted" => call[c].out = "admitted"
  /\ status[c] \in {401, 403} /\ Refusal(security, request[c]) # "none"
     => call[c].out = "admitted"

\* What was let through stays where it is, and is not known better than before.
LEMMA KnownNoBetter ==
  ASSUME IInv, NEW c \in Calls, NEW k \in Keys, NEW out \in {"admitted", "limited"},
         call[c].out = "none", Verdict(c, k, out), UNCHANGED now,
         NEW j \in Keys, NEW d \in Promise!LetThrough(j)
  PROVE  /\ d # c /\ d \in Promise!LetThrough(j)'
         /\ Remembered(j, d)' \ {c} \subseteq Remembered(j, d)
<1>1. /\ call \in [Calls -> CallType] /\ MaxKeys \in Nat /\ Window \in Nat
  BY LimiterConstants DEF IInv, TypeOK, LimiterConstants
<1>2. /\ \A e \in Calls : e # c => call'[e] = call[e]
      /\ \A e \in Promise!LetThrough(j) : Promise!Since(j, e) \subseteq Promise!Since(j, e)'
  BY <1>1, SinceGrows
<1>3. d # c /\ d \in Calls /\ call'[d] = call[d]
  BY <1>2 DEF Promise!LetThrough
<1>4. ASSUME NEW e \in Remembered(j, d)', e # c
      PROVE  e \in Remembered(j, d)
  <2>1. /\ e \in Promise!LetThrough(j) /\ call'[e] = call[e]
    BY <1>2, <1>4 DEF Remembered, Promise!LetThrough
  <2>2. Promise!Since(j, e) \subseteq Promise!Since(j, e)' /\ Promise!Since(j, e)' \in SUBSET Keys
    BY <1>2, <2>1 DEF Promise!Since
  <2>3. Cardinality(Promise!Since(j, e)) <= Cardinality(Promise!Since(j, e)')
    BY <2>2, Larger
  <2>4. /\ Cardinality(Promise!Since(j, e)) \in Nat
        /\ Cardinality(Promise!Since(j, e)') \in Nat
    BY <2>2, Finite
  <2>5. /\ call'[e].at > call'[d].at - Window /\ call'[e].at <= call'[d].at
        /\ Cardinality(Promise!Since(j, e)') < MaxKeys
    BY <1>4 DEF Remembered
  <2>6. Cardinality(Promise!Since(j, e)) < MaxKeys
    BY <1>1, <2>3, <2>4, <2>5
  <2> QED BY <1>3, <2>1, <2>5, <2>6 DEF Remembered
<1>5. d \in Promise!LetThrough(j)'
  BY <1>3 DEF Promise!LetThrough
<1> QED BY <1>3, <1>4, <1>5

\* A call that is let through was preceded by fewer than Limit that are stored,
\* and what is known of its window is stored.
LEMMA SpacedAdmit ==
  ASSUME IInv, Spaced, NEW c \in Calls, NEW k \in Keys, Admit(c, k)
  PROVE  Spaced'
<1>1. /\ call \in [Calls -> CallType] /\ now \in Nat /\ now' = now /\ NotAhead /\ TypeOK
      /\ MaxKeys \in Nat /\ Window \in Nat \ {0} /\ Limit \in Nat \ {0}
      /\ call[c].out = "none" /\ Verdict(c, k, "admitted") /\ Cardinality(Live(k)) < Limit
  BY LimiterConstants DEF IInv, TypeOK, LimiterConstants, Admit
<1>2. /\ \A d \in Calls : d # c => call'[d] = call[d]
      /\ call'[c] = [key |-> k, at |-> now, out |-> "admitted"]
      /\ \A j \in Keys : \A d \in Promise!LetThrough(j) :
           Promise!Since(j, d) \subseteq Promise!Since(j, d)'
  BY <1>1, SinceGrows
<1> SUFFICES ASSUME NEW j \in Keys, NEW d \in Promise!LetThrough(j)'
             PROVE  Cardinality(Remembered(j, d)') <= Limit
  BY DEF Spaced
<1>3. d \in Calls /\ call'[d].at \in Nat /\ call'[d].at <= now /\ Remembered(j, d)' \in SUBSET Calls
  BY <1>1, <1>2 DEF Promise!LetThrough, CallType, NotAhead, Remembered
<1>4. CASE c \in Remembered(j, d)' \/ d = c
  <2>1. j = k /\ call'[d].at = now
    BY <1>1, <1>2, <1>3, <1>4 DEF Remembered, Promise!LetThrough
  <2>2. ASSUME NEW e \in Remembered(j, d)' \ {c} PROVE e \in Live(k)
    <3>1. /\ e \in Promise!LetThrough(k) /\ call'[e] = call[e] /\ call[e].at > now - Window
          /\ Cardinality(Promise!Since(k, e)') < MaxKeys
      BY <1>2, <2>1 DEF Remembered, Promise!LetThrough
    <3>2. e \in Promise!Recent(k)
      BY <3>1 DEF Promise!Recent
    <3>3. Promise!Since(k, e) \subseteq Promise!Since(k, e)' /\ Promise!Since(k, e)' \in SUBSET Keys
      BY <1>2, <3>1 DEF Promise!Since
    <3>4. Cardinality(Promise!Since(k, e)) <= Cardinality(Promise!Since(k, e)')
      BY <3>3, Larger
    <3>5. /\ Cardinality(Promise!Since(k, e)) \in Nat
          /\ Cardinality(Promise!Since(k, e)') \in Nat
      BY <3>3, Finite
    <3>6. e \in requests[k]
      BY <1>1, <3>1, <3>2, <3>4, <3>5 DEF IInv, Forgotten
    <3> QED BY <3>1, <3>6 DEF Live
  <2>3. Live(k) \in SUBSET Calls /\ Cardinality(Live(k)) \in Nat
    BY <1>1, Finite DEF Live, TypeOK
  <2>4. Live(k) \cup {c} \in SUBSET Calls /\ Remembered(j, d)' \subseteq Live(k) \cup {c}
    BY <2>2, <2>3
  <2>5. Cardinality(Live(k) \cup {c}) <= Cardinality(Live(k)) + 1
    <3>1. IsFiniteSet(Live(k))
      BY <2>3, Finite
    <3>2. CASE c \in Live(k)
      <4>1. Live(k) \cup {c} = Live(k)
        BY <3>2
      <4>2. Cardinality(Live(k) \cup {c}) = Cardinality(Live(k))
        BY <4>1
      <4> QED BY <2>3, <4>2
    <3>3. CASE c \notin Live(k)
      <4>1. Cardinality(Live(k) \cup {c}) = Cardinality(Live(k)) + 1
        BY <3>1, <3>3, FS_AddElement
      <4> QED BY <2>3, <4>1
    <3> QED BY <3>2, <3>3
  <2>6. Cardinality(Remembered(j, d)') <= Cardinality(Live(k) \cup {c})
    BY <2>4, Larger
  <2>7. Cardinality(Remembered(j, d)') \in Nat /\ Cardinality(Live(k) \cup {c}) \in Nat
    BY <1>3, <2>4, Finite
  <2> QED BY <1>1, <2>3, <2>5, <2>6, <2>7
<1>5. CASE ~(c \in Remembered(j, d)' \/ d = c)
  <2>1. d \in Promise!LetThrough(j)
    BY <1>2, <1>5 DEF Promise!LetThrough
  <2>2. Remembered(j, d)' \subseteq Remembered(j, d)
    BY <1>1, <1>5, <2>1, KnownNoBetter
  <2>3. Remembered(j, d) \in SUBSET Calls /\ Cardinality(Remembered(j, d)) <= Limit
    BY <2>1 DEF Spaced, Remembered, Promise!LetThrough
  <2>4. Cardinality(Remembered(j, d)') <= Cardinality(Remembered(j, d))
    BY <2>2, <2>3, Larger
  <2>5. Cardinality(Remembered(j, d)') \in Nat /\ Cardinality(Remembered(j, d)) \in Nat
    BY <1>3, <2>3, Finite
  <2> QED BY <1>1, <2>3, <2>4, <2>5
<1> QED BY <1>4, <1>5

LEMMA SpacedRefuse ==
  ASSUME IInv, Spaced, NEW c \in Calls, NEW k \in Keys, Refuse(c, k)
  PROVE  Spaced'
<1>1. /\ now' = now /\ call[c].out = "none" /\ Verdict(c, k, "limited") /\ Limit \in Nat
      /\ call \in [Calls -> CallType]
  BY LimiterConstants DEF Refuse, IInv, TypeOK, LimiterConstants
<1>2. /\ \A d \in Calls : d # c => call'[d] = call[d]
      /\ call'[c] = [key |-> k, at |-> now, out |-> "limited"]
  BY <1>1, SinceGrows
<1> SUFFICES ASSUME NEW j \in Keys, NEW d \in Promise!LetThrough(j)'
             PROVE  Cardinality(Remembered(j, d)') <= Limit
  BY DEF Spaced
<1>3. d \in Promise!LetThrough(j) /\ c \notin Remembered(j, d)'
  BY <1>2 DEF Promise!LetThrough, Remembered
<1>4. Remembered(j, d)' \subseteq Remembered(j, d)
  BY <1>1, <1>3, KnownNoBetter
<1>5. Remembered(j, d) \in SUBSET Calls /\ Cardinality(Remembered(j, d)) <= Limit
  BY <1>3 DEF Spaced, Remembered, Promise!LetThrough
<1>6. Cardinality(Remembered(j, d)') <= Cardinality(Remembered(j, d))
  BY <1>4, <1>5, Larger
<1>7. Cardinality(Remembered(j, d)') \in Nat /\ Cardinality(Remembered(j, d)) \in Nat
  BY <1>4, <1>5, Finite
<1> QED BY <1>1, <1>5, <1>6, <1>7

\* In every window of every client, Limit calls are let through at most while
\* fewer than max_keys others came between.
THEOREM SpacedOut == Spec => []Spaced
<1>1. Init => Spaced
  BY DEF Init, Unmade, Spaced, Promise!LetThrough
<1>2. IInv /\ Spaced /\ [Next]_vars => Spaced'
  <2>1. ASSUME Spaced, UNCHANGED call PROVE Spaced'
    <3>1. \A j : Promise!LetThrough(j)' = Promise!LetThrough(j)
      BY <2>1 DEF Promise!LetThrough
    <3>2. \A j, d : Promise!Since(j, d)' = Promise!Since(j, d)
      BY <2>1, <3>1 DEF Promise!Since
    <3>3. \A j, d : Remembered(j, d)' = Remembered(j, d)
      BY <2>1, <3>1, <3>2 DEF Remembered
    <3> QED BY <2>1, <3>1, <3>3 DEF Spaced
  <2>2. Tick \/ UNCHANGED vars => UNCHANGED call
    BY DEF Tick, vars
  <2> QED BY <2>1, <2>2, SpacedAdmit, SpacedRefuse DEF Next
<1> QED BY <1>1, <1>2, Inductive, PTL DEF Spec

\* The status of a refused call is not one of those that speak of credentials.
LEMMA LimitedStatus == StatusOf["RateLimitExceededError"] = 429
BY DEF StatusOf, DocumentErrors, StageErrors, RequestErrors, ServiceErrors

LEMMA ToldStep ==
  ASSUME PathInv, IInv, Told, NEW c \in Calls, Step(c)
  PROVE  Told'
<1>1. call \in [Calls -> CallType] /\ PathType /\ Vetted
  BY DEF IInv, TypeOK, PathInv
<1>2. /\ security' = security
      /\ \A d \in Calls \ {c} : /\ request'[d] = request[d] /\ stage'[d] = stage[d]
                                /\ status'[d] = status[d] /\ call'[d] = call[d]
  BY <1>1, OthersStay
<1>3. /\ stage'[c] # "unsent"
      /\ stage'[c] = "admitted" => call'[c].out = "admitted"
      /\ status'[c] \in {401, 403} /\ Refusal(security, request'[c]) # "none"
         => call'[c].out = "admitted"
  <2>1. CASE Arrive(c)
    BY <1>1, <2>1 DEF Arrive, Move, Told, PathType
  <2>2. CASE CheckRateLimit(c)
    <3>1. CASE Refuse(c, Bucket(security, request[c]))
               /\ Answered(c, "arrived", StatusOf["RateLimitExceededError"])
      <4>1. status'[c] = 429 /\ stage'[c] = "answered"
        BY <1>1, <3>1, LimitedStatus DEF Answered, Move, PathType
      <4> QED BY <4>1
    <3>2. CASE Admit(c, Bucket(security, request[c])) /\ Move(c, "arrived", "admitted")
      <4>1. call'[c].out = "admitted" /\ stage'[c] = "admitted"
        BY <1>1, <3>2 DEF Admit, Verdict, Move, PathType
      <4> QED BY <4>1
    <3> QED BY <2>2, <3>1, <3>2 DEF CheckRateLimit
  <2>3. CASE VerifyApiKey(c)
    <3>1. call' = call /\ stage[c] = "admitted" /\ stage'[c] \in {"verified", "answered"}
      BY <1>1, <2>3 DEF VerifyApiKey, Answered, Move, PathType, vars
    <3> QED BY <3>1 DEF Told
  <2>4. CASE Handle(c)
    <3>1. call' = call /\ request' = request /\ stage[c] = "verified" /\ stage'[c] = "answered"
      BY <1>1, <2>4 DEF Handle, Answered, Move, PathType, vars
    <3>2. Refusal(security, request[c]) = "none"
      BY <1>1, <3>1 DEF Vetted
    <3> QED BY <3>1, <3>2
  <2>5. CASE RejectBody(c) \/ HandleOpen(c)
    <3>1. stage'[c] = "answered" /\ status'[c] \in {422, 200}
      BY <1>1, <2>5 DEF RejectBody, HandleOpen, Answered, Move, PathType, ValidationStatus
    <3> QED BY <3>1
  <2>6. CASE Raise(c) \/ Respond(c)
    <3>1. /\ call' = call /\ request' = request /\ status' = status
          /\ stage'[c] \in {"raised", "left"}
      BY <1>1, <2>6 DEF Raise, Respond, Move, PathType, vars
    <3> QED BY <3>1 DEF Told
  <2>7. CASE RespondRaised(c)
    <3>1. stage'[c] = "left" /\ status'[c] = 500
      BY <1>1, <2>7 DEF RespondRaised, Move, PathType, UnhandledStatus
    <3> QED BY <3>1
  <2> QED BY <2>1, <2>2, <2>3, <2>4, <2>5, <2>6, <2>7 DEF Step
<1> QED BY <1>2, <1>3 DEF Told

\* Guesses from one address are counted for that address: those of one window
\* that no max_keys others came after are known to the limiter.
LEMMA GuessesSpaced ==
  ASSUME PathInv, IInv, Told, Spaced
  PROVE  GuessingBounded
<1>1. /\ call \in [Calls -> CallType] /\ PathType /\ Bucketed
      /\ MaxKeys \in Nat /\ Window \in Nat /\ Limit \in Nat
  BY LimiterConstants DEF IInv, TypeOK, PathInv, LimiterConstants
<1> SUFFICES ASSUME NEW r \in Arrivals, r.peer \notin security.proxies,
                    NEW c \in Guesses(r.peer),
                    \A d \in Guesses(r.peer) \cap Before(c) :
                      ~(Cardinality(Others(r.peer, d)) >= MaxKeys)
             PROVE  Cardinality(Guesses(r.peer) \cap Before(c)) <= Limit
  BY DEF GuessingBounded
<1> DEFINE k == <<"ip", r.peer>>
           tried == Guesses(r.peer) \cap Before(c)
<1>2. ASSUME NEW d \in Guesses(r.peer)
      PROVE  d \in Calls /\ call[d].out = "admitted" /\ call[d].key = k
  <2>1. /\ d \in Calls /\ call[d].out = "admitted" /\ request[d].peer = r.peer
        /\ Refusal(security, request[d]) # "none"
    BY DEF Guesses, Told
  <2>2. Bucket(security, request[d]) = k
    BY <2>1 DEF Bucket, Address
  <2> QED BY <1>1, <2>1, <2>2 DEF Bucketed
<1>3. k \in Keys /\ c \in Promise!LetThrough(k)
  <2>1. c \in Calls /\ call[c].out = "admitted" /\ call[c].key = k
    BY <1>2
  <2>2. stage[c] # "unsent" /\ Bucket(security, request[c]) = k
    BY <1>1, <2>1 DEF Bucketed
  <2> QED BY <1>1, <2>1, <2>2, BucketIsKey DEF Promise!LetThrough
<1>4. ASSUME NEW d \in tried PROVE d \in Remembered(k, c)
  <2>1. d \in Calls /\ call[d].out = "admitted" /\ call[d].key = k
    BY <1>2
  <2>2. call[d].at > call[c].at - Window /\ call[d].at <= call[c].at
    <3>1. call[c].at \in Nat /\ call[d].at \in (call[c].at - Window + 1)..call[c].at
      BY <1>1, <1>2 DEF Before, CallType
    <3> QED BY <1>1, <3>1
  <2>3. Promise!Since(k, d) \subseteq Others(r.peer, d)
    <3> SUFFICES ASSUME NEW j \in Promise!Since(k, d) PROVE j \in Others(r.peer, d)
      OBVIOUS
    <3>1. PICK e \in Promise!LetThrough(j) : call[e].at >= call[d].at
      BY DEF Promise!Since
    <3>2. j # k /\ e \in Calls /\ call[e].key = j /\ call[e].out = "admitted"
      BY DEF Promise!Since, Promise!LetThrough
    <3>3. e \notin Guesses(r.peer)
      BY <1>2, <3>2
    <3> QED BY <3>1, <3>2, <3>3 DEF Others
  <2>4. Others(r.peer, d) \in SUBSET Keys
    <3>1. ASSUME NEW e \in Calls, call[e].out = "admitted" PROVE call[e].key \in Keys
      BY <1>1, <3>1, BucketIsKey DEF Bucketed
    <3> QED BY <3>1 DEF Others
  <2>5. Cardinality(Promise!Since(k, d)) <= Cardinality(Others(r.peer, d))
    BY <2>3, <2>4, Larger
  <2>6. /\ Cardinality(Promise!Since(k, d)) \in Nat /\ Cardinality(Others(r.peer, d)) \in Nat
        /\ ~(Cardinality(Others(r.peer, d)) >= MaxKeys)
    BY <2>3, <2>4, Finite
  <2>7. Cardinality(Promise!Since(k, d)) < MaxKeys
    BY <1>1, <2>5, <2>6
  <2> QED BY <2>1, <2>2, <2>7 DEF Remembered, Promise!LetThrough
<1>5. tried \subseteq Remembered(k, c) /\ Remembered(k, c) \in SUBSET Calls
  BY <1>4 DEF Remembered, Promise!LetThrough
<1>6. Cardinality(tried) <= Cardinality(Remembered(k, c))
  BY <1>5, Larger
<1>7. Cardinality(Remembered(k, c)) <= Limit
  BY <1>3 DEF Spaced
<1>8. Cardinality(tried) \in Nat /\ Cardinality(Remembered(k, c)) \in Nat
  BY <1>5, Finite
<1> QED BY <1>1, <1>6, <1>7, <1>8

\* Whatever keys and headers they carry, wrong credentials from one address are
\* answered no faster than the limit, for any number of clients and requests.
THEOREM GuessesLimited == PathSpec => []GuessingBounded
<1>1. PathInit => Told
  BY DEF PathInit, Told
<1>2. PathInv /\ IInv /\ Told /\ [PathNext]_pvars => Told'
  <2>1. (Tick /\ UNCHANGED path) \/ UNCHANGED pvars => UNCHANGED <<path, call>>
    BY DEF Tick, pvars, path, vars
  <2>2. Told /\ UNCHANGED <<path, call>> => Told'
    BY DEF Told, path
  <2> QED BY <2>1, <2>2, ToldStep DEF PathNext
<1> QED BY <1>1, <1>2, DrivesTheLimiter, SpacedOut, GuessesSpaced, PTL DEF PathSpec

=============================================================================
