------------------------ MODULE ProviderClient_proofs ------------------------
(***************************************************************************)
(* The retry loop of the HTTP adapters, for every number of retries, every *)
(* ceiling and every header: LoopInv counts the requests and the sleep of  *)
(* a batch by its attempt counter, and is inductive.                       *)
(***************************************************************************)
EXTENDS ProviderClient, Collections_proofs

\* One more sleep of at most b, after m of them.
LEMMA OneMoreSleep ==
  ASSUME NEW m \in Nat, NEW b \in Nat, NEW s \in Nat, NEW d \in 0..b, s <= m * b
  PROVE  s + d \in Nat /\ s + d <= (m + 1) * b
<1>1. (m + 1) * b = m * b + b
  OBVIOUS
<1>2. m * b \in Nat
  OBVIOUS
<1> QED
  BY <1>1, <1>2

LEMMA FewerSleeps ==
  ASSUME NEW m \in Nat, NEW n \in Nat, NEW b \in Nat, m <= n
  PROVE  m * b <= n * b
<1>1. n * b = m * b + (n - m) * b
  OBVIOUS
<1>2. n - m \in Nat
  OBVIOUS
<1>3. (n - m) * b \in Nat /\ m * b \in Nat /\ n * b \in Nat
  BY <1>2
<1> QED
  BY <1>1, <1>3

\* Every delay is within the ceiling.
LEMMA DelayBounded ==
  ASSUME NEW after \in Headers, NEW d \in Delays(after)
  PROVE  d \in 0..MaxBackoff
<1>1. CASE after = {}
  BY <1>1 DEF Delays, Backoffs
<1>2. CASE after # {}
  <2>1. PICK r \in RetryAfters : after = {r}
    BY <1>2 DEF Headers
  <2>2. r \in Nat /\ d = Capped(r) /\ MaxBackoff \in Nat
    BY <1>2, <2>1, ClientConstantsOK DEF Delays
  <2> QED
    BY <2>2 DEF Capped
<1> QED
  BY <1>1, <1>2

\* An adapter retries max_retries times, a stream never.
LEMMA RetriesBounded ==
  ASSUME call.client \in Adapters
  PROVE  Me.retries \in 0..MaxRetries
BY ClientConstantsOK
   DEF Me, Client, Adapters, EmbeddingClient, GenerationClient, RerankClient, StreamClient

LEMMA LoopInit == ProviderInit => LoopInv
<1> SUFFICES ASSUME ProviderInit PROVE LoopInv
  OBVIOUS
<1>1. call.client \in Adapters
  BY DEF ProviderInit
<1>2. Me.retries \in 0..MaxRetries /\ MaxRetries \in Nat /\ MaxBackoff \in Nat
  BY <1>1, RetriesBounded, ClientConstantsOK
<1>3. 0 <= MaxRetries * MaxBackoff
  BY <1>2
<1> QED
  BY <1>1, <1>2, <1>3 DEF ProviderInit, LoopInv, Counted, Stopped, Final, Retried

\* The one step that counts: another try is granted only while retries are
\* left, and its delay is added to the sleep of the batch.
LEMMA TryAgainKeeps ==
  ASSUME LoopInv, pc = "request",
         NEW after \in Headers, NEW failure, TryAgain(after, failure),
         last' \in Retried, UNCHANGED <<call, attempt, sent>>
  PROVE  LoopInv'
<1>1. /\ call.client \in Adapters /\ Me.retries \in 0..MaxRetries /\ Me' = Me
      /\ MaxRetries \in Nat /\ MaxBackoff \in Nat
  BY RetriesBounded, ClientConstantsOK DEF LoopInv, Me
<1>2. /\ attempt \in 0..Me.retries /\ sent = attempt + 1 /\ slept \in Nat
      /\ slept <= attempt * MaxBackoff /\ slept <= MaxRetries * MaxBackoff
  BY DEF LoopInv, Counted
<1>3. last' \notin Final
  BY DEF Retried, Final
<1>4. CASE attempt >= Me.retries
  <2>1. pc' = "over" /\ slept' = slept /\ sent = Me.retries + 1
    BY <1>1, <1>2, <1>4 DEF TryAgain, End
  <2> QED
    BY <1>1, <1>2, <2>1 DEF LoopInv, Counted, Stopped
<1>5. CASE ~(attempt >= Me.retries)
  <2>1. pc' = "backoff" /\ attempt < Me.retries
    BY <1>1, <1>2, <1>5 DEF TryAgain
  <2>2. PICK d \in Delays(after) : slept' = slept + d
    BY <1>5 DEF TryAgain
  <2>3. d \in 0..MaxBackoff
    BY DelayBounded
  <2>4. slept' \in Nat /\ slept' <= (attempt + 1) * MaxBackoff
    BY <1>1, <1>2, <2>2, <2>3, OneMoreSleep
  <2>5. (attempt + 1) * MaxBackoff <= MaxRetries * MaxBackoff
    <3>1. attempt + 1 \in Nat /\ attempt + 1 <= MaxRetries
      BY <1>1, <1>2, <2>1
    <3> QED
      BY <3>1, <1>1, FewerSleeps
  <2>6. slept' <= MaxRetries * MaxBackoff
    <3> DEFINE x == (attempt + 1) * MaxBackoff
               y == MaxRetries * MaxBackoff
    <3>1. x \in Int /\ y \in Int
      BY <1>1, <1>2
    <3>2. slept' <= x /\ x <= y
      BY <2>4, <2>5
    <3> HIDE DEF x, y
    <3>3. slept' <= y
      BY <2>4, <3>1, <3>2
    <3> QED
      BY <3>3 DEF y
  <2> QED
    BY <1>1, <1>2, <1>3, <2>1, <2>4, <2>6 DEF LoopInv, Counted, Stopped
<1> QED
  BY <1>4, <1>5

\* A call that ends without another try keeps its counts.
LEMMA EndKeeps ==
  ASSUME LoopInv, NEW how, End(how),
         \/ pc = "request" /\ last' \notin Retried
         \/ how = "cancelled" /\ pc \in {"request", "backoff"},
         UNCHANGED <<call, attempt, sent, slept>>
  PROVE  LoopInv'
<1>1. /\ call.client \in Adapters /\ Me.retries \in 0..MaxRetries /\ Me' = Me
      /\ MaxRetries \in Nat /\ MaxBackoff \in Nat
  BY RetriesBounded, ClientConstantsOK DEF LoopInv, Me
<1>2. /\ attempt \in 0..Me.retries /\ sent \in Nat /\ sent <= Me.retries + 1 /\ slept \in Nat
      /\ slept <= MaxRetries * MaxBackoff
  BY DEF LoopInv, Counted, Stopped
<1>3. pc' = "over" /\ out' = how
  BY DEF End
<1> QED
  BY <1>1, <1>2, <1>3 DEF LoopInv, Counted, Stopped

-----------------------------------------------------------------------------

LEMMA LoopStep == LoopInv /\ [ProviderNext]_providerVars => LoopInv'
<1> SUFFICES ASSUME LoopInv, [ProviderNext]_providerVars PROVE LoopInv'
  OBVIOUS
<1> USE DEF Answered
<1>1. /\ call.client \in Adapters /\ Me.retries \in 0..MaxRetries
      /\ MaxRetries \in Nat /\ MaxBackoff \in Nat
      /\ attempt \in 0..Me.retries /\ sent \in Nat /\ slept \in Nat
      /\ {} \in Headers
  BY RetriesBounded, ClientConstantsOK DEF LoopInv, Headers
<1>2. CASE Begin
  <2>1. sent = 0 /\ attempt = 0 /\ slept = 0 /\ last = "none"
    BY <1>2 DEF Begin, LoopInv, Counted
  <2>2. Me' = Me
    BY <1>2 DEF Begin, Me
  <2>3. 0 * MaxBackoff = 0
    BY <1>1
  <2>4. \/ pc' = "over" /\ sent' = 0
        \/ pc' = "request" /\ sent' = 1
    BY <1>2, <2>1 DEF Begin, End
  <2> QED
    BY <1>1, <1>2, <2>1, <2>2, <2>3, <2>4 DEF Begin, LoopInv, Counted, Stopped, Final, Retried
<1>3. CASE Transient
  <2>1. PICK h \in Headers, failure \in {Me.limited, "error"} :
          TryAgain(h, failure) /\ last' \in {"rate", "server"}
    BY <1>3 DEF Transient
  <2> QED
    BY <1>3, <2>1, TryAgainKeeps DEF Transient, Retried
<1>4. CASE Unreachable
  <2>1. PICK failure \in {"timeout", Me.broken} :
          TryAgain({}, failure) /\ last' \in {"timeout", "network"}
    BY <1>4 DEF Unreachable
  <2> QED
    BY <1>1, <1>4, <2>1, TryAgainKeeps DEF Unreachable, Retried
<1>5. CASE Denied \/ Rejected \/ Garbled
  BY <1>5, EndKeeps DEF Denied, Rejected, Garbled, Retried
<1>6. CASE Unusable
  <2>1. PICK how \in {"error", "raw"} : End(how)
    BY <1>6 DEF Unusable
  <2> QED
    BY <1>6, <2>1, EndKeeps DEF Unusable, Retried
<1>7. CASE Reranked \/ Generated
  BY <1>7, EndKeeps DEF Reranked, Generated, Retried
<1>8. CASE Cancel
  BY <1>8, EndKeeps DEF Cancel
<1>9. CASE Embedded
  <2>1. CASE Offset + BatchSize < call.n
    <3>1. pc' = "request" /\ sent' = 1 /\ attempt' = 0 /\ slept' = 0 /\ last' = "ok"
      BY <1>9, <2>1 DEF Embedded, LoopInv
    <3>2. Me' = Me /\ call' = call
      BY <1>9 DEF Embedded, Me
    <3>3. 0 * MaxBackoff = 0 /\ 0 <= MaxRetries * MaxBackoff
      BY <1>1
    <3> QED
      BY <1>1, <3>1, <3>2, <3>3 DEF LoopInv, Counted, Stopped, Final, Retried
  <2>2. CASE ~(Offset + BatchSize < call.n)
    BY <1>9, <2>2, EndKeeps DEF Embedded, Retried
  <2> QED
    BY <2>1, <2>2
<1>10. CASE Wake
  <2>1. pc' = "request" /\ sent' = attempt' + 1 /\ attempt' \in 0..Me.retries /\ last' = last
    BY <1>1, <1>10 DEF Wake, LoopInv, Counted
  <2>2. slept' = slept /\ slept <= (attempt + 1) * MaxBackoff /\ attempt' = attempt + 1
    BY <1>10 DEF Wake, LoopInv, Counted
  <2>3. Me' = Me /\ call' = call
    BY <1>10 DEF Wake, Me
  <2>4. last \notin Final /\ slept <= MaxRetries * MaxBackoff
    BY <1>10 DEF Wake, LoopInv, Counted, Stopped
  <2> QED
    BY <1>1, <2>1, <2>2, <2>3, <2>4 DEF LoopInv, Counted, Stopped
<1>11. CASE UNCHANGED providerVars \/ Finished
  BY <1>11 DEF providerVars, Finished, LoopInv, Counted, Stopped, Me
<1> QED
  BY <1>2, <1>3, <1>4, <1>5, <1>6, <1>7, <1>8, <1>9, <1>10, <1>11 DEF ProviderNext

\* The counters of the loop agree with what was sent and slept, always.
THEOREM Loop == ProviderSpec => []LoopInv
<1> QED
  BY LoopInit, LoopStep, PTL DEF ProviderSpec

\* No batch costs more than max_retries + 1 requests, none fails for a reason
\* that time might have cured before all of them were spent, and nothing is
\* sent after a 401, a 403 or another permanent answer.
THEOREM Tries == ProviderSpec => []AllTriesUsed
<1>1. LoopInv => AllTriesUsed
  BY DEF LoopInv, Stopped, AllTriesUsed
<1> QED
  BY <1>1, Loop, PTL

\* No Retry-After header makes a batch wait longer than its retries times the
\* ceiling.
THEOREM Patience == ProviderSpec => []PatienceKept
<1>1. LoopInv => PatienceKept
  BY DEF LoopInv, Counted, PatienceKept
<1> QED
  BY <1>1, Loop, PTL

-----------------------------------------------------------------------------
(* Whose vector is whose.                                                  *)

LEMMA LessIsTotal ==
  ASSUME NEW t \in SUBSET Int
  PROVE  IsTotalOrder(t, Less(t))
BY DEF IsTotalOrder, Less

\* The k-th of m numbers between a and b has k - 1 below and m - k above it.
LEMMA KthOfMany ==
  ASSUME NEW a \in Nat, NEW b \in Nat, NEW t \in SUBSET ((a + 1)..b),
         NEW k \in 1..Cardinality(t)
  PROVE  /\ Cardinality(t) \in Nat /\ Cardinality(t) <= b - a
         /\ Arranged(t, Less(t)) \in [1..Cardinality(t) -> t]
         /\ Arranged(t, Less(t))[k] \in (a + k)..(b - (Cardinality(t) - k))
<1> DEFINE m == Cardinality(t)
           p == Arranged(t, Less(t))
           x == p[k]
           below == AheadOf(t, Less(t), x)
           above == (t \ below) \ {x}
<1>1. /\ IsFiniteSet((a + 1)..b) /\ Cardinality((a + 1)..b) = IF a + 1 > b THEN 0 ELSE b - a
      /\ t \in SUBSET Int
  BY FS_Interval
<1>2. IsFiniteSet(t) /\ m \in Nat /\ m <= Cardinality((a + 1)..b)
  BY <1>1, FS_Subset, FS_CardinalityType
<1>3. p \in [1..m -> t] /\ Cardinality(below) = k - 1 /\ k \in 1..m
  BY <1>1, <1>2, LessIsTotal, ArrangedSorts
<1>4. m >= 1 /\ b > a /\ m <= b - a
  BY <1>1, <1>2
<1> HIDE DEF m, p
<1>5. x \in t /\ x \in Int /\ a + 1 <= x /\ x <= b
  <2>1. x \in t
    BY <1>3
  <2>2. \A y \in t : y \in Int /\ a + 1 <= y /\ y <= b
    OBVIOUS
  <2> QED BY <2>1, <2>2
<1> HIDE DEF x
<1>6. /\ below \in SUBSET ((a + 1)..(x - 1)) /\ below \in SUBSET t /\ x \notin below
      /\ above \in SUBSET ((x + 1)..b)
  <2>1. \A y \in t : y \in Int /\ a + 1 <= y /\ y <= b
    OBVIOUS
  <2>2. \A y : y \in below <=> y \in t /\ y < x
    BY <1>5 DEF AheadOf, Less
  <2> HIDE DEF below
  <2>3. ASSUME NEW y \in below PROVE y \in (a + 1)..(x - 1)
    <3>1. y \in Int /\ a + 1 <= y /\ y < x
      BY <2>1, <2>2
    <3> QED BY <1>5, <3>1
  <2>4. ASSUME NEW y \in above PROVE y \in (x + 1)..b
    <3>1. y \in t /\ ~(y < x) /\ y # x
      BY <2>2
    <3>2. y \in Int /\ y <= b
      BY <2>1, <3>1
    <3> QED BY <1>5, <3>1, <3>2
  <2> HIDE DEF above
  <2> QED BY <1>5, <2>2, <2>3, <2>4
<1> HIDE DEF below
<1>7. /\ IsFiniteSet((a + 1)..(x - 1)) /\ Cardinality((a + 1)..(x - 1)) = x - 1 - a
      /\ IsFiniteSet((x + 1)..b) /\ Cardinality((x + 1)..b) = b - x
  <2>1. a + 1 \in Int /\ x - 1 \in Int /\ x + 1 \in Int /\ b \in Int
    BY <1>5
  <2>2. /\ IsFiniteSet((a + 1)..(x - 1)) /\ IsFiniteSet((x + 1)..b)
        /\ Cardinality((a + 1)..(x - 1)) = IF a + 1 > x - 1 THEN 0 ELSE x - 1 - (a + 1) + 1
        /\ Cardinality((x + 1)..b) = IF x + 1 > b THEN 0 ELSE b - (x + 1) + 1
    BY <2>1, FS_Interval
  <2> QED BY <1>5, <2>2
<1>8. k - 1 <= x - 1 - a
  <2>1. Cardinality(below) <= Cardinality((a + 1)..(x - 1))
    BY <1>6, <1>7, FS_Subset
  <2> QED BY <1>3, <1>7, <2>1
<1>9. Cardinality(above) = m - k
  <2>1. IsFiniteSet(t \ below) /\ Cardinality(t \ below) = m - (k - 1)
    <3>1. Cardinality(t \ below) = Cardinality(t) - Cardinality(t \cap below)
      BY <1>2, FS_Difference
    <3>2. IsFiniteSet(t \ below)
      BY <1>2, FS_Subset
    <3>3. t \cap below = below
      BY <1>6
    <3> QED BY <1>3, <3>1, <3>2, <3>3 DEF m
  <2>2. x \in t \ below
    BY <1>5, <1>6
  <2>3. Cardinality((t \ below) \ {x}) = m - (k - 1) - 1
    BY <2>1, <2>2, FS_RemoveElement
  <2> QED BY <1>2, <2>3 DEF m
<1> HIDE DEF above
<1>10. m - k <= b - x
  <2>1. Cardinality(above) <= Cardinality((x + 1)..b)
    BY <1>6, <1>7, FS_Subset
  <2> QED BY <1>7, <1>9, <2>1
<1>11. x \in (a + k)..(b - (m - k))
  BY <1>2, <1>4, <1>5, <1>8, <1>10 DEF m
<1> QED BY <1>2, <1>3, <1>4, <1>11 DEF m, p, x

\* The positions 1 to m, sorted by any keys that are numbers.
LEMMA ByKeyIsTotal ==
  ASSUME NEW m \in Nat, NEW key \in [1..m -> Int]
  PROVE  IsTotalOrder(1..m, ByKey(1..m, key))
<1> DEFINE D == 1..m
           R == ByKey(D, key)
<1>1. \A x, y \in D : <<x, y>> \in R <=> key[x] < key[y] \/ (key[x] = key[y] /\ x < y)
  BY DEF ByKey
<1>2. \A x \in D : key[x] \in Int /\ x \in Int
  OBVIOUS
<1> HIDE DEF R, D
<1> QED BY <1>1, <1>2 DEF IsTotalOrder, R, D

\* Whichever way a provider orders its answer, it is put back in the order of the texts.
LEMMA BackInOrder ==
  ASSUME NEW items \in Vectors, call.n \in Nat, batch \in Nat, Offset < call.n
  PROVE  \E t \in SUBSET ((Offset + 1)..(Offset + BatchLen)) :
           InOrder(items) = Arranged(t, Less(t))
<1> DEFINE texts == {Offset + k : k \in 1..BatchLen}
<1>1. /\ BatchSize \in Nat /\ Offset \in Nat /\ BatchLen \in Nat
  BY ClientConstantsOK DEF Offset, BatchLen
<1>2. texts = (Offset + 1)..(Offset + BatchLen)
  <2>1. ASSUME NEW x \in (Offset + 1)..(Offset + BatchLen) PROVE x \in texts
    <3>1. x - Offset \in 1..BatchLen /\ x = Offset + (x - Offset)
      BY <1>1
    <3> QED BY <3>1
  <2>2. texts \subseteq (Offset + 1)..(Offset + BatchLen)
    BY <1>1
  <2> QED BY <2>1, <2>2
<1>3. PICK t \in SUBSET texts : items \in Named(t) \/ items = Unnamed(t)
  BY DEF Vectors
<1> DEFINE m == Cardinality(t)
           key == [k \in DOMAIN items |-> items[k].index]
           order == Arranged(1..m, ByKey(1..m, key))
<1>4. /\ t \in SUBSET Int /\ IsFiniteSet(t) /\ m \in Nat
      /\ IsFiniteSet(1..m) /\ Cardinality(1..m) = m /\ IsTotalOrder(t, Less(t))
  <2>1. IsFiniteSet(texts)
    <3>1. Offset + 1 \in Int /\ Offset + BatchLen \in Int
      BY <1>1
    <3> QED BY <1>2, <3>1, FS_Interval
  <2>2. t \in SUBSET Int
    BY <1>1, <1>2
  <2>3. IsFiniteSet(t) /\ m \in Nat
    BY <2>1, FS_Subset, FS_CardinalityType
  <2> QED BY <2>2, <2>3, FS_Interval, LessIsTotal
<1>5. CASE items \in Named(t)
  <2>1. PICK p \in SetToSeqs(t) :
          items = [k \in DOMAIN p |-> [index |-> p[k] - Offset - 1, text |-> p[k]]]
    BY <1>5 DEF Named
  <2>2. p \in [1..m -> t] /\ \A i, j \in 1..m : p[i] = p[j] => i = j
    BY <2>1 DEF SetToSeqs
  <2> HIDE DEF m
  <2>3. \A x \in t : \E i \in 1..m : p[i] = x
    <3>1. p \in Injection(1..m, t)
      BY <2>2 DEF Injection, IsInjective
    <3>2. p \in Surjection(1..m, t)
      BY <1>4, <3>1, FS_Injection DEF m
    <3> QED BY <3>2 DEF Surjection
  <2>4. /\ DOMAIN items = 1..m /\ key \in [1..m -> Int]
        /\ \A i \in 1..m : key[i] = p[i] - Offset - 1 /\ items[i].text = p[i]
    <3>1. items = [k \in 1..m |-> [index |-> p[k] - Offset - 1, text |-> p[k]]]
      BY <2>1, <2>2
    <3>2. key = [k \in 1..m |-> p[k] - Offset - 1]
      BY <3>1
    <3>3. \A k \in 1..m : p[k] \in Int /\ p[k] - Offset - 1 \in Int
      <4>1. \A y \in t : y \in Int
        BY <1>4
      <4>2. \A k \in 1..m : p[k] \in t
        BY <2>2
      <4> QED BY <1>1, <4>1, <4>2
    <3> QED BY <3>1, <3>2, <3>3
  <2> HIDE DEF key
  <2>5. /\ order \in [1..m -> 1..m]
        /\ \A x \in 1..m : \E i \in 1..m : order[i] = x
        /\ \A i, j \in 1..m : i < j <=> <<order[i], order[j]>> \in ByKey(1..m, key)
    <3> DEFINE D == 1..m
               R == ByKey(D, key)
    <3>1. IsTotalOrder(D, R) /\ IsFiniteSet(D) /\ Cardinality(D) = m
      BY <1>4, <2>4, ByKeyIsTotal
    <3>2. order = Arranged(D, R)
      OBVIOUS
    <3> HIDE DEF order, D, R
    <3>3. /\ order \in [1..m -> D]
          /\ \A x \in D : \E i \in 1..m : order[i] = x
          /\ \A i, j \in 1..m : i < j <=> <<order[i], order[j]>> \in R
      BY <3>1, <3>2, ArrangedSorts
    <3> QED BY <3>3 DEF D, R
  <2> HIDE DEF order
  <2> DEFINE q == [k \in 1..m |-> p[order[k]]]
  <2>6. InOrder(items) = q
    BY <2>4, <2>5 DEF InOrder, Stable, order, key
  <2>7. q \in [1..m -> t] /\ \A x \in t : \E i \in 1..m : q[i] = x
    <3>1. q \in [1..m -> t]
      BY <2>2, <2>5
    <3>2. ASSUME NEW x \in t PROVE \E i \in 1..m : q[i] = x
      <4>1. PICK j \in 1..m : p[j] = x
        BY <2>3
      <4>2. PICK i \in 1..m : order[i] = j
        BY <2>5
      <4> QED BY <4>1, <4>2
    <3> QED BY <3>1, <3>2
  <2>8. ASSUME NEW i \in 1..m, NEW j \in 1..m, i < j PROVE <<q[i], q[j]>> \in Less(t)
    <3> DEFINE x == order[i]
               y == order[j]
    <3>1. x \in 1..m /\ y \in 1..m /\ <<x, y>> \in ByKey(1..m, key)
      BY <2>5, <2>8
    <3>2. p[x] \in t /\ p[y] \in t /\ p[x] \in Int /\ p[y] \in Int /\ q[i] = p[x] /\ q[j] = p[y]
      BY <1>4, <2>2, <3>1
    <3> HIDE DEF x, y
    <3>3. key[x] < key[y] \/ (key[x] = key[y] /\ x < y)
      BY <3>1 DEF ByKey
    <3>4. p[x] - Offset - 1 < p[y] - Offset - 1
      BY <1>1, <2>2, <2>4, <3>1, <3>2, <3>3
    <3>5. p[x] < p[y]
      BY <1>1, <3>2, <3>4
    <3> QED BY <3>2, <3>5 DEF Less
  <2> HIDE DEF q
  <2>9. Arranged(t, Less(t)) = q
    <3> DEFINE R == Less(t)
    <3>1. m \in Nat /\ IsTotalOrder(t, R) /\ \A i, j \in 1..m : i < j => <<q[i], q[j]>> \in R
      BY <1>4, <2>8
    <3> HIDE DEF R
    <3>2. Arranged(t, R) = q
      BY <2>7, <3>1, ArrangedStays
    <3> QED BY <3>2 DEF R
  <2> QED BY <1>2, <2>6, <2>9
<1>6. CASE items = Unnamed(t)
  <2> DEFINE p == Arranged(t, Less(t))
             same == [i \in 1..m |-> i]
  <2>1. p \in [1..m -> t]
    BY <1>4, ArrangedSorts
  <2> HIDE DEF m
  <2>2. /\ DOMAIN items = 1..m /\ key \in [1..m -> Int]
        /\ \A i \in 1..m : key[i] = 0 /\ items[i].text = p[i]
    BY <1>6, <2>1 DEF Unnamed
  <2> HIDE DEF key, p
  <2>3. order = same
    <3>1. same \in [1..m -> 1..m] /\ \A x \in 1..m : \E i \in 1..m : same[i] = x
      OBVIOUS
    <3>2. \A i, j \in 1..m : i < j => <<same[i], same[j]>> \in ByKey(1..m, key)
      BY <2>2 DEF ByKey
    <3>3. IsTotalOrder(1..m, ByKey(1..m, key))
      BY <1>4, <2>2, ByKeyIsTotal
    <3> HIDE DEF same
    <3> QED BY <1>4, <3>1, <3>2, <3>3, ArrangedStays
  <2> HIDE DEF order
  <2>4. InOrder(items) = [k \in 1..m |-> items[order[k]].text]
    BY <2>2, <2>3 DEF InOrder, Stable, order, key
  <2>5. InOrder(items) = p
    BY <2>1, <2>2, <2>3, <2>4
  <2> QED BY <1>2, <2>5 DEF p
<1> QED BY <1>3, <1>5, <1>6

-----------------------------------------------------------------------------

\* The texts of the batches that were answered.
AnsweredTexts == IF Offset < call.n THEN Offset ELSE call.n

\* Vectors come in the order of their texts, with no more texts before or
\* after a vector than the answered batches leave room for.
OwnInv ==
  /\ call \in [client : Adapters, key : BOOLEAN, n : 0..MaxItems]
  /\ batch \in Nat
  /\ pc = "start" => batch = 0 /\ result = <<>>
  /\ call.client = "embedding" =>
       /\ pc \in {"request", "backoff"} => Offset < call.n
       /\ result \in Seq(Int)
       /\ Len(result) <= AnsweredTexts
       /\ \A i \in 1..Len(result) : result[i] \in i..(AnsweredTexts - (Len(result) - i))

LEMMA OwnInit == ProviderInit => OwnInv
<1> SUFFICES ASSUME ProviderInit PROVE OwnInv
  OBVIOUS
<1>1. batch = 0 /\ result = <<>> /\ call \in [client : Adapters, key : BOOLEAN, n : 0..MaxItems]
      /\ pc = "start"
  BY DEF ProviderInit
<1>2. BatchSize * 0 = 0 /\ BatchSize \in Nat /\ MaxItems \in Nat
  BY ClientConstantsOK
<1>3. Offset = 0 /\ AnsweredTexts = 0 /\ call.n \in Nat
  BY <1>1, <1>2 DEF Offset, AnsweredTexts
<1>4. result \in Seq(Int) /\ Len(result) = 0
  BY <1>1
<1> QED BY <1>1, <1>3, <1>4 DEF OwnInv

\* Numbers up to a with room for the others, then numbers up to b likewise.
LEMMA RoomKept ==
  ASSUME NEW a \in Nat, NEW b \in Nat, NEW s \in Seq(Int), NEW u \in Seq(Int),
         Len(s) <= a, Len(u) <= b - a,
         \A i \in 1..Len(s) : s[i] \in i..(a - (Len(s) - i)),
         \A k \in 1..Len(u) : u[k] \in (a + k)..(b - (Len(u) - k))
  PROVE  /\ s \o u \in Seq(Int) /\ Len(s \o u) <= b
         /\ \A i \in 1..Len(s \o u) : (s \o u)[i] \in i..(b - (Len(s \o u) - i))
<1> DEFINE L == Len(s)
           m == Len(u)
           r == s \o u
<1>1. L \in Nat /\ m \in Nat /\ r \in Seq(Int) /\ Len(r) = L + m
  OBVIOUS
<1>2. /\ \A i \in 1..L : r[i] = s[i]
      /\ \A i \in (L + 1)..(L + m) : r[i] = u[i - L]
  OBVIOUS
<1>3. /\ \A i \in 1..L : s[i] \in i..(a - (L - i))
      /\ \A k \in 1..m : u[k] \in (a + k)..(b - (m - k))
      /\ L <= a /\ m <= b - a
  OBVIOUS
<1> HIDE DEF L, m, r
<1>4. ASSUME NEW i \in 1..(L + m) PROVE r[i] \in i..(b - (L + m - i))
  <2>1. CASE i <= L
    <3>1. i \in 1..L
      BY <1>1, <2>1
    <3>2. s[i] \in i..(a - (L - i)) /\ r[i] = s[i]
      BY <1>2, <1>3, <3>1
    <3> QED BY <1>1, <1>3, <2>1, <3>2
  <2>2. CASE i > L
    <3>1. i - L \in 1..m /\ r[i] = u[i - L]
      BY <1>1, <1>2, <2>2
    <3>2. u[i - L] \in (a + (i - L))..(b - (m - (i - L)))
      BY <1>3, <3>1
    <3> QED BY <1>1, <1>3, <2>2, <3>1, <3>2
  <2> QED BY <1>1, <2>1, <2>2
<1>5. L + m <= b
  BY <1>1, <1>3
<1> QED BY <1>1, <1>4, <1>5 DEF r

\* An answer adds its vectors to the end, whichever texts they are of.
LEMMA OwnAnswer ==
  ASSUME OwnInv, pc = "request", call.client = "embedding", UNCHANGED call,
         NEW items \in Vectors, result' = result \o InOrder(items), batch' = batch + 1,
         pc' # "start",
         pc' \in {"request", "backoff"} => Offset + BatchSize < call.n
  PROVE  OwnInv'
<1> DEFINE a == Offset
           b == Offset + BatchLen
           L == Len(result)
<1>1. /\ call.n \in Nat /\ BatchSize \in Nat /\ BatchSize > 0 /\ batch \in Nat /\ MaxItems \in Nat
      /\ call \in [client : Adapters, key : BOOLEAN, n : 0..MaxItems]
  BY ClientConstantsOK DEF OwnInv
<1>2. Offset \in Nat /\ Offset' = Offset + BatchSize
  <2>1. BatchSize * (batch + 1) = BatchSize * batch + BatchSize /\ BatchSize * batch \in Nat
    BY <1>1
  <2> QED BY <2>1 DEF Offset
<1>3. Offset < call.n /\ AnsweredTexts = a
  BY DEF OwnInv, AnsweredTexts
<1>4. b \in Nat /\ AnsweredTexts' = b /\ a <= b
  BY <1>1, <1>2, <1>3 DEF AnsweredTexts, BatchLen
<1>5. PICK t \in SUBSET ((a + 1)..b) : InOrder(items) = Arranged(t, Less(t))
  BY <1>1, <1>3, BackInOrder
<1> DEFINE m == Cardinality(t)
           p == Arranged(t, Less(t))
<1>6. /\ result \in Seq(Int) /\ L \in Nat /\ L <= a
      /\ \A i \in 1..L : result[i] \in i..(a - (L - i))
  BY <1>3 DEF OwnInv
<1> HIDE DEF a, b, AnsweredTexts, Offset
<1>7. a \in Nat /\ b \in Nat
  BY <1>2, <1>4 DEF a
<1>8. /\ m \in Nat /\ p \in [1..m -> Int] /\ m <= b - a
      /\ \A k \in 1..m : p[k] \in (a + k)..(b - (m - k))
  <2>1. IsFiniteSet(t) /\ m \in Nat /\ IsTotalOrder(t, Less(t)) /\ t \in SUBSET Int
    <3>1. IsFiniteSet((a + 1)..b)
      BY <1>7, FS_Interval
    <3>2. t \in SUBSET Int
      BY <1>7
    <3> QED BY <3>1, <3>2, FS_Subset, FS_CardinalityType, LessIsTotal
  <2>2. p \in [1..m -> t]
    BY <2>1, ArrangedSorts
  <2>3. p \in [1..m -> Int]
    BY <2>1, <2>2
  <2>4. m <= b - a
    <3>1. Cardinality(t) <= Cardinality((a + 1)..b) /\ Cardinality((a + 1)..b) = IF a + 1 > b THEN 0 ELSE b - (a + 1) + 1
      <4>1. a + 1 \in Int /\ b \in Int
        BY <1>7
      <4> QED BY <4>1, FS_Interval, FS_Subset
    <3> QED BY <1>4, <1>7, <2>1, <3>1 DEF a
  <2>5. \A k \in 1..m : p[k] \in (a + k)..(b - (m - k))
    BY <1>7, KthOfMany
  <2> QED BY <2>1, <2>3, <2>4, <2>5
<1> HIDE DEF m, p
<1>9. result' = result \o p
  BY <1>5 DEF p
<1>10. p \in Seq(Int) /\ Len(p) = m
  BY <1>8
<1> DEFINE grown == result \o p
<1>11. /\ \A k \in 1..Len(p) : p[k] \in (a + k)..(b - (Len(p) - k))
       /\ Len(p) <= b - a
  BY <1>8, <1>10
<1>12. /\ grown \in Seq(Int) /\ Len(grown) <= b
       /\ \A i \in 1..Len(grown) : grown[i] \in i..(b - (Len(grown) - i))
  BY <1>6, <1>7, <1>10, <1>11, RoomKept
<1>13. batch' \in Nat /\ call' = call
  BY <1>1
<1>14. pc' \in {"request", "backoff"} => Offset' < call.n
  BY <1>2
<1> HIDE DEF grown
<1>15. result' = grown
  BY <1>9 DEF grown
<1> QED BY <1>1, <1>4, <1>12, <1>13, <1>14, <1>15 DEF OwnInv

LEMMA OwnStep == LoopInv /\ OwnInv /\ [ProviderNext]_providerVars => OwnInv'
<1> SUFFICES ASSUME LoopInv, OwnInv, [ProviderNext]_providerVars PROVE OwnInv'
  OBVIOUS
<1>1. CASE Begin
  <2>1. batch = 0 /\ result = <<>> /\ UNCHANGED <<call, batch, result>>
    BY <1>1 DEF Begin, OwnInv
  <2>2. call \in [client : Adapters, key : BOOLEAN, n : 0..MaxItems] /\ MaxItems \in Nat
    BY ClientConstantsOK DEF OwnInv
  <2>3. BatchSize * 0 = 0 /\ BatchSize \in Nat
    BY ClientConstantsOK
  <2>4. Offset = 0
    BY <2>1, <2>3 DEF Offset
  <2>5. Offset' = Offset /\ AnsweredTexts' = AnsweredTexts
    BY <2>1 DEF Offset, AnsweredTexts
  <2>6. pc' # "start" /\ (pc' = "over" \/ call.n # 0)
    BY <1>1 DEF Begin, End
  <2>7. Offset' < call.n \/ pc' = "over"
    BY <2>2, <2>4, <2>5, <2>6
  <2> HIDE DEF Offset, AnsweredTexts
  <2> QED BY <2>1, <2>5, <2>6, <2>7 DEF OwnInv
<1>2. CASE Embedded
  <2>1. PICK items \in Vectors : result' = result \o InOrder(items)
    BY <1>2 DEF Embedded
  <2>2. pc' # "start" /\ (pc' \in {"request", "backoff"} => Offset + BatchSize < call.n)
    BY <1>2 DEF Embedded, Answered, End
  <2> QED BY <1>2, <2>1, <2>2, OwnAnswer DEF Embedded, Answered
<1>3. CASE Reranked \/ Generated
  <2>1. call.client # "embedding" /\ pc' = "over" /\ UNCHANGED <<call, batch>>
    BY <1>3 DEF Reranked, Generated, End
  <2> QED BY <2>1 DEF OwnInv
<1>4. CASE Wake \/ Cancel \/ Transient \/ Unreachable \/ Denied \/ Rejected \/ Garbled \/ Unusable
           \/ Finished \/ UNCHANGED providerVars
  <2>1. UNCHANGED <<call, batch, result>>
    BY <1>4 DEF Wake, Cancel, Transient, Unreachable, Denied, Rejected, Garbled, Unusable, Finished, providerVars
  <2>2. /\ pc' = "start" => pc = "start"
        /\ pc' \in {"request", "backoff"} => pc \in {"request", "backoff"}
    BY <1>4 DEF Wake, Cancel, Transient, Unreachable, Denied, Rejected, Garbled, Unusable,
                Finished, providerVars, TryAgain, End, Answered
  <2>3. Offset' = Offset /\ AnsweredTexts' = AnsweredTexts
    BY <2>1 DEF Offset, AnsweredTexts
  <2> HIDE DEF Offset, AnsweredTexts
  <2> QED BY <2>1, <2>2, <2>3 DEF OwnInv
<1> QED BY <1>1, <1>2, <1>3, <1>4 DEF ProviderNext

\* Where embed_chunks counts as many vectors as chunks, the i-th vector was
\* computed from the i-th text: nothing an honest provider leaves out, and no
\* order it answers in, shifts a vector to another chunk.
THEOREM VectorsStay == ProviderSpec => []OwnVectors
<1>1. OwnInv => OwnVectors
  <2> SUFFICES ASSUME OwnInv, call.client = "embedding", Len(result) = call.n, NEW i \in 1..call.n
               PROVE  result[i] = i
    BY DEF OwnVectors
  <2>1. call.n \in Nat /\ MaxItems \in Nat
    BY ClientConstantsOK DEF OwnInv
  <2>2. AnsweredTexts <= call.n /\ AnsweredTexts \in Int
    <3>1. BatchSize * batch \in Nat
      BY ClientConstantsOK DEF OwnInv
    <3> QED BY <2>1, <3>1 DEF AnsweredTexts, Offset
  <2>3. result[i] \in i..(AnsweredTexts - (call.n - i))
    BY DEF OwnInv
  <2> HIDE DEF AnsweredTexts
  <2> QED BY <2>1, <2>2, <2>3
<1> QED
  BY <1>1, OwnInit, OwnStep, Loop, PTL DEF ProviderSpec

=============================================================================
