------------------------------ MODULE RequestPath ------------------------------
(***************************************************************************)
(* A request on its way through the application: the observability         *)
(* middleware, the dependencies of the route (the rate limit, then the     *)
(* API key, then the caller's security context), the endpoint, the         *)
(* exception handlers, and the middleware again.                           *)
(*                                                                         *)
(* Dependencies are coroutines and functions on worker threads, so other   *)
(* requests run between any two of the steps.  Within a step nothing is    *)
(* awaited that another request could change.  The settings, and with them *)
(* the authenticator, do not change while the process runs.                *)
(***************************************************************************)
EXTENDS InMemoryRateLimiter, AccessControl, ErrorResponses

CONSTANTS
  Settings,      \* the security settings a process may run with
  Arrivals,      \* the requests clients make
  Faults,        \* exceptions an endpoint may end with; "Exception" for any other class
  NoRequest      \* a call whose request has not arrived

\* A request calls the limiter at most once, with one of the buckets.
ASSUME RequestConstants ==
  /\ \A cfg \in Settings, r \in Arrivals : Bucket(cfg, r) \in Keys
  /\ Faults \subseteq DOMAIN StatusOf \cup {"Exception"}
  /\ NoRequest \notin Arrivals

VARIABLES
  security,      \* the settings of this process
  request,       \* request[c]: what arrived
  stage,         \* stage[c]: where it is
  status,        \* status[c]: the status code decided for it; 0 for none
  touched,       \* touched[c]: the tenant whose documents the endpoint read or wrote
  meter          \* the counters of the metrics collector and the spans of the tracer

path  == <<security, request, stage, status, touched, meter>>
pvars == <<vars, path>>

Stages == {"unsent", "arrived", "admitted", "verified", "answered", "raised", "left"}

\* rag_requests_total, rag_errors_total, the observations of the latency, spans begun and ended.
NoMeter == [requests |-> 0, errors |-> 0, latency |-> 0, begun |-> 0, ended |-> 0]

Guarded(c) == request[c].route # "open"

Move(c, from, to) == stage[c] = from /\ stage' = [stage EXCEPT ![c] = to]

\* An answer with a status code, sent back through the middleware.
Answered(c, from, code) ==
  /\ Move(c, from, "answered")
  /\ status' = [status EXCEPT ![c] = code]

-----------------------------------------------------------------------------
(* Steps.                                                                  *)

\* dispatch: identifiers are taken over or made, a span is begun.
Arrive(c) ==
  /\ Move(c, "unsent", "arrived")
  /\ \E r \in Arrivals : request' = [request EXCEPT ![c] = r]
  /\ meter' = [meter EXCEPT !.begun = @ + 1]
  /\ UNCHANGED <<vars, security, status, touched>>

\* A body that cannot be decoded is refused before any dependency runs.
RejectBody(c) ==
  /\ Answered(c, "arrived", ValidationStatus)
  /\ request[c].body = "broken"
  /\ UNCHANGED <<vars, security, request, touched, meter>>

\* check_rate_limit of the route: RateLimitExceededError or on to the next dependency.
CheckRateLimit(c) ==
  /\ stage[c] = "arrived" /\ Guarded(c) /\ request[c].body # "broken"
  /\ LET k == Bucket(security, request[c]) IN
       \/ /\ Refuse(c, k)
          /\ Answered(c, "arrived", StatusOf["RateLimitExceededError"])
       \/ Admit(c, k) /\ Move(c, "arrived", "admitted") /\ UNCHANGED status
  /\ UNCHANGED <<security, request, touched, meter>>

\* verify_api_key, and get_security_context, which decides the same again.
VerifyApiKey(c) ==
  /\ stage[c] = "admitted"
  /\ LET refusal == Refusal(security, request[c]) IN
       \/ refusal = "none" /\ Move(c, "admitted", "verified") /\ UNCHANGED status
       \/ refusal # "none" /\ Answered(c, "admitted", StatusOf[refusal])
  /\ UNCHANGED <<vars, security, request, touched, meter>>

\* Mutant: the endpoint believes the target it is given.
TargetBelieved(c) == IF request[c].target = Absent THEN DefaultTenant ELSE request[c].target

\* The tenant an endpoint works for: that of the document asked for, if the
\* policy lets the caller, or the one an upload is filed under; else the error.
Target(c) ==
  LET ctx == Context(security, request[c])  r == request[c] IN
  IF r.route = "upload"
  THEN IF UploadRefused(ctx, r.target) THEN Absent ELSE UploadTenant(ctx, r.target)
  ELSE IF CanAccess(security, ctx, r.target) THEN r.target ELSE Absent

\* The endpoint of a guarded route, once parameters fit their schema.
Handle(c) ==
  /\ stage[c] = "verified"
  /\ \/ /\ request[c].body = "invalid"
        /\ Answered(c, "verified", ValidationStatus)
        /\ UNCHANGED touched
     \/ /\ request[c].body = "good" /\ Target(c) = Absent
        /\ Answered(c, "verified", StatusOf["ForbiddenError"])
        /\ UNCHANGED touched
     \/ /\ request[c].body = "good" /\ Target(c) # Absent
        /\ Answered(c, "verified", 200)
        /\ touched' = [touched EXCEPT ![c] = Target(c)]
     \/ \E e \in Faults \ {"Exception"} :
          /\ request[c].body = "good"
          /\ Answered(c, "verified", StatusOf[e])
          /\ UNCHANGED touched
  /\ UNCHANGED <<vars, security, request, meter>>

\* Probes, metrics and pages have no dependencies of this kind.
HandleOpen(c) ==
  /\ Answered(c, "arrived", 200)
  /\ ~Guarded(c)
  /\ UNCHANGED <<vars, security, request, touched, meter>>

\* An exception without a handler, or a cancellation, goes up through the middleware.
Raise(c) ==
  /\ "Exception" \in Faults
  /\ Move(c, "verified", "raised")
  /\ UNCHANGED <<vars, security, request, status, touched, meter>>

\* Mutant: only server errors are errors.
RespondServerErrors(c) ==
  /\ Move(c, "answered", "left")
  /\ meter' = [meter EXCEPT !.requests = @ + 1, !.latency = @ + 1, !.ended = @ + 1,
                            !.errors = IF status[c] >= 500 THEN @ + 1 ELSE @]
  /\ UNCHANGED <<vars, security, request, status, touched>>

\* dispatch after call_next returned a response.
Respond(c) ==
  /\ Move(c, "answered", "left")
  /\ meter' = [meter EXCEPT !.requests = @ + 1, !.latency = @ + 1, !.ended = @ + 1,
                            !.errors = IF status[c] >= 400 THEN @ + 1 ELSE @]
  /\ UNCHANGED <<vars, security, request, status, touched>>

\* dispatch after call_next raised; the outermost handler answers.
RespondRaised(c) ==
  /\ Move(c, "raised", "left")
  /\ status' = [status EXCEPT ![c] = UnhandledStatus]
  /\ meter' = [meter EXCEPT !.errors = @ + 1, !.latency = @ + 1, !.ended = @ + 1]
  /\ UNCHANGED <<vars, security, request, touched>>

Step(c) ==
  \/ Arrive(c) \/ RejectBody(c) \/ CheckRateLimit(c) \/ VerifyApiKey(c)
  \/ Handle(c) \/ HandleOpen(c) \/ Raise(c) \/ Respond(c) \/ RespondRaised(c)

PathInit ==
  /\ Init
  /\ security \in Settings
  /\ request = [c \in Calls |-> NoRequest]
  /\ stage = [c \in Calls |-> "unsent"]
  /\ status = [c \in Calls |-> 0]
  /\ touched = [c \in Calls |-> Absent]
  /\ meter = NoMeter

PathNext == (Tick /\ UNCHANGED path) \/ \E c \in Calls : Step(c)

PathSpec == PathInit /\ [][PathNext]_pvars

-----------------------------------------------------------------------------
(* Properties.                                                             *)

\* The admitted calls within the window that ends with call c.
Before(c) == {d \in Calls : /\ call[d].out = "admitted"
                            /\ call[d].at \in (call[c].at - Window + 1)..call[c].at}

\* Requests that were told their credentials do not do.
Guesses(p) == {c \in Calls : /\ status[c] \in {401, 403} /\ request[c].peer = p
                             /\ Refusal(security, request[c]) # "none"}

\* The other clients let through since request d of address p.
Others(p, d) ==
  {call[e].key : e \in {e \in Calls \ Guesses(p) :
                         call[e].out = "admitted" /\ call[e].at >= call[d].at}}
  \ {<<"ip", p>>}

\* Credentials cannot be tried faster than the limit: from one address that is
\* no proxy, no window holds more than Limit requests that were told their
\* credentials are wrong, whatever keys and headers they carry, unless max_keys
\* other clients have pushed that address out of the limiter's memory.
GuessingBounded ==
  \A r \in Arrivals : r.peer \in security.proxies \/
    \A c \in Guesses(r.peer) :
      LET tried == Guesses(r.peer) \cap Before(c) IN
      \/ Cardinality(tried) <= Limit
      \/ \E d \in tried : Cardinality(Others(r.peer, d)) >= MaxKeys

\* Nobody can use up the allowance of a caller with a valid key: such a caller
\* is limited only after Limit requests of its own, with that key and for that
\* tenant, within the window.
OwnTrafficOnly ==
  \A c \in Calls :
    call[c].out = "limited" /\ Refusal(security, request[c]) = "none"
      /\ Context(security, request[c]).known
    => Cardinality({d \in Before(c) :
                      /\ request[d].key = request[c].key
                      /\ Refusal(security, request[d]) = "none"
                      /\ Context(security, request[d]) = Context(security, request[c])}) >= Limit

\* A key that is bound to a tenant touches documents of that tenant only, unless
\* the operator switched the policy off: the authenticator, the policy and the
\* upload handler together leave no way for a header or the metadata of an upload
\* to name another one.
BoundKeysStayHome ==
  \A c \in Calls :
    /\ touched[c] # Absent /\ security.enforced
    /\ ~Unconfigured(security) /\ request[c].key \notin security.masters
    => /\ request[c].key \notin security.revoked
       /\ touched[c] = security.tenantOf[request[c].key]

\* What the meters show agrees with what clients were told, however requests
\* overlap: one latency and one ended span for each request that left, one
\* error for each that left with a status of 400 and above or by an exception,
\* and one request for each that left with a response.
MetersAgree ==
  LET Left == {c \in Calls : stage[c] = "left"} IN
  /\ meter.latency = Cardinality(Left) /\ meter.ended = meter.latency
  /\ meter.begun = Cardinality({c \in Calls : stage[c] # "unsent"})
  /\ meter.errors = Cardinality({c \in Left : status[c] >= 400})
  /\ meter.requests <= meter.latency
  /\ meter.latency - meter.requests <= meter.errors

=============================================================================
