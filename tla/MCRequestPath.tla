---------------------------- MODULE MCRequestPath ----------------------------
(* A small instance of RequestPath for TLC.                                *)
EXTENDS RequestPath, TLC

CONSTANTS
  A, B,                      \* tenants; B is the default one
  Master, KeyA, Stolen, Junk,\* keys: master, bound to A, revoked, unknown
  Home, Proxy, Far           \* addresses

Set(env, masters, tenantOf, revoked, enforced) ==
  [env |-> env, masters |-> masters, tenantOf |-> tenantOf, revoked |-> revoked,
   proxies |-> {Proxy}, enforced |-> enforced]

MCSettings ==
  { Set("production", {Master}, KeyA :> A @@ Stolen :> A, {Stolen}, TRUE),
    Set("staging", {}, KeyA :> A, {}, FALSE),
    Set("staging", {}, <<>>, {}, TRUE),
    Set("development", {}, <<>>, {}, TRUE) }

Req(route, key, wanted, peer, forwarded, target, body) ==
  [route |-> route, key |-> key, wanted |-> wanted, peer |-> peer,
   forwarded |-> forwarded, target |-> target, body |-> body]

MCArrivals ==
  { Req("document", KeyA, Absent, Home, Absent, A, "good"),
    Req("document", KeyA, A, Proxy, Far, B, "good"),
    Req("upload", KeyA, B, Home, Far, B, "good"),
    Req("upload", KeyA, Absent, Home, Absent, B, "invalid"),
    Req("upload", Master, A, Proxy, Far, Absent, "good"),
    Req("document", Stolen, Absent, Home, Absent, A, "good"),
    Req("document", Junk, A, Home, Far, A, "good"),
    Req("document", Absent, Absent, Proxy, Far, B, "broken"),
    Req("open", Absent, Absent, Home, Absent, Absent, "good") }

MCKeys == {Bucket(cfg, r) : cfg \in MCSettings, r \in MCArrivals}

MCFaults == {"EmbeddingAuthenticationError", "Exception"}

Symmetry == Permutations(Calls)

=============================================================================
