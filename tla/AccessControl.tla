---------------------------- MODULE AccessControl ----------------------------
(***************************************************************************)
(* Who a caller is, what the caller may touch, and which bucket of the     *)
(* rate limiter the caller's requests fall into: the decisions of the      *)
(* authenticator, of the authorization policy and of the upload handler.   *)
(*                                                                         *)
(* A key is compared with another one only for equality, so keys are       *)
(* abstract; a fingerprint or a hash of a bucket stands for what it is of. *)
(* A security setting is a record                                          *)
(*   env      the environment of the process                               *)
(*   masters  the master and the rotation key, when they are set           *)
(*   tenantOf the tenants the other configured keys are bound to           *)
(*   revoked  the keys revoked by value or by fingerprint                  *)
(*   proxies  the peers whose X-Forwarded-For is believed                  *)
(*   enforced tenant_enforcement_enabled                                   *)
(* and a request carries the key it presents, the tenant it wants in       *)
(* X-Tenant-ID, its peer and what X-Forwarded-For names first.             *)
(***************************************************************************)
EXTENDS Integers, FiniteSets

CONSTANTS
  DefaultTenant,   \* the tenant "default"
  Absent           \* a header, or a part of the metadata, that is not there

Lenient == {"development", "test"}

Unconfigured(cfg) == cfg.masters = {} /\ DOMAIN cfg.tenantOf = {}

Wanted(r) == IF r.wanted = Absent THEN DefaultTenant ELSE r.wanted

-----------------------------------------------------------------------------
(* APIKeyAuthenticator.                                                    *)

\* Neither the master or rotation key nor one of the mapped keys, or revoked.
BadKey(cfg, key) ==
  key = Absent \/ key \in cfg.revoked \/ key \notin cfg.masters \cup DOMAIN cfg.tenantOf

WrongTenant(cfg, r) ==
  r.key \notin cfg.masters /\ r.wanted \notin {Absent, cfg.tenantOf[r.key]}

\* The exception that resolve_security_context raises, or "none".
Refusal(cfg, r) ==
  IF Unconfigured(cfg) THEN IF cfg.env \in Lenient THEN "none" ELSE "UnauthorizedError"
  ELSE IF BadKey(cfg, r.key) THEN "UnauthorizedError"
  ELSE IF WrongTenant(cfg, r) THEN "ForbiddenError"
  ELSE "none"

\* The SecurityContext of a request that is not refused.
Context(cfg, r) ==
  LET admin == r.key \in cfg.masters IN
  IF Unconfigured(cfg)
  THEN [user |-> "anonymous", tenant |-> Wanted(r), admin |-> FALSE, known |-> FALSE]
  ELSE [user |-> r.key, tenant |-> IF admin THEN Wanted(r) ELSE cfg.tenantOf[r.key],
        admin |-> admin, known |-> TRUE]

-----------------------------------------------------------------------------
(* The authorization policy.                                               *)

CanAccess(cfg, ctx, tenant) == ~cfg.enforced \/ ctx.admin \/ ctx.tenant = tenant

-----------------------------------------------------------------------------
(* The tenant an upload is filed under, given the tenant_id its metadata   *)
(* declare; an authenticated caller without the admin role may only        *)
(* declare its own.                                                        *)

Locked(ctx) == ctx.known /\ ~ctx.admin

UploadRefused(ctx, declared) == Locked(ctx) /\ declared \notin {Absent, ctx.tenant}

UploadTenant(ctx, declared) ==
  IF Locked(ctx) \/ declared = Absent THEN ctx.tenant ELSE declared

-----------------------------------------------------------------------------
(* The bucket of the rate limiter: the identity the credentials prove, or  *)
(* the address of the client.  Any exception of the authenticator is       *)
(* swallowed here and raised again by verify_api_key.                      *)

Address(cfg, r) ==
  IF r.peer \in cfg.proxies /\ r.forwarded # Absent THEN r.forwarded ELSE r.peer

\* Mutant: the key a client presents names its bucket, whether it is valid or not.
BucketPresented(cfg, r) ==
  IF r.key # Absent THEN <<"auth", Wanted(r), r.key>> ELSE <<"ip", Address(cfg, r)>>

\* Mutant: every client is counted by its address.
BucketAddress(cfg, r) == <<"ip", Address(cfg, r)>>

Bucket(cfg, r) ==
  IF Refusal(cfg, r) = "none" /\ Context(cfg, r).known
  THEN <<"auth", Context(cfg, r).tenant, r.key>>
  ELSE <<"ip", Address(cfg, r)>>

=============================================================================
