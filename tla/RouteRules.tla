----------------------------- MODULE RouteRules -----------------------------
(***************************************************************************)
(* Route policies as the validator of route registration sees them         *)
(* (internal/core/policy) with the rules of the tenancy feature.           *)
(*                                                                         *)
(* A policy is a record of what its constructor was given: type, the       *)
(* identity a cached response varies by, and the path parameter a tenant   *)
(* match reads.  The validator does not see the policy but its metadata,   *)
(* which is stored by code pointer, so all policies of one function        *)
(* literal share the metadata of the one annotated last.  Each constructor *)
(* has one literal: the type stands for the pointer.                       *)
(***************************************************************************)
EXTENDS Naturals, Sequences

-----------------------------------------------------------------------------
(* The constructors. *)

PolicyTypes ==
    {"auth_required", "tenant_required", "tenant_match", "require_perm", "rate_limit", "cache_read",
     "cache_invalidate", "cache_control", "require_json", "unannotated"}

Policy == [type : PolicyTypes, vary : {"none", "user", "tenant"}, param : STRING]

\* The policies that need a principal.
Checks == {"require_perm", "tenant_required", "tenant_match"}

Plain(type) == [type |-> type, vary |-> "none", param |-> "none"]

AuthRequired == Plain("auth_required")
RequirePerm == Plain("require_perm")
RateLimit == Plain("rate_limit")
CacheInvalidate == Plain("cache_invalidate")
CacheControl == Plain("cache_control")
RequireJSON == Plain("require_json")
TenantRequired == Plain("tenant_required")

\* vary: "none", "user" (VaryBy.UserID) or "tenant" (the part of tenancy.CacheVary).
CacheRead(vary) == [Plain("cache_read") EXCEPT !.vary = vary]

TenantMatchFromPath(param) == [Plain("tenant_match") EXCEPT !.param = param]

\* A policy no constructor made, and nobody annotated.
Unannotated == Plain("unannotated")

\* Presets of the policy package and of tenancy.
PublicRead == <<RateLimit, CacheRead("none")>>

TenantRead(tenancy) ==
    <<AuthRequired, TenantRequired, RateLimit, CacheRead(IF tenancy THEN "tenant" ELSE "user")>>

TenantWrite == <<AuthRequired, TenantRequired, RateLimit, CacheInvalidate>>

-----------------------------------------------------------------------------
(* Metadata.  last maps a literal to the policy of that literal annotated  *)
(* last; literals outside its domain have built one policy only.           *)

DescribePolicy(last, p) == IF p.type \in DOMAIN last THEN last[p.type] ELSE p

\* DescribePolicies fails on a policy without metadata.
Described(policies) == \A i \in DOMAIN policies : policies[i].type # "unannotated"

DescribePolicies(last, policies) == [i \in DOMAIN policies |-> DescribePolicy(last, policies[i])]

-----------------------------------------------------------------------------
(* The rules. *)

\* Mutant: caching policies may stand anywhere.
policyOrderStageAnyCache(meta) ==
    CASE meta.type = "auth_required" -> 1
      [] meta.type \in {"tenant_required", "tenant_match"} -> 2
      [] meta.type = "require_perm" -> 3
      [] meta.type = "rate_limit" -> 4
      [] meta.type = "cache_control" -> 6
      [] OTHER -> 0

policyOrderStage(meta) ==
    CASE meta.type = "auth_required" -> 1
      [] meta.type \in {"tenant_required", "tenant_match"} -> 2
      [] meta.type = "require_perm" -> 3
      [] meta.type = "rate_limit" -> 4
      [] meta.type \in {"cache_read", "cache_invalidate"} -> 5
      [] meta.type = "cache_control" -> 6
      [] OTHER -> 0

\* No policy with a stage follows one of a higher stage.
validatePolicyOrdering(metas) ==
    \A i, j \in DOMAIN metas :
        i < j /\ policyOrderStage(metas[j]) > 0 => policyOrderStage(metas[i]) <= policyOrderStage(metas[j])

hasPolicyType(metas, type) == \E i \in DOMAIN metas : metas[i].type = type

validateAuthDependencies(metas) ==
    hasPolicyType(metas, "require_perm") => hasPolicyType(metas, "auth_required")

validateCacheSafety(metas) ==
    hasPolicyType(metas, "auth_required") =>
        \A i \in DOMAIN metas : metas[i].type = "cache_read" => metas[i].vary # "none"

\* Patterns by their parameters: "plain" has none, "tenant" has {tenant_id},
\* "both" has {tenant_id} and {other}.
ParamsOf(pattern) ==
    CASE pattern = "tenant" -> {"tenant_id"}
      [] pattern = "both"   -> {"tenant_id", "other"}
      [] OTHER              -> {}

First(metas, type) == CHOOSE i \in DOMAIN metas :
    metas[i].type = type /\ \A j \in DOMAIN metas : metas[j].type = type => i <= j

\* tenancy.RouteRule; strictPaths is whether tenancy is on.
TenancyRule(strictPaths, pattern, metas) ==
    LET hasRequired == hasPolicyType(metas, "tenant_required")
        hasMatch    == hasPolicyType(metas, "tenant_match")
    IN  /\ hasRequired => hasPolicyType(metas, "auth_required")
        /\ hasMatch => hasRequired
        /\ hasRequired /\ hasMatch => First(metas, "tenant_match") > First(metas, "tenant_required")
        /\ strictPaths /\ "tenant_id" \in ParamsOf(pattern) =>
              /\ hasRequired /\ hasMatch
              /\ \A i \in DOMAIN metas : metas[i].type = "tenant_match" => metas[i].param = "tenant_id"

\* ValidateRouteWith: a route without policies passes before any rule is asked.
ValidateRoute(strictPaths, pattern, last, policies) ==
    /\ Described(policies)
    /\ policies # <<>> =>
          LET metas == DescribePolicies(last, policies)
          IN  /\ validatePolicyOrdering(metas)
              /\ validateAuthDependencies(metas)
              /\ validateCacheSafety(metas)
              /\ TenancyRule(strictPaths, pattern, metas)
=============================================================================
