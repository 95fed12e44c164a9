--------------------------- MODULE MCRequestPath ----------------------------
(***************************************************************************)
(* RequestPath for TLC, in two families of deployments.  "rules" takes     *)
(* every list of up to three policies (and the presets, and the full       *)
(* tenant route), with and without tenancy, behind Recoverer and an        *)
(* Adapter handler: what registration lets through is what requests of     *)
(* every user meet.  "pipeline" takes the whole middleware, in many        *)
(* combinations, around handlers that write by themselves.                 *)
(***************************************************************************)
EXTENDS RequestPath

MCTenantOf == [u1 |-> "t1", u2 |-> "t1", u3 |-> "t2"]

Off == [metrics |-> FALSE, recoverer |-> TRUE, cors |-> FALSE, timeout |-> FALSE, tracing |-> FALSE,
        accessLog |-> FALSE, tenancy |-> FALSE, failOpen |-> TRUE]

Full == [metrics |-> TRUE, recoverer |-> TRUE, cors |-> TRUE, timeout |-> TRUE, tracing |-> TRUE,
         accessLog |-> TRUE, tenancy |-> FALSE, failOpen |-> TRUE]

Route(pattern, policies, last, handler) ==
    [pattern |-> pattern, policies |-> policies, last |-> last, handler |-> handler]

Pool ==
    {AuthRequired, RequirePerm, RateLimit, CacheInvalidate, CacheControl, RequireJSON, TenantRequired,
     Unannotated, TenantMatchFromPath("tenant_id"), TenantMatchFromPath("other")}
    \cup {CacheRead(v) : v \in {"none", "user", "tenant"}}

Known == Pool \ {Unannotated, CacheControl}

\* Lists of different policies, with one that caches or invalidates at most.
Lists ==
    {<<>>} \cup {<<a>> : a \in Pool}
    \cup {l \in (Pool \X Pool) \cup (Known \X Known \X Known) :
             \A i, j \in DOMAIN l : i < j =>
                /\ l[i].type # l[j].type
                /\ {l[i].type, l[j].type} # {"cache_read", "cache_invalidate"}}

\* Tenant routes that cache, in and out of order, with one match or two.
TenantRoutes ==
    UNION {{<<AuthRequired, TenantRequired, TenantMatchFromPath(p), CacheRead(v)>>,
            <<AuthRequired, TenantRequired, CacheRead(v), TenantMatchFromPath(p)>>,
            <<AuthRequired, TenantRequired, TenantMatchFromPath(p), TenantMatchFromPath("tenant_id"), CacheRead(v)>>} :
        p \in {"tenant_id", "other"}, v \in {"none", "user", "tenant"}}

\* What another route may have annotated last.
Lasts(l) ==
    {<<>>}
    \cup (IF hasPolicyType(l, "cache_read")
          THEN {[cache_read |-> CacheRead(v)] : v \in {"none", "user"}} ELSE {})
    \cup (IF hasPolicyType(l, "tenant_match")
          THEN {[tenant_match |-> TenantMatchFromPath("tenant_id")]} ELSE {})

RulesFor(tenancy) ==
    LET lists == Lists \cup TenantRoutes \cup {PublicRead, TenantRead(tenancy), TenantWrite}
    IN  {[family |-> "rules", app |-> [Off EXCEPT !.tenancy = tenancy], route |-> Route(x[1], x[2], x[3], "adapter")] :
            x \in UNION {{p} \X {l} \X Lasts(l) : p \in {"plain", "both"}, l \in lists}}

PipelineLists ==
    {<<>>, <<CacheRead("none")>>, <<CacheInvalidate>>, <<RateLimit, CacheRead("user"), CacheControl>>}

Pipelines ==
    {[family |-> "pipeline", app |-> a, route |-> Route("plain", l, <<>>, h)] :
        a \in {Full, [Full EXCEPT !.recoverer = FALSE], [Full EXCEPT !.failOpen = FALSE],
               [Full EXCEPT !.timeout = FALSE], [Off EXCEPT !.timeout = TRUE]},
        l \in PipelineLists, h \in {"adapter", "raw"}}

MCDeployments == RulesFor(TRUE) \cup RulesFor(FALSE) \cup Pipelines

Writes(x) == hasPolicyType(x.route.policies, "cache_invalidate") \/ hasPolicyType(x.route.policies, "require_json")

Request(x, user, named, path) ==
    [user |-> user, named |-> named, path |-> path, other |-> "t1", perm |-> user # "u2",
     write |-> Writes(x), body |-> "ok", stream |-> FALSE, origin |-> "none", preflight |-> FALSE]

\* Every user under every tenant's name and path; or the ways a request meets the pipeline.
MCRequests(x) ==
    IF x.family = "rules"
    THEN {Request(x, u, n, p) : u \in {"anon", "u1", "u2", "u3"},
                                n \in IF x.app.tenancy THEN {"none", "unknown", "t1", "t2"} ELSE {"none"},
                                p \in IF x.route.pattern = "both" THEN {"t1", "t2"} ELSE {"t1"}}
         \cup {[Request(x, "u1", "t1", "t1") EXCEPT !.body = b] : b \in {"text", "invalid"}}
    ELSE LET plain == Request(x, "anon", "none", "t1")
         IN  {plain, [plain EXCEPT !.stream = TRUE], [plain EXCEPT !.write = ~@],
              [plain EXCEPT !.write = TRUE, !.body = "bad"]}
             \cup {[plain EXCEPT !.origin = o, !.preflight = TRUE] : o \in {"none", "allowed", "denied"}}
=============================================================================
