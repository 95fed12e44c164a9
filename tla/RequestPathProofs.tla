------------------------- MODULE RequestPathProofs --------------------------
(***************************************************************************)
(* What registration guarantees of every list of policies, whatever its    *)
(* length, and what follows for the requests of any number of users and    *)
(* tenants under any middleware: no check runs without a principal         *)
(* (IInv), nobody is shown what is not theirs (KeepInv), a request gets    *)
(* one answer and that answer is what is cached (WriteInv, AnswerInv,      *)
(* DoneInv), and log, span, metrics and bumped tags say what was sent      *)
(* (ObserveInv).                                                           *)
(***************************************************************************)
EXTENDS RequestPath, TLAPS

-----------------------------------------------------------------------------
(* The validator. *)

SharesType(last) == \A t \in DOMAIN last : last[t].type = t

\* The metadata of a policy has its type and stage, whoever was annotated last.
LEMMA MetadataKeepsType ==
    ASSUME NEW last, NEW policies \in Seq(Policy), SharesType(last), NEW i \in DOMAIN policies
    PROVE  /\ DescribePolicies(last, policies)[i].type = policies[i].type
           /\ policyOrderStage(DescribePolicies(last, policies)[i]) = policyOrderStage(policies[i])
<1>1. DescribePolicies(last, policies)[i].type = policies[i].type
  BY DEF DescribePolicies, DescribePolicy, SharesType, Policy
<1>2. QED
  BY <1>1 DEF policyOrderStage

\* On an accepted route with a principal-needing check, AuthRequired stands before it
\* (validatePolicyOrdering, validateAuthDependencies and tenancy's RouteRule together).
THEOREM AuthComesFirst ==
    ASSUME NEW strict, NEW pattern, NEW last, NEW policies \in Seq(Policy), SharesType(last),
           ValidateRoute(strict, pattern, last, policies),
           NEW i \in DOMAIN policies, policies[i].type \in Checks
    PROVE  \E j \in DOMAIN policies : j < i /\ policies[j].type = "auth_required"
<1> DEFINE metas == DescribePolicies(last, policies)
<1>1. DOMAIN metas = DOMAIN policies /\ DOMAIN policies \subseteq Nat /\ policies # <<>>
  BY DEF DescribePolicies
<1>2. metas[i].type = policies[i].type
  BY MetadataKeepsType
<1>3. hasPolicyType(metas, policies[i].type)
  BY <1>1, <1>2 DEF hasPolicyType
<1>4. /\ validatePolicyOrdering(metas)
      /\ validateAuthDependencies(metas)
      /\ TenancyRule(strict, pattern, metas)
  BY <1>1 DEF ValidateRoute
<1>5. hasPolicyType(metas, "auth_required")
  <2> HIDE DEF metas
  <2> QED BY <1>3, <1>4 DEF Checks, validateAuthDependencies, TenancyRule
<1>6. PICK j \in DOMAIN policies : metas[j].type = "auth_required"
  BY <1>1, <1>5 DEF hasPolicyType
<1>7. policies[j].type = "auth_required"
  BY <1>6, MetadataKeepsType
<1>8. policyOrderStage(metas[j]) = 1 /\ policyOrderStage(metas[i]) \in {2, 3}
  BY <1>2, <1>6 DEF policyOrderStage, Checks
<1>9. ~(i < j)
  BY <1>1, <1>4, <1>8 DEF validatePolicyOrdering
<1>10. i # j
  BY <1>7 DEF Checks
<1>11. QED
  BY <1>1, <1>7, <1>9, <1>10

\* With tenancy on, an accepted route under {tenant_id} that has policies carries a
\* TenantRequired and a TenantMatchFromPath, and both stand before every policy that
\* may answer from the cache: no cached answer is given before the tenant is checked.
THEOREM IsolationBeforeCache ==
    ASSUME NEW pattern, NEW last, NEW policies \in Seq(Policy), SharesType(last),
           ValidateRoute(TRUE, pattern, last, policies), "tenant_id" \in ParamsOf(pattern),
           NEW i \in DOMAIN policies, policies[i].type = "cache_read",
           NEW type \in {"tenant_required", "tenant_match"}
    PROVE  \E j \in DOMAIN policies : j < i /\ policies[j].type = type
<1> DEFINE metas == DescribePolicies(last, policies)
<1>1. DOMAIN metas = DOMAIN policies /\ DOMAIN policies \subseteq Nat /\ policies # <<>>
  BY DEF DescribePolicies
<1>2. metas[i].type = "cache_read"
  BY MetadataKeepsType
<1>3. validatePolicyOrdering(metas) /\ TenancyRule(TRUE, pattern, metas)
  BY ZenonT(60), <1>1 DEF ValidateRoute
<1>4. hasPolicyType(metas, type)
  <2> HIDE DEF metas
  <2> QED BY <1>3 DEF TenancyRule
<1>5. PICK j \in DOMAIN policies : metas[j].type = type
  BY <1>1, <1>4 DEF hasPolicyType
<1>6. policies[j].type = type
  BY <1>5, MetadataKeepsType
<1>7. policyOrderStage(metas[j]) = 2 /\ policyOrderStage(metas[i]) = 5
  BY <1>2, <1>5 DEF policyOrderStage
<1>8. ~(i < j)
  BY <1>1, <1>3, <1>7 DEF validatePolicyOrdering
<1>9. QED
  BY <1>1, <1>6, <1>8

-----------------------------------------------------------------------------
(* The layers: the global ones never are checks, then come the policies. *)

GlobalTypes == {"metrics", "recoverer", "cors", "timeout", "tracing", "access_log", "tenant"}
Global == {Plain(type) : type \in GlobalTypes}

\* What AssembleGlobalMiddleware puts before the policies are its own layers.
LEMMA GlobalLayersAreGlobal == ASSUME NEW app PROVE GlobalLayers(app) \in Seq(Global)
<1>1. ASSUME NEW c, NEW type \in GlobalTypes PROVE If(c, type) \in Seq(Global)
  <2>1. Plain(type) \in Global
    BY DEF Global
  <2>2. QED
    BY <2>1 DEF If
<1>2. ASSUME NEW s \in Seq(Global), NEW t \in Seq(Global) PROVE s \o t \in Seq(Global)
  OBVIOUS
<1> DEFINE a == If(app.metrics, "metrics")
           b == If(app.recoverer, "recoverer")
           c == If(app.cors, "cors")
           e == If(app.timeout, "timeout")
           f == If(app.tracing, "tracing")
           g == If(app.accessLog, "access_log")
           h == If(app.tenancy, "tenant")
<1>3. /\ a \in Seq(Global) /\ b \in Seq(Global) /\ c \in Seq(Global) /\ e \in Seq(Global)
      /\ f \in Seq(Global) /\ g \in Seq(Global) /\ h \in Seq(Global)
  BY <1>1 DEF GlobalTypes
<1>4. GlobalLayers(app) = a \o b \o c \o e \o f \o g \o h
  BY Zenon DEF GlobalLayers
<1> HIDE DEF a, b, c, e, f, g, h
<1>5. a \o b \o c \in Seq(Global)
  BY <1>2, <1>3
<1>6. a \o b \o c \o e \o f \in Seq(Global)
  BY <1>2, <1>3, <1>5
<1>7. QED
  BY <1>2, <1>3, <1>4, <1>6

\* A layer with the type of a policy is a policy of the route, as many places further
\* in as there are global layers, and the policies before it are layers before it.
LEMMA PolicyLayers ==
    ASSUME NEW x \in Deployments, NEW i \in 1..Len(Layers(x)), Layers(x)[i].type \in PolicyTypes
    PROVE  \E k \in DOMAIN x.route.policies :
              /\ x.route.policies[k] = Layers(x)[i]
              /\ i = Len(GlobalLayers(x.app)) + k
              /\ \A j \in DOMAIN x.route.policies : j < k =>
                    \E m \in 1..(i - 1) : Layers(x)[m] = x.route.policies[j]
<1> DEFINE g == GlobalLayers(x.app)
           p == x.route.policies
<1>1. g \in Seq(Global) /\ p \in Seq(Policy)
  BY GlobalLayersAreGlobal, DeploymentsAssumption
<1>2. Layers(x) = g \o p
  BY DEF Layers
<1> HIDE DEF g, p
<1>3. Len(g) \in Nat /\ Len(p) \in Nat /\ Len(g \o p) = Len(g) + Len(p)
  BY <1>1
<1>4. \A j \in 1..Len(g) : (g \o p)[j] = g[j] /\ g[j] \in Global
  BY <1>1
<1>5. \A j \in 1..Len(p) : (g \o p)[Len(g) + j] = p[j]
  BY <1>1
<1>6. i \notin 1..Len(g)
  BY <1>2, <1>4 DEF Global, GlobalTypes, PolicyTypes, Plain
<1>7. i - Len(g) \in 1..Len(p) /\ i = Len(g) + (i - Len(g))
  BY <1>2, <1>3, <1>6
<1>8. p[i - Len(g)] = Layers(x)[i]
  BY <1>2, <1>5, <1>7
<1>9. ASSUME NEW j \in 1..Len(p), j < i - Len(g)
      PROVE  Len(g) + j \in 1..(i - 1) /\ Layers(x)[Len(g) + j] = p[j]
  BY <1>2, <1>3, <1>5, <1>7, <1>9
<1>10. DOMAIN p = 1..Len(p)
  BY <1>1
<1>11. QED
  BY ZenonT(60), <1>7, <1>8, <1>9, <1>10 DEF p, g

\* A layer is a global one or a policy, and every policy is a layer.
LEMMA LayerShape ==
    ASSUME NEW x \in Deployments
    PROVE  /\ Len(Layers(x)) \in Nat /\ DOMAIN Layers(x) = 1..Len(Layers(x))
           /\ Len(GlobalLayers(x.app)) \in Nat
           /\ \A i \in 1..Len(Layers(x)) : Layers(x)[i] \in Global \cup Policy
           /\ \A k \in DOMAIN x.route.policies : \E i \in 1..Len(Layers(x)) : Layers(x)[i] = x.route.policies[k]
<1> DEFINE g == GlobalLayers(x.app)
           p == x.route.policies
<1>1. g \in Seq(Global) /\ p \in Seq(Policy)
  BY GlobalLayersAreGlobal, DeploymentsAssumption
<1>2. Layers(x) = g \o p
  BY DEF Layers
<1> HIDE DEF g, p
<1>3. g \in Seq(Global \cup Policy) /\ p \in Seq(Global \cup Policy)
  BY <1>1
<1>4. /\ Len(g \o p) \in Nat /\ DOMAIN (g \o p) = 1..Len(g \o p) /\ Len(g) \in Nat
      /\ \A i \in 1..Len(g \o p) : (g \o p)[i] \in Global \cup Policy
  BY <1>3
<1>5. ASSUME NEW k \in DOMAIN p PROVE Len(g) + k \in 1..Len(g \o p) /\ (g \o p)[Len(g) + k] = p[k]
  BY <1>1
<1>6. QED
  BY ZenonT(60), <1>2, <1>4, <1>5 DEF g, p

-----------------------------------------------------------------------------
(* The invariant: behind AuthRequired there is a principal. *)

Users == DOMAIN TenantOf

Serving(x) == ValidateRoute(x.app.tenancy, x.route.pattern, x.route.last, x.route.policies)
Behind(x, i, type) == \E j \in 1..(i - 1) : Layers(x)[j].type = type

InwardOnly(v) == v = "in" /\ v # "done" /\ v \notin {"out", "panic"} /\ v \in {"in", "out", "panic", "done"}

IInv ==
    /\ d \in Deployments
    /\ up = "serving" => Serving(d)
    /\ dir \in {"in", "out", "panic", "done"}
    /\ dir \in {"out", "panic"} => at \in 0..Len(Layers(d))
    /\ dir = "done" => at = 0
    /\ dir = "in" =>
          /\ up = "serving"
          /\ at \in 1..(Len(Layers(d)) + 1)
          /\ req.user \in Users \cup {"anon"}
          /\ Behind(d, at, "auth_required") => who # "none"

\* Passing on a layer other than AuthRequired keeps the invariant.
LEMMA PassKeeps ==
    ASSUME IInv, dir = "in", ~Handling, layer.type # "auth_required", Pass,
           UNCHANGED <<d, up, req, who>>
    PROVE  IInv'
<1>1. Len(Layers(d)) \in Nat
  BY LayerShape DEF IInv
<1>2. at \in 1..Len(Layers(d)) /\ at' = at + 1
  BY <1>1 DEF IInv, Handling, Pass
<1>3. ASSUME Behind(d, at + 1, "auth_required") PROVE Behind(d, at, "auth_required")
  <2>1. PICK j \in 1..at : Layers(d)[j].type = "auth_required"
    BY <1>2, <1>3 DEF Behind
  <2>2. j # at
    BY <2>1 DEF layer
  <2>3. QED
    BY <1>2, <2>1, <2>2 DEF Behind
<1>4. Behind(d, at, "auth_required")' => who' # "none"
  BY <1>2, <1>3 DEF IInv, Behind
<1>5. at' \in 1..(Len(Layers(d)) + 1)
  BY <1>1, <1>2
<1>6. InwardOnly(dir')
  BY DEF Pass, InwardOnly
<1>7. QED
  BY Zenon, <1>4, <1>5, <1>6 DEF IInv, Serving, InwardOnly

\* A step out of a layer keeps the invariant.
LEMMA OutKeeps ==
    ASSUME IInv, dir = "in" \/ (dir \in {"out", "panic"} /\ at > 0),
           at' = at - 1, dir' \in {"out", "panic"}, UNCHANGED <<d, up>>
    PROVE  IInv'
<1>1. Len(Layers(d)) \in Nat
  BY LayerShape DEF IInv
<1>2. at - 1 \in 0..Len(Layers(d))
  BY <1>1 DEF IInv
<1>3. dir' # "in" /\ dir' # "done" /\ dir' \in {"in", "out", "panic", "done"}
  OBVIOUS
<1>4. QED
  BY Zenon, <1>2, <1>3 DEF IInv, Serving

\* A policy that lets a request pass, or refuses it, keeps the guards in order.
LEMMA GuardKeeps == ASSUME IInv, Guard PROVE IInv'
<1>1. UNCHANGED <<d, up, req>> /\ dir = "in" /\ ~Handling
  BY DEF Guard, At
<1>2. PICK v \in Verdicts :
        IF v = 0
        THEN /\ Pass
             /\ tenant' = IF layer.type = "tenant" THEN req.named ELSE tenant
             /\ who' = IF layer.type = "auth_required" THEN req.user ELSE who
             /\ out' = out
        ELSE TurnBack /\ out' = Envelope(out, at, v) /\ UNCHANGED <<tenant, who>>
  BY DEF Guard
<1>3. CASE v # 0
  <2>1. at' = at - 1 /\ dir' \in {"out", "panic"}
    BY <1>2, <1>3 DEF TurnBack
  <2>2. QED
    BY Zenon, <1>1, <2>1, OutKeeps
<1>4. CASE v = 0 /\ layer.type # "auth_required"
  BY <1>1, <1>2, <1>4, PassKeeps
<1>5. CASE v = 0 /\ layer.type = "auth_required"
  <2>1. who' # "none" /\ at' = at + 1
    BY <1>1, <1>2, <1>5, RequestsAssumption DEF IInv, Pass, Users
  <2>2. Len(Layers(d)) \in Nat
    BY LayerShape DEF IInv
  <2>3. at' \in 1..(Len(Layers(d)) + 1)
    BY <1>1, <2>1, <2>2 DEF IInv, Handling
  <2>4. InwardOnly(dir')
    BY <1>2, <1>5 DEF Pass, InwardOnly
  <2>5. QED
    BY Zenon, <1>1, <2>1, <2>3, <2>4 DEF IInv, Serving, InwardOnly
<1>6. QED
  BY <1>3, <1>4, <1>5

\* No request has arrived yet.
LEMMA InitIInv == Init => IInv
  BY DEF Init, IInv

\* Every step of a request keeps the guards in order.
LEMMA NextIInv == IInv /\ [Next]_vars => IInv'
<1> SUFFICES ASSUME IInv, [Next]_vars PROVE IInv'
  OBVIOUS
<1>1. CASE Handle
  BY <1>1 DEF Handle, IInv, Serving, requestVars
<1>2. CASE Arrive
  <2>1. /\ UNCHANGED <<d, up>> /\ up = "serving" /\ at' = 1 /\ req' \in Requests(d)
    BY <1>2 DEF Arrive
  <2>2. req'.user \in Users \cup {"anon"}
    BY <2>1, RequestsAssumption DEF IInv, Users
  <2>3. Len(Layers(d)) \in Nat
    BY LayerShape DEF IInv
  <2>4. ~Behind(d, 1, "auth_required")
    BY DEF Behind
  <2>5. InwardOnly(dir') /\ at' \in 1..(Len(Layers(d)) + 1)
    BY <1>2, <2>3 DEF Arrive, InwardOnly
  <2>6. QED
    BY Zenon, <2>1, <2>2, <2>4, <2>5 DEF IInv, Serving, InwardOnly
<1>3. CASE Expire
  BY <1>3 DEF Expire, IInv, Serving, Behind
<1>4. CASE EnterTransparent
  BY <1>4, PassKeeps DEF EnterTransparent, At, requestVars
<1>5. CASE EnterTimeout
  BY <1>5, PassKeeps DEF EnterTimeout, At
<1>6. ASSUME TurnBack \/ Panics \/ Returns \/ Outward PROVE at' = at - 1 /\ dir' \in {"out", "panic"}
  BY <1>6 DEF TurnBack, Panics, Returns, Outward
<1>7. CASE EnterCORS
  <2>1. CASE Pass
    BY <1>7, <2>1, PassKeeps DEF EnterCORS, At
  <2>2. CASE TurnBack
    <3>1. dir = "in" /\ UNCHANGED <<d, up>>
      BY Zenon, <1>7 DEF EnterCORS, At
    <3>2. QED
      BY Zenon, <1>6, <2>2, <3>1, OutKeeps
  <2>3. QED
    BY Zenon, <1>7, <2>1, <2>2 DEF EnterCORS
<1>8. CASE Guard
  BY <1>8, GuardKeeps
<1>9. CASE EnterCacheRead
  <2>1. /\ UNCHANGED <<d, up, req, who>> /\ dir = "in" /\ ~Handling /\ layer.type \in {"cache_read"}
        /\ Pass \/ TurnBack \/ Panics
    BY <1>9, Zenon DEF EnterCacheRead, At
  <2>2. layer.type # "auth_required"
    BY <2>1
  <2>3. QED
    BY Zenon, <1>6, <2>1, <2>2, PassKeeps, OutKeeps
<1>10. CASE Adapter \/ RawReturns \/ HandlerPanics
  <2>1. /\ UNCHANGED <<d, up>> /\ dir = "in" /\ (Returns \/ Panics)
    BY Zenon, <1>10 DEF Adapter, RawReturns, HandlerPanics, handlerUnchanged, AtHandler
  <2>2. QED
    BY <1>6, <2>1, OutKeeps
<1>11. CASE RawOp
  BY <1>11 DEF RawOp, handlerUnchanged, IInv, Serving, Behind
<1>12. CASE LeaveTransparent \/ LeaveTimeout \/ LeaveCacheRead \/ LeaveAccessLog \/ LeaveTracing \/ LeaveMetrics
            \/ LeaveCacheInvalidate
  <2>1. UNCHANGED <<d, up>> /\ dir = "out" /\ at > 0 /\ Outward
    BY Zenon, <1>12 DEF LeaveTransparent, LeaveTimeout, LeaveCacheRead, LeaveAccessLog, LeaveTracing, LeaveMetrics,
       LeaveCacheInvalidate, Observed, Leaving
  <2>2. QED
    BY <1>6, <2>1, OutKeeps
<1>13. CASE Unwind \/ Finish
  <2>1. CASE Unwind
    <3>1. UNCHANGED <<d, up>> /\ dir = "panic" /\ at > 0 /\ at' = at - 1 /\ dir' \in {"out", "panic"}
      BY <2>1 DEF Unwind
    <3>2. QED
      BY <3>1, OutKeeps
  <2>2. CASE Finish
    BY <2>2 DEF Finish, IInv, Serving
  <2>3. QED
    BY <1>13, <2>1, <2>2
<1>14. CASE UNCHANGED vars
  BY <1>14 DEF vars, IInv, Serving, Behind
<1>15. QED
  BY <1>1, <1>2, <1>3, <1>4, <1>5, <1>6, <1>7, <1>8, <1>9, <1>10, <1>11, <1>12, <1>13, <1>14 DEF Next

\* What the chain promises of a handler, from the inductive invariant.
LEMMA IInvGuards == IInv => GuardedByAuth
<1> SUFFICES ASSUME IInv, dir = "in", ~Handling, layer.type \in Checks PROVE who # "none"
  BY DEF GuardedByAuth
<1>1. Len(Layers(d)) \in Nat
  BY LayerShape DEF IInv
<1>2. at \in 1..Len(Layers(d)) /\ Layers(d)[at].type \in Checks /\ d \in Deployments
  BY <1>1 DEF IInv, Handling, layer
<1>3. PICK k \in DOMAIN d.route.policies :
        /\ d.route.policies[k] = Layers(d)[at]
        /\ \A j \in DOMAIN d.route.policies : j < k =>
              \E m \in 1..(at - 1) : Layers(d)[m] = d.route.policies[j]
  <2>1. Layers(d)[at].type \in PolicyTypes
    BY <1>2 DEF Checks, PolicyTypes
  <2>2. QED
    BY Zenon, <1>2, <2>1, PolicyLayers
<1>4. /\ d.route.policies \in Seq(Policy) /\ SharesType(d.route.last)
      /\ ValidateRoute(d.app.tenancy, d.route.pattern, d.route.last, d.route.policies)
  BY <1>2, DeploymentsAssumption DEF IInv, Serving, SharesType
<1>5. PICK j \in DOMAIN d.route.policies : j < k /\ d.route.policies[j].type = "auth_required"
  BY Zenon, <1>2, <1>3, <1>4, AuthComesFirst
<1>6. Behind(d, at, "auth_required")
  BY <1>3, <1>5 DEF Behind
<1>7. QED
  BY <1>6 DEF IInv

\* For every set of routes, middleware and requests: no permission or tenant check
\* of a registered route runs without a principal.
THEOREM AlwaysGuardedByAuth == Spec => []GuardedByAuth
<1>1. Spec => []IInv
  BY InitIInv, NextIInv, PTL DEF Spec
<1>2. QED
  BY <1>1, IInvGuards, PTL

-----------------------------------------------------------------------------
(* What a client may see. *)

TenantMatch == TenantMatchFromPath("tenant_id")

\* With tenancy on, the route is under {tenant_id} and matches it.
Isolated(x) ==
    /\ x.app.tenancy /\ "tenant_id" \in ParamsOf(x.route.pattern)
    /\ \E i \in DOMAIN x.route.policies : x.route.policies[i] = TenantMatch

\* The match stands before layer i.
BehindMatch(x, i) == \E j \in 1..(i - 1) : Layers(x)[j] = TenantMatch

\* No AuthRequired stands behind a CacheRead, so who asks does not change once a
\* response is on its way to the cache.
LEMMA NoAuthBehindCache ==
    ASSUME NEW x \in Deployments, Serving(x), NEW i \in 1..Len(Layers(x)),
           Layers(x)[i].type = "auth_required"
    PROVE  ~Behind(x, i, "cache_read")
<1> SUFFICES ASSUME NEW j \in 1..(i - 1), Layers(x)[j].type = "cache_read" PROVE FALSE
  BY DEF Behind
<1> DEFINE p == x.route.policies
           n == Len(GlobalLayers(x.app))
           metas == DescribePolicies(x.route.last, p)
<1>0. n \in Nat /\ Len(Layers(x)) \in Nat
  BY LayerShape
<1>1. j \in 1..Len(Layers(x)) /\ j < i
  BY <1>0
<1>2. PICK k \in DOMAIN p : p[k] = Layers(x)[i] /\ i = n + k
  <2>1. Layers(x)[i].type \in PolicyTypes
    BY DEF PolicyTypes
  <2>2. QED
    BY Zenon, <2>1, PolicyLayers
<1>3. PICK m \in DOMAIN p : p[m] = Layers(x)[j] /\ j = n + m
  <2>1. Layers(x)[j].type \in PolicyTypes
    BY DEF PolicyTypes
  <2>2. QED
    BY Zenon, <1>1, <2>1, PolicyLayers
<1>4. p \in Seq(Policy) /\ SharesType(x.route.last)
  BY DeploymentsAssumption DEF SharesType
<1>5. DOMAIN p \subseteq Nat /\ DOMAIN metas = DOMAIN p /\ p # <<>>
  BY <1>2, <1>4 DEF DescribePolicies
<1>6. validatePolicyOrdering(metas)
  BY Zenon, <1>5 DEF Serving, ValidateRoute
<1>7. policyOrderStage(metas[k]) = 1 /\ policyOrderStage(metas[m]) = 5
  <2>1. policyOrderStage(metas[k]) = policyOrderStage(p[k]) /\ policyOrderStage(metas[m]) = policyOrderStage(p[m])
    BY Zenon, <1>4, <1>2, <1>3, MetadataKeepsType
  <2>2. p[k].type = "auth_required" /\ p[m].type = "cache_read"
    BY <1>2, <1>3
  <2>3. policyOrderStage(p[k]) = 1 /\ policyOrderStage(p[m]) = 5
    BY <2>2 DEF policyOrderStage
  <2>4. QED
    BY <2>1, <2>3
<1> HIDE DEF p, n, metas
<1>8. m < k
  BY <1>0, <1>1, <1>2, <1>3, <1>5
<1>9. QED
  BY <1>5, <1>6, <1>7, <1>8 DEF validatePolicyOrdering

LEMMA MatchShape == TenantMatch.type = "tenant_match" /\ TenantMatch.param = "tenant_id"
  BY DEF TenantMatch, TenantMatchFromPath, Plain

\* The match of an isolated route stands before the handler.
LEMMA IsolatedMatches ==
    ASSUME NEW x \in Deployments, Isolated(x)
    PROVE  BehindMatch(x, Len(Layers(x)) + 1)
<1>1. PICK k \in DOMAIN x.route.policies : x.route.policies[k] = TenantMatch
  BY Zenon DEF Isolated
<1>2. PICK i \in 1..Len(Layers(x)) : Layers(x)[i] = x.route.policies[k]
  BY Zenon, LayerShape
<1>3. Len(Layers(x)) \in Nat
  BY LayerShape
<1>4. i \in 1..(Len(Layers(x)) + 1 - 1)
  BY <1>2, <1>3
<1>5. QED
  BY <1>1, <1>2, <1>4 DEF BehindMatch

\* And before every policy that may answer from the cache: metadata keeps the type, and
\* the type is what the order is judged by.
LEMMA MatchBeforeCache ==
    ASSUME NEW x \in Deployments, Serving(x), Isolated(x), NEW i \in 1..Len(Layers(x)),
           Layers(x)[i].type = "cache_read"
    PROVE  BehindMatch(x, i)
<1> DEFINE p == x.route.policies
           metas == DescribePolicies(x.route.last, p)
<1>1. Layers(x)[i].type \in PolicyTypes
  BY DEF PolicyTypes
<1>2. PICK k \in DOMAIN p :
         /\ p[k] = Layers(x)[i]
         /\ \A j \in DOMAIN p : j < k => \E m \in 1..(i - 1) : Layers(x)[m] = p[j]
  BY Zenon, <1>1, PolicyLayers
<1>3. PICK j \in DOMAIN p : p[j] = TenantMatch
  BY Zenon DEF Isolated
<1>4. p \in Seq(Policy) /\ SharesType(x.route.last)
  BY DeploymentsAssumption DEF SharesType
<1>5. DOMAIN p \subseteq Nat /\ DOMAIN metas = DOMAIN p /\ p # <<>>
  BY <1>2, <1>4 DEF DescribePolicies
<1>6. validatePolicyOrdering(metas)
  BY Zenon, <1>5 DEF Serving, ValidateRoute
<1>7. policyOrderStage(metas[j]) = 2 /\ policyOrderStage(metas[k]) = 5
  <2>1. policyOrderStage(metas[j]) = policyOrderStage(p[j]) /\ policyOrderStage(metas[k]) = policyOrderStage(p[k])
    BY Zenon, <1>4, <1>2, <1>3, MetadataKeepsType
  <2>2. p[j].type = "tenant_match" /\ p[k].type = "cache_read"
    BY <1>2, <1>3, MatchShape
  <2>3. policyOrderStage(p[j]) = 2 /\ policyOrderStage(p[k]) = 5
    BY <2>2 DEF policyOrderStage
  <2>4. QED
    BY <2>1, <2>3
<1> HIDE DEF metas
<1>8. ~(k < j) /\ j # k
  <2>1. ~(k < j)
    BY <1>5, <1>6, <1>7 DEF validatePolicyOrdering
  <2>2. QED
    BY <1>7, <2>1
<1>9. j < k
  BY <1>5, <1>8
<1>10. QED
  BY Zenon, <1>2, <1>3, <1>9 DEF BehindMatch

WriterNames == GlobalTypes \cup PolicyTypes \cup {"handler"}

Chunks == [by : WriterNames, of : Users \cup {"none", "anon"}]

OwnerOf(w) == IF w = "none" THEN "anon" ELSE w

\* The route caches some answer by tenant.
ByTenant(x) == \E i \in DOMAIN x.route.policies : x.route.policies[i].vary = "tenant"

\* Two users who share what the route caches by tenant.
SameTenant(x, u, v) ==
    /\ u \in Users /\ v \in Users /\ ByTenant(x)
    /\ x.app.tenancy => TenantOf[u] = TenantOf[v]

\* The owners whose data principal w may see: its own, and what it shares.
Sees(x, w, o) == o = OwnerOf(w) \/ SameTenant(x, o, w)

\* The owners whose data may be cached under a key.
Admits(x, key, o) ==
    \/ o = "none"
    \/ o = "anon" /\ key \in {<<"any", "any">>, <<"user", "none">>, <<"tenant", "none">>}
    \/ o \in Users /\ \E u \in Users : key = <<"user", u>> /\ (o = u \/ SameTenant(x, o, u))
    \/ o \in Users /\ ByTenant(x) /\ key = <<"tenant", IF x.app.tenancy THEN TenantOf[o] ELSE "0">>

\* The principal belongs to the tenant the path names.
Matched(w, r) == w \in Users /\ TenantOf[w] = r.path

\* The owners whose data may be on the wire.
Visible(x, w, r, o) ==
    \/ o = "none"
    \/ Sees(x, w, o) /\ (Isolated(x) => Matched(w, r))

Admitted(x, key) == {c \in Chunks : Admits(x, key, c.of)}
Shown(x, w, r) == {c \in Chunks : Visible(x, w, r, c.of)}

\* What is attached to the request comes from its token and the tenant it names.
Attached(x, w, t, r) ==
    /\ t # "none" => t = r.named
    /\ w # "none" => w = r.user /\ w \in Users /\ (x.app.tenancy => TenantOf[w] = r.named)

\* On the way in nothing was written yet, a response on its way to the cache has passed
\* a CacheRead, and a request past the match of an isolated route is matched.
Inside(x, w, r, o, i) ==
    /\ i # Len(Layers(x)) + 1 => o.wire.body = <<>>
    /\ o.cw.at # 0 => Behind(x, i, "cache_read")
    /\ Isolated(x) /\ BehindMatch(x, i) => Matched(w, r)

Sorted(x, w, r, o) ==
    /\ o.cw.at # 0 => \A a : Sees(x, w, a) => Admits(x, o.cw.key, a)
    /\ o.cw.body \in Seq(Admitted(x, o.cw.key))
    /\ o.wire.body \in Seq(Shown(x, w, r))

Kept(x, s) == \A k \in DOMAIN s : s[k].body \in Seq(Admitted(x, k))

KeepInv ==
    /\ Attached(d, who, tenant, req)
    /\ dir = "in" => Inside(d, who, req, out, at)
    /\ Sorted(d, who, req, out)
    /\ Kept(d, store)

-----------------------------------------------------------------------------
(* Writing. *)

\* An envelope is nobody's data, so it may go anywhere.
LEMMA NobodysChunk ==
    ASSUME NEW by \in WriterNames, NEW x, NEW w, NEW r
    PROVE  <<Chunk(by, "none")>> \in Seq(Shown(x, w, r))
<1>1. Chunk(by, "none") \in Chunks /\ Chunk(by, "none").of = "none"
  BY DEF Chunk, Chunks
<1>2. Chunk(by, "none") \in Shown(x, w, r)
  BY Zenon, <1>1 DEF Shown, Visible
<1>3. QED
  BY <1>2

\* A header shows nobody anything.
LEMMA WriteHeaderSorted ==
    ASSUME NEW x, NEW w, NEW r, NEW o, NEW i, NEW s, Sorted(x, w, r, o)
    PROVE  Sorted(x, w, r, WriteHeader(o, i, s)) /\ WriteHeader(o, i, s).cw = o.cw
<1>1. WriteHeader(o, i, s).wire.body = o.wire.body /\ WriteHeader(o, i, s).cw = o.cw
  BY DEF WriteHeader, Output, Sent
<1>2. QED
  BY Zenon, <1>1 DEF Sorted

\* Two sequences over a set make one over that set.
LEMMA Joined == ASSUME NEW S, NEW s \in Seq(S), NEW t \in Seq(S) PROVE s \o t \in Seq(S)
  OBVIOUS

\* A sequence over a set is one over every larger set.
LEMMA Widened == ASSUME NEW S, NEW T, S \subseteq T, NEW s \in Seq(S) PROVE s \in Seq(T)
  OBVIOUS

\* Writing what a requester may see adds nothing else to the wire or to the captured body.
LEMMA WriteSorted ==
    ASSUME NEW x, NEW w, NEW r, NEW o, NEW i \in Nat, NEW b, NEW size, Sorted(x, w, r, o),
           b \in Seq(Shown(x, w, r))
    PROVE  Sorted(x, w, r, Write(o, i, b, size)) /\ Write(o, i, b, size).cw.at = o.cw.at
<1> DEFINE q == Write(o, i, b, size)
<1>1. q.wire.body = o.wire.body \o b /\ q.cw = Captured(o.cw, i, b, size)
  BY DEF Write, Output, Sent
<1>2. q.wire.body \in Seq(Shown(x, w, r))
  BY Zenon, <1>1, Joined DEF Sorted
<1>3. /\ q.cw.at = o.cw.at /\ q.cw.key = o.cw.key
      /\ q.cw.body \in {o.cw.body, o.cw.body \o b}
      /\ q.cw.body = o.cw.body \/ o.cw.at # 0
  <2>1. CASE o.cw.at \notin 1..(i - 1) \/ o.cw.large
    <3>1. q.cw = o.cw
      BY Zenon, <1>1, <2>1 DEF Captured
    <3>2. QED
      BY Zenon, <3>1
  <2>2. CASE o.cw.at \in 1..(i - 1) /\ ~o.cw.large /\ Len(o.cw.body) + size > MaxBytes
    BY <1>1, <2>2 DEF Captured, Caching
  <2>3. CASE o.cw.at \in 1..(i - 1) /\ ~o.cw.large /\ ~(Len(o.cw.body) + size > MaxBytes)
    BY <1>1, <2>3 DEF Captured, Caching
  <2>4. QED
    BY Zenon, <2>1, <2>2, <2>3
<1> HIDE DEF q
<1>4. o.cw.at # 0 => b \in Seq(Admitted(x, o.cw.key))
  <2>1. o.cw.at # 0 => Shown(x, w, r) \subseteq Admitted(x, o.cw.key)
    BY Zenon DEF Sorted, Shown, Admitted, Visible, Admits
  <2>2. QED
    BY Zenon, <2>1, Widened
<1>5. q.cw.body \in Seq(Admitted(x, o.cw.key))
  BY Zenon, <1>3, <1>4, Joined DEF Sorted
<1>6. Sorted(x, w, r, q)
  BY Zenon, <1>2, <1>3, <1>5 DEF Sorted
<1>7. QED
  BY Zenon, <1>3, <1>6 DEF q

\* An error envelope may be seen by everybody.
LEMMA EnvelopeSorted ==
    ASSUME d \in Deployments, NEW w, NEW r, NEW o, NEW i \in Nat, NEW s, Sorted(d, w, r, o)
    PROVE  Sorted(d, w, r, Envelope(o, i, s))
<1> DEFINE by == IF i \in DOMAIN Layers(d) THEN Layers(d)[i].type ELSE "handler"
           h == WriteHeader(o, i, s)
<1>1. by \in WriterNames
  <2>1. \A j \in DOMAIN Layers(d) : Layers(d)[j] \in Global \cup Policy
    BY LayerShape
  <2>2. \A y \in Global \cup Policy : y.type \in GlobalTypes \cup PolicyTypes
    BY DEF Global, Policy, Plain
  <2>3. QED
    BY Zenon, <2>1, <2>2 DEF WriterNames
<1>2. Sorted(d, w, r, h)
  BY Zenon, WriteHeaderSorted
<1>3. Envelope(o, i, s) = Write(h, i, <<Chunk(by, "none")>>, 1)
  BY Zenon DEF Envelope
<1> HIDE DEF by, h
<1>4. <<Chunk(by, "none")>> \in Seq(Shown(d, w, r))
  BY Zenon, <1>1, NobodysChunk
<1>5. Sorted(d, w, r, Write(h, i, <<Chunk(by, "none")>>, 1))
  BY Zenon, <1>2, <1>4, WriteSorted
<1>6. QED
  BY Zenon, <1>3, <1>5

\* What is behind the next layer is what was behind, and the layer itself.
LEMMA BehindNext ==
    ASSUME NEW x, NEW i \in Nat \ {0}, NEW type
    PROVE  Behind(x, i + 1, type) <=> (Behind(x, i, type) \/ Layers(x)[i].type = type)
<1>1. 1..(i + 1 - 1) = 1..(i - 1) \cup {i}
  OBVIOUS
<1>2. QED
  BY <1>1 DEF Behind

\* Likewise of the match, which no layer of another type is.
LEMMA BehindMatchNext ==
    ASSUME NEW x, NEW i \in Nat \ {0}
    PROVE  /\ BehindMatch(x, i + 1) <=> (BehindMatch(x, i) \/ Layers(x)[i] = TenantMatch)
           /\ Layers(x)[i].type # "tenant_match" => Layers(x)[i] # TenantMatch
<1>1. 1..(i + 1 - 1) = 1..(i - 1) \cup {i}
  OBVIOUS
<1>2. BehindMatch(x, i + 1) <=> (BehindMatch(x, i) \/ Layers(x)[i] = TenantMatch)
  BY <1>1 DEF BehindMatch
<1>3. QED
  BY Zenon, <1>2, MatchShape

\* On the way in and before the handler, the request is at one of the layers.
LEMMA InsideAt ==
    ASSUME IInv, dir = "in", ~Handling
    PROVE  /\ at \in Nat \ {0} /\ at \in 1..Len(Layers(d)) /\ at # Len(Layers(d)) + 1
           /\ layer = Layers(d)[at] /\ d \in Deployments /\ Serving(d)
<1>1. Len(Layers(d)) \in Nat
  BY LayerShape DEF IInv
<1>2. QED
  BY <1>1 DEF IInv, Handling, layer

\* On the way out only what is written can change anything.
LEMMA OutStep ==
    ASSUME KeepInv, dir' # "in", UNCHANGED <<d, req, who, tenant, store>>,
           Sorted(d, who, req, out')
    PROVE  KeepInv'
  BY Zenon DEF KeepInv

\* Nor does passing a layer that neither attaches nor writes anything.
LEMMA PassStep ==
    ASSUME IInv, KeepInv, dir = "in", ~Handling, layer.type # "tenant_match", Pass,
           UNCHANGED <<d, req, who, tenant, out, store>>
    PROVE  KeepInv'
<1>1. at \in Nat \ {0} /\ at # Len(Layers(d)) + 1 /\ layer = Layers(d)[at]
  BY Zenon, InsideAt
<1>2. Inside(d, who, req, out, at)
  BY Zenon DEF KeepInv
<1>3. \A type : Behind(d, at + 1, type) <=> (Behind(d, at, type) \/ Layers(d)[at].type = type)
  BY Zenon, <1>1, BehindNext
<1>4. Inside(d, who, req, out, at + 1)
  <2>1. BehindMatch(d, at + 1) <=> BehindMatch(d, at)
    BY Zenon, <1>1, BehindMatchNext
  <2>2. QED
    BY Zenon, <1>1, <1>2, <1>3, <2>1 DEF Inside
<1>5. at' = at + 1 /\ dir' = "in"
  BY DEF Pass
<1>6. QED
  BY Zenon, <1>4, <1>5 DEF KeepInv

\* A layer that answers with an envelope and turns the request back.
LEMMA AnswerStep ==
    ASSUME IInv, KeepInv, NEW i \in Nat, NEW s, dir' # "in", UNCHANGED <<d, req, who, tenant, store>>,
           out' = Envelope(out, i, s)
    PROVE  KeepInv'
<1>1. d \in Deployments /\ Sorted(d, who, req, out)
  BY Zenon DEF IInv, KeepInv
<1>2. Sorted(d, who, req, Envelope(out, i, s))
  BY Zenon, <1>1, EnvelopeSorted
<1>3. QED
  BY Zenon, <1>2, OutStep

-----------------------------------------------------------------------------
(* The guards. *)

\* A policy that passes a request attaches what it checked, and nothing else.
LEMMA GuardKeepsApart == ASSUME IInv, KeepInv, Guard PROVE KeepInv'
<1>1. /\ UNCHANGED <<d, req, store>> /\ dir = "in" /\ ~Handling
      /\ layer.type \in {"tenant", "auth_required", "tenant_required", "tenant_match", "require_perm",
                         "require_json", "rate_limit"}
  BY Zenon DEF Guard, At
<1>2. PICK v \in Verdicts :
        IF v = 0
        THEN /\ Pass
             /\ tenant' = IF layer.type = "tenant" THEN req.named ELSE tenant
             /\ who' = IF layer.type = "auth_required" THEN req.user ELSE who
             /\ out' = out
        ELSE TurnBack /\ out' = Envelope(out, at, v) /\ UNCHANGED <<tenant, who>>
  BY Zenon DEF Guard
<1>3. /\ at \in Nat \ {0} /\ at \in 1..Len(Layers(d)) /\ at # Len(Layers(d)) + 1
      /\ layer = Layers(d)[at] /\ d \in Deployments /\ Serving(d)
  BY Zenon, <1>1, InsideAt
<1>4. CASE v # 0
  <2>1. dir' # "in" /\ at \in Nat
    BY <1>2, <1>3, <1>4 DEF TurnBack
  <2>2. UNCHANGED <<d, req, who, tenant, store>> /\ out' = Envelope(out, at, v)
    BY Zenon, <1>1, <1>2, <1>4
  <2>3. QED
    BY Zenon, <2>1, <2>2, AnswerStep
<1>5. CASE v = 0
  <2>1. /\ Pass /\ out' = out
        /\ tenant' = IF layer.type = "tenant" THEN req.named ELSE tenant
        /\ who' = IF layer.type = "auth_required" THEN req.user ELSE who
    BY Zenon, <1>2, <1>5
  <2>2. at' = at + 1 /\ dir' = "in"
    BY <2>1 DEF Pass
  <2>3. /\ Attached(d, who, tenant, req) /\ Inside(d, who, req, out, at) /\ Sorted(d, who, req, out)
        /\ Kept(d, store)
    BY Zenon, <1>1 DEF KeepInv
  <2>4. CASE layer.type \in {"tenant_required", "require_perm", "require_json", "rate_limit"}
    <3>1. layer.type # "tenant" /\ layer.type # "auth_required" /\ layer.type # "tenant_match"
      BY <2>4
    <3>2. QED
      BY Zenon, <1>1, <2>1, <3>1, PassStep
  <2>5. \A type : Behind(d, at + 1, type) <=> (Behind(d, at, type) \/ layer.type = type)
    BY Zenon, <1>3, BehindNext
  <2>6. /\ out.wire.body = <<>>
        /\ BehindMatch(d, at + 1) <=> (BehindMatch(d, at) \/ layer = TenantMatch)
        /\ layer.type # "tenant_match" => layer # TenantMatch
    BY Zenon, <1>3, <2>3, BehindMatchNext DEF Inside
  <2>7. CASE layer.type = "tenant"
    <3>1. layer.type # "auth_required" /\ layer.type # "tenant_match" /\ layer.type # "cache_read"
      BY <2>7
    <3>2. Attached(d, who, tenant', req)
      BY Zenon, <2>1, <2>3, <2>7 DEF Attached
    <3>3. Inside(d, who, req, out, at + 1)
      BY Zenon, <2>3, <2>5, <2>6, <3>1 DEF Inside
    <3>4. QED
      BY Zenon, <1>1, <2>1, <2>2, <2>3, <3>1, <3>2, <3>3 DEF KeepInv
  <2>8. CASE layer.type = "auth_required"
    <3>1. layer.type # "tenant" /\ layer.type # "tenant_match" /\ layer.type # "cache_read"
      BY <2>8
    <3>2. who' = req.user /\ tenant' = tenant
      BY Zenon, <2>1, <2>8, <3>1
    <3>3. AuthVerdict = 0
      BY <1>2, <1>5, <2>8 DEF Verdicts
    <3>4. req.user # "anon" /\ (d.app.tenancy => TenantOf[req.user] = tenant)
      BY <3>3 DEF AuthVerdict, TokenTenant
    <3>5. req.user \in Users /\ req.user # "none" /\ TenantOf[req.user] # "none"
      BY <1>1, <3>4, RequestsAssumption DEF IInv, Users
    <3>6. Attached(d, who', tenant, req)
      BY Zenon, <2>3, <3>2, <3>4, <3>5 DEF Attached
    <3>7. out.cw.at = 0
      BY Zenon, <1>3, <2>3, <2>8, NoAuthBehindCache DEF Inside
    <3>8. who # "none" => who' = who
      BY Zenon, <2>3, <3>2 DEF Attached
    <3>9. Inside(d, who', req, out, at + 1)
      <4>1. Matched(who, req) => who # "none"
        BY RequestsAssumption DEF Matched, Users
      <4>2. QED
        BY Zenon, <2>3, <2>5, <2>6, <3>1, <3>7, <3>8, <4>1 DEF Inside
    <3>10. Sorted(d, who', req, out)
      <4>1. <<>> \in Seq(Shown(d, who', req))
        OBVIOUS
      <4>2. QED
        BY Zenon, <2>3, <2>6, <3>7, <4>1 DEF Sorted
    <3>11. QED
      BY Zenon, <1>1, <2>1, <2>2, <2>3, <3>2, <3>6, <3>9, <3>10 DEF KeepInv
  <2>9. CASE layer.type = "tenant_match"
    <3>1. layer.type # "tenant" /\ layer.type # "auth_required" /\ layer.type # "cache_read"
      BY <2>9
    <3>2. TenantMatchVerdict = 0
      BY <1>2, <1>5, <2>9 DEF Verdicts
    <3>3. Isolated(d) /\ layer = TenantMatch => Matched(who, req)
      <4> SUFFICES ASSUME Isolated(d), layer = TenantMatch PROVE Matched(who, req)
        OBVIOUS
      <4>1. layer.param = "tenant_id"
        BY Zenon, MatchShape
      <4>2. d.app.tenancy /\ "tenant_id" \in ParamsOf(d.route.pattern)
        BY Zenon DEF Isolated
      <4>3. PathValue(layer.param) = req.path
        BY Zenon, <4>1, <4>2 DEF PathValue
      <4>4. who # "none" /\ PathValue(layer.param) = PrincipalTenant
        <5>1. 401 # 0 /\ 400 # 0 /\ 404 # 0
          OBVIOUS
        <5>2. QED
          BY Zenon, <3>2, <5>1 DEF TenantMatchVerdict
      <4>5. PrincipalTenant = TenantOf[who]
        BY Zenon, <4>2 DEF PrincipalTenant
      <4>6. QED
        BY Zenon, <2>3, <4>3, <4>4, <4>5 DEF Matched, Attached
    <3>4. Inside(d, who, req, out, at + 1)
      BY Zenon, <2>3, <2>5, <2>6, <3>1, <3>3 DEF Inside
    <3>5. QED
      BY Zenon, <1>1, <2>1, <2>2, <2>3, <3>1, <3>4 DEF KeepInv
  <2>10. QED
    BY Zenon, <1>1, <2>4, <2>7, <2>8, <2>9
<1>6. QED
  BY Zenon, <1>4, <1>5

-----------------------------------------------------------------------------
(* The cache. *)

\* A CacheRead layer varies as the route rules demand: by tenant only where there is one.
LEMMA CacheLayer ==
    ASSUME IInv, dir = "in", ~Handling, layer.type = "cache_read"
    PROVE  layer.vary \in {"none", "user", "tenant"} /\ (layer.vary = "tenant" => ByTenant(d))
<1>1. at \in 1..Len(Layers(d)) /\ layer = Layers(d)[at] /\ d \in Deployments
  BY Zenon, InsideAt
<1>2. layer.type \in PolicyTypes
  BY DEF PolicyTypes
<1>3. PICK k \in DOMAIN d.route.policies : d.route.policies[k] = layer
  BY Zenon, <1>1, <1>2, PolicyLayers
<1>4. d.route.policies \in Seq(Policy)
  BY <1>1, DeploymentsAssumption
<1>5. layer \in Policy
  BY <1>3, <1>4
<1>6. QED
  BY <1>3, <1>5 DEF Policy, ByTenant

\* The key of a request admits what the request may see.
LEMMA KeyAdmits ==
    ASSUME Attached(d, who, tenant, req), NEW vary \in {"none", "user", "tenant"},
           vary = "tenant" => ByTenant(d), ~(vary = "none" /\ who # "none"),
           NEW o, Sees(d, who, o)
    PROVE  Admits(d, KeyFor(vary), o)
<1>1. who = "none" \/ who \in Users
  BY Zenon DEF Attached
<1>2. \A u \in Users : u # "none"
  BY RequestsAssumption DEF Users
<1>3. CASE who = "none"
  <2>1. o = "anon"
    BY Zenon, <1>2, <1>3 DEF Sees, OwnerOf, SameTenant
  <2>2. KeyFor(vary) \in {<<"any", "any">>, <<"user", "none">>, <<"tenant", "none">>}
    BY <1>3 DEF KeyFor
  <2>3. QED
    BY Zenon, <2>1, <2>2 DEF Admits
<1>4. CASE who \in Users
  <2>1. o \in Users /\ (o = who \/ SameTenant(d, o, who)) /\ who # "none"
    BY Zenon, <1>2, <1>4 DEF Sees, OwnerOf, SameTenant
  <2>2. CASE vary = "user"
    <3>1. KeyFor(vary) = <<"user", who>>
      BY <2>2 DEF KeyFor
    <3>2. QED
      BY Zenon, <1>4, <2>1, <3>1 DEF Admits
  <2>3. CASE vary = "tenant"
    <3>1. KeyFor(vary) = <<"tenant", IF who = "none" THEN "none" ELSE PrincipalTenant>>
      BY <2>3 DEF KeyFor
    <3>2. KeyFor(vary) = <<"tenant", IF d.app.tenancy THEN TenantOf[o] ELSE "0">>
      BY Zenon, <2>1, <3>1 DEF PrincipalTenant, SameTenant
    <3>3. QED
      BY Zenon, <2>1, <2>3, <3>2 DEF Admits
  <2>4. QED
    BY Zenon, <2>1, <2>2, <2>3
<1>5. QED
  BY Zenon, <1>1, <1>3, <1>4

\* What the key of a request admits, the request may see.
LEMMA KeyShows ==
    ASSUME Attached(d, who, tenant, req), NEW vary \in {"none", "user", "tenant"},
           vary = "tenant" => ByTenant(d), ~(vary = "none" /\ who # "none"),
           Isolated(d) => Matched(who, req), NEW o, Admits(d, KeyFor(vary), o)
    PROVE  Visible(d, who, req, o)
<1>1. who = "none" \/ who \in Users
  BY Zenon DEF Attached
<1>2. \A u \in Users : u # "none" /\ u # "anon" /\ TenantOf[u] # "none"
  BY RequestsAssumption DEF Users
<1>3. o = "none" \/ o = OwnerOf(who) \/ SameTenant(d, o, who)
  <2>1. CASE vary = "none"
    <3>1. KeyFor(vary) = <<"any", "any">> /\ who = "none"
      BY <2>1 DEF KeyFor
    <3>2. o = "none" \/ o = "anon"
      BY <3>1 DEF Admits
    <3>3. QED
      BY Zenon, <3>1, <3>2 DEF OwnerOf
  <2>2. CASE vary = "user"
    <3>1. KeyFor(vary) = <<"user", who>>
      BY <2>2 DEF KeyFor
    <3>2. \/ o = "none" \/ (o = "anon" /\ who = "none")
          \/ o \in Users /\ (o = who \/ SameTenant(d, o, who))
      BY <3>1 DEF Admits
    <3>3. QED
      BY Zenon, <1>2, <3>2 DEF OwnerOf
  <2>3. CASE vary = "tenant"
    <3> DEFINE t == IF who = "none" THEN "none" ELSE PrincipalTenant
               T(u) == IF d.app.tenancy THEN TenantOf[u] ELSE "0"
    <3>1. KeyFor(vary) = <<"tenant", t>>
      BY <2>3 DEF KeyFor
    <3>2. /\ \A u \in Users : T(u) # "none"
          /\ who \in Users => t = T(who)
          /\ who = "none" => t = "none"
      <4>1. "0" # "none"
        OBVIOUS
      <4>2. QED
        BY Zenon, <1>2, <4>1 DEF PrincipalTenant
    <3> HIDE DEF t
    <3>3. o = "none" \/ (o = "anon" /\ t = "none") \/ (o \in Users /\ t = T(o))
      <4>1. Admits(d, <<"tenant", t>>, o)
        BY Zenon, <3>1
      <4>2. QED
        BY <4>1 DEF Admits
    <3> HIDE DEF T
    <3>4. CASE o = "none" \/ (o = "anon" /\ t = "none")
      BY Zenon, <1>1, <3>2, <3>4 DEF OwnerOf
    <3>5. CASE o \in Users /\ t = T(o)
      <4>1. who \in Users
        BY Zenon, <1>1, <3>2, <3>5
      <4>2. d.app.tenancy => TenantOf[o] = TenantOf[who]
        BY Zenon, <3>2, <3>5, <4>1 DEF T
      <4>3. QED
        BY Zenon, <2>3, <3>5, <4>1, <4>2 DEF SameTenant
    <3>6. QED
      BY Zenon, <3>3, <3>4, <3>5
  <2>4. QED
    BY Zenon, <2>1, <2>2, <2>3
<1>4. QED
  BY Zenon, <1>3 DEF Visible, Sees

\* A hit shows its requester what the key admits; a miss starts an empty body under that key.
LEMMA CacheReadKeepsApart == ASSUME IInv, KeepInv, EnterCacheRead PROVE KeepInv'
<1> DEFINE key == KeyFor(layer.vary)
           miss == Output(out.wire, out.ws, Caching(at, key, <<>>, FALSE, FALSE), out.cookie)
           o == WriteHeader(out, at, store[key].status)
           hit == Write(o, at, store[key].body, Len(store[key].body))
<1>1. /\ UNCHANGED <<d, req, who, tenant, store>> /\ dir = "in" /\ ~Handling /\ layer.type \in {"cache_read"}
      /\ \/ Pass /\ out' = out
         \/ Panics /\ out' = out
         \/ /\ ~(layer.vary = "none" /\ who # "none")
            /\ \/ Pass /\ out' = out
               \/ Pass /\ out' = miss
               \/ TurnBack /\ out' = Envelope(out, at, 503)
               \/ key \in DOMAIN store /\ TurnBack /\ out' = hit
  BY Zenon DEF EnterCacheRead, At
<1>2. layer.type = "cache_read" /\ layer.type # "tenant_match"
  BY <1>1
<1>3. /\ at \in Nat \ {0} /\ at \in 1..Len(Layers(d)) /\ at # Len(Layers(d)) + 1
      /\ layer = Layers(d)[at] /\ d \in Deployments /\ Serving(d)
  BY Zenon, <1>1, InsideAt
<1>4. layer.vary \in {"none", "user", "tenant"} /\ (layer.vary = "tenant" => ByTenant(d))
  BY Zenon, <1>1, <1>2, CacheLayer
<1>5. /\ Attached(d, who, tenant, req) /\ Inside(d, who, req, out, at) /\ Sorted(d, who, req, out)
      /\ Kept(d, store)
  BY Zenon, <1>1 DEF KeepInv
<1>6. CASE Pass /\ out' = out
  BY Zenon, <1>1, <1>2, <1>6, PassStep
<1>7. CASE Panics /\ out' = out
  <2>1. dir' # "in"
    BY <1>7 DEF Panics
  <2>2. QED
    BY Zenon, <1>1, <1>5, <1>7, <2>1, OutStep
<1>8. CASE TurnBack /\ out' = Envelope(out, at, 503)
  <2> DEFINE v == 503
  <2>1. dir' # "in" /\ at \in Nat /\ out' = Envelope(out, at, v)
    BY <1>3, <1>8 DEF TurnBack
  <2> HIDE DEF v
  <2>2. QED
    BY Zenon, <1>1, <2>1, AnswerStep
<1>9. CASE ~(layer.vary = "none" /\ who # "none") /\ Pass /\ out' = miss
  <2>1. \A a : Sees(d, who, a) => Admits(d, key, a)
    BY Zenon, <1>4, <1>5, <1>9, KeyAdmits
  <2>2. /\ miss.wire = out.wire /\ miss.cw.at = at /\ miss.cw.key = key /\ miss.cw.body = <<>>
    BY DEF Output, Caching
  <2> HIDE DEF miss, key
  <2>3. Sorted(d, who, req, miss)
    <3>1. <<>> \in Seq(Admitted(d, key))
      OBVIOUS
    <3>2. QED
      BY Zenon, <1>5, <2>1, <2>2, <3>1 DEF Sorted
  <2>4. \A type : Behind(d, at + 1, type) <=> (Behind(d, at, type) \/ layer.type = type)
    BY Zenon, <1>3, BehindNext
  <2>5. Inside(d, who, req, miss, at + 1)
    <3>1. BehindMatch(d, at + 1) <=> BehindMatch(d, at)
      BY Zenon, <1>2, <1>3, BehindMatchNext
    <3>2. QED
      BY Zenon, <1>2, <1>3, <1>5, <2>2, <2>4, <3>1 DEF Inside
  <2>6. at' = at + 1 /\ dir' = "in"
    BY <1>9 DEF Pass
  <2>7. QED
    BY Zenon, <1>1, <1>5, <1>9, <2>3, <2>5, <2>6 DEF KeepInv
<1>10. CASE ~(layer.vary = "none" /\ who # "none") /\ key \in DOMAIN store /\ TurnBack /\ out' = hit
  <2>1. store[key].body \in Seq(Admitted(d, key))
    BY Zenon, <1>5, <1>10 DEF Kept
  <2>2. Isolated(d) => Matched(who, req)
    BY Zenon, <1>2, <1>3, <1>5, MatchBeforeCache DEF Inside
  <2>3. Admitted(d, key) \subseteq Shown(d, who, req)
    <3> SUFFICES ASSUME NEW c \in Chunks, Admits(d, key, c.of) PROVE Visible(d, who, req, c.of)
      BY Zenon DEF Admitted, Shown
    <3> QED
      BY Zenon, <1>4, <1>5, <1>10, <2>2, KeyShows
  <2>4. store[key].body \in Seq(Shown(d, who, req))
    <3> DEFINE S == Admitted(d, key)
               T == Shown(d, who, req)
               b == store[key].body
    <3> HIDE DEF S, T, b, key
    <3>1. b \in Seq(S) /\ S \subseteq T
      BY Zenon, <2>1, <2>3 DEF S, T, b
    <3>2. b \in Seq(T)
      BY <3>1
    <3>3. QED
      BY Zenon, <3>2 DEF T, b
  <2>5. Sorted(d, who, req, o) /\ at \in Nat
    BY <1>3, <1>5, WriteHeaderSorted
  <2> HIDE DEF o, key
  <2>6. Sorted(d, who, req, hit)
    BY Zenon, <2>4, <2>5, WriteSorted
  <2> HIDE DEF hit
  <2>7. dir' # "in"
    BY <1>10 DEF TurnBack
  <2>8. QED
    BY Zenon, <1>1, <1>10, <2>6, <2>7, OutStep
<1>11. QED
  BY Zenon, <1>1, <1>6, <1>7, <1>8, <1>9, <1>10

-----------------------------------------------------------------------------
(* The handler. *)

\* What the handler writes for the principal may be seen and cached.
LEMMA OwnChunk ==
    ASSUME IInv, KeepInv, dir = "in", Handling
    PROVE  <<Chunk("handler", Owner)>> \in Seq(Shown(d, who, req))
<1>1. /\ Attached(d, who, tenant, req) /\ Inside(d, who, req, out, at) /\ Sorted(d, who, req, out)
      /\ d \in Deployments /\ Serving(d) /\ at = Len(Layers(d)) + 1
  BY Zenon DEF KeepInv, IInv, Handling
<1>2. Owner = OwnerOf(who) /\ Owner \in Users \cup {"none", "anon"}
  BY Zenon, <1>1 DEF Owner, OwnerOf, Attached
<1>3. Chunk("handler", Owner) \in Chunks /\ Chunk("handler", Owner).of = Owner
  BY <1>2 DEF Chunk, Chunks, WriterNames
<1>4. Isolated(d) => Matched(who, req)
  BY Zenon, <1>1, IsolatedMatches DEF Inside
<1>5. Visible(d, who, req, Owner)
  BY Zenon, <1>2, <1>4 DEF Visible, Sees
<1>6. Chunk("handler", Owner) \in Shown(d, who, req)
  BY Zenon, <1>3, <1>5 DEF Shown
<1>7. QED
  BY <1>6

Refusals == {400, 401, 403, 404, 415, 422, 429, 500, 503, 504}

Refuses == \E s \in Refusals : out' = Envelope(out, at, s)
SendsStatus == \E s \in Bodiless : out' = WriteHeader(out, at, s)
SendsResult == out' = Write(WriteHeader(out, at, 200), at, <<Chunk("handler", Owner)>>, 1)

\* What Adapter may answer: an error's envelope, a status alone, or the result.
LEMMA AdapterIs ==
    ASSUME Adapter
    PROVE  /\ UNCHANGED <<d, req, who, tenant, ops, seen, store, stored, deadline>>
           /\ dir = "in" /\ Handling /\ d.route.handler = "adapter" /\ at' = at - 1 /\ dir' = "out"
           /\ Refuses \/ SendsStatus \/ SendsResult
<1>1. /\ UNCHANGED <<d, req, who, tenant, ops, seen, store, stored, deadline>>
      /\ dir = "in" /\ Handling /\ d.route.handler = "adapter" /\ at' = at - 1 /\ dir' = "out"
  BY Zenon DEF Adapter, AtHandler, Returns, handlerUnchanged
<1> DEFINE E(s) == out' = Envelope(out, at, s)
           H(s) == out' = WriteHeader(out, at, s)
           decoded == DecodeAndValidateJSON \ {0}
           errors == {404, 500}
           results == {200, 404, 500}
<1>2. \/ \E s \in decoded : E(s) \/ (req.body = "invalid" /\ H(s))
      \/ SendsResult \/ (\E s \in errors : E(s)) \/ (\E s \in results : H(s)) \/ E(504)
  BY Zenon DEF Adapter, SendsResult
<1>3. decoded \subseteq Refusals /\ decoded \subseteq Bodiless
  BY DEF DecodeAndValidateJSON, Refusals, Bodiless
<1>4. errors \subseteq Refusals /\ results \subseteq Bodiless /\ 504 \in Refusals
  BY DEF Refusals, Bodiless
<1>5. (Refuses <=> \E s \in Refusals : E(s)) /\ (SendsStatus <=> \E s \in Bodiless : H(s))
  BY Zenon DEF Refuses, SendsStatus
<1> HIDE DEF E, H, decoded, errors, results
<1>6. Refuses \/ SendsStatus \/ SendsResult
  BY Zenon, <1>2, <1>3, <1>4, <1>5
<1>7. QED
  BY Zenon, <1>1, <1>6

\* Adapter writes one envelope, of the owner of the request.
LEMMA AdapterKeepsApart == ASSUME IInv, KeepInv, Adapter PROVE KeepInv'
<1>1. /\ UNCHANGED <<d, req, who, tenant, store>> /\ dir = "in" /\ Handling /\ dir' = "out"
      /\ Refuses \/ SendsStatus \/ SendsResult
  BY Zenon, AdapterIs
<1>2. dir' # "in"
  BY <1>1
<1>3. at \in Nat
  <2>1. Len(Layers(d)) \in Nat
    BY LayerShape DEF IInv
  <2>2. QED
    BY <1>1, <2>1 DEF Handling
<1>4. CASE Refuses
  BY Zenon, <1>1, <1>2, <1>3, <1>4, AnswerStep DEF Refuses
<1>5. CASE SendsResult
  <2> DEFINE h == WriteHeader(out, at, 200)
  <2>0. Sorted(d, who, req, out)
    BY Zenon DEF KeepInv
  <2>1. Sorted(d, who, req, h) /\ h.cw = out.cw
    BY <2>0, WriteHeaderSorted
  <2>2. <<Chunk("handler", Owner)>> \in Seq(Shown(d, who, req))
    BY Zenon, <1>1, OwnChunk
  <2> HIDE DEF h
  <2>3. Sorted(d, who, req, Write(h, at, <<Chunk("handler", Owner)>>, 1))
    BY Zenon, <1>3, <2>1, <2>2, WriteSorted
  <2>4. QED
    BY Zenon, <1>1, <1>2, <1>5, <2>3, OutStep DEF SendsResult, h
<1>6. CASE SendsStatus
  <2>1. PICK s : out' = WriteHeader(out, at, s)
    BY Zenon, <1>6 DEF SendsStatus
  <2>2. Sorted(d, who, req, out)
    BY Zenon DEF KeepInv
  <2>3. Sorted(d, who, req, WriteHeader(out, at, s))
    BY Zenon, <2>2, WriteHeaderSorted
  <2>4. QED
    BY Zenon, <1>1, <1>2, <2>1, <2>3, OutStep
<1>7. QED
  BY Zenon, <1>1, <1>4, <1>5, <1>6

\* A raw handler writes what the owner of the request may see.
LEMMA RawOpKeepsApart == ASSUME IInv, KeepInv, RawOp PROVE KeepInv'
<1>1. /\ UNCHANGED <<d, req, who, tenant, store, at, dir>> /\ dir = "in" /\ Handling
      /\ \/ \E s : out' = WriteHeader(out, at, s)
         \/ \E size : out' = Write(out, at, <<Chunk("handler", Owner)>>, size)
         \/ out' = Flush(out, at)
         \/ out' = Output(out.wire, out.ws, out.cw, TRUE)
  BY ZenonT(60) DEF RawOp, AtHandler, handlerUnchanged
<1>2. at \in Nat /\ at = Len(Layers(d)) + 1
  <2>1. Len(Layers(d)) \in Nat
    BY LayerShape DEF IInv
  <2>2. QED
    BY <1>1, <2>1 DEF Handling
<1>3. Sorted(d, who, req, out) /\ Inside(d, who, req, out, at)
  BY Zenon, <1>1 DEF KeepInv
<1>4. Sorted(d, who, req, out') /\ out'.cw.at = out.cw.at
  <2>1. CASE \E s : out' = WriteHeader(out, at, s)
    <3>1. PICK s : out' = WriteHeader(out, at, s)
      BY Zenon, <2>1
    <3>2. Sorted(d, who, req, WriteHeader(out, at, s)) /\ WriteHeader(out, at, s).cw = out.cw
      BY <1>3, WriteHeaderSorted
    <3>3. QED
      BY Zenon, <3>1, <3>2
  <2>2. CASE \E size : out' = Write(out, at, <<Chunk("handler", Owner)>>, size)
    <3>1. PICK size : out' = Write(out, at, <<Chunk("handler", Owner)>>, size)
      BY Zenon, <2>2
    <3>2. <<Chunk("handler", Owner)>> \in Seq(Shown(d, who, req))
      BY Zenon, <1>1, OwnChunk
    <3>3. /\ Sorted(d, who, req, Write(out, at, <<Chunk("handler", Owner)>>, size))
          /\ Write(out, at, <<Chunk("handler", Owner)>>, size).cw.at = out.cw.at
      <4> DEFINE b == <<Chunk("handler", Owner)>>
      <4> HIDE DEF b
      <4>1. Sorted(d, who, req, out) /\ at \in Nat /\ b \in Seq(Shown(d, who, req))
        BY Zenon, <1>2, <1>3, <3>2 DEF b
      <4>2. Sorted(d, who, req, Write(out, at, b, size)) /\ Write(out, at, b, size).cw.at = out.cw.at
        BY <4>1, WriteSorted
      <4>3. QED
        BY Zenon, <4>2 DEF b
    <3>4. QED
      BY Zenon, <3>1, <3>3
  <2>3. CASE out' = Flush(out, at)
    <3>1. /\ out'.wire.body = out.wire.body /\ out'.cw.at = out.cw.at /\ out'.cw.key = out.cw.key
          /\ out'.cw.body = out.cw.body
      BY <2>3 DEF Flush, Output, Sent, Caching
    <3>2. QED
      BY Zenon, <1>3, <3>1 DEF Sorted
  <2>4. CASE out' = Output(out.wire, out.ws, out.cw, TRUE)
    <3>1. out'.wire = out.wire /\ out'.cw = out.cw
      BY <2>4 DEF Output
    <3>2. QED
      BY Zenon, <1>3, <3>1 DEF Sorted
  <2>5. QED
    BY Zenon, <1>1, <2>1, <2>2, <2>3, <2>4
<1>5. Inside(d, who, req, out', at)
  BY Zenon, <1>2, <1>3, <1>4 DEF Inside
<1>6. QED
  BY Zenon, <1>1, <1>4, <1>5 DEF KeepInv

\* A new response shows nothing.
LEMMA FreshSorted == \A x, w, r : Sorted(x, w, r, Fresh(x)) /\ Fresh(x).cw.at = 0 /\ Fresh(x).wire.body = <<>>
<1> TAKE x, w, r
<1>1. /\ Fresh(x).cw.at = 0 /\ Fresh(x).cw.body = <<>> /\ Fresh(x).wire.body = <<>>
  BY DEF Fresh, Output, Sent, Caching
<1>2. <<>> \in Seq(Admitted(x, Fresh(x).cw.key)) /\ <<>> \in Seq(Shown(x, w, r))
  OBVIOUS
<1>3. QED
  BY Zenon, <1>1, <1>2 DEF Sorted

\* Nothing is cached when the process starts.
LEMMA InitKeepInv == Init => KeepInv
<1> SUFFICES ASSUME Init PROVE KeepInv
  OBVIOUS
<1>1. /\ who = "none" /\ tenant = "none" /\ out = Fresh(d) /\ store = <<>> /\ dir = "done"
  BY Zenon DEF Init
<1>2. dir # "in" /\ DOMAIN store = {}
  BY <1>1
<1>3. QED
  BY Zenon, <1>1, <1>2, FreshSorted DEF KeepInv, Attached, Kept

\* A new request finds the store as it was.
LEMMA ArriveKeepsApart == ASSUME KeepInv, Arrive PROVE KeepInv'
<1>1. /\ UNCHANGED <<d, store>> /\ at' = 1 /\ who' = "none" /\ tenant' = "none" /\ out' = Fresh(d)
  BY Zenon DEF Arrive
<1>2. Sorted(d, who', req', out') /\ out'.cw.at = 0 /\ out'.wire.body = <<>>
  BY Zenon, <1>1, FreshSorted
<1>3. Attached(d, who', tenant', req')
  BY Zenon, <1>1 DEF Attached
<1>4. ~BehindMatch(d, 1) /\ \A type : ~Behind(d, 1, type)
  <2>1. 1..(1 - 1) = {}
    OBVIOUS
  <2>2. QED
    BY Zenon, <2>1 DEF Behind, BehindMatch
<1>5. Inside(d, who', req', out', at')
  BY Zenon, <1>1, <1>2, <1>4 DEF Inside
<1>6. QED
  BY Zenon, <1>1, <1>2, <1>3, <1>5 DEF KeepInv

\* What CacheRead stores was captured under the key that it stores it under.
LEMMA LeaveCacheReadKeepsApart == ASSUME KeepInv, LeaveCacheRead PROVE KeepInv'
<1> DEFINE entry == [status |-> out.ws[at].status, body |-> out.cw.body]
<1>1. /\ UNCHANGED <<d, req, who, tenant, out>> /\ dir' = "out"
      /\ \/ store' = [k \in DOMAIN store \cup {out.cw.key} |-> IF k = out.cw.key THEN entry ELSE store[k]]
         \/ store' = store
  BY Zenon DEF LeaveCacheRead, Outward
<1>2. Kept(d, store) /\ out.cw.body \in Seq(Admitted(d, out.cw.key))
  BY Zenon DEF KeepInv, Sorted
<1>3. entry.body = out.cw.body
  OBVIOUS
<1> HIDE DEF entry
<1>4. Kept(d, store')
  <2>1. CASE store' = [k \in DOMAIN store \cup {out.cw.key} |-> IF k = out.cw.key THEN entry ELSE store[k]]
    BY Zenon, <1>2, <1>3, <2>1 DEF Kept
  <2>2. QED
    BY Zenon, <1>1, <1>2, <2>1
<1>5. dir' # "in"
  BY <1>1
<1>6. QED
  BY Zenon, <1>1, <1>4, <1>5 DEF KeepInv

\* Every step of a request keeps tenants and users apart.
LEMMA NextKeepInv == IInv /\ KeepInv /\ [Next]_vars => KeepInv'
<1> SUFFICES ASSUME IInv, KeepInv, [Next]_vars PROVE KeepInv'
  OBVIOUS
<1>0. Sorted(d, who, req, out)
  BY Zenon DEF KeepInv
<1>1. CASE UNCHANGED <<d, req, who, tenant, store, out, at, dir>>
  BY Zenon, <1>1 DEF KeepInv
<1>2. CASE Handle \/ Expire \/ UNCHANGED vars
  BY Zenon, <1>1, <1>2 DEF Handle, Expire, vars, requestVars
<1>3. CASE Arrive
  BY Zenon, <1>3, ArriveKeepsApart
<1>4. CASE EnterTransparent \/ EnterTimeout
  <2>1. /\ UNCHANGED <<d, req, who, tenant, out, store>> /\ dir = "in" /\ ~Handling /\ Pass
        /\ layer.type \in {"metrics", "recoverer", "tracing", "access_log", "cache_control", "cache_invalidate", "timeout"}
    BY <1>4 DEF EnterTransparent, EnterTimeout, At, requestVars
  <2>2. layer.type # "tenant_match"
    BY <2>1
  <2>3. QED
    BY Zenon, <2>1, <2>2, PassStep
<1>5. CASE EnterCORS
  <2>1. /\ UNCHANGED <<d, req, who, tenant, store>> /\ dir = "in" /\ ~Handling /\ layer.type \in {"cors"}
        /\ \/ Pass /\ out' = out
           \/ TurnBack /\ out' = WriteHeader(out, at, 204)
           \/ TurnBack /\ out' = Envelope(out, at, 403)
    BY Zenon, <1>5 DEF EnterCORS, At
  <2>2. layer.type # "tenant_match" /\ (TurnBack => dir' # "in")
    BY <2>1 DEF TurnBack
  <2>3. at \in Nat
    BY <2>1, InsideAt
  <2>4. CASE Pass /\ out' = out
    BY Zenon, <2>1, <2>2, <2>4, PassStep
  <2>5. CASE TurnBack /\ out' = WriteHeader(out, at, 204)
    <3>1. Sorted(d, who, req, WriteHeader(out, at, 204))
      BY <1>0, WriteHeaderSorted
    <3>2. QED
      BY Zenon, <2>1, <2>2, <2>5, <3>1, OutStep
  <2>6. CASE TurnBack /\ out' = Envelope(out, at, 403)
    BY <2>1, <2>2, <2>3, <2>6, AnswerStep
  <2>7. QED
    BY Zenon, <2>1, <2>4, <2>5, <2>6
<1>6. CASE Guard
  BY Zenon, <1>6, GuardKeepsApart
<1>7. CASE EnterCacheRead
  BY Zenon, <1>7, CacheReadKeepsApart
<1>8. CASE Adapter
  BY Zenon, <1>8, AdapterKeepsApart
<1>9. CASE RawOp
  BY Zenon, <1>9, RawOpKeepsApart
<1>10. CASE RawReturns \/ HandlerPanics \/ LeaveTransparent \/ LeaveAccessLog \/ LeaveTracing \/ LeaveMetrics
            \/ LeaveCacheInvalidate
  <2>1. UNCHANGED <<d, req, who, tenant, out, store>> /\ (dir' = "out" \/ dir' = "panic")
    BY Zenon, <1>10 DEF RawReturns, HandlerPanics, LeaveTransparent, LeaveAccessLog, LeaveTracing, LeaveMetrics,
       LeaveCacheInvalidate, Returns, Panics, Outward, Observed, handlerUnchanged, requestVars
  <2>2. dir' # "in"
    BY <2>1
  <2>3. QED
    BY Zenon, <1>0, <2>1, <2>2, OutStep
<1>11. CASE LeaveCacheRead
  BY Zenon, <1>11, LeaveCacheReadKeepsApart
<1>12. CASE LeaveTimeout \/ Unwind
  <2>1. /\ UNCHANGED <<d, req, who, tenant, store>> /\ (dir' = "out" \/ dir' = "panic")
        /\ out' = out \/ (\E s : out' = Envelope(out, at, s))
    BY <1>12 DEF LeaveTimeout, Unwind, Outward
  <2>2. dir' # "in"
    BY <2>1
  <2>3. CASE out' = out
    BY Zenon, <1>0, <2>1, <2>2, <2>3, OutStep
  <2>4. CASE \E s : out' = Envelope(out, at, s)
    <3>1. at \in Nat
      <4>1. (dir = "out" \/ dir = "panic") /\ Len(Layers(d)) \in Nat
        BY <1>12, LayerShape DEF LeaveTimeout, Leaving, Unwind, IInv
      <4>2. QED
        BY <4>1 DEF IInv
    <3>2. QED
      BY <2>1, <2>2, <2>4, <3>1, AnswerStep
  <2>5. QED
    BY Zenon, <2>1, <2>3, <2>4
<1>13. CASE Finish
  <2>1. /\ UNCHANGED <<d, req, who, tenant, store>> /\ dir' = "done"
        /\ out'.wire.body = out.wire.body /\ out'.cw = out.cw
    BY <1>13 DEF Finish, Output, Sent
  <2>2. dir' # "in"
    BY <2>1
  <2>3. Sorted(d, who, req, out')
    BY Zenon, <1>0, <2>1 DEF Sorted
  <2>4. QED
    BY Zenon, <2>1, <2>2, <2>3, OutStep
<1>14. QED
  BY Zenon, <1>2, <1>3, <1>4, <1>5, <1>6, <1>7, <1>8, <1>9, <1>10, <1>11, <1>12, <1>13 DEF Next

\* What the invariant says of an answer.
LEMMA KeepInvKeepsApart == KeepInv => CacheKeepsApart /\ TenantIsolation
<1> SUFFICES ASSUME KeepInv PROVE CacheKeepsApart /\ TenantIsolation
  OBVIOUS
<1>1. \A u \in Users : u # "none" /\ u # "anon"
  BY RequestsAssumption DEF Users
<1>2. Attached(d, who, tenant, req) /\ out.wire.body \in Seq(Shown(d, who, req))
  BY Zenon DEF KeepInv, Sorted
<1>3. \A i \in DOMAIN out.wire.body : out.wire.body[i] \in Shown(d, who, req)
  BY <1>2
<1>4. ASSUME NEW c \in Data
      PROVE  (c.of = Owner \/ SameTenant(d, c.of, who)) /\ (Isolated(d) => Matched(who, req))
  BY Zenon, <1>3, <1>4 DEF Data, Shown, Visible, Sees, Owner, OwnerOf
<1>5. CacheKeepsApart
  <2> SUFFICES ASSUME NEW c \in Data, c.of # Owner
               PROVE  /\ {c.of, who} \cap {"anon", "none"} = {}
                      /\ \E i \in DOMAIN d.route.policies : d.route.policies[i].vary = "tenant"
                      /\ d.app.tenancy => TenantOf[c.of] = TenantOf[who]
    BY Zenon DEF CacheKeepsApart
  <2>1. SameTenant(d, c.of, who)
    BY Zenon, <1>4
  <2>2. c.of \in Users /\ who \in Users
    BY Zenon, <2>1 DEF SameTenant
  <2>3. QED
    BY Zenon, <1>1, <2>1, <2>2 DEF SameTenant, ByTenant
<1>6. TenantIsolation
  <2> SUFFICES ASSUME Isolated(d), NEW c \in Data
               PROVE  c.of # "anon" /\ TenantOf[c.of] = req.path /\ req.named = req.path
    BY Zenon DEF TenantIsolation, MatchesTenant, Isolated, TenantMatch
  <2>1. (c.of = Owner \/ SameTenant(d, c.of, who)) /\ Matched(who, req) /\ d.app.tenancy
    BY Zenon, <1>4 DEF Isolated
  <2>2. who \in Users /\ who # "none" /\ TenantOf[who] = req.path /\ TenantOf[who] = req.named
    BY Zenon, <1>1, <1>2, <2>1 DEF Matched, Attached
  <2>3. c.of \in Users /\ TenantOf[c.of] = TenantOf[who]
    BY Zenon, <2>1, <2>2 DEF SameTenant, Owner
  <2>4. QED
    BY Zenon, <1>1, <2>2, <2>3
<1>7. QED
  BY Zenon, <1>5, <1>6

\* For all users, tenants, routes, middleware and requests, and whatever was cached
\* before: data produced for one user reaches another only by a route that varies by
\* tenant, and within the tenant.
THEOREM CacheAlwaysKeepsApart == Spec => []CacheKeepsApart
<1>1. Spec => [](IInv /\ KeepInv)
  BY InitIInv, NextIInv, InitKeepInv, NextKeepInv, PTL DEF Spec
<1>2. QED
  BY <1>1, KeepInvKeepsApart, PTL

\* And with tenancy on, a route under {tenant_id} that carries the match gives the data of
\* a tenant only to its users, addressed as that tenant, whatever metadata its policies
\* were judged by.  Of the routes registered without a match it says nothing.
THEOREM TenantsAlwaysIsolated == Spec => []TenantIsolation
<1>1. Spec => [](IInv /\ KeepInv)
  BY InitIInv, NextIInv, InitKeepInv, NextKeepInv, PTL DEF Spec
<1>2. QED
  BY <1>1, KeepInvKeepsApart, PTL

-----------------------------------------------------------------------------
(* What was sent, and what every writer still ahead knows of it. *)

Raw(x) == x.route.handler = "raw"

\* A layer of the type was left already, or is still to be left.
Passed(x, i, type) == \E k \in DOMAIN Layers(x) : k > i /\ Layers(x)[k].type = type
Ahead(x, i, type) == \E k \in DOMAIN Layers(x) : k <= i /\ Layers(x)[k].type = type

\* Somebody of the type wrote a part of the body; nobody else did.
By(body, type) == \E m \in DOMAIN body : body[m].by = type
OnlyBy(body, type) == \A m \in DOMAIN body : body[m].by = type
Uniform(body) == \A m, k \in DOMAIN body : body[m].by = body[k].by

\* The status a client sees in the end.
Final(status) == IF status = 0 THEN 200 ELSE status

\* The status of a preflight, and of a request that took too long.
NoContent == 204
GatewayTimeout == 504

\* What a layer's status writer starts with.
Blank == Writer(200, FALSE)

Pristine(x, o) ==
    /\ o.wire.status = 0 /\ o.wire.body = <<>>
    /\ \A j \in 1..Len(Layers(x)) : o.ws[j] = Blank

Wired(x, o) ==
    /\ o.wire.status \in Nat /\ o.wire.body \in Seq(Chunks)
    /\ DOMAIN o.ws = 1..Len(Layers(x))
    /\ o.wire.body # <<>> => o.wire.status # 0

\* The writer of layer j says what was sent.
Synced(x, o, p, i, j) ==
    /\ o.wire.body # <<>> => o.ws[j].wrote
    /\ o.ws[j].wrote => o.wire.status # 0
    /\ o.wire.status # 0 => o.ws[j].wrote \/ p.flush
    /\ \/ o.ws[j].status = Final(o.wire.status)
       \/ p.flush /\ By(o.wire.body, "timeout")
       \/ p.panic /\ Raw(x) /\ Passed(x, i, "recoverer")

AllSynced(x, o, p, i) ==
    \A j \in 1..Len(Layers(x)) : j <= i =>
        /\ Synced(x, o, p, i, j)
        /\ \A k \in 1..Len(Layers(x)) : k <= i => o.ws[k] = o.ws[j]

\* Who wrote is the handler, a policy, or a layer that was left.
WrittenBy(x, body, i) ==
    \A m \in DOMAIN body : body[m].by \in PolicyTypes \cup {"handler"} \/ Passed(x, i, body[m].by)

CachesAt(x, o) == o.cw.at # 0 => o.cw.at \in 1..Len(Layers(x)) /\ Layers(x)[o.cw.at].type = "cache_read"

\* What may have been sent on the way in, after a panic, and on the way out.
InwardOK(x, o, p, i) ==
    /\ ~p.panic
    /\ i # Len(Layers(x)) + 1 \/ ~Raw(x) => Pristine(x, o)
    /\ OnlyBy(o.wire.body, "handler")
    /\ o.cw.at # 0 => o.cw.at < i

PanicOK(x, o, p, i) ==
    /\ (p.panic /\ Raw(x)) \/ (o.wire.status = 0 /\ o.wire.body = <<>>)
    /\ (\E k \in DOMAIN Layers(x) : Layers(x)[k].type = "recoverer") => Ahead(x, i, "recoverer")
    /\ OnlyBy(o.wire.body, "handler")

WriteInv ==
    /\ Wired(d, out) /\ CachesAt(d, out)
    /\ ops.flush => Raw(d)
    /\ dir = "in" => InwardOK(d, out, ops, at)
    /\ dir = "panic" => PanicOK(d, out, ops, at)
    /\ dir = "out" => (ops.panic /\ Raw(d) => Passed(d, at, "recoverer"))
    /\ AllSynced(d, out, ops, at)
    /\ WrittenBy(d, out.wire.body, at)

-----------------------------------------------------------------------------
(* One answer, and what is cached of it. *)

Adapts(x) == x.route.handler = "adapter"

\* One envelope, or the status alone.
Whole(status, body) == Len(body) = 1 \/ (body = <<>> /\ status \in Bodiless)

Recovers(x) == \E k \in DOMAIN Layers(x) : Layers(x)[k].type = "recoverer"

\* Back from the handler or from the layer that answered, as far as Recoverer knows.
Back(x, v, r) == v = "out" \/ (v = "done" /\ r # NoRequest /\ Recovers(x))

Single(x, o, p, i) ==
    /\ Uniform(o.wire.body) \/ (p.panic /\ Raw(x) /\ Passed(x, i, "recoverer"))
    /\ By(o.wire.body, "timeout") => o.wire.status = GatewayTimeout \/ p.flush \/ (p.panic /\ Raw(x))

Storable(x, body) ==
    /\ body \in Seq(Chunks) /\ Uniform(body)
    /\ \A m \in DOMAIN body : body[m].by \in PolicyTypes \cup {"handler"}
    /\ Adapts(x) => Len(body) = 1 \/ body = <<>>

Stored(x, s) == \A k \in DOMAIN s : s[k].status = 200 /\ Storable(x, s[k].body)

Captures(o, v, i) == v \in {"in", "out"} /\ o.cw.at # 0 /\ o.cw.at <= i /\ ~o.cw.large => o.cw.body = o.wire.body

AsSent(s, k, o) ==
    k # NoKey =>
        /\ k \in DOMAIN s /\ ~o.cookie
        /\ \/ Final(o.wire.status) = 200 /\ o.wire.body = s[k].body
           \/ /\ s[k].body = <<>> /\ o.wire.body # <<>>
              /\ OnlyBy(o.wire.body, "timeout")

AnswerInv ==
    /\ Single(d, out, ops, at)
    /\ Adapts(d) /\ Back(d, dir, req) => Whole(out.wire.status, out.wire.body)
    /\ Stored(d, store)
    /\ Captures(out, dir, at)
    /\ dir = "in" \/ dir = "panic" => stored = NoKey
    /\ AsSent(store, stored, out)

-----------------------------------------------------------------------------
(* What the observers recorded. *)

Excused(x, o, p) ==
    \/ p.panic /\ Raw(x)
    \/ o.wire.status = NoContent
    \/ By(o.wire.body, "timeout") \/ By(o.wire.body, "cors") \/ By(o.wire.body, "recoverer")

\* RequestTimeout is still ahead and is going to answer.
Pending(x, o, i, t) ==
    /\ t = "passed" /\ Ahead(x, i, "timeout")
    /\ \A j \in 1..Len(Layers(x)) : j <= i => ~o.ws[j].wrote

\* The answers that AccessLog may leave out, and those that bump tags.
Sampled(status) == status < 500
Succeeded(status) == status \in 200..299

Measured(x, o, p, i, s) ==
    Passed(x, i, "metrics") =>
        \/ s.metric = Final(o.wire.status)
        \/ p.flush /\ By(o.wire.body, "timeout")
        \/ p.panic /\ Raw(x)

Logged(x, o, p, i, s, t) ==
    Passed(x, i, "access_log") =>
        \/ Excused(x, o, p) \/ Pending(x, o, i, t)
        \/ s.log = Final(o.wire.status) \/ (s.log = 0 /\ Sampled(Final(o.wire.status)))

Traced(x, o, p, i, s) ==
    Passed(x, i, "tracing") => Excused(x, o, p) \/ s.span = Final(o.wire.status)

Bumped(x, o, p, i, s, r) ==
    Passed(x, i, "cache_invalidate") /\ (r.write \/ ~\E k \in DOMAIN Layers(x) : Layers(x)[k].type = "cache_read") =>
        \/ Excused(x, o, p)
        \/ s.bump \in {0, 1} /\ (s.bump = 1 <=> Succeeded(Final(o.wire.status)))

ObserveInv ==
    /\ deadline # "none" => \E k \in DOMAIN Layers(d) : Layers(d)[k].type = "timeout"
    /\ dir = "in" => seen = Unseen
    /\ Back(d, dir, req) =>
          /\ Measured(d, out, ops, at, seen) /\ Logged(d, out, ops, at, seen, deadline)
          /\ Traced(d, out, ops, at, seen) /\ Bumped(d, out, ops, at, seen, req)

-----------------------------------------------------------------------------
(* The order of the layers. *)

Rank(type) ==
    IF type = "metrics" THEN 1
    ELSE IF type = "recoverer" THEN 2
    ELSE IF type = "cors" THEN 3
    ELSE IF type = "timeout" THEN 4
    ELSE IF type = "tracing" THEN 5
    ELSE IF type = "access_log" THEN 6
    ELSE IF type = "tenant" THEN 7
    ELSE 8

Ranked(s, n) ==
    /\ s \in Seq(Global)
    /\ \A i \in DOMAIN s : Rank(s[i].type) <= n
    /\ \A i, j \in DOMAIN s : i < j => Rank(s[i].type) < Rank(s[j].type)

\* Appending a layer of a higher rank keeps the layers ranked.
LEMMA RankedNext ==
    ASSUME NEW s, NEW n \in Nat, Ranked(s, n), NEW c, NEW type \in GlobalTypes, n < Rank(type)
    PROVE  Ranked(s \o If(c, type), Rank(type))
<1> DEFINE e == Plain(type)
<1>0. e \in Global /\ e.type = type
  BY DEF Global, Plain
<1>1. \A y : Rank(y) \in Nat
  BY DEF Rank
<1> DEFINE R(y) == Rank(y.type)
<1>2. s \in Seq(Global) /\ (\A i \in DOMAIN s : R(s[i]) <= n) /\ (\A i, j \in DOMAIN s : i < j => R(s[i]) < R(s[j]))
  BY Zenon DEF Ranked
<1>3. R(e) = Rank(type) /\ \A y : R(y) \in Nat
  BY Zenon, <1>0, <1>1
<1> HIDE DEF R, e
<1>4. CASE c
  <2> DEFINE q == s \o <<e>>
  <2>1. q \in Seq(Global) /\ Len(q) = Len(s) + 1 /\ DOMAIN q = 1..(Len(s) + 1) /\ DOMAIN s = 1..Len(s) /\ Len(s) \in Nat
    BY <1>0, <1>2
  <2>2. \A i \in DOMAIN q : (i \in DOMAIN s /\ q[i] = s[i]) \/ (i = Len(s) + 1 /\ q[i] = e)
    BY <1>0, <1>2
  <2> HIDE DEF q
  <2>3. \A i \in DOMAIN q : R(q[i]) <= R(e)
    BY <1>2, <1>3, <2>2
  <2>4. \A i, j \in DOMAIN q : i < j => R(q[i]) < R(q[j])
    <3> TAKE i, j \in DOMAIN q
    <3> HAVE i < j
    <3>1. i \in DOMAIN s /\ q[i] = s[i]
      BY <2>1, <2>2
    <3>2. CASE j \in DOMAIN s /\ q[j] = s[j]
      BY <1>2, <3>1, <3>2
    <3>3. CASE q[j] = e
      BY <1>2, <1>3, <3>1, <3>3
    <3>4. QED
      BY <2>2, <3>2, <3>3
  <2>5. If(c, type) = <<e>>
    BY <1>4 DEF If, e
  <2>6. QED
    BY Zenon, <1>3, <2>1, <2>3, <2>4, <2>5 DEF Ranked, R, q
<1>5. CASE ~c
  <2>1. s \o If(c, type) = s
    BY <1>2, <1>5 DEF If
  <2>2. \A i \in DOMAIN s : R(s[i]) <= R(e)
    BY <1>2, <1>3
  <2>3. QED
    BY Zenon, <1>2, <1>3, <2>1, <2>2 DEF Ranked, R
<1>6. QED
  BY Zenon, <1>4, <1>5

\* The global layers stand in a fixed order, the policies after them.
LEMMA LayerOrder ==
    ASSUME NEW x \in Deployments, NEW i \in 1..Len(Layers(x)), NEW j \in 1..Len(Layers(x)),
           Rank(Layers(x)[j].type) < Rank(Layers(x)[i].type)
    PROVE  j < i
<1> DEFINE app == x.app
           a == If(app.metrics, "metrics")
           b == If(app.recoverer, "recoverer")
           c == If(app.cors, "cors")
           e == If(app.timeout, "timeout")
           f == If(app.tracing, "tracing")
           g == If(app.accessLog, "access_log")
           h == If(app.tenancy, "tenant")
           gl == GlobalLayers(x.app)
           p == x.route.policies
<1>1. /\ Rank("metrics") = 1 /\ Rank("recoverer") = 2 /\ Rank("cors") = 3 /\ Rank("timeout") = 4
      /\ Rank("tracing") = 5 /\ Rank("access_log") = 6 /\ Rank("tenant") = 7
  BY DEF Rank
<1>2. /\ "metrics" \in GlobalTypes /\ "recoverer" \in GlobalTypes /\ "cors" \in GlobalTypes /\ "timeout" \in GlobalTypes
      /\ "tracing" \in GlobalTypes /\ "access_log" \in GlobalTypes /\ "tenant" \in GlobalTypes
  BY DEF GlobalTypes
<1>3. 0 < 1 /\ 1 < 2 /\ 2 < 3 /\ 3 < 4 /\ 4 < 5 /\ 5 < 6 /\ 6 < 7 /\ {0, 1, 2, 3, 4, 5, 6} \subseteq Nat
  OBVIOUS
<1>4. Ranked(a, 1)
  <2>1. Ranked(<<>>, 0)
    BY DEF Ranked
  <2>2. Ranked(<<>> \o a, 1)
    BY Zenon, <1>1, <1>2, <1>3, <2>1, RankedNext
  <2>3. a \in Seq(Global)
    <3>1. Plain("metrics") \in Global
      BY Zenon, <1>2 DEF Global
    <3>2. QED
      BY <3>1 DEF If
  <2> HIDE DEF a
  <2>4. <<>> \o a = a
    BY <2>3
  <2>5. QED
    BY Zenon, <2>2, <2>4
<1>5. Ranked(a \o b, 2)
  BY <1>1, <1>2, <1>3, <1>4, RankedNext
<1>6. Ranked(a \o b \o c, 3)
  BY <1>1, <1>2, <1>3, <1>5, RankedNext
<1>7. Ranked(a \o b \o c \o e, 4)
  BY <1>1, <1>2, <1>3, <1>6, RankedNext
<1>8. Ranked(a \o b \o c \o e \o f, 5)
  BY <1>1, <1>2, <1>3, <1>7, RankedNext
<1>9. Ranked(a \o b \o c \o e \o f \o g, 6)
  BY <1>1, <1>2, <1>3, <1>8, RankedNext
<1>10. Ranked(a \o b \o c \o e \o f \o g \o h, 7)
  BY <1>1, <1>2, <1>3, <1>9, RankedNext
<1>11. Ranked(gl, 7)
  BY ZenonT(60), <1>10 DEF GlobalLayers
<1> HIDE DEF gl, p
<1>12. gl \in Seq(Global) /\ p \in Seq(Policy) /\ Layers(x) = gl \o p
  BY <1>11, DeploymentsAssumption DEF Ranked, Layers, gl, p
<1>13. \A y \in Policy : Rank(y.type) = 8
  BY DEF Policy, PolicyTypes, Rank
<1>14. \A y : Rank(y) \in 1..8
  BY DEF Rank
<1> DEFINE R(y) == Rank(y.type)
           L == Layers(x)
<1>15. \A m \in 1..Len(L) : (m \in DOMAIN gl /\ L[m] = gl[m]) \/ (m > Len(gl) /\ L[m] \in Policy)
  BY <1>12
<1>16. /\ \A m \in DOMAIN gl : R(gl[m]) <= 7
       /\ \A m, n \in DOMAIN gl : m < n => R(gl[m]) < R(gl[n])
       /\ \A y \in Policy : R(y) = 8
       /\ \A y : R(y) \in 1..8
       /\ R(L[j]) < R(L[i])
  BY Zenon, <1>11, <1>13, <1>14 DEF Ranked
<1>17. DOMAIN gl = 1..Len(gl) /\ Len(gl) \in Nat
  BY <1>12
<1> HIDE DEF R, L
<1>18. i \in 1..Len(L) /\ j \in 1..Len(L) /\ Len(L) \in Nat
  BY LayerShape DEF L
<1>19. L[j] \notin Policy
  BY <1>16
<1>20. j \in DOMAIN gl /\ L[j] = gl[j]
  BY Zenon, <1>15, <1>18, <1>19
<1>21. i # j
  BY <1>16
<1>22. ASSUME i < j PROVE FALSE
  <2>1. i \in DOMAIN gl /\ ~(i > Len(gl))
    BY <1>17, <1>18, <1>20, <1>22
  <2>2. L[i] = gl[i]
    BY Zenon, <1>15, <1>18, <2>1
  <2>3. R(L[i]) < R(L[j])
    BY Zenon, <1>16, <1>20, <1>22, <2>1, <2>2
  <2>4. R(L[i]) \in 1..8 /\ R(L[j]) \in 1..8 /\ R(L[j]) < R(L[i])
    BY Zenon, <1>16
  <2>5. QED
    BY <2>3, <2>4
<1>23. QED
  BY <1>18, <1>21, <1>22

-----------------------------------------------------------------------------
(* What one answer of layer i leaves behind. *)

Author(x, i) == IF i \in DOMAIN Layers(x) THEN Layers(x)[i].type ELSE "handler"

\* The header and the body went to the connection and through every writer outside.
Sends(o, q, i, v, b) ==
    /\ q.wire.status = IF o.wire.status = 0 THEN v ELSE o.wire.status
    /\ q.wire.body = o.wire.body \o b
    /\ DOMAIN q.ws = DOMAIN o.ws
    /\ \A j \in DOMAIN o.ws : j < i => q.ws[j] = Writer(v, TRUE)
    /\ q.cookie = o.cookie /\ q.cw.at = o.cw.at
    /\ o.cw.at \in 1..(i - 1) /\ ~q.cw.large => ~o.cw.large /\ q.cw.body = o.cw.body \o b

\* The elements of q are those of s and t.
Made(q, s, t) ==
    /\ \A m \in DOMAIN q : (\E k \in DOMAIN s : q[m] = s[k]) \/ (\E k \in DOMAIN t : q[m] = t[k])
    /\ \A k \in DOMAIN s : \E m \in DOMAIN q : q[m] = s[k]
    /\ \A k \in DOMAIN t : \E m \in DOMAIN q : q[m] = t[k]

\* Where the elements of a concatenation come from.
LEMMA Elements ==
    ASSUME NEW S, NEW s \in Seq(S), NEW t \in Seq(S)
    PROVE  Made(s \o t, s, t)
<1>1. /\ Len(s) \in Nat /\ Len(t) \in Nat /\ DOMAIN s = 1..Len(s) /\ DOMAIN t = 1..Len(t)
      /\ DOMAIN (s \o t) = 1..(Len(s) + Len(t))
  OBVIOUS
<1>2. \A m \in 1..(Len(s) + Len(t)) : (s \o t)[m] = IF m <= Len(s) THEN s[m] ELSE t[m - Len(s)]
  OBVIOUS
<1> DEFINE q == s \o t
<1> HIDE DEF q
<1>3. DOMAIN q = 1..(Len(s) + Len(t)) /\ \A m \in 1..(Len(s) + Len(t)) : q[m] = IF m <= Len(s) THEN s[m] ELSE t[m - Len(s)]
  BY Zenon, <1>1, <1>2 DEF q
<1>4. ASSUME NEW m \in DOMAIN q PROVE (\E k \in DOMAIN s : q[m] = s[k]) \/ (\E k \in DOMAIN t : q[m] = t[k])
  <2>1. CASE m <= Len(s)
    <3>1. m \in DOMAIN s /\ q[m] = s[m]
      BY <1>1, <1>3, <2>1
    <3>2. QED
      BY Zenon, <3>1
  <2>2. CASE ~(m <= Len(s))
    <3>1. m - Len(s) \in DOMAIN t /\ q[m] = t[m - Len(s)]
      BY <1>1, <1>3, <2>2
    <3>2. QED
      BY Zenon, <3>1
  <2>3. QED
    BY Zenon, <2>1, <2>2
<1>5. ASSUME NEW k \in DOMAIN s PROVE \E m \in DOMAIN q : q[m] = s[k]
  <2>1. k \in DOMAIN q /\ q[k] = s[k]
    BY <1>1, <1>3
  <2>2. QED
    BY Zenon, <2>1
<1>6. ASSUME NEW k \in DOMAIN t PROVE \E m \in DOMAIN q : q[m] = t[k]
  <2>1. Len(s) + k \in DOMAIN q /\ q[Len(s) + k] = t[Len(s) + k - Len(s)] /\ Len(s) + k - Len(s) = k
    BY <1>1, <1>3
  <2>2. QED
    BY Zenon, <2>1
<1>7. QED
  BY Zenon, <1>4, <1>5, <1>6 DEF Made, q

\* Somebody wrote the whole exactly when they wrote a part.
LEMMA MadeBy ==
    ASSUME NEW q, NEW s, NEW t, Made(q, s, t), NEW type
    PROVE  By(q, type) <=> By(s, type) \/ By(t, type)
<1>1. ASSUME NEW m \in DOMAIN q, q[m].by = type PROVE By(s, type) \/ By(t, type)
  <2>1. (\E k \in DOMAIN s : q[m] = s[k]) \/ (\E k \in DOMAIN t : q[m] = t[k])
    BY Zenon DEF Made
  <2>2. QED
    BY <1>1, <2>1 DEF By
<1>2. ASSUME NEW k \in DOMAIN s, s[k].by = type PROVE By(q, type)
  <2>1. PICK m \in DOMAIN q : q[m] = s[k]
    BY Zenon DEF Made
  <2>2. QED
    BY <1>2, <2>1 DEF By
<1>3. ASSUME NEW k \in DOMAIN t, t[k].by = type PROVE By(q, type)
  <2>1. PICK m \in DOMAIN q : q[m] = t[k]
    BY Zenon DEF Made
  <2>2. QED
    BY <1>3, <2>1 DEF By
<1>4. QED
  BY Zenon, <1>1, <1>2, <1>3 DEF By

\* One author of both parts is the author of the whole.
LEMMA MadeOnlyBy ==
    ASSUME NEW q, NEW s, NEW t, Made(q, s, t), NEW type, OnlyBy(s, type), OnlyBy(t, type)
    PROVE  OnlyBy(q, type)
<1> SUFFICES ASSUME NEW m \in DOMAIN q PROVE q[m].by = type
  BY Zenon DEF OnlyBy
<1>1. (\E k \in DOMAIN s : q[m] = s[k]) \/ (\E k \in DOMAIN t : q[m] = t[k])
  BY Zenon DEF Made
<1>2. QED
  BY <1>1 DEF OnlyBy

\* One chunk, and none.
LEMMA OneChunk ==
    ASSUME NEW c
    PROVE  /\ DOMAIN <<c>> = {1} /\ <<c>>[1] = c /\ Len(<<c>>) = 1 /\ <<c>> # <<>>
           /\ c \in Chunks => <<c>> \in Seq(Chunks)
           /\ OnlyBy(<<c>>, c.by) /\ By(<<c>>, c.by)
<1>1. DOMAIN <<c>> = {1} /\ <<c>>[1] = c /\ Len(<<c>>) = 1 /\ <<c>> # <<>> /\ (c \in Chunks => <<c>> \in Seq(Chunks))
  OBVIOUS
<1>2. OnlyBy(<<c>>, c.by) /\ By(<<c>>, c.by)
  BY <1>1 DEF OnlyBy, By
<1>3. QED
  BY Zenon, <1>1, <1>2

\* Nobody wrote the empty body.
LEMMA NoChunk ==
    /\ <<>> \in Seq(Chunks) /\ DOMAIN <<>> = {} /\ Len(<<>>) = 0
    /\ \A type : OnlyBy(<<>>, type) /\ ~By(<<>>, type)
  BY DEF OnlyBy, By

\* The caching writer copies a body until it is too large.
Copies(cw, q, i, b) ==
    /\ q.at = cw.at
    /\ cw.at \in 1..(i - 1) /\ ~q.large => ~cw.large /\ q.body = cw.body \o b

\* A caching writer that has not overflowed appends what it is given.
LEMMA CapturedCopies == \A cw, i, b, size : Copies(cw, Captured(cw, i, b, size), i, b)
<1> SUFFICES ASSUME NEW cw, NEW i, NEW b, NEW size, NEW q, q = Captured(cw, i, b, size)
             PROVE  Copies(cw, q, i, b)
  OBVIOUS
<1>1. CASE cw.at \notin 1..(i - 1) \/ cw.large
  BY Zenon, <1>1 DEF Captured, Copies
<1>2. CASE ~(cw.at \notin 1..(i - 1) \/ cw.large) /\ Len(cw.body) + size > MaxBytes
  <2>1. q = Caching(cw.at, cw.key, cw.body, TRUE, cw.stream)
    BY Zenon, <1>2 DEF Captured
  <2>2. q.at = cw.at /\ q.large
    BY <2>1 DEF Caching
  <2>3. QED
    BY Zenon, <2>2 DEF Copies
<1>3. CASE ~(cw.at \notin 1..(i - 1) \/ cw.large) /\ ~(Len(cw.body) + size > MaxBytes)
  <2>1. q = Caching(cw.at, cw.key, cw.body \o b, FALSE, cw.stream)
    BY Zenon, <1>3 DEF Captured
  <2>2. q.at = cw.at /\ q.body = cw.body \o b
    BY <2>1 DEF Caching
  <2>3. QED
    BY Zenon, <1>3, <2>2 DEF Copies
<1>4. QED
  BY Zenon, <1>1, <1>2, <1>3

\* A header and a body, written at one place, are one answer.
LEMMA SendsWrite ==
    ASSUME NEW o, NEW i, NEW v, v # 0, NEW b, NEW size
    PROVE  Sends(o, Write(WriteHeader(o, i, v), i, b, size), i, v, b)
<1> DEFINE h == WriteHeader(o, i, v)
           q == Write(h, i, b, size)
<1>1. /\ h.wire.status = IF o.wire.status = 0 THEN v ELSE o.wire.status
      /\ h.wire.body = o.wire.body /\ h.cw = o.cw /\ h.cookie = o.cookie
      /\ h.ws = [j \in DOMAIN o.ws |-> IF j < i THEN Writer(v, TRUE) ELSE o.ws[j]]
  BY DEF WriteHeader, Output, Sent
<1> HIDE DEF h
<1>2. /\ q.wire.status = IF h.wire.status = 0 THEN 200 ELSE h.wire.status
      /\ q.wire.body = h.wire.body \o b /\ q.cw = Captured(h.cw, i, b, size) /\ q.cookie = h.cookie
      /\ q.ws = [j \in DOMAIN h.ws |-> IF j < i THEN Writer(h.ws[j].status, TRUE) ELSE h.ws[j]]
  BY ZenonT(60) DEF Write, Output, Sent
<1> HIDE DEF q
<1>3. q.wire.status = IF o.wire.status = 0 THEN v ELSE o.wire.status
  BY Zenon, <1>1, <1>2
<1>4. \A w, s : Writer(w, s).status = w
  BY DEF Writer
<1>5. DOMAIN q.ws = DOMAIN o.ws /\ \A j \in DOMAIN o.ws : j < i => q.ws[j] = Writer(v, TRUE)
  <2>1. DOMAIN h.ws = DOMAIN o.ws /\ \A j \in DOMAIN o.ws : j < i => h.ws[j] = Writer(v, TRUE)
    BY Zenon, <1>1
  <2>2. DOMAIN q.ws = DOMAIN h.ws /\ \A j \in DOMAIN h.ws : j < i => q.ws[j] = Writer(h.ws[j].status, TRUE)
    BY Zenon, <1>2
  <2>3. QED
    BY Zenon, <1>4, <2>1, <2>2
<1>6. Copies(o.cw, q.cw, i, b)
  <2>1. q.cw = Captured(o.cw, i, b, size)
    BY Zenon, <1>1, <1>2
  <2>2. QED
    BY Zenon, <2>1, CapturedCopies
<1>7. Sends(o, q, i, v, b)
  BY Zenon, <1>1, <1>2, <1>3, <1>5, <1>6 DEF Sends, Copies
<1>8. QED
  BY Zenon, <1>7 DEF q, h

\* An envelope is one answer.
LEMMA SendsEnvelope ==
    ASSUME NEW o, NEW i, NEW v, v # 0
    PROVE  Sends(o, Envelope(o, i, v), i, v, <<Chunk(Author(d, i), "none")>>)
<1> DEFINE b == <<Chunk(Author(d, i), "none")>>
<1>1. Envelope(o, i, v) = Write(WriteHeader(o, i, v), i, b, 1)
  BY Zenon DEF Envelope, Author
<1> HIDE DEF b
<1>2. Sends(o, Write(WriteHeader(o, i, v), i, b, 1), i, v, b)
  BY Zenon, SendsWrite
<1>3. QED
  BY Zenon, <1>1, <1>2 DEF b

\* A header without a body is one answer.
LEMMA SendsHeader ==
    ASSUME NEW o, NEW i, NEW v, NEW S, o.wire.body \in Seq(S), NEW T, o.cw.body \in Seq(T)
    PROVE  Sends(o, WriteHeader(o, i, v), i, v, <<>>)
<1> DEFINE h == WriteHeader(o, i, v)
<1>1. /\ h.wire.status = IF o.wire.status = 0 THEN v ELSE o.wire.status
      /\ h.wire.body = o.wire.body /\ h.cw = o.cw /\ h.cookie = o.cookie
      /\ h.ws = [j \in DOMAIN o.ws |-> IF j < i THEN Writer(v, TRUE) ELSE o.ws[j]]
  BY DEF WriteHeader, Output, Sent
<1> HIDE DEF h
<1>2. ASSUME NEW U, NEW s \in Seq(U) PROVE s \o <<>> = s
  OBVIOUS
<1>3. o.wire.body \o <<>> = o.wire.body /\ o.cw.body \o <<>> = o.cw.body
  BY Zenon, <1>2
<1>4. DOMAIN h.ws = DOMAIN o.ws /\ \A j \in DOMAIN o.ws : j < i => h.ws[j] = Writer(v, TRUE)
  BY Zenon, <1>1
<1>5. Sends(o, h, i, v, <<>>)
  BY Zenon, <1>1, <1>3, <1>4 DEF Sends
<1>6. QED
  BY Zenon, <1>5 DEF h

\* The chunk of an envelope.
LEMMA EnvelopeChunk ==
    ASSUME NEW x \in Deployments, NEW i
    PROVE  /\ <<Chunk(Author(x, i), "none")>> \in Seq(Chunks)
           /\ DOMAIN <<Chunk(Author(x, i), "none")>> = {1}
           /\ <<Chunk(Author(x, i), "none")>>[1].by = Author(x, i)
           /\ Len(<<Chunk(Author(x, i), "none")>>) = 1
           /\ <<Chunk(Author(x, i), "none")>> # <<>>
<1>1. Author(x, i) \in WriterNames
  <2>1. \A j \in DOMAIN Layers(x) : Layers(x)[j] \in Global \cup Policy
    BY LayerShape
  <2>2. \A y \in Global \cup Policy : y.type \in GlobalTypes \cup PolicyTypes
    BY DEF Global, Policy, Plain
  <2>3. QED
    BY Zenon, <2>1, <2>2 DEF WriterNames, Author
<1> DEFINE c == Chunk(Author(x, i), "none")
<1>2. c \in Chunks /\ c.by = Author(x, i)
  BY <1>1 DEF Chunk, Chunks
<1> HIDE DEF c
<1>3. <<c>> \in Seq(Chunks) /\ DOMAIN <<c>> = {1} /\ <<c>>[1] = c /\ Len(<<c>>) = 1 /\ <<c>> # <<>>
  BY <1>2
<1>4. QED
  BY Zenon, <1>2, <1>3 DEF c

-----------------------------------------------------------------------------
(* The steps of an answer. *)

\* What was left stays left.
LEMMA StillPassed ==
    ASSUME NEW x \in Deployments, NEW i \in Nat, NEW type
    PROVE  /\ Passed(x, i, type) => Passed(x, i - 1, type)
           /\ Passed(x, i - 1, type) => Passed(x, i, type) \/ (i \in 1..Len(Layers(x)) /\ Layers(x)[i].type = type)
           /\ i \in 1..Len(Layers(x)) /\ Layers(x)[i].type = type => Passed(x, i - 1, type)
<1>1. DOMAIN Layers(x) = 1..Len(Layers(x)) /\ Len(Layers(x)) \in Nat
  BY LayerShape
<1>2. \A k \in DOMAIN Layers(x) : (k > i => k > i - 1) /\ (k > i - 1 => k > i \/ k = i)
  BY <1>1
<1>3. i > i - 1
  OBVIOUS
<1>4. QED
  BY Zenon, <1>1, <1>2, <1>3 DEF Passed

\* What holds of the writers up to a layer holds of those before it.
LEMMA LeavesSynced ==
    ASSUME NEW x \in Deployments, NEW i \in Nat, NEW o, NEW p
    PROVE  /\ AllSynced(x, o, p, i) => AllSynced(x, o, p, i - 1)
           /\ WrittenBy(x, o.wire.body, i) => WrittenBy(x, o.wire.body, i - 1)
<1>1. \A type : Passed(x, i, type) => Passed(x, i - 1, type)
  BY Zenon, StillPassed
<1>2. \A j \in 1..Len(Layers(x)) : j <= i - 1 => j <= i
  BY LayerShape
<1>3. \A j : Synced(x, o, p, i, j) => Synced(x, o, p, i - 1, j)
  BY Zenon, <1>1 DEF Synced
<1>4. QED
  BY Zenon, <1>1, <1>2, <1>3 DEF AllSynced, WrittenBy

\* Before anything was sent every writer is in its first state.
LEMMA PristineSynced ==
    ASSUME NEW x, NEW o, NEW p, NEW i, Pristine(x, o)
    PROVE  AllSynced(x, o, p, i) /\ WrittenBy(x, o.wire.body, i)
<1>1. Blank.status = Final(0) /\ ~Blank.wrote
  BY DEF Blank, Writer, Final
<1>2. DOMAIN <<>> = {}
  OBVIOUS
<1>3. \A j \in 1..Len(Layers(x)) : Synced(x, o, p, i, j)
  BY Zenon, <1>1 DEF Pristine, Synced
<1>4. AllSynced(x, o, p, i)
  <2>1. \A j, k \in 1..Len(Layers(x)) : o.ws[k] = o.ws[j]
    BY Zenon DEF Pristine
  <2>2. QED
    BY Zenon, <1>3, <2>1 DEF AllSynced
<1>5. WrittenBy(x, <<>>, i)
  BY <1>2 DEF WrittenBy
<1>6. QED
  BY Zenon, <1>4, <1>5 DEF Pristine

\* A layer on its way out that adds nothing.
LEMMA LeaveWrites ==
    ASSUME IInv, WriteInv, dir = "out", at > 0, at' = at - 1, dir' = "out", UNCHANGED <<d, out, ops>>
    PROVE  WriteInv'
<1>1. d \in Deployments /\ at \in Nat
  BY LayerShape DEF IInv
<1>2. /\ Wired(d, out) /\ CachesAt(d, out) /\ (ops.flush => Raw(d)) /\ AllSynced(d, out, ops, at)
      /\ WrittenBy(d, out.wire.body, at) /\ (ops.panic /\ Raw(d) => Passed(d, at, "recoverer"))
  BY Zenon DEF WriteInv
<1>3. AllSynced(d, out, ops, at - 1) /\ WrittenBy(d, out.wire.body, at - 1)
  BY Zenon, <1>1, <1>2, LeavesSynced
<1>4. ops.panic /\ Raw(d) => Passed(d, at - 1, "recoverer")
  BY Zenon, <1>1, <1>2, StillPassed
<1>5. dir' # "in" /\ dir' # "panic"
  OBVIOUS
<1>6. QED
  BY Zenon, <1>2, <1>3, <1>4, <1>5 DEF WriteInv

\* A layer that answers: nothing was sent, or a late answer follows a flush, or
\* Recoverer what a handler wrote.
LEMMA AnswerWrites ==
    ASSUME IInv, WriteInv, at \in Nat \ {0}, at' = at - 1, dir' = "out", UNCHANGED <<d, ops>>,
           NEW v \in Nat \ {0}, NEW b \in Seq(Chunks), Sends(out, out', at, v, b), WrittenBy(d, b, at - 1),
           \/ out.wire.status = 0
           \/ ops.flush /\ By(b, "timeout")
           \/ ops.panic /\ Raw(d),
           ops.panic /\ Raw(d) => Passed(d, at - 1, "recoverer")
    PROVE  WriteInv'
<1> DEFINE q == out'
           n == Len(Layers(d))
           w == out.wire.body
<1>0. d \in Deployments /\ n \in Nat
  BY LayerShape DEF IInv
<1>1. /\ Wired(d, out) /\ CachesAt(d, out) /\ (ops.flush => Raw(d))
      /\ WrittenBy(d, w, at)
  BY Zenon DEF WriteInv
<1>2. w \in Seq(Chunks) /\ out.wire.status \in Nat /\ DOMAIN out.ws = 1..n
  BY Zenon, <1>1 DEF Wired
<1>3. /\ q.wire.status = IF out.wire.status = 0 THEN v ELSE out.wire.status
      /\ q.wire.body = w \o b /\ DOMAIN q.ws = DOMAIN out.ws
      /\ \A j \in DOMAIN out.ws : j < at => q.ws[j] = Writer(v, TRUE)
      /\ q.cw.at = out.cw.at
  BY Zenon DEF Sends
<1> HIDE DEF q, n, w
<1>4. q.wire.status \in Nat \ {0} /\ (out.wire.status = 0 => q.wire.status = v)
  BY <1>2, <1>3
<1>5. q.wire.body \in Seq(Chunks)
  BY Zenon, <1>2, <1>3, Joined
<1>6. Wired(d, q) /\ CachesAt(d, q)
  BY ZenonT(60), <1>1, <1>2, <1>3, <1>4, <1>5 DEF Wired, CachesAt, n
<1>7. Writer(v, TRUE).status = v /\ Writer(v, TRUE).wrote /\ Final(v) = v
  BY DEF Writer, Final
<1>8. Made(q.wire.body, w, b)
  BY Zenon, <1>2, <1>3, Elements
<1>9. By(b, "timeout") => By(q.wire.body, "timeout")
  BY Zenon, <1>8, MadeBy
<1>10. WrittenBy(d, q.wire.body, at - 1)
  <2>1. WrittenBy(d, w, at - 1)
    BY Zenon, <1>0, <1>1, LeavesSynced DEF w
  <2>2. QED
    BY Zenon, <1>8, <2>1 DEF WrittenBy, Made
<1>11. \A j \in 1..n : j <= at - 1 => q.ws[j] = Writer(v, TRUE)
  <2>1. \A j \in 1..n : j <= at - 1 => j < at
    BY <1>0
  <2>2. QED
    BY Zenon, <1>2, <1>3, <2>1
<1>12. ASSUME NEW j \in 1..n, j <= at - 1 PROVE Synced(d, q, ops, at - 1, j)
  <2>1. q.ws[j].status = v /\ q.ws[j].wrote
    BY Zenon, <1>7, <1>11, <1>12
  <2>2. q.wire.status # 0
    BY <1>4
  <2>3. \/ v = Final(q.wire.status) \/ (ops.flush /\ By(q.wire.body, "timeout"))
        \/ (ops.panic /\ Raw(d) /\ Passed(d, at - 1, "recoverer"))
    BY Zenon, <1>4, <1>7, <1>9
  <2>4. QED
    BY Zenon, <2>1, <2>2, <2>3 DEF Synced
<1>13. AllSynced(d, q, ops, at - 1)
  BY Zenon, <1>11, <1>12 DEF AllSynced, n
<1>14. dir' # "in" /\ dir' # "panic"
  OBVIOUS
<1>15. QED
  BY Zenon, <1>1, <1>6, <1>10, <1>13, <1>14 DEF WriteInv, q

\* A layer that answers an envelope wrote it itself.
LEMMA EnvelopeWritten ==
    ASSUME NEW x \in Deployments, NEW i \in Nat \ {0}
    PROVE  WrittenBy(x, <<Chunk(Author(x, i), "none")>>, i - 1)
<1> DEFINE b == <<Chunk(Author(x, i), "none")>>
<1>1. DOMAIN b = {1} /\ b[1].by = Author(x, i)
  BY Zenon, EnvelopeChunk
<1> HIDE DEF b
<1>2. DOMAIN Layers(x) = 1..Len(Layers(x))
  BY LayerShape
<1>3. Author(x, i) \in PolicyTypes \cup {"handler"} \/ Passed(x, i - 1, Author(x, i))
  <2>1. CASE i \in DOMAIN Layers(x)
    <3>1. Author(x, i) = Layers(x)[i].type /\ i \in 1..Len(Layers(x)) /\ i \in Nat
      BY <1>2, <2>1 DEF Author
    <3>2. QED
      BY Zenon, <3>1, StillPassed
  <2>2. QED
    BY Zenon, <2>1 DEF Author
<1>4. \A m \in {1} : m = 1
  OBVIOUS
<1>5. WrittenBy(x, b, i - 1)
  BY Zenon, <1>1, <1>3, <1>4 DEF WrittenBy
<1>6. QED
  BY Zenon, <1>5 DEF b

\* On the way in the request is at a layer, or at the handler.
LEMMA InwardAt ==
    ASSUME IInv, dir = "in"
    PROVE  at \in Nat \ {0} /\ d \in Deployments /\ Len(Layers(d)) \in Nat /\ DOMAIN Layers(d) = 1..Len(Layers(d))
<1>1. Len(Layers(d)) \in Nat /\ DOMAIN Layers(d) = 1..Len(Layers(d))
  BY LayerShape DEF IInv
<1>2. QED
  BY <1>1 DEF IInv

\* Whoever answers first sets everything.
LEMMA TurnWrites ==
    ASSUME IInv, WriteInv, dir = "in", ~Handling \/ ~Raw(d), at' = at - 1, dir' = "out", UNCHANGED <<d, ops>>,
           NEW v \in Nat \ {0}, NEW b \in Seq(Chunks), Sends(out, out', at, v, b), WrittenBy(d, b, at - 1)
    PROVE  WriteInv' /\ Pristine(d, out) /\ ~ops.panic
<1>1. Pristine(d, out) /\ ~ops.panic
  BY Zenon DEF WriteInv, InwardOK, Handling
<1>2. out.wire.status = 0
  BY Zenon, <1>1 DEF Pristine
<1>3. at \in Nat \ {0}
  BY Zenon, InwardAt
<1>4. QED
  BY Zenon, <1>1, <1>2, <1>3, AnswerWrites

\* A layer that passes the request on leaves what was sent alone.
LEMMA PassWrites ==
    ASSUME IInv, WriteInv, dir = "in", ~Handling, Pass, UNCHANGED <<d, ops>>,
           out'.wire = out.wire, out'.ws = out.ws,
           out'.cw.at = out.cw.at \/ (out'.cw.at = at /\ layer.type = "cache_read")
    PROVE  WriteInv'
<1> DEFINE q == out'
<1>1. /\ at \in Nat \ {0} /\ at \in 1..Len(Layers(d)) /\ layer = Layers(d)[at] /\ d \in Deployments
  BY Zenon, InsideAt
<1>2. /\ Wired(d, out) /\ CachesAt(d, out) /\ (ops.flush => Raw(d)) /\ InwardOK(d, out, ops, at)
  BY Zenon DEF WriteInv
<1>3. Pristine(d, out)
  BY Zenon, <1>2 DEF InwardOK, Handling
<1>4. at' = at + 1 /\ dir' = "in"
  BY DEF Pass
<1>5. dir' # "panic" /\ dir' # "out"
  BY <1>4
<1> HIDE DEF q
<1>6. q.wire = out.wire /\ q.ws = out.ws /\ (q.cw.at = out.cw.at \/ (q.cw.at = at /\ layer.type = "cache_read"))
  BY Zenon DEF q
<1>7. Pristine(d, q) /\ Wired(d, q)
  <2>1. Pristine(d, q)
    BY Zenon, <1>3, <1>6 DEF Pristine
  <2>2. Wired(d, q)
    BY Zenon, <1>2, <1>6 DEF Wired
  <2>3. QED
    BY Zenon, <2>1, <2>2
<1>8. CachesAt(d, q)
  BY Zenon, <1>1, <1>2, <1>6 DEF CachesAt
<1>9. q.cw.at # 0 => q.cw.at < at + 1
  <2>1. out.cw.at # 0 => out.cw.at \in Nat /\ out.cw.at < at
    <3>1. out.cw.at # 0 => out.cw.at \in 1..Len(Layers(d)) /\ out.cw.at < at
      BY Zenon, <1>2 DEF CachesAt, InwardOK
    <3>2. QED
      BY <3>1
  <2>2. QED
    BY <1>1, <1>6, <2>1
<1>10. OnlyBy(q.wire.body, "handler")
  BY Zenon, <1>7, NoChunk DEF Pristine
<1>11. InwardOK(d, q, ops, at + 1)
  BY Zenon, <1>2, <1>7, <1>9, <1>10 DEF InwardOK
<1>12. AllSynced(d, q, ops, at + 1) /\ WrittenBy(d, q.wire.body, at + 1)
  BY Zenon, <1>7, PristineSynced
<1>13. QED
  BY Zenon, <1>2, <1>4, <1>5, <1>7, <1>8, <1>11, <1>12 DEF WriteInv, q

\* The handler of a raw route writes by itself.
RawOps(o, p, q, r, i) ==
    /\ DOMAIN q.ws = DOMAIN o.ws /\ q.cw.at = o.cw.at
    /\ o.cw.at \in 1..(i - 1) /\ ~q.cw.large => ~o.cw.large /\ (o.cw.body = o.wire.body => q.cw.body = q.wire.body)
    /\ \/ /\ o.wire.status = 0 /\ q.wire.status \in Nat \ {0} /\ q.wire.body = o.wire.body
          /\ r.flush = p.flush /\ r.panic = p.panic
          /\ \A j \in DOMAIN o.ws : q.ws[j] = Writer(q.wire.status, TRUE)
       \/ /\ q.wire.status = Final(o.wire.status) /\ q.wire.body # <<>>
          /\ \E c \in Chunks : c.by = "handler" /\ q.wire.body = o.wire.body \o <<c>>
          /\ r.flush = p.flush /\ r.panic = p.panic
          /\ \A j \in DOMAIN o.ws : q.ws[j] = Writer(o.ws[j].status, TRUE)
       \/ /\ q.wire.body = o.wire.body /\ q.ws = o.ws
          /\ q.wire.status = o.wire.status \/ q.wire.status = Final(o.wire.status)
          /\ r.flush /\ r.panic = p.panic
       \/ /\ q.wire = o.wire /\ q.ws = o.ws /\ r.flush = p.flush /\ r.panic = p.panic

\* A call of a raw handler reaches every writer before it.
LEMMA RawOpWrites ==
    ASSUME IInv, WriteInv, dir = "in", Handling, Raw(d), RawOps(out, ops, out', ops', at), UNCHANGED <<d, at, dir>>
    PROVE  WriteInv'
<1> DEFINE q == out'
           r == ops'
           n == Len(Layers(d))
<1>1. at \in Nat \ {0} /\ d \in Deployments /\ n \in Nat /\ at = n + 1
  BY Zenon, InwardAt DEF Handling
<1>2. /\ Wired(d, out) /\ CachesAt(d, out) /\ InwardOK(d, out, ops, at) /\ AllSynced(d, out, ops, at)
  BY Zenon DEF WriteInv
<1>3. /\ out.wire.status \in Nat /\ out.wire.body \in Seq(Chunks) /\ DOMAIN out.ws = 1..n
      /\ out.wire.body # <<>> => out.wire.status # 0
  BY Zenon, <1>2 DEF Wired
<1>4. \A j \in 1..n : j <= at
  BY <1>1
<1>5. /\ \A j \in 1..n : Synced(d, out, ops, at, j)
      /\ \A j, k \in 1..n : out.ws[k] = out.ws[j]
  BY Zenon, <1>2, <1>4 DEF AllSynced
<1>6. OnlyBy(out.wire.body, "handler")
  BY Zenon, <1>2 DEF InwardOK
<1>7. \A j \in 1..n :
         /\ out.wire.body # <<>> => out.ws[j].wrote
         /\ out.ws[j].wrote => out.wire.status # 0
         /\ out.wire.status # 0 => out.ws[j].wrote \/ ops.flush
         /\ out.ws[j].status = Final(out.wire.status)
  <2>1. "handler" # "timeout"
    OBVIOUS
  <2>2. ~By(out.wire.body, "timeout")
    BY Zenon, <1>6, <2>1 DEF By, OnlyBy
  <2>3. ~ops.panic
    BY Zenon, <1>2 DEF InwardOK
  <2>4. QED
    BY Zenon, <1>5, <2>2, <2>3 DEF Synced
<1>8. \A s \in Nat : Final(s) # 0 /\ Final(s) \in Nat /\ Final(Final(s)) = Final(s) /\ (s # 0 => Final(s) = s)
  BY DEF Final
<1>9. \A s : Writer(s, TRUE).status = s /\ Writer(s, TRUE).wrote
  BY DEF Writer
<1> HIDE DEF q, r, n
<1>10. RawOps(out, ops, q, r, at)
  BY Zenon DEF q, r
<1> DEFINE Goal ==
       /\ q.wire.status \in Nat /\ q.wire.body \in Seq(Chunks)
       /\ q.wire.body # <<>> => q.wire.status # 0
       /\ OnlyBy(q.wire.body, "handler")
       /\ \A j \in 1..n :
             /\ q.wire.body # <<>> => q.ws[j].wrote
             /\ q.ws[j].wrote => q.wire.status # 0
             /\ q.wire.status # 0 => q.ws[j].wrote \/ r.flush
             /\ q.ws[j].status = Final(q.wire.status)
       /\ \A j, k \in 1..n : q.ws[k] = q.ws[j]
       /\ r.panic = ops.panic
<1>11. Goal
  <2>1. CASE /\ out.wire.status = 0 /\ q.wire.status \in Nat \ {0} /\ q.wire.body = out.wire.body
             /\ r.flush = ops.flush /\ r.panic = ops.panic
             /\ \A j \in DOMAIN out.ws : q.ws[j] = Writer(q.wire.status, TRUE)
    <3>0. /\ q.wire.status \in Nat \ {0} /\ q.wire.body = out.wire.body
          /\ r.flush = ops.flush /\ r.panic = ops.panic
      BY Zenon, <2>1
    <3>1. q.wire.status \in Nat /\ q.wire.status # 0
      BY <3>0
    <3>2. \A j \in 1..n : q.ws[j] = Writer(q.wire.status, TRUE)
      <4>1. \A j \in DOMAIN out.ws : q.ws[j] = Writer(q.wire.status, TRUE)
        BY Zenon, <2>1
      <4>2. DOMAIN out.ws = 1..n
        BY Zenon, <1>3
      <4>3. QED
        BY Zenon, <4>1, <4>2
    <3>3. \A j \in 1..n : q.ws[j].status = Final(q.wire.status) /\ q.ws[j].wrote
      <4>1. Final(q.wire.status) = q.wire.status
        BY Zenon, <1>8, <3>1
      <4>2. QED
        BY Zenon, <1>9, <3>2, <4>1
    <3>4. \A j, k \in 1..n : q.ws[k] = q.ws[j]
      BY Zenon, <3>2
    <3>5. OnlyBy(q.wire.body, "handler")
      BY Zenon, <1>6, <3>0
    <3>6. q.wire.body \in Seq(Chunks)
      BY Zenon, <1>3, <3>0
    <3>7. QED
      BY Zenon, <3>0, <3>1, <3>3, <3>4, <3>5, <3>6
  <2>2. CASE /\ q.wire.status = Final(out.wire.status) /\ q.wire.body # <<>>
             /\ \E c \in Chunks : c.by = "handler" /\ q.wire.body = out.wire.body \o <<c>>
             /\ r.flush = ops.flush /\ r.panic = ops.panic
             /\ \A j \in DOMAIN out.ws : q.ws[j] = Writer(out.ws[j].status, TRUE)
    <3>0. \A j \in 1..n : q.ws[j] = Writer(out.ws[j].status, TRUE)
      BY Zenon, <1>3, <2>2
    <3>1. q.wire.status \in Nat /\ q.wire.status # 0 /\ Final(q.wire.status) = Final(out.wire.status)
      <4>1. q.wire.status = Final(out.wire.status) /\ out.wire.status \in Nat
        BY Zenon, <1>3, <2>2
      <4>2. QED
        BY Zenon, <1>8, <4>1
    <3>2. \A j \in 1..n : q.ws[j].status = Final(q.wire.status) /\ q.ws[j].wrote
      BY Zenon, <1>7, <1>9, <3>0, <3>1
    <3>3. \A j, k \in 1..n : q.ws[k] = q.ws[j]
      BY Zenon, <1>5, <3>0
    <3>4. PICK c \in Chunks : c.by = "handler" /\ q.wire.body = out.wire.body \o <<c>>
      BY Zenon, <2>2
    <3>5. <<c>> \in Seq(Chunks) /\ OnlyBy(<<c>>, "handler")
      BY Zenon, <3>4, OneChunk
    <3>6. q.wire.body \in Seq(Chunks) /\ Made(q.wire.body, out.wire.body, <<c>>)
      BY Zenon, <1>3, <3>4, <3>5, Joined, Elements
    <3>7. OnlyBy(q.wire.body, "handler")
      BY Zenon, <1>6, <3>5, <3>6, MadeOnlyBy
    <3>8. QED
      BY Zenon, <2>2, <3>1, <3>2, <3>3, <3>6, <3>7
  <2>3. CASE /\ q.wire.body = out.wire.body /\ q.ws = out.ws
             /\ q.wire.status = out.wire.status \/ q.wire.status = Final(out.wire.status)
             /\ r.flush /\ r.panic = ops.panic
    <3>1. q.wire.status \in Nat /\ Final(q.wire.status) = Final(out.wire.status) /\ (out.wire.status # 0 => q.wire.status # 0)
      BY Zenon, <1>3, <1>8, <2>3
    <3>2. q.wire.body = out.wire.body /\ q.ws = out.ws /\ r.flush /\ r.panic = ops.panic
      BY Zenon, <2>3
    <3>3. \A j, k \in 1..n : q.ws[k] = q.ws[j]
      BY Zenon, <1>5, <3>2
    <3>4. \A j \in 1..n :
             /\ q.wire.body # <<>> => q.ws[j].wrote
             /\ q.ws[j].wrote => q.wire.status # 0
             /\ q.wire.status # 0 => q.ws[j].wrote \/ r.flush
             /\ q.ws[j].status = Final(q.wire.status)
      BY Zenon, <1>7, <3>1, <3>2
    <3>5. QED
      BY Zenon, <1>3, <1>6, <3>1, <3>2, <3>3, <3>4
  <2>4. CASE q.wire = out.wire /\ q.ws = out.ws /\ r.flush = ops.flush /\ r.panic = ops.panic
    <3>1. \A j, k \in 1..n : q.ws[k] = q.ws[j]
      BY Zenon, <1>5, <2>4
    <3>2. \A j \in 1..n :
             /\ q.wire.body # <<>> => q.ws[j].wrote
             /\ q.ws[j].wrote => q.wire.status # 0
             /\ q.wire.status # 0 => q.ws[j].wrote \/ r.flush
             /\ q.ws[j].status = Final(q.wire.status)
      BY Zenon, <1>7, <2>4
    <3>3. QED
      BY Zenon, <1>3, <1>6, <2>4, <3>1, <3>2
  <2>5. QED
    BY Zenon, <1>10, <2>1, <2>2, <2>3, <2>4 DEF RawOps
<1>12. Wired(d, q) /\ CachesAt(d, q) /\ q.cw.at = out.cw.at
  BY Zenon, <1>2, <1>3, <1>10, <1>11 DEF Wired, CachesAt, RawOps, n
<1>13. AllSynced(d, q, r, at)
  BY Zenon, <1>11 DEF AllSynced, Synced, n
<1>14. WrittenBy(d, q.wire.body, at)
  BY Zenon, <1>11 DEF WrittenBy, OnlyBy
<1>15. InwardOK(d, q, r, at)
  BY Zenon, <1>1, <1>2, <1>11, <1>12 DEF InwardOK, n
<1>16. dir # "panic" /\ dir # "out"
  OBVIOUS
<1>17. QED
  BY Zenon, <1>12, <1>13, <1>14, <1>15, <1>16 DEF WriteInv, q, r

-----------------------------------------------------------------------------
(* The first answer, whoever gives it. *)

\* Layer i of x, or its handler, answers v and b: the handler what it likes, CORS the
\* preflight, CacheRead what is cached, and everybody else a refusal.
Answer(x, i, r, v, b) ==
    /\ v \in Nat \ {0} /\ b \in Seq(Chunks) /\ Uniform(b) /\ ~By(b, "timeout") /\ WrittenBy(x, b, i - 1)
    /\ Adapts(x) => Whole(v, b)
    /\ \/ i = Len(Layers(x)) + 1
       \/ /\ i \in DOMAIN Layers(x) /\ Layers(x)[i].type = "cors"
          /\ v = NoContent \/ By(b, "cors")
       \/ /\ i \in DOMAIN Layers(x) /\ Layers(x)[i].type \in PolicyTypes \cup {"tenant"}
          /\ v \in Refusals \/ (Layers(x)[i].type = "cache_read" /\ ~r.write)

Turned(v, b) ==
    /\ dir = "in" /\ (~Handling \/ ~Raw(d)) /\ at' = at - 1 /\ dir' = "out"
    /\ UNCHANGED <<d, ops>>
    /\ Answer(d, at, req, v, b) /\ Sends(out, out', at, v, b)

\* A refusal has a status, and not one of success.
LEMMA RefusalsAreStatuses == Refusals \subseteq Nat \ {0} /\ \A v \in Refusals : ~Succeeded(v) /\ v # 0
  BY DEF Refusals, Succeeded

\* An envelope is one chunk by its author.
LEMMA EnvelopeTurns ==
    ASSUME IInv, dir = "in", ~Handling \/ ~Raw(d), at' = at - 1, dir' = "out", UNCHANGED <<d, ops>>,
           NEW v \in Refusals, out' = Envelope(out, at, v),
           \/ at = Len(Layers(d)) + 1
           \/ at \in DOMAIN Layers(d) /\ Layers(d)[at].type \in PolicyTypes \cup {"tenant", "cors"}
    PROVE  \E w, b : Turned(w, b)
<1> DEFINE a == Author(d, at)
           b == <<Chunk(a, "none")>>
<1>1. at \in Nat \ {0} /\ d \in Deployments /\ Len(Layers(d)) \in Nat /\ DOMAIN Layers(d) = 1..Len(Layers(d))
  BY Zenon, InwardAt
<1>2. v \in Nat \ {0} /\ v # 0
  BY RefusalsAreStatuses
<1>3. Sends(out, out', at, v, b)
  BY Zenon, <1>2, SendsEnvelope
<1>4. b \in Seq(Chunks) /\ DOMAIN b = {1} /\ b[1].by = a /\ Len(b) = 1
  BY Zenon, <1>1, EnvelopeChunk
<1>5. WrittenBy(d, b, at - 1)
  BY Zenon, <1>1, EnvelopeWritten
<1>6. a \in PolicyTypes \cup {"tenant", "cors", "handler"} /\ (at \in DOMAIN Layers(d) => a = Layers(d)[at].type)
  <2>1. at = Len(Layers(d)) + 1 => at \notin DOMAIN Layers(d)
    BY <1>1
  <2>2. QED
    BY Zenon, <2>1 DEF Author
<1>7. a # "timeout"
  BY <1>6 DEF PolicyTypes
<1> HIDE DEF b, a
<1>8. Uniform(b) /\ ~By(b, "timeout") /\ By(b, a)
  BY <1>4, <1>7 DEF Uniform, By
<1>9. Answer(d, at, req, v, b)
  BY Zenon, <1>2, <1>4, <1>5, <1>6, <1>8 DEF Answer, Whole
<1>10. Turned(v, b)
  BY Zenon, <1>3, <1>9 DEF Turned
<1>11. QED
  BY Zenon, <1>10

\* A guard passes the request on or answers it with a refusal.
LEMMA GuardTurns ==
    ASSUME IInv, Guard
    PROVE  /\ dir = "in" /\ ~Handling /\ UNCHANGED <<d, req, ops, seen, store, stored, deadline>>
           /\ layer.type \in {"tenant", "auth_required", "tenant_required", "tenant_match", "require_perm",
                              "require_json", "rate_limit"}
           /\ (Pass /\ out' = out) \/ (\E w, b : Turned(w, b))
<1>1. /\ UNCHANGED <<d, req, ops, seen, store, stored, deadline>> /\ dir = "in" /\ ~Handling
      /\ layer.type \in {"tenant", "auth_required", "tenant_required", "tenant_match", "require_perm",
                         "require_json", "rate_limit"}
  BY Zenon DEF Guard, At
<1>2. PICK v \in Verdicts :
        IF v = 0
        THEN /\ Pass
             /\ tenant' = IF layer.type = "tenant" THEN req.named ELSE tenant
             /\ who' = IF layer.type = "auth_required" THEN req.user ELSE who
             /\ out' = out
        ELSE TurnBack /\ out' = Envelope(out, at, v) /\ UNCHANGED <<tenant, who>>
  BY Zenon DEF Guard
<1>3. v \in Refusals \cup {0}
  <2>1. /\ {AuthVerdict, TenantRequiredVerdict, TenantMatchVerdict, RequirePermVerdict, RequireJSONVerdict} \subseteq Refusals \cup {0}
    BY DEF AuthVerdict, TenantRequiredVerdict, TenantMatchVerdict, RequirePermVerdict, RequireJSONVerdict, Refusals
  <2>2. TenantVerdicts \subseteq Refusals \cup {0} /\ RateLimitVerdicts \subseteq Refusals \cup {0}
    BY DEF TenantVerdicts, RateLimitVerdicts, Refusals
  <2>3. QED
    BY <1>1, <1>2, <2>1, <2>2 DEF Verdicts
<1>4. CASE v = 0
  BY Zenon, <1>1, <1>2, <1>4
<1>5. CASE v # 0
  <2>1. v \in Refusals /\ at' = at - 1 /\ dir' = "out" /\ out' = Envelope(out, at, v)
    BY <1>2, <1>3, <1>5 DEF TurnBack
  <2>2. at \in DOMAIN Layers(d) /\ Layers(d)[at].type \in PolicyTypes \cup {"tenant", "cors"}
    <3>1. at \in 1..Len(Layers(d)) /\ layer = Layers(d)[at] /\ d \in Deployments
      BY Zenon, <1>1, InsideAt
    <3>2. DOMAIN Layers(d) = 1..Len(Layers(d))
      BY <3>1, LayerShape
    <3>3. layer.type \in PolicyTypes \cup {"tenant", "cors"}
      BY <1>1 DEF PolicyTypes
    <3>4. QED
      BY Zenon, <3>1, <3>2, <3>3
  <2>3. \E w, b : Turned(w, b)
    BY Zenon, <1>1, <2>1, <2>2, EnvelopeTurns
  <2>4. QED
    BY Zenon, <1>1, <2>3
<1>6. QED
  BY Zenon, <1>4, <1>5

\* CORS passes the request on, answers the preflight or refuses the origin.
LEMMA CORSTurns ==
    ASSUME IInv, WriteInv, KeepInv, EnterCORS
    PROVE  /\ dir = "in" /\ ~Handling /\ UNCHANGED <<d, req, ops, seen, store, stored, deadline>>
           /\ layer.type = "cors"
           /\ (Pass /\ out' = out) \/ (\E w, b : Turned(w, b))
<1>1. /\ UNCHANGED <<d, req, ops, seen, store, stored, deadline>> /\ dir = "in" /\ ~Handling /\ layer.type \in {"cors"}
      /\ \/ Pass /\ out' = out
         \/ TurnBack /\ out' = WriteHeader(out, at, 204)
         \/ TurnBack /\ out' = Envelope(out, at, 403)
  BY Zenon DEF EnterCORS, At
<1>2. layer.type = "cors"
  BY <1>1
<1>3. at \in 1..Len(Layers(d)) /\ layer = Layers(d)[at] /\ d \in Deployments
  BY Zenon, <1>1, InsideAt
<1>4. at \in DOMAIN Layers(d) /\ Layers(d)[at].type = "cors"
  <2>1. DOMAIN Layers(d) = 1..Len(Layers(d))
    BY <1>3, LayerShape
  <2>2. QED
    BY Zenon, <1>2, <1>3, <2>1
<1>5. CASE TurnBack /\ out' = Envelope(out, at, 403)
  <2> DEFINE v == 403
  <2>1. v \in Refusals /\ at' = at - 1 /\ dir' = "out" /\ out' = Envelope(out, at, v)
    BY <1>5 DEF TurnBack, Refusals
  <2> HIDE DEF v
  <2>2. Layers(d)[at].type \in PolicyTypes \cup {"tenant", "cors"}
    BY Zenon, <1>4
  <2>3. \E w, b : Turned(w, b)
    BY Zenon, <1>1, <1>4, <2>1, <2>2, EnvelopeTurns
  <2>4. QED
    BY Zenon, <1>1, <1>2, <2>3
<1>6. CASE TurnBack /\ out' = WriteHeader(out, at, 204)
  <2> DEFINE v == 204
  <2>1. at' = at - 1 /\ dir' = "out" /\ v \in Nat \ {0} /\ v = NoContent /\ out' = WriteHeader(out, at, v)
    BY <1>6 DEF TurnBack, NoContent
  <2> HIDE DEF v
  <2>2. out.wire.body \in Seq(Chunks) /\ out.cw.body \in Seq(Admitted(d, out.cw.key))
    BY Zenon DEF WriteInv, Wired, KeepInv, Sorted
  <2>3. Sends(out, out', at, v, <<>>)
    BY Zenon, <2>1, <2>2, SendsHeader
  <2>4. Uniform(<<>>) /\ WrittenBy(d, <<>>, at - 1)
    BY DEF Uniform, WrittenBy
  <2>5. Answer(d, at, req, v, <<>>)
    <3>1. v \in Bodiless
      BY <2>1 DEF Bodiless, NoContent
    <3>2. QED
      BY Zenon, <1>4, <2>1, <2>4, <3>1, NoChunk DEF Answer, Whole
  <2>6. Turned(v, <<>>)
    BY Zenon, <1>1, <2>1, <2>3, <2>5 DEF Turned
  <2>7. QED
    BY Zenon, <1>1, <1>2, <2>6
<1>7. QED
  BY Zenon, <1>1, <1>2, <1>5, <1>6

\* CacheRead passes the request on, with or without a caching writer, or answers it.
LEMMA CacheReadTurns ==
    ASSUME IInv, Stored(d, store), EnterCacheRead
    PROVE  /\ dir = "in" /\ ~Handling /\ UNCHANGED <<d, req, ops, seen, store, stored, deadline>>
           /\ layer.type = "cache_read"
           /\ \/ Pass /\ out' = out
              \/ Pass /\ \E key : out' = Output(out.wire, out.ws, Caching(at, key, <<>>, FALSE, FALSE), out.cookie)
              \/ Panics /\ out' = out
              \/ \E w, b : Turned(w, b)
<1> DEFINE key == KeyFor(layer.vary)
           miss == Output(out.wire, out.ws, Caching(at, key, <<>>, FALSE, FALSE), out.cookie)
           hit == Write(WriteHeader(out, at, store[key].status), at, store[key].body, Len(store[key].body))
<1>1. /\ UNCHANGED <<d, req, ops, seen, store, stored, deadline>> /\ dir = "in" /\ ~Handling /\ layer.type \in {"cache_read"}
      /\ \/ Pass /\ out' = out
         \/ Panics /\ out' = out
         \/ Pass /\ out' = miss
         \/ TurnBack /\ out' = Envelope(out, at, 503)
         \/ ~req.write /\ key \in DOMAIN store /\ TurnBack /\ out' = hit
  BY Zenon DEF EnterCacheRead, At
<1>2. layer.type = "cache_read"
  BY <1>1
<1>3. at \in 1..Len(Layers(d)) /\ layer = Layers(d)[at] /\ d \in Deployments
  BY Zenon, <1>1, InsideAt
<1>4. at \in DOMAIN Layers(d) /\ Layers(d)[at].type = "cache_read"
  <2>1. DOMAIN Layers(d) = 1..Len(Layers(d))
    BY <1>3, LayerShape
  <2>2. QED
    BY Zenon, <1>2, <1>3, <2>1
<1>5. "cache_read" \in PolicyTypes
  BY DEF PolicyTypes
<1>6. CASE TurnBack /\ out' = Envelope(out, at, 503)
  <2> DEFINE v == 503
  <2>1. v \in Refusals /\ at' = at - 1 /\ dir' = "out" /\ out' = Envelope(out, at, v)
    BY <1>6 DEF TurnBack, Refusals
  <2> HIDE DEF v
  <2>2. Layers(d)[at].type \in PolicyTypes \cup {"tenant", "cors"}
    BY Zenon, <1>4, <1>5
  <2>3. \E w, b : Turned(w, b)
    BY Zenon, <1>1, <1>4, <2>1, <2>2, EnvelopeTurns
  <2>4. QED
    BY Zenon, <1>1, <1>2, <2>3
<1>7. CASE ~req.write /\ key \in DOMAIN store /\ TurnBack /\ out' = hit
  <2> DEFINE b == store[key].body
             v == 200
  <2>1. store[key].status = v /\ Storable(d, b)
    BY Zenon, <1>7 DEF Stored
  <2>2. at' = at - 1 /\ dir' = "out" /\ v \in Nat \ {0} /\ v # 0
    BY <1>7 DEF TurnBack
  <2> HIDE DEF v
  <2>3. out' = Write(WriteHeader(out, at, v), at, b, Len(b))
    BY Zenon, <1>7, <2>1
  <2> HIDE DEF b
  <2>4. Sends(out, out', at, v, b)
    BY Zenon, <2>2, <2>3, SendsWrite
  <2>5. ~By(b, "timeout")
    <3>1. "timeout" \notin PolicyTypes \cup {"handler"}
      BY DEF PolicyTypes
    <3>2. \A m \in DOMAIN b : b[m].by \in PolicyTypes \cup {"handler"}
      BY Zenon, <2>1 DEF Storable
    <3>3. QED
      BY <3>1, <3>2 DEF By
  <2>6. WrittenBy(d, b, at - 1)
    BY Zenon, <2>1 DEF Storable, WrittenBy
  <2>7. Answer(d, at, req, v, b)
    <3>1. b \in Seq(Chunks) /\ Uniform(b) /\ (Adapts(d) => Whole(v, b))
      <4>1. v \in Bodiless
        BY DEF v, Bodiless
      <4>2. QED
        BY Zenon, <2>1, <4>1 DEF Storable, Whole
    <3>2. Layers(d)[at].type \in PolicyTypes \cup {"tenant"}
      BY Zenon, <1>4, <1>5
    <3>3. QED
      BY Zenon, <1>4, <1>7, <2>2, <2>5, <2>6, <3>1, <3>2 DEF Answer
  <2>8. Turned(v, b)
    BY Zenon, <1>1, <2>2, <2>4, <2>7 DEF Turned
  <2>9. QED
    BY Zenon, <1>1, <1>2, <2>8
<1>8. CASE Pass /\ out' = miss
  BY Zenon, <1>1, <1>2, <1>8
<1>9. QED
  BY Zenon, <1>1, <1>2, <1>6, <1>7, <1>8

\* Adapter answers exactly once, with an envelope or a status.
LEMMA AdapterTurns ==
    ASSUME IInv, KeepInv, Adapter
    PROVE  UNCHANGED <<d, req, ops, seen, store, stored, deadline>> /\ \E w, b : Turned(w, b)
<1>1. /\ UNCHANGED <<d, req, ops, seen, store, stored, deadline>> /\ dir = "in" /\ Handling /\ Adapts(d)
      /\ at' = at - 1 /\ dir' = "out"
      /\ Refuses \/ SendsStatus \/ SendsResult
  BY Zenon, AdapterIs DEF Adapts
<1>2. ~Raw(d)
  <2>1. "adapter" # "raw"
    OBVIOUS
  <2>2. QED
    BY Zenon, <1>1, <2>1 DEF Raw, Adapts
<1>3. at = Len(Layers(d)) + 1
  BY Zenon, <1>1 DEF Handling
<1>4. CASE Refuses
  <2>1. PICK s \in Refusals : out' = Envelope(out, at, s)
    BY Zenon, <1>4 DEF Refuses
  <2>2. \E w, b : Turned(w, b)
    BY Zenon, <1>1, <1>2, <1>3, <2>1, EnvelopeTurns
  <2>3. QED
    BY Zenon, <1>1, <2>2
<1>5. CASE SendsResult
  <2> DEFINE c == Chunk("handler", Owner)
             b == <<c>>
             v == 200
  <2>1. v \in Nat \ {0} /\ v # 0 /\ "handler" # "timeout"
    OBVIOUS
  <2>9. out' = Write(WriteHeader(out, at, v), at, b, 1)
    BY <1>5 DEF SendsResult
  <2> HIDE DEF v
  <2>2. Sends(out, out', at, v, b)
    BY Zenon, <2>1, <2>9, SendsWrite
  <2>3. c \in Chunks /\ c.by = "handler"
    <3>1. Owner \in Users \cup {"none", "anon"}
      BY Zenon DEF KeepInv, Attached, Owner
    <3>2. QED
      BY <3>1 DEF Chunk, Chunks, WriterNames
  <2> HIDE DEF c
  <2>4. b \in Seq(Chunks) /\ Len(b) = 1 /\ OnlyBy(b, "handler")
    BY Zenon, <2>3, OneChunk
  <2> HIDE DEF b
  <2>5. Uniform(b) /\ ~By(b, "timeout") /\ WrittenBy(d, b, at - 1)
    BY Zenon, <2>1, <2>4 DEF OnlyBy, Uniform, By, WrittenBy
  <2>6. Answer(d, at, req, v, b)
    BY Zenon, <1>3, <2>1, <2>4, <2>5 DEF Answer, Whole
  <2>7. Turned(v, b)
    BY Zenon, <1>1, <1>2, <2>2, <2>6 DEF Turned
  <2>8. QED
    BY Zenon, <1>1, <2>7
<1>6. CASE SendsStatus
  <2>1. PICK s \in Bodiless : out' = WriteHeader(out, at, s)
    BY Zenon, <1>6 DEF SendsStatus
  <2>2. s \in Nat \ {0}
    BY DEF Bodiless
  <2>3. out.wire.body \in Seq(Shown(d, who, req)) /\ out.cw.body \in Seq(Admitted(d, out.cw.key))
    BY Zenon DEF KeepInv, Sorted
  <2>4. Sends(out, out', at, s, <<>>)
    BY Zenon, <2>1, <2>3, SendsHeader
  <2>5. Uniform(<<>>) /\ WrittenBy(d, <<>>, at - 1)
    BY DEF Uniform, WrittenBy
  <2>6. Answer(d, at, req, s, <<>>)
    BY Zenon, <1>3, <2>2, <2>5, NoChunk DEF Answer, Whole
  <2>7. Turned(s, <<>>)
    BY Zenon, <1>1, <1>2, <2>4, <2>6 DEF Turned
  <2>8. QED
    BY Zenon, <1>1, <2>7
<1>7. QED
  BY Zenon, <1>1, <1>4, <1>5, <1>6

-----------------------------------------------------------------------------
(* The invariant of what was written. *)

\* A call of a raw handler is one of the operations of its writer.
LEMMA RawOpIs ==
    ASSUME IInv, KeepInv, WriteInv, RawOp
    PROVE  /\ dir = "in" /\ Handling /\ Raw(d) /\ RawOps(out, ops, out', ops', at)
           /\ UNCHANGED <<d, at, dir, req, seen, store, stored, deadline>>
<1> DEFINE c == Chunk("handler", Owner)
<1>1. /\ UNCHANGED <<d, at, dir, req, seen, store, stored, deadline>> /\ dir = "in" /\ Handling /\ Raw(d)
      /\ \/ /\ out.wire.status = 0
            /\ \E s \in {200, 500} : out' = WriteHeader(out, at, s)
            /\ ops' = Ops(ops.n + 1, ops.panic, ops.flush)
         \/ /\ \E size : out' = Write(out, at, <<c>>, size)
            /\ ops' = Ops(ops.n + 1, ops.panic, ops.flush)
         \/ out' = Flush(out, at) /\ ops' = Ops(ops.n + 1, ops.panic, TRUE)
         \/ out' = Output(out.wire, out.ws, out.cw, TRUE) /\ ops' = Ops(ops.n + 1, ops.panic, ops.flush)
  BY ZenonT(60) DEF RawOp, AtHandler, handlerUnchanged, Raw
<1>3. \A j \in DOMAIN out.ws : j < at
  <2>1. DOMAIN out.ws = 1..Len(Layers(d)) /\ Len(Layers(d)) \in Nat /\ at = Len(Layers(d)) + 1
    BY Zenon, <1>1, InwardAt DEF WriteInv, Wired, Handling
  <2>2. QED
    BY <2>1
<1>4. c \in Chunks /\ c.by = "handler"
  <2>1. Owner \in Users \cup {"none", "anon"}
    BY Zenon DEF KeepInv, Attached, Owner
  <2>2. QED
    BY <2>1 DEF Chunk, Chunks, WriterNames
<1> HIDE DEF c
<1>5. CASE /\ out.wire.status = 0 /\ \E s \in {200, 500} : out' = WriteHeader(out, at, s)
           /\ ops' = Ops(ops.n + 1, ops.panic, ops.flush)
  <2>1. PICK s \in Nat \ {0} : out' = WriteHeader(out, at, s)
    <3>1. \E s \in {200, 500} : out' = WriteHeader(out, at, s)
      BY Zenon, <1>5
    <3>2. QED
      BY <3>1
  <2>0. out.wire.status = 0 /\ ops' = Ops(ops.n + 1, ops.panic, ops.flush)
    BY Zenon, <1>5
  <2>2. /\ out'.wire.status = s /\ out'.wire.body = out.wire.body /\ out'.cw = out.cw
    BY <2>0, <2>1 DEF WriteHeader, Output, Sent
  <2>3. DOMAIN out'.ws = DOMAIN out.ws /\ \A j \in DOMAIN out.ws : out'.ws[j] = Writer(s, TRUE)
    <3>1. out'.ws = [j \in DOMAIN out.ws |-> IF j < at THEN Writer(s, TRUE) ELSE out.ws[j]]
      BY <2>0, <2>1 DEF WriteHeader, Output, Sent
    <3>2. QED
      BY Zenon, <1>3, <3>1
  <2>4. ops'.flush = ops.flush /\ ops'.panic = ops.panic
    BY <2>0 DEF Ops
  <2>5. RawOps(out, ops, out', ops', at)
    <3>1. out'.wire.status \in Nat \ {0}
      BY Zenon, <2>1, <2>2
    <3>2. \A j \in DOMAIN out.ws : out'.ws[j] = Writer(out'.wire.status, TRUE)
      BY Zenon, <2>2, <2>3
    <3>3. out.cw.at \in 1..(at - 1) /\ ~out'.cw.large => ~out.cw.large /\ (out.cw.body = out.wire.body => out'.cw.body = out'.wire.body)
      BY <2>2
    <3>4. QED
      BY Zenon, <2>0, <2>2, <2>3, <2>4, <3>1, <3>2, <3>3 DEF RawOps
  <2>6. QED
    BY Zenon, <1>1, <2>5
<1>6. CASE (\E size : out' = Write(out, at, <<c>>, size)) /\ ops' = Ops(ops.n + 1, ops.panic, ops.flush)
  <2>1. PICK size : out' = Write(out, at, <<c>>, size)
    BY Zenon, <1>6
  <2> DEFINE b == <<c>>
  <2>2. b \in Seq(Chunks) /\ b # <<>> /\ Len(b) = 1
    BY Zenon, <1>4, OneChunk
  <2>3. out' = Write(out, at, b, size)
    BY ZenonT(60), <2>1
  <2> HIDE DEF b
  <2>4. /\ out'.wire.status = Final(out.wire.status) /\ out'.wire.body = out.wire.body \o b
        /\ out'.cw = Captured(out.cw, at, b, size)
        /\ out'.ws = [j \in DOMAIN out.ws |-> IF j < at THEN Writer(out.ws[j].status, TRUE) ELSE out.ws[j]]
    BY <2>3 DEF Write, Output, Sent, Final
  <2>5. DOMAIN out'.ws = DOMAIN out.ws /\ \A j \in DOMAIN out.ws : out'.ws[j] = Writer(out.ws[j].status, TRUE)
    BY Zenon, <1>3, <2>4
  <2>6. ops'.flush = ops.flush /\ ops'.panic = ops.panic
    BY <1>6 DEF Ops
  <2>7. out'.wire.body # <<>>
    <3>1. out.wire.body \in Seq(Chunks)
      BY Zenon DEF WriteInv, Wired
    <3>2. QED
      BY <2>2, <2>4, <3>1
  <2>8. /\ out'.cw.at = out.cw.at
        /\ out.cw.at \in 1..(at - 1) /\ ~out'.cw.large => ~out.cw.large /\ out'.cw.body = out.cw.body \o b
    <3>1. Copies(out.cw, out'.cw, at, b)
      <4>1. out'.cw = Captured(out.cw, at, b, size)
        BY Zenon, <2>4
      <4>2. Copies(out.cw, Captured(out.cw, at, b, size), at, b)
        BY Zenon, CapturedCopies
      <4>3. QED
        BY Zenon, <4>1, <4>2
    <3>2. QED
      BY Zenon, <3>1 DEF Copies
  <2>9. out.cw.at \in 1..(at - 1) /\ ~out'.cw.large => ~out.cw.large /\ (out.cw.body = out.wire.body => out'.cw.body = out'.wire.body)
    BY Zenon, <2>4, <2>8
  <2>10. \E e \in Chunks : e.by = "handler" /\ out'.wire.body = out.wire.body \o <<e>>
    BY Zenon, <1>4, <2>4 DEF b
  <2>11. RawOps(out, ops, out', ops', at)
    BY ZenonT(60), <2>4, <2>5, <2>6, <2>7, <2>8, <2>9, <2>10 DEF RawOps
  <2>12. QED
    BY Zenon, <1>1, <2>11
<1>7. CASE out' = Flush(out, at) /\ ops' = Ops(ops.n + 1, ops.panic, TRUE)
  <2>1. /\ out'.wire.status = out.wire.status \/ out'.wire.status = Final(out.wire.status)
        /\ out'.wire.body = out.wire.body /\ out'.ws = out.ws
        /\ out'.cw.at = out.cw.at /\ out'.cw.body = out.cw.body /\ out'.cw.large = out.cw.large
    BY <1>7 DEF Flush, Output, Sent, Caching, Final
  <2>2. ops'.flush /\ ops'.panic = ops.panic
    BY <1>7 DEF Ops
  <2>3. RawOps(out, ops, out', ops', at)
    BY Zenon, <2>1, <2>2 DEF RawOps
  <2>4. QED
    BY Zenon, <1>1, <2>3
<1>8. CASE out' = Output(out.wire, out.ws, out.cw, TRUE) /\ ops' = Ops(ops.n + 1, ops.panic, ops.flush)
  <2>1. out'.wire = out.wire /\ out'.ws = out.ws /\ out'.cw = out.cw
    BY <1>8 DEF Output
  <2>2. ops'.flush = ops.flush /\ ops'.panic = ops.panic
    BY <1>8 DEF Ops
  <2>3. RawOps(out, ops, out', ops', at)
    BY Zenon, <2>1, <2>2 DEF RawOps
  <2>4. QED
    BY Zenon, <1>1, <2>3
<1>9. QED
  BY Zenon, <1>1, <1>5, <1>6, <1>7, <1>8

-----------------------------------------------------------------------------
(* The kinds of steps. *)

Still ==
    /\ UNCHANGED <<d, at, dir, req, out, seen, ops, store, stored>>
    /\ deadline' = deadline \/ deadline = "armed"

Passing ==
    /\ dir = "in" /\ ~Handling /\ Pass /\ UNCHANGED <<d, req, seen, ops, store, stored>>
    /\ \/ out' = out
       \/ /\ layer.type = "cache_read"
          /\ \E key : out' = Output(out.wire, out.ws, Caching(at, key, <<>>, FALSE, FALSE), out.cookie)
    /\ deadline' = deadline \/ layer.type = "timeout"

Turning ==
    /\ \E v, b : Turned(v, b)
    /\ UNCHANGED <<req, seen, store, stored, deadline>>

Falling ==
    /\ dir = "in" /\ Panics /\ UNCHANGED <<d, req, out, seen, store, stored, deadline>>
    /\ \/ ~Handling /\ layer.type = "cache_read" /\ ops' = ops
       \/ Handling /\ ops' = Ops(ops.n, TRUE, ops.flush)

Leave ==
    LeaveTransparent \/ LeaveTimeout \/ LeaveAccessLog \/ LeaveTracing \/ LeaveMetrics
    \/ LeaveCacheRead \/ LeaveCacheInvalidate

\* Every step is of one of a few kinds, which is all that the proofs below ask of it.
LEMMA Kinds ==
    ASSUME IInv, KeepInv, WriteInv, Stored(d, store), [Next]_vars
    PROVE  Still \/ Arrive \/ Passing \/ Turning \/ Falling \/ RawOp \/ RawReturns \/ Leave \/ Unwind \/ Finish
<1>1. CASE Handle \/ Expire \/ UNCHANGED vars
  BY Zenon, <1>1 DEF Handle, Expire, vars, requestVars, Still
<1>2. CASE EnterTransparent \/ EnterTimeout
  <2>1. CASE EnterTransparent
    BY Zenon, <2>1 DEF EnterTransparent, At, requestVars, Passing
  <2>2. CASE EnterTimeout
    <3>1. layer.type \in {"timeout"} /\ UNCHANGED <<d, req, out, seen, ops, store, stored>> /\ dir = "in" /\ ~Handling /\ Pass
      BY Zenon, <2>2 DEF EnterTimeout, At
    <3>2. QED
      BY Zenon, <3>1 DEF Passing
  <2>3. QED
    BY Zenon, <1>2, <2>1, <2>2
<1>3. CASE EnterCORS
  BY Zenon, <1>3, CORSTurns DEF Passing, Turning
<1>4. CASE Guard
  BY Zenon, <1>4, GuardTurns DEF Passing, Turning
<1>5. CASE EnterCacheRead
  BY Zenon, <1>5, CacheReadTurns DEF Passing, Turning, Falling
<1>6. CASE Adapter
  <2>1. UNCHANGED <<req, seen, store, stored, deadline>>
    BY Zenon, <1>6 DEF Adapter, handlerUnchanged
  <2>2. QED
    BY Zenon, <1>6, <2>1, AdapterTurns DEF Turning
<1>7. CASE HandlerPanics
  BY Zenon, <1>7 DEF HandlerPanics, handlerUnchanged, Falling
<1>8. QED
  BY Zenon, <1>1, <1>2, <1>3, <1>4, <1>5, <1>6, <1>7 DEF Next, Leave

-----------------------------------------------------------------------------
(* What was written stays in order. *)

\* A new response has nothing sent and nothing captured.
LEMMA FreshWritten ==
    ASSUME NEW x \in Deployments
    PROVE  /\ Pristine(x, Fresh(x)) /\ Wired(x, Fresh(x)) /\ CachesAt(x, Fresh(x))
           /\ Fresh(x).cw.at = 0 /\ ~Fresh(x).cookie
<1> DEFINE f == Fresh(x)
<1>1. DOMAIN Layers(x) = 1..Len(Layers(x))
  BY LayerShape
<1>2. /\ f.wire.status = 0 /\ f.wire.body = <<>> /\ f.cw.at = 0 /\ ~f.cookie
      /\ f.ws = [i \in DOMAIN Layers(x) |-> Blank]
  BY DEF Fresh, Output, Sent, Caching, Blank
<1>3. 0 \in Nat /\ <<>> \in Seq(Chunks)
  OBVIOUS
<1> HIDE DEF f
<1>4. QED
  BY Zenon, <1>1, <1>2, <1>3 DEF f, Pristine, Wired, CachesAt

\* Nothing was sent before the first request.
LEMMA InitWriteInv == Init => WriteInv
<1> SUFFICES ASSUME Init PROVE WriteInv
  OBVIOUS
<1>1. d \in Deployments /\ out = Fresh(d) /\ dir = "done" /\ ops = Ops(0, FALSE, FALSE)
  BY Zenon DEF Init
<1>2. Pristine(d, out) /\ Wired(d, out) /\ CachesAt(d, out)
  BY Zenon, <1>1, FreshWritten
<1>3. dir # "in" /\ dir # "panic" /\ dir # "out" /\ ~ops.flush
  BY <1>1 DEF Ops
<1>4. AllSynced(d, out, ops, at) /\ WrittenBy(d, out.wire.body, at)
  BY Zenon, <1>2, PristineSynced
<1>5. QED
  BY Zenon, <1>2, <1>3, <1>4 DEF WriteInv

\* A new request starts with a new response.
LEMMA ArriveWrites == ASSUME IInv, Arrive PROVE WriteInv'
<1>1. d \in Deployments /\ UNCHANGED d /\ out' = Fresh(d) /\ dir' = "in" /\ ops' = Ops(0, FALSE, FALSE)
  BY Zenon DEF Arrive, IInv
<1>2. Pristine(d, out') /\ Wired(d, out') /\ CachesAt(d, out') /\ out'.cw.at = 0
  BY Zenon, <1>1, FreshWritten
<1>3. dir' # "panic" /\ dir' # "out" /\ ~ops'.flush /\ ~ops'.panic
  BY <1>1 DEF Ops
<1>4. AllSynced(d, out', ops', at') /\ WrittenBy(d, out'.wire.body, at')
  BY Zenon, <1>2, PristineSynced
<1>5. OnlyBy(out'.wire.body, "handler")
  BY Zenon, <1>2, NoChunk DEF Pristine
<1>6. InwardOK(d, out', ops', at')
  BY Zenon, <1>2, <1>3, <1>5 DEF InwardOK
<1>7. QED
  BY Zenon, <1>1, <1>2, <1>3, <1>4, <1>6 DEF WriteInv

\* Everything behind a layer of the outer middleware is further in than Recoverer.
LEMMA RecovererAhead ==
    ASSUME NEW x \in Deployments, NEW i \in Nat,
           i = Len(Layers(x)) + 1 \/ (i \in DOMAIN Layers(x) /\ Layers(x)[i].type = "cache_read"),
           Recovers(x)
    PROVE  Ahead(x, i - 1, "recoverer")
<1>1. Len(Layers(x)) \in Nat /\ DOMAIN Layers(x) = 1..Len(Layers(x))
  BY LayerShape
<1>2. PICK k \in DOMAIN Layers(x) : Layers(x)[k].type = "recoverer"
  BY Zenon DEF Recovers
<1>3. CASE i \in DOMAIN Layers(x) /\ Layers(x)[i].type = "cache_read"
  <2>1. Rank("recoverer") < Rank("cache_read")
    BY DEF Rank
  <2>2. Rank(Layers(x)[k].type) < Rank(Layers(x)[i].type)
    BY Zenon, <1>2, <1>3, <2>1
  <2>3. i \in 1..Len(Layers(x)) /\ k \in 1..Len(Layers(x))
    BY Zenon, <1>1, <1>2, <1>3
  <2>4. k < i
    BY Zenon, <2>2, <2>3, LayerOrder
  <2>5. k <= i - 1
    BY <2>3, <2>4
  <2>6. QED
    BY Zenon, <1>2, <2>5 DEF Ahead
<1>4. CASE i = Len(Layers(x)) + 1
  <2>1. k <= i - 1
    BY <1>1, <1>2, <1>4
  <2>2. QED
    BY Zenon, <1>2, <2>1 DEF Ahead
<1>5. QED
  BY Zenon, <1>3, <1>4

\* A panic sends nothing.
LEMMA FallWrites == ASSUME IInv, WriteInv, Falling PROVE WriteInv'
<1>1. /\ dir = "in" /\ at' = at - 1 /\ dir' = "panic" /\ UNCHANGED <<d, out>>
      /\ \/ ~Handling /\ layer.type = "cache_read" /\ ops' = ops
         \/ Handling /\ ops' = Ops(ops.n, TRUE, ops.flush)
  BY Zenon DEF Falling, Panics
<1>2. at \in Nat \ {0} /\ d \in Deployments /\ Len(Layers(d)) \in Nat /\ DOMAIN Layers(d) = 1..Len(Layers(d))
  BY Zenon, <1>1, InwardAt
<1>3. /\ Wired(d, out) /\ CachesAt(d, out) /\ (ops.flush => Raw(d)) /\ InwardOK(d, out, ops, at)
      /\ AllSynced(d, out, ops, at) /\ WrittenBy(d, out.wire.body, at)
  BY Zenon, <1>1 DEF WriteInv
<1>4. (ops.panic => ops'.panic) /\ (ops'.flush <=> ops.flush) /\ (Handling => ops'.panic)
  BY <1>1 DEF Ops
<1>5. AllSynced(d, out, ops, at - 1) /\ WrittenBy(d, out.wire.body, at - 1)
  BY Zenon, <1>2, <1>3, LeavesSynced
<1>6. AllSynced(d, out, ops', at - 1)
  BY Zenon, <1>4, <1>5 DEF AllSynced, Synced
<1>7. (ops'.panic /\ Raw(d)) \/ (out.wire.status = 0 /\ out.wire.body = <<>>)
  BY Zenon, <1>1, <1>3, <1>4 DEF InwardOK, Pristine, Handling
<1>8. at = Len(Layers(d)) + 1 \/ (at \in DOMAIN Layers(d) /\ Layers(d)[at].type = "cache_read")
  <2>1. ~Handling => at \in 1..Len(Layers(d)) /\ layer = Layers(d)[at]
    BY Zenon, <1>1, InsideAt
  <2>2. QED
    BY Zenon, <1>1, <1>2, <2>1 DEF Handling
<1>9. Recovers(d) => Ahead(d, at - 1, "recoverer")
  BY Zenon, <1>2, <1>8, RecovererAhead
<1>10. PanicOK(d, out, ops', at - 1)
  BY Zenon, <1>3, <1>7, <1>9 DEF PanicOK, InwardOK, Recovers
<1>11. dir' # "in" /\ dir' # "out"
  BY <1>1
<1>12. QED
  BY Zenon, <1>1, <1>3, <1>4, <1>5, <1>6, <1>10, <1>11 DEF WriteInv

\* On the way out the request is at a layer.
LEMMA OutwardAt ==
    ASSUME IInv, dir = "out" \/ dir = "panic", at > 0
    PROVE  /\ at \in Nat \ {0} /\ at \in 1..Len(Layers(d)) /\ d \in Deployments /\ Len(Layers(d)) \in Nat
           /\ DOMAIN Layers(d) = 1..Len(Layers(d))
<1>1. Len(Layers(d)) \in Nat /\ DOMAIN Layers(d) = 1..Len(Layers(d)) /\ d \in Deployments
  BY LayerShape DEF IInv
<1>2. at \in 0..Len(Layers(d))
  BY DEF IInv
<1>3. QED
  BY <1>1, <1>2

Lonely(b, type) ==
    b \in Seq(Chunks) /\ b # <<>> /\ Len(b) = 1 /\ OnlyBy(b, type) /\ By(b, type) /\ Uniform(b)

\* The envelope of a layer on the way out is one chunk of its own.
LEMMA LayerEnvelope ==
    ASSUME IInv, dir = "out" \/ dir = "panic", at > 0, NEW v \in Nat \ {0}, out' = Envelope(out, at, v)
    PROVE  \E b : Sends(out, out', at, v, b) /\ Lonely(b, layer.type) /\ WrittenBy(d, b, at - 1)
<1> DEFINE a == Author(d, at)
           b == <<Chunk(a, "none")>>
<1>1. at \in Nat \ {0} /\ at \in 1..Len(Layers(d)) /\ d \in Deployments /\ DOMAIN Layers(d) = 1..Len(Layers(d))
  BY Zenon, OutwardAt
<1>2. a = layer.type
  BY Zenon, <1>1 DEF Author, layer
<1>3. v # 0
  OBVIOUS
<1>4. Sends(out, out', at, v, b)
  BY Zenon, <1>3, SendsEnvelope
<1>5. b \in Seq(Chunks) /\ DOMAIN b = {1} /\ b[1].by = a /\ Len(b) = 1 /\ b # <<>>
  BY Zenon, <1>1, EnvelopeChunk
<1>6. WrittenBy(d, b, at - 1)
  BY Zenon, <1>1, EnvelopeWritten
<1> HIDE DEF b, a
<1>7. OnlyBy(b, a) /\ By(b, a) /\ Uniform(b)
  BY <1>5 DEF OnlyBy, By, Uniform
<1>8. QED
  BY Zenon, <1>2, <1>4, <1>5, <1>6, <1>7 DEF Lonely

\* RequestTimeout answers only where nothing was written, though a flush may have sent the header.
LEMMA LateAnswer ==
    ASSUME IInv, WriteInv, LeaveTimeout, Late(out)
    PROVE  /\ WriteInv' /\ out.wire.body = <<>> /\ (out.wire.status = 0 \/ ops.flush)
           /\ \E b : Sends(out, out', at, GatewayTimeout, b) /\ Lonely(b, "timeout")
<1> DEFINE v == GatewayTimeout
<1>1. /\ dir = "out" /\ at > 0 /\ layer.type \in {"timeout"} /\ out' = Envelope(out, at, v)
      /\ at' = at - 1 /\ dir' = "out" /\ UNCHANGED <<d, ops>> /\ ~out.ws[at].wrote
  BY Zenon DEF LeaveTimeout, Leaving, Outward, Late, GatewayTimeout
<1>2. layer.type = "timeout" /\ v \in Nat \ {0}
  BY <1>1 DEF GatewayTimeout
<1> HIDE DEF v
<1>3. at \in Nat \ {0} /\ at \in 1..Len(Layers(d)) /\ d \in Deployments
  BY Zenon, <1>1, OutwardAt
<1>4. PICK b : Sends(out, out', at, v, b) /\ Lonely(b, "timeout") /\ WrittenBy(d, b, at - 1)
  BY Zenon, <1>1, <1>2, LayerEnvelope
<1>5. at <= at
  BY <1>3
<1>6. Synced(d, out, ops, at, at) /\ (ops.panic /\ Raw(d) => Passed(d, at, "recoverer"))
  BY Zenon, <1>1, <1>3, <1>5 DEF WriteInv, AllSynced
<1>7. out.wire.body = <<>> /\ (out.wire.status = 0 \/ ops.flush)
  BY Zenon, <1>1, <1>6 DEF Synced
<1>8. ops.panic /\ Raw(d) => Passed(d, at - 1, "recoverer")
  BY Zenon, <1>3, <1>6, StillPassed
<1>9. b \in Seq(Chunks) /\ By(b, "timeout")
  BY Zenon, <1>4 DEF Lonely
<1>10. WriteInv'
  BY Zenon, <1>1, <1>2, <1>3, <1>4, <1>7, <1>8, <1>9, AnswerWrites
<1>11. QED
  BY Zenon, <1>4, <1>7, <1>10 DEF v

\* A layer on its way out keeps its writers true, RequestTimeout by answering itself.
LEMMA LeaveKeepsWritten == ASSUME IInv, WriteInv, Leave PROVE WriteInv'
<1>1. CASE LeaveTimeout /\ Late(out)
  BY Zenon, <1>1, LateAnswer
<1>2. CASE ~(LeaveTimeout /\ Late(out))
  <2>1. dir = "out" /\ at > 0 /\ at' = at - 1 /\ dir' = "out" /\ UNCHANGED <<d, out, ops>>
    BY Zenon, <1>2 DEF Leave, LeaveTransparent, LeaveTimeout, LeaveAccessLog, LeaveTracing, LeaveMetrics,
       LeaveCacheRead, LeaveCacheInvalidate, Leaving, Outward, Observed, requestVars
  <2>2. QED
    BY Zenon, <2>1, LeaveWrites
<1>3. QED
  BY Zenon, <1>1, <1>2

\* Recoverer answers a panic, the others are skipped.
LEMMA RecoverAnswer ==
    ASSUME IInv, WriteInv, Unwind, layer.type = "recoverer"
    PROVE  /\ WriteInv' /\ dir' = "out" /\ ((ops.panic /\ Raw(d)) \/ (out.wire.status = 0 /\ out.wire.body = <<>>))
           /\ OnlyBy(out.wire.body, "handler")
           /\ \E b : Sends(out, out', at, 500, b) /\ Lonely(b, "recoverer")
<1> DEFINE v == 500
<1>1. /\ dir = "panic" /\ at > 0 /\ at' = at - 1 /\ dir' = "out" /\ UNCHANGED <<d, ops>>
      /\ out' = Envelope(out, at, v)
  BY Zenon DEF Unwind
<1>2. v \in Nat \ {0}
  OBVIOUS
<1> HIDE DEF v
<1>3. /\ at \in Nat \ {0} /\ at \in 1..Len(Layers(d)) /\ d \in Deployments
  BY Zenon, <1>1, OutwardAt
<1>4. PICK b : Sends(out, out', at, v, b) /\ Lonely(b, "recoverer") /\ WrittenBy(d, b, at - 1)
  BY Zenon, <1>1, <1>2, LayerEnvelope
<1>5. PanicOK(d, out, ops, at)
  BY Zenon, <1>1 DEF WriteInv
<1>6. /\ (ops.panic /\ Raw(d)) \/ (out.wire.status = 0 /\ out.wire.body = <<>>)
      /\ OnlyBy(out.wire.body, "handler")
  BY Zenon, <1>5 DEF PanicOK
<1>7. Passed(d, at - 1, "recoverer")
  <2>1. Layers(d)[at].type = "recoverer" /\ at \in Nat
    BY <1>3 DEF layer
  <2>2. QED
    BY Zenon, <1>3, <2>1, StillPassed
<1>8. b \in Seq(Chunks)
  BY Zenon, <1>4 DEF Lonely
<1>9. WriteInv'
  BY Zenon, <1>1, <1>2, <1>3, <1>4, <1>6, <1>7, <1>8, AnswerWrites
<1>10. QED
  BY Zenon, <1>1, <1>4, <1>6, <1>9 DEF v

\* Recoverer answers a panic; every other layer is unwound.
LEMMA UnwindKeepsWritten == ASSUME IInv, WriteInv, Unwind PROVE WriteInv'
<1>1. CASE layer.type = "recoverer"
  BY Zenon, <1>1, RecoverAnswer
<1>2. CASE layer.type # "recoverer"
  <2>1. dir = "panic" /\ at > 0 /\ at' = at - 1 /\ dir' = "panic" /\ UNCHANGED <<d, ops, out>>
    BY Zenon, <1>2 DEF Unwind
  <2>2. /\ at \in Nat \ {0} /\ at \in 1..Len(Layers(d)) /\ d \in Deployments /\ DOMAIN Layers(d) = 1..Len(Layers(d))
        /\ Len(Layers(d)) \in Nat
    BY Zenon, <2>1, OutwardAt
  <2>3. /\ Wired(d, out) /\ CachesAt(d, out) /\ (ops.flush => Raw(d)) /\ PanicOK(d, out, ops, at)
        /\ AllSynced(d, out, ops, at) /\ WrittenBy(d, out.wire.body, at)
    BY Zenon, <2>1 DEF WriteInv
  <2>4. AllSynced(d, out, ops, at - 1) /\ WrittenBy(d, out.wire.body, at - 1)
    BY Zenon, <2>2, <2>3, LeavesSynced
  <2>5. \A k \in DOMAIN Layers(d) : k <= at /\ k # at => k <= at - 1
    BY <2>2
  <2>6. Ahead(d, at, "recoverer") => Ahead(d, at - 1, "recoverer")
    BY Zenon, <1>2, <2>5 DEF Ahead, layer
  <2>7. PanicOK(d, out, ops, at - 1)
    BY Zenon, <2>3, <2>6 DEF PanicOK
  <2>8. dir' # "in" /\ dir' # "out"
    BY <2>1
  <2>9. QED
    BY Zenon, <2>1, <2>3, <2>4, <2>7, <2>8 DEF WriteInv
<1>3. QED
  BY Zenon, <1>1, <1>2

\* The server completes the status that nobody wrote.
LEMMA FinishKeepsWritten == ASSUME IInv, WriteInv, Finish PROVE WriteInv'
<1>1. /\ at = 0 /\ at' = 0 /\ dir' = "done" /\ UNCHANGED <<d, ops>>
      /\ out'.wire.status = out.wire.status \/ out'.wire.status = Final(out.wire.status)
      /\ out'.wire.body = out.wire.body /\ out'.ws = out.ws /\ out'.cw = out.cw
  BY DEF Finish, Output, Sent, Final
<1>2. /\ Wired(d, out) /\ CachesAt(d, out) /\ (ops.flush => Raw(d)) /\ WrittenBy(d, out.wire.body, at)
  BY Zenon DEF WriteInv
<1>3. out.wire.status \in Nat => Final(out.wire.status) \in Nat /\ Final(out.wire.status) # 0
  BY DEF Final
<1>4. Wired(d, out') /\ CachesAt(d, out')
  BY Zenon, <1>1, <1>2, <1>3 DEF Wired, CachesAt
<1>5. \A j \in 1..Len(Layers(d)) : ~(j <= 0)
  BY LayerShape DEF IInv
<1>6. AllSynced(d, out', ops, 0)
  BY Zenon, <1>5 DEF AllSynced
<1>7. dir' # "in" /\ dir' # "panic" /\ dir' # "out"
  BY <1>1
<1>8. QED
  BY ZenonT(60), <1>1, <1>2, <1>4, <1>6, <1>7 DEF WriteInv

\* A raw handler that returns leaves what it wrote.
LEMMA RawReturnsWrites == ASSUME IInv, WriteInv, RawReturns PROVE WriteInv' /\ ~ops.panic
<1>1. dir = "in" /\ at' = at - 1 /\ dir' = "out" /\ UNCHANGED <<d, out, ops>>
  BY Zenon DEF RawReturns, AtHandler, Returns, handlerUnchanged
<1>2. at \in Nat /\ d \in Deployments
  <2>1. at \in Nat \ {0} /\ d \in Deployments
    BY Zenon, <1>1, InwardAt
  <2>2. QED
    BY <2>1
<1>3. /\ Wired(d, out) /\ CachesAt(d, out) /\ (ops.flush => Raw(d)) /\ ~ops.panic
      /\ AllSynced(d, out, ops, at) /\ WrittenBy(d, out.wire.body, at)
  BY Zenon, <1>1 DEF WriteInv, InwardOK
<1>4. AllSynced(d, out, ops, at - 1) /\ WrittenBy(d, out.wire.body, at - 1)
  BY Zenon, <1>2, <1>3, LeavesSynced
<1>5. dir' # "in" /\ dir' # "panic"
  BY <1>1
<1>6. QED
  BY Zenon, <1>1, <1>3, <1>4, <1>5 DEF WriteInv

\* A layer that answers does so first.
LEMMA TurningWrites ==
    ASSUME IInv, WriteInv, NEW v, NEW b, Turned(v, b)
    PROVE  WriteInv' /\ Pristine(d, out) /\ ~ops.panic
<1>1. /\ dir = "in" /\ (~Handling \/ ~Raw(d)) /\ at' = at - 1 /\ dir' = "out" /\ UNCHANGED <<d, ops>>
      /\ v \in Nat \ {0} /\ b \in Seq(Chunks) /\ Sends(out, out', at, v, b) /\ WrittenBy(d, b, at - 1)
  BY Zenon DEF Turned, Answer
<1>2. QED
  BY Zenon, <1>1, TurnWrites

\* A layer that passes the request on has sent nothing.
LEMMA PassingWrites == ASSUME IInv, WriteInv, Passing PROVE WriteInv'
<1>1. /\ dir = "in" /\ ~Handling /\ Pass /\ UNCHANGED <<d, ops>>
  BY Zenon DEF Passing
<1>2. /\ out'.wire = out.wire /\ out'.ws = out.ws
      /\ out'.cw.at = out.cw.at \/ (out'.cw.at = at /\ layer.type = "cache_read")
  <2>1. CASE out' = out
    BY Zenon, <2>1
  <2>2. CASE layer.type = "cache_read" /\ \E key : out' = Output(out.wire, out.ws, Caching(at, key, <<>>, FALSE, FALSE), out.cookie)
    <3>1. PICK key : out' = Output(out.wire, out.ws, Caching(at, key, <<>>, FALSE, FALSE), out.cookie)
      BY Zenon, <2>2
    <3>2. out'.wire = out.wire /\ out'.ws = out.ws /\ out'.cw.at = at
      BY <3>1 DEF Output, Caching
    <3>3. QED
      BY Zenon, <2>2, <3>2
  <2>3. QED
    BY Zenon, <2>1, <2>2 DEF Passing
<1>3. QED
  BY Zenon, <1>1, <1>2, PassWrites

\* Every step keeps the writers true to what was sent.
LEMMA NextWriteInv ==
    ASSUME IInv, KeepInv, WriteInv, Stored(d, store), [Next]_vars PROVE WriteInv'
<1>1. CASE Still
  BY Zenon, <1>1 DEF Still, WriteInv
<1>2. CASE Turning
  BY Zenon, <1>2, TurningWrites DEF Turning
<1>3. CASE RawOp
  BY Zenon, <1>3, RawOpIs, RawOpWrites
<1>4. QED
  BY Zenon, <1>1, <1>2, <1>3, Kinds, ArriveWrites, PassingWrites, FallWrites, RawReturnsWrites, LeaveKeepsWritten,
     UnwindKeepsWritten, FinishKeepsWritten

-----------------------------------------------------------------------------
(* One answer, and what is cached of it. *)

\* Behind a CacheRead there are only policies.
LEMMA NoGlobalPassed ==
    ASSUME NEW x \in Deployments, NEW i \in 1..Len(Layers(x)), Layers(x)[i].type = "cache_read",
           NEW type, Passed(x, i, type)
    PROVE  type \in PolicyTypes /\ type # "recoverer" /\ type # "timeout"
<1>1. Len(Layers(x)) \in Nat /\ DOMAIN Layers(x) = 1..Len(Layers(x)) /\ \A k \in 1..Len(Layers(x)) : Layers(x)[k] \in Global \cup Policy
  BY LayerShape
<1>2. PICK k \in DOMAIN Layers(x) : k > i /\ Layers(x)[k].type = type
  BY Zenon DEF Passed
<1>3. k \in 1..Len(Layers(x)) /\ Layers(x)[k] \in Global \cup Policy /\ ~(k < i)
  BY <1>1, <1>2
<1>4. Layers(x)[k] \notin Global
  <2> SUFFICES ASSUME Layers(x)[k] \in Global PROVE FALSE
    OBVIOUS
  <2>1. Layers(x)[k].type \in GlobalTypes
    BY DEF Global, Plain
  <2>2. Rank(Layers(x)[k].type) < Rank(Layers(x)[i].type)
    BY <2>1 DEF Rank, GlobalTypes
  <2>3. QED
    BY Zenon, <1>3, <2>2, LayerOrder
<1>5. type \in PolicyTypes
  BY <1>2, <1>3, <1>4 DEF Policy
<1>6. QED
  BY <1>5 DEF PolicyTypes

\* What a caching writer captured is what was sent, also after one more answer.
LEMMA CapturesSends ==
    ASSUME NEW x \in Deployments, NEW o, NEW q, NEW i \in Nat, NEW v, v = "in" \/ v = "out", NEW w, NEW s, NEW b,
           Captures(o, v, i), CachesAt(x, o), Sends(o, q, i, s, b)
    PROVE  Captures(q, w, i - 1)
<1> SUFFICES ASSUME q.cw.at # 0, q.cw.at <= i - 1, ~q.cw.large PROVE q.cw.body = q.wire.body
  BY Zenon DEF Captures
<1>1. /\ q.cw.at = o.cw.at /\ q.wire.body = o.wire.body \o b
      /\ o.cw.at \in 1..(i - 1) /\ ~q.cw.large => ~o.cw.large /\ q.cw.body = o.cw.body \o b
  BY Zenon DEF Sends
<1>2. o.cw.at # 0 /\ o.cw.at \in 1..Len(Layers(x)) /\ o.cw.at <= i - 1
  BY Zenon, <1>1 DEF CachesAt
<1>3. o.cw.at \in 1..(i - 1) /\ o.cw.at <= i
  BY <1>2, LayerShape
<1>4. v \in {"in", "out"}
  OBVIOUS
<1>5. o.cw.body = o.wire.body
  BY Zenon, <1>1, <1>2, <1>3, <1>4 DEF Captures
<1>6. QED
  BY Zenon, <1>1, <1>3, <1>5

\* Nothing is sent yet, or only by the handler.
LEMMA SingleInside ==
    ASSUME NEW x, NEW o, NEW p, NEW i, OnlyBy(o.wire.body, "handler")
    PROVE  Single(x, o, p, i)
<1>1. "handler" # "timeout"
  OBVIOUS
<1>2. QED
  BY Zenon, <1>1 DEF Single, OnlyBy, Uniform, By

\* There was no answer before the first request.
LEMMA InitAnswerInv == Init => AnswerInv
<1> SUFFICES ASSUME Init PROVE AnswerInv
  OBVIOUS
<1>1. d \in Deployments /\ out = Fresh(d) /\ dir = "done" /\ req = NoRequest /\ store = <<>> /\ stored = NoKey
  BY Zenon DEF Init
<1>2. Pristine(d, out) /\ out.cw.at = 0
  BY Zenon, <1>1, FreshWritten
<1>3. OnlyBy(out.wire.body, "handler")
  BY Zenon, <1>2, NoChunk DEF Pristine
<1>4. dir # "out" /\ DOMAIN store = {}
  BY <1>1
<1>5. QED
  BY Zenon, <1>1, <1>2, <1>3, <1>4, SingleInside DEF AnswerInv, Back, Captures, Stored, AsSent

\* A new request has no answer yet, and the store is as it was.
LEMMA ArriveAnswers == ASSUME IInv, AnswerInv, Arrive PROVE AnswerInv'
<1>1. d \in Deployments /\ UNCHANGED <<d, store>> /\ out' = Fresh(d) /\ dir' = "in" /\ stored' = NoKey
  BY Zenon DEF Arrive, IInv
<1>2. Pristine(d, out') /\ out'.cw.at = 0
  BY Zenon, <1>1, FreshWritten
<1>3. OnlyBy(out'.wire.body, "handler")
  BY Zenon, <1>2, NoChunk DEF Pristine
<1>4. Single(d, out', ops', at')
  BY Zenon, <1>3, SingleInside
<1>5. dir' # "out" /\ dir' # "done"
  BY <1>1
<1>6. QED
  BY Zenon, <1>1, <1>2, <1>4, <1>5 DEF AnswerInv, Back, Captures, AsSent

\* A layer that passes the request on answers nothing; CacheRead starts to capture.
LEMMA PassingAnswers == ASSUME IInv, WriteInv, AnswerInv, Passing PROVE AnswerInv'
<1>1. /\ dir = "in" /\ ~Handling /\ at' = at + 1 /\ dir' = "in" /\ UNCHANGED <<d, store, stored>>
      /\ \/ out' = out
         \/ \E key : out' = Output(out.wire, out.ws, Caching(at, key, <<>>, FALSE, FALSE), out.cookie)
  BY Zenon DEF Passing, Pass
<1>2. InwardOK(d, out, ops, at) /\ CachesAt(d, out) /\ Captures(out, dir, at) /\ stored = NoKey /\ Stored(d, store)
  BY Zenon, <1>1 DEF WriteInv, AnswerInv
<1>3. Pristine(d, out)
  BY Zenon, <1>1, <1>2 DEF InwardOK, Handling
<1>4. out.wire.body = <<>>
  BY Zenon, <1>3 DEF Pristine
<1>5. dir \in {"in", "out"} /\ dir' # "out" /\ dir' # "done"
  BY <1>1
<1>6. out.cw.at # 0 => out.cw.at <= at
  <2>1. out.cw.at # 0 => out.cw.at \in 1..Len(Layers(d)) /\ out.cw.at < at
    BY Zenon, <1>2 DEF InwardOK, CachesAt
  <2>2. at \in Nat \ {0} /\ Len(Layers(d)) \in Nat
    BY Zenon, <1>1, InwardAt
  <2>3. QED
    BY <2>1, <2>2
<1>7. out'.wire.body = <<>> /\ (out'.cw.at # 0 /\ ~out'.cw.large => out'.cw.body = <<>>)
  <2>1. CASE out' = out
    BY Zenon, <1>2, <1>4, <1>5, <1>6, <2>1 DEF Captures
  <2>2. CASE \E key : out' = Output(out.wire, out.ws, Caching(at, key, <<>>, FALSE, FALSE), out.cookie)
    BY <1>4, <2>2 DEF Output, Caching
  <2>3. QED
    BY Zenon, <1>1, <2>1, <2>2
<1>8. Captures(out', dir', at')
  BY Zenon, <1>7 DEF Captures
<1>9. Single(d, out', ops', at')
  BY Zenon, <1>7, NoChunk, SingleInside
<1>10. QED
  BY Zenon, <1>1, <1>2, <1>5, <1>8, <1>9 DEF AnswerInv, Back, AsSent

\* A layer that answers is the only one that wrote.
LEMMA TurningAnswers ==
    ASSUME IInv, WriteInv, AnswerInv, NEW v, NEW b, Turned(v, b), UNCHANGED <<store, stored>>
    PROVE  AnswerInv'
<1>1. /\ dir = "in" /\ at' = at - 1 /\ dir' = "out" /\ UNCHANGED <<d, ops>>
      /\ v \in Nat \ {0} /\ b \in Seq(Chunks) /\ Sends(out, out', at, v, b)
      /\ Uniform(b) /\ ~By(b, "timeout") /\ (Adapts(d) => Whole(v, b))
  BY Zenon DEF Turned, Answer
<1>2. Pristine(d, out)
  BY Zenon, TurningWrites
<1>3. out'.wire.body = b /\ out'.wire.status = v
  <2>1. out.wire.body = <<>> /\ out.wire.status = 0
    BY Zenon, <1>2 DEF Pristine
  <2>2. out'.wire.body = out.wire.body \o b /\ out'.wire.status = IF out.wire.status = 0 THEN v ELSE out.wire.status
    BY Zenon, <1>1 DEF Sends
  <2>3. <<>> \o b = b
    BY <1>1
  <2>4. QED
    BY Zenon, <2>1, <2>2, <2>3
<1>4. CachesAt(d, out) /\ Captures(out, dir, at) /\ stored = NoKey /\ Stored(d, store)
  BY Zenon, <1>1 DEF WriteInv, AnswerInv
<1>5. at \in Nat /\ d \in Deployments
  <2>1. at \in Nat \ {0} /\ d \in Deployments
    BY Zenon, <1>1, InwardAt
  <2>2. QED
    BY <2>1
<1>6. Captures(out', dir', at - 1)
  BY Zenon, <1>1, <1>4, <1>5, CapturesSends
<1>7. Single(d, out', ops, at - 1)
  BY Zenon, <1>1, <1>3 DEF Single
<1>8. QED
  BY Zenon, <1>1, <1>3, <1>4, <1>6, <1>7 DEF AnswerInv, AsSent

\* A panic adds nothing to the answer.
LEMMA FallAnswers == ASSUME IInv, WriteInv, AnswerInv, Falling PROVE AnswerInv'
<1>1. dir = "in" /\ dir' = "panic" /\ UNCHANGED <<d, out, store, stored>>
  BY Zenon DEF Falling, Panics
<1>2. OnlyBy(out.wire.body, "handler") /\ stored = NoKey /\ Stored(d, store)
  BY Zenon, <1>1 DEF WriteInv, InwardOK, AnswerInv
<1>3. dir' # "out" /\ dir' # "done" /\ dir' \notin {"in", "out"}
  BY <1>1
<1>4. Single(d, out, ops', at')
  BY Zenon, <1>2, SingleInside
<1>5. QED
  BY Zenon, <1>1, <1>2, <1>3, <1>4 DEF AnswerInv, Back, Captures, AsSent

\* All that a raw handler writes has one author.
LEMMA RawOpAnswers == ASSUME IInv, KeepInv, WriteInv, AnswerInv, RawOp PROVE AnswerInv'
<1>1. /\ dir = "in" /\ Handling /\ Raw(d) /\ RawOps(out, ops, out', ops', at)
      /\ UNCHANGED <<d, at, dir, store, stored>>
  BY Zenon, RawOpIs
<1>2. WriteInv'
  BY Zenon, <1>1, RawOpWrites
<1>3. OnlyBy(out'.wire.body, "handler")
  BY Zenon, <1>1, <1>2 DEF WriteInv, InwardOK
<1>4. CachesAt(d, out) /\ InwardOK(d, out, ops, at) /\ Captures(out, dir, at) /\ stored = NoKey /\ Stored(d, store)
  BY Zenon, <1>1 DEF WriteInv, AnswerInv
<1>5. out.cw.at # 0 => out.cw.at \in 1..(at - 1) /\ out.cw.at <= at
  <2>1. out.cw.at # 0 => out.cw.at \in 1..Len(Layers(d)) /\ out.cw.at < at
    BY Zenon, <1>4 DEF InwardOK, CachesAt
  <2>2. at \in Nat \ {0} /\ Len(Layers(d)) \in Nat
    BY Zenon, <1>1, InwardAt
  <2>3. QED
    BY <2>1, <2>2
<1>6. dir \in {"in", "out"} /\ dir # "out" /\ dir # "done"
  BY <1>1
<1>7. out'.cw.at # 0 /\ ~out'.cw.large => out'.cw.body = out'.wire.body
  BY Zenon, <1>1, <1>4, <1>5, <1>6 DEF RawOps, Captures
<1>8. Captures(out', dir, at)
  BY Zenon, <1>7 DEF Captures
<1>9. Single(d, out', ops', at)
  BY Zenon, <1>3, SingleInside
<1>10. QED
  BY Zenon, <1>1, <1>4, <1>6, <1>8, <1>9 DEF AnswerInv, Back, AsSent

\* What was one answer stays one answer while the request goes out.
LEMMA QuietAnswers ==
    ASSUME NEW x \in Deployments, NEW o, NEW p, NEW i \in Nat, NEW v
    PROVE  /\ Single(x, o, p, i) => Single(x, o, p, i - 1)
           /\ CachesAt(x, o) /\ Captures(o, "in", i) => Captures(o, v, i - 1)
           /\ CachesAt(x, o) /\ Captures(o, "out", i) => Captures(o, v, i - 1)
<1>1. Passed(x, i, "recoverer") => Passed(x, i - 1, "recoverer")
  BY Zenon, StillPassed
<1>2. Single(x, o, p, i) => Single(x, o, p, i - 1)
  BY Zenon, <1>1 DEF Single
<1>3. CachesAt(x, o) /\ o.cw.at # 0 /\ o.cw.at <= i - 1 => o.cw.at <= i
  <2>1. CachesAt(x, o) /\ o.cw.at # 0 => o.cw.at \in 1..Len(Layers(x))
    BY Zenon DEF CachesAt
  <2>2. QED
    BY <2>1, LayerShape
<1>4. "in" \in {"in", "out"} /\ "out" \in {"in", "out"}
  OBVIOUS
<1>5. QED
  BY Zenon, <1>2, <1>3, <1>4 DEF Captures

\* A raw handler that returns has written alone.
LEMMA RawReturnsAnswers == ASSUME IInv, WriteInv, AnswerInv, RawReturns PROVE AnswerInv'
<1>1. dir = "in" /\ at' = at - 1 /\ dir' = "out" /\ UNCHANGED <<d, out, ops, store, stored>> /\ d.route.handler = "raw"
  BY Zenon DEF RawReturns, AtHandler, Returns, handlerUnchanged
<1>2. at \in Nat /\ d \in Deployments
  <2>1. at \in Nat \ {0} /\ d \in Deployments
    BY Zenon, <1>1, InwardAt
  <2>2. QED
    BY <2>1
<1>3. ~Adapts(d)
  BY <1>1 DEF Adapts
<1>4. Single(d, out, ops, at) /\ CachesAt(d, out) /\ Captures(out, "in", at) /\ stored = NoKey /\ Stored(d, store)
  BY Zenon, <1>1 DEF WriteInv, AnswerInv
<1>5. Single(d, out, ops, at - 1) /\ Captures(out, "out", at - 1)
  BY Zenon, <1>2, <1>4, QuietAnswers
<1>6. dir' # "in" /\ dir' # "panic"
  BY <1>1
<1>7. QED
  BY Zenon, <1>1, <1>3, <1>4, <1>5, <1>6 DEF AnswerInv, AsSent

\* A layer on its way out that neither answers nor stores.
LEMMA LeaveAnswers ==
    ASSUME IInv, WriteInv, AnswerInv, dir = "out", at > 0, at' = at - 1, dir' = "out", UNCHANGED <<d, out, ops, store, stored>>
    PROVE  AnswerInv'
<1>1. at \in Nat /\ d \in Deployments
  <2>1. at \in Nat \ {0} /\ d \in Deployments
    BY Zenon, OutwardAt
  <2>2. QED
    BY <2>1
<1>2. /\ Single(d, out, ops, at) /\ CachesAt(d, out) /\ Captures(out, "out", at) /\ Stored(d, store)
      /\ Adapts(d) => Whole(out.wire.status, out.wire.body)
      /\ AsSent(store, stored, out)
  BY Zenon DEF WriteInv, AnswerInv, Back
<1>3. Single(d, out, ops, at - 1) /\ Captures(out, "out", at - 1)
  BY Zenon, <1>1, <1>2, QuietAnswers
<1>4. dir' # "in" /\ dir' # "panic"
  OBVIOUS
<1>5. QED
  BY Zenon, <1>2, <1>3, <1>4 DEF AnswerInv

\* RequestTimeout answers only what nobody answered.
LEMMA LateAnswers == ASSUME IInv, WriteInv, AnswerInv, LeaveTimeout, Late(out) PROVE AnswerInv'
<1>1. dir = "out" /\ at > 0 /\ at' = at - 1 /\ dir' = "out" /\ UNCHANGED <<d, ops, store, stored>>
  BY Zenon DEF LeaveTimeout, Leaving, Outward
<1>2. at \in Nat /\ d \in Deployments
  <2>1. at \in Nat \ {0} /\ d \in Deployments
    BY Zenon, <1>1, OutwardAt
  <2>2. QED
    BY <2>1
<1>3. out.wire.body = <<>> /\ (out.wire.status = 0 \/ ops.flush)
  BY Zenon, LateAnswer
<1> DEFINE v == GatewayTimeout
<1>4. v # 0 /\ 0 \notin Bodiless /\ "raw" # "adapter"
  BY DEF GatewayTimeout, Bodiless
<1>5. PICK b : Sends(out, out', at, v, b) /\ Lonely(b, "timeout")
  BY Zenon, LateAnswer
<1> HIDE DEF v
<1>6. /\ out'.wire.status = IF out.wire.status = 0 THEN v ELSE out.wire.status
      /\ out'.wire.body = out.wire.body \o b /\ out'.cookie = out.cookie
  BY Zenon, <1>5 DEF Sends
<1>7. b \in Seq(Chunks) /\ b # <<>> /\ Uniform(b) /\ OnlyBy(b, "timeout")
  BY Zenon, <1>5 DEF Lonely
<1>8. out'.wire.body = b
  <2>1. <<>> \o b = b
    BY <1>7
  <2>2. QED
    BY Zenon, <1>3, <1>6, <2>1
<1>9. /\ CachesAt(d, out) /\ Captures(out, "out", at) /\ Stored(d, store)
      /\ Adapts(d) => Whole(out.wire.status, out.wire.body)
      /\ AsSent(store, stored, out) /\ (ops.flush => Raw(d))
  BY Zenon, <1>1 DEF WriteInv, AnswerInv, Back
<1>10. ~Adapts(d)
  <2>1. Len(<<>>) # 1
    OBVIOUS
  <2>2. Adapts(d) => out.wire.status \in Bodiless
    BY Zenon, <1>3, <1>9, <2>1 DEF Whole
  <2>3. QED
    BY Zenon, <1>3, <1>4, <1>9, <2>2 DEF Raw, Adapts
<1>11. Captures(out', "out", at - 1)
  BY Zenon, <1>2, <1>5, <1>9, CapturesSends
<1>12. Single(d, out', ops, at - 1)
  <2>1. out'.wire.status = GatewayTimeout \/ ops.flush
    BY Zenon, <1>3, <1>6 DEF v
  <2>2. QED
    BY Zenon, <1>7, <1>8, <2>1 DEF Single
<1>13. AsSent(store, stored, out')
  BY Zenon, <1>3, <1>6, <1>7, <1>8, <1>9 DEF AsSent
<1>14. dir' # "in" /\ dir' # "panic"
  BY <1>1
<1>15. QED
  BY Zenon, <1>1, <1>9, <1>10, <1>11, <1>12, <1>13, <1>14 DEF AnswerInv

\* What CacheRead stores is the whole answer, and a success.
LEMMA StoringAnswers ==
    ASSUME IInv, WriteInv, AnswerInv, LeaveCacheRead, Cacheable
    PROVE  /\ out.cw.body = out.wire.body /\ Final(out.wire.status) = 200 /\ out.ws[at].status = 200 /\ ~out.cookie
           /\ Storable(d, out.cw.body)
<1>1. dir = "out" /\ at > 0 /\ layer.type \in {"cache_read"} /\ out.cw.at = at /\ ~out.cw.large
  BY Zenon DEF LeaveCacheRead, Leaving, Cacheable
<1>2. out.ws[at].status = 200 /\ ~out.cookie
  BY Zenon DEF Cacheable
<1>3. at \in Nat \ {0} /\ at \in 1..Len(Layers(d)) /\ d \in Deployments
  BY Zenon, <1>1, OutwardAt
<1>4. Layers(d)[at].type = "cache_read" /\ out.cw.at # 0 /\ out.cw.at <= at /\ at <= at /\ dir \in {"in", "out"}
  BY <1>1, <1>3 DEF layer
<1>5. /\ Captures(out, dir, at) /\ Single(d, out, ops, at) /\ WrittenBy(d, out.wire.body, at) /\ AllSynced(d, out, ops, at)
      /\ out.wire.body \in Seq(Chunks) /\ (Adapts(d) => Whole(out.wire.status, out.wire.body))
  BY Zenon, <1>1 DEF WriteInv, AnswerInv, Wired, Back
<1>6. out.cw.body = out.wire.body
  BY Zenon, <1>1, <1>4, <1>5 DEF Captures
<1>7. ~Passed(d, at, "recoverer") /\ \A type : Passed(d, at, type) => type \in PolicyTypes
  BY Zenon, <1>3, <1>4, NoGlobalPassed
<1>8. Uniform(out.wire.body)
  BY Zenon, <1>5, <1>7 DEF Single
<1>9. \A m \in DOMAIN out.wire.body : out.wire.body[m].by \in PolicyTypes \cup {"handler"}
  <2> TAKE m \in DOMAIN out.wire.body
  <2>1. out.wire.body[m].by \in PolicyTypes \cup {"handler"} \/ Passed(d, at, out.wire.body[m].by)
    BY Zenon, <1>5 DEF WrittenBy
  <2>2. Passed(d, at, out.wire.body[m].by) => out.wire.body[m].by \in PolicyTypes
    BY Zenon, <1>7
  <2>3. QED
    BY Zenon, <2>1, <2>2
<1>10. ~By(out.wire.body, "timeout")
  <2>1. "timeout" \notin PolicyTypes \cup {"handler"}
    BY DEF PolicyTypes
  <2>2. QED
    BY Zenon, <1>9, <2>1 DEF By
<1>11. out.ws[at].status = Final(out.wire.status)
  <2>1. Synced(d, out, ops, at, at)
    BY Zenon, <1>3, <1>4, <1>5 DEF AllSynced
  <2>2. QED
    BY Zenon, <1>7, <1>10, <2>1 DEF Synced
<1>12. Final(out.wire.status) = 200
  BY Zenon, <1>2, <1>11
<1>13. Storable(d, out.wire.body)
  BY Zenon, <1>5, <1>8, <1>9 DEF Storable, Whole
<1>14. Storable(d, out.cw.body)
  BY Zenon, <1>6, <1>13
<1>15. QED
  BY Zenon, <1>2, <1>6, <1>12, <1>14

\* CacheRead stores what was sent, once, and only an answer of status 200.
LEMMA CacheReadAnswers == ASSUME IInv, WriteInv, AnswerInv, LeaveCacheRead PROVE AnswerInv'
<1>1. dir = "out" /\ at > 0 /\ at' = at - 1 /\ dir' = "out" /\ UNCHANGED <<d, out, ops>>
  BY Zenon DEF LeaveCacheRead, Leaving, Outward
<1>2. CASE UNCHANGED <<store, stored>>
  BY Zenon, <1>1, <1>2, LeaveAnswers
<1> DEFINE entry == [status |-> out.ws[at].status, body |-> out.cw.body]
<1>3. CASE /\ Cacheable /\ stored' = out.cw.key
           /\ store' = [k \in DOMAIN store \cup {out.cw.key} |-> IF k = out.cw.key THEN entry ELSE store[k]]
  <2>1. /\ out.cw.body = out.wire.body /\ Final(out.wire.status) = 200 /\ out.ws[at].status = 200 /\ ~out.cookie
        /\ Storable(d, out.cw.body)
    BY Zenon, <1>3, StoringAnswers
  <2>2. entry.status = 200 /\ entry.body = out.cw.body
    BY <2>1
  <2> HIDE DEF entry
  <2>3. /\ out.cw.key \in DOMAIN store' /\ store'[out.cw.key] = entry
        /\ \A k \in DOMAIN store' : store'[k] = entry \/ (k \in DOMAIN store /\ store'[k] = store[k])
    BY Zenon, <1>3
  <2>4. at \in Nat /\ d \in Deployments
    <3>1. at \in Nat \ {0} /\ d \in Deployments
      BY Zenon, <1>1, OutwardAt
    <3>2. QED
      BY <3>1
  <2>5. /\ Single(d, out, ops, at) /\ CachesAt(d, out) /\ Captures(out, "out", at) /\ Stored(d, store)
        /\ Adapts(d) => Whole(out.wire.status, out.wire.body)
    BY Zenon, <1>1 DEF WriteInv, AnswerInv, Back
  <2>6. Single(d, out, ops, at - 1) /\ Captures(out, "out", at - 1)
    BY Zenon, <2>4, <2>5, QuietAnswers
  <2>7. Stored(d, store')
    <3> SUFFICES ASSUME NEW k \in DOMAIN store' PROVE store'[k].status = 200 /\ Storable(d, store'[k].body)
      BY Zenon DEF Stored
    <3>1. CASE store'[k] = entry
      BY Zenon, <2>1, <2>2, <3>1
    <3>2. CASE k \in DOMAIN store /\ store'[k] = store[k]
      <4>1. store[k].status = 200 /\ Storable(d, store[k].body)
        BY Zenon, <2>5, <3>2 DEF Stored
      <4>2. QED
        BY Zenon, <3>2, <4>1
    <3>3. QED
      BY Zenon, <2>3, <3>1, <3>2
  <2>8. AsSent(store', out.cw.key, out)
    BY Zenon, <2>1, <2>2, <2>3 DEF AsSent
  <2>9. dir' # "in" /\ dir' # "panic"
    BY <1>1
  <2>10. QED
    BY Zenon, <1>1, <1>3, <2>5, <2>6, <2>7, <2>8, <2>9 DEF AnswerInv
<1>4. QED
  BY Zenon, <1>2, <1>3 DEF LeaveCacheRead

\* Recoverer answers what nobody answered, or writes after the raw handler that panicked.
LEMMA RecoverAnswers == ASSUME IInv, WriteInv, AnswerInv, Unwind, layer.type = "recoverer" PROVE AnswerInv'
<1>1. dir = "panic" /\ at > 0 /\ at' = at - 1 /\ dir' = "out" /\ UNCHANGED <<d, ops, store, stored>>
  BY Zenon DEF Unwind
<1>2. /\ at \in Nat \ {0} /\ at \in 1..Len(Layers(d)) /\ d \in Deployments /\ Len(Layers(d)) \in Nat
  BY Zenon, <1>1, OutwardAt
<1>3. (ops.panic /\ Raw(d)) \/ (out.wire.status = 0 /\ out.wire.body = <<>>)
  BY Zenon, RecoverAnswer
<1>4. OnlyBy(out.wire.body, "handler")
  BY Zenon, RecoverAnswer
<1> DEFINE v == 500
<1>5. PICK b : Sends(out, out', at, v, b) /\ Lonely(b, "recoverer")
  BY Zenon, RecoverAnswer
<1> HIDE DEF v
<1>6. /\ out'.wire.body = out.wire.body \o b /\ out'.cw.at = out.cw.at
  BY Zenon, <1>5 DEF Sends
<1>7. b \in Seq(Chunks) /\ b # <<>> /\ Len(b) = 1 /\ Uniform(b) /\ OnlyBy(b, "recoverer")
  BY Zenon, <1>5 DEF Lonely
<1>8. out.wire.body = <<>> => out'.wire.body = b
  <2>1. <<>> \o b = b
    BY <1>7
  <2>2. QED
    BY Zenon, <1>6, <2>1
<1>9. stored = NoKey /\ Stored(d, store) /\ CachesAt(d, out) /\ out.wire.body \in Seq(Chunks)
  BY Zenon, <1>1 DEF AnswerInv, WriteInv, Wired
<1>10. Adapts(d) => Whole(out'.wire.status, out'.wire.body)
  <2>1. "raw" # "adapter"
    OBVIOUS
  <2>2. QED
    BY Zenon, <1>3, <1>7, <1>8, <2>1 DEF Adapts, Raw, Whole
<1>11. Passed(d, at - 1, "recoverer")
  <2>1. Layers(d)[at].type = "recoverer" /\ at \in Nat
    BY <1>2 DEF layer
  <2>2. QED
    BY Zenon, <1>2, <2>1, StillPassed
<1>12. ~By(out'.wire.body, "timeout")
  <2>1. Made(out'.wire.body, out.wire.body, b)
    BY Zenon, <1>6, <1>7, <1>9, Elements
  <2>2. "handler" # "timeout" /\ "recoverer" # "timeout"
    OBVIOUS
  <2>3. QED
    BY Zenon, <1>4, <1>7, <2>1, <2>2 DEF Made, By, OnlyBy
<1>13. Single(d, out', ops, at - 1)
  BY Zenon, <1>3, <1>7, <1>8, <1>11, <1>12 DEF Single
<1>14. Captures(out', "out", at - 1)
  <2> SUFFICES ASSUME out.cw.at # 0, out.cw.at <= at - 1 PROVE FALSE
    BY Zenon, <1>6 DEF Captures
  <2>1. out.cw.at \in 1..Len(Layers(d)) /\ Layers(d)[out.cw.at].type = "cache_read"
    BY Zenon, <1>9 DEF CachesAt
  <2>2. Rank("recoverer") < Rank("cache_read")
    BY DEF Rank
  <2>3. Rank(Layers(d)[at].type) < Rank(Layers(d)[out.cw.at].type)
    BY Zenon, <2>1, <2>2 DEF layer
  <2>4. at < out.cw.at
    BY Zenon, <1>2, <2>1, <2>3, LayerOrder
  <2>5. QED
    BY <1>2, <2>1, <2>4
<1>15. dir' # "in" /\ dir' # "panic"
  BY <1>1
<1>16. QED
  BY Zenon, <1>1, <1>9, <1>10, <1>13, <1>14, <1>15 DEF AnswerInv, AsSent

\* Unwinding a panic keeps to one answer.
LEMMA UnwindAnswers == ASSUME IInv, WriteInv, AnswerInv, Unwind PROVE AnswerInv'
<1>1. CASE layer.type = "recoverer"
  BY Zenon, <1>1, RecoverAnswers
<1>2. CASE layer.type # "recoverer"
  <2>1. dir = "panic" /\ at > 0 /\ at' = at - 1 /\ dir' = "panic" /\ UNCHANGED <<d, ops, out, store, stored>>
    BY Zenon, <1>2 DEF Unwind
  <2>2. Stored(d, store) /\ stored = NoKey /\ OnlyBy(out.wire.body, "handler")
    BY Zenon, <2>1 DEF AnswerInv, WriteInv, PanicOK
  <2>3. Single(d, out, ops, at - 1)
    BY Zenon, <2>2, SingleInside
  <2>4. dir' # "out" /\ dir' # "done" /\ dir' \notin {"in", "out"}
    BY <2>1
  <2>5. QED
    BY Zenon, <2>1, <2>2, <2>3, <2>4 DEF AnswerInv, Back, Captures, AsSent
<1>3. QED
  BY Zenon, <1>1, <1>2

\* A panic does not get past Recoverer.
LEMMA PanicRecovered == ASSUME IInv, WriteInv, dir = "panic", at = 0 PROVE ~Recovers(d)
<1> SUFFICES ASSUME Recovers(d) PROVE FALSE
  OBVIOUS
<1>1. PanicOK(d, out, ops, 0)
  BY Zenon DEF WriteInv
<1>2. Ahead(d, 0, "recoverer")
  BY Zenon, <1>1 DEF PanicOK, Recovers
<1>3. \A k \in DOMAIN Layers(d) : ~(k <= 0)
  <2>1. Len(Layers(d)) \in Nat /\ DOMAIN Layers(d) = 1..Len(Layers(d))
    BY LayerShape DEF IInv
  <2>2. QED
    BY <2>1
<1>4. QED
  BY Zenon, <1>2, <1>3 DEF Ahead

\* Completing the status keeps to one answer.
LEMMA FinishAnswers == ASSUME IInv, WriteInv, AnswerInv, Finish PROVE AnswerInv'
<1>1. /\ at = 0 /\ at' = at /\ dir' = "done" /\ UNCHANGED <<d, ops, req, store, stored>> /\ (dir = "out" \/ dir = "panic")
      /\ out'.wire.body = out.wire.body /\ out'.cookie = out.cookie
      /\ out'.wire.status = out.wire.status \/ out'.wire.status = Final(out.wire.status)
  BY DEF Finish, Output, Sent, Final
<1>2. /\ Single(d, out, ops, at) /\ Stored(d, store) /\ AsSent(store, stored, out)
      /\ Adapts(d) /\ Back(d, dir, req) => Whole(out.wire.status, out.wire.body)
  BY Zenon DEF AnswerInv
<1>3. /\ Final(out'.wire.status) = Final(out.wire.status)
      /\ out.wire.status = GatewayTimeout => out'.wire.status = GatewayTimeout
      /\ out.wire.status \in Bodiless => out'.wire.status = out.wire.status
  <2>1. out.wire.status \in Nat
    BY Zenon DEF WriteInv, Wired
  <2>2. out'.wire.status = out.wire.status \/ out'.wire.status = Final(out.wire.status)
    BY Zenon, <1>1
  <2>3. QED
    BY <2>1, <2>2 DEF Final, Bodiless, GatewayTimeout
<1>4. Single(d, out', ops, at)
  BY Zenon, <1>1, <1>2, <1>3 DEF Single
<1>5. AsSent(store, stored, out')
  <2>1. /\ out'.wire.body = out.wire.body /\ out'.cookie = out.cookie
        /\ Final(out'.wire.status) = Final(out.wire.status)
    BY Zenon, <1>1, <1>3
  <2>2. AsSent(store, stored, out)
    BY Zenon, <1>2
  <2>3. QED
    BY Zenon, <2>1, <2>2 DEF AsSent
<1>6. Back(d, "done", req) => Back(d, dir, req)
  <2>1. "done" # "out"
    OBVIOUS
  <2>2. QED
    BY Zenon, <1>1, <2>1, PanicRecovered DEF Back
<1>7. Adapts(d) /\ Back(d, "done", req) => Whole(out'.wire.status, out'.wire.body)
  <2>1. Whole(out.wire.status, out.wire.body) => Whole(out'.wire.status, out'.wire.body)
    BY Zenon, <1>1, <1>3 DEF Whole
  <2>2. Back(d, "done", req) /\ Adapts(d) => Whole(out.wire.status, out.wire.body)
    BY Zenon, <1>2, <1>6
  <2>3. QED
    BY Zenon, <1>3, <2>1, <2>2
<1>8. dir' # "in" /\ dir' # "panic" /\ dir' \notin {"in", "out"}
  BY <1>1
<1>9. Captures(out', dir', at')
  BY Zenon, <1>8 DEF Captures
<1>10. QED
  BY ZenonT(60), <1>1, <1>2, <1>4, <1>5, <1>7, <1>8, <1>9 DEF AnswerInv

\* A layer on its way out keeps to one answer.
LEMMA LeavingAnswers == ASSUME IInv, WriteInv, AnswerInv, Leave PROVE AnswerInv'
<1>1. CASE LeaveTimeout /\ Late(out)
  BY Zenon, <1>1, LateAnswers
<1>2. CASE LeaveCacheRead
  BY Zenon, <1>2, CacheReadAnswers
<1>3. CASE ~LeaveCacheRead /\ ~(LeaveTimeout /\ Late(out))
  <2>1. dir = "out" /\ at > 0 /\ at' = at - 1 /\ dir' = "out" /\ UNCHANGED <<d, out, ops, store, stored>>
    BY Zenon, <1>3 DEF Leave, LeaveTransparent, LeaveTimeout, LeaveAccessLog, LeaveTracing, LeaveMetrics,
       LeaveCacheInvalidate, Leaving, Outward, Observed, requestVars
  <2>2. QED
    BY Zenon, <2>1, LeaveAnswers
<1>4. QED
  BY Zenon, <1>1, <1>2, <1>3

\* Every step keeps to one answer.
LEMMA NextAnswerInv == ASSUME IInv, KeepInv, WriteInv, AnswerInv, [Next]_vars PROVE AnswerInv'
<1>0. Stored(d, store)
  BY Zenon DEF AnswerInv
<1>1. CASE Still
  BY Zenon, <1>1 DEF Still, AnswerInv
<1>2. CASE Turning
  BY Zenon, <1>2, TurningAnswers DEF Turning
<1>3. QED
  BY Zenon, <1>0, <1>1, <1>2, Kinds, ArriveAnswers, PassingAnswers, FallAnswers, RawOpAnswers, RawReturnsAnswers,
     LeavingAnswers, UnwindAnswers, FinishAnswers

\* What was stored, or answered under Recoverer, was also sent.
DoneInv == dir = "done" /\ req # NoRequest /\ (stored # NoKey \/ Recovers(d)) => out.wire.status # 0

\* There is no finished request at the start.
LEMMA InitDoneInv == Init => DoneInv
  BY Zenon DEF Init, DoneInv

\* A finished request that was stored or recovered has its status.
LEMMA NextDoneInv == ASSUME IInv, KeepInv, WriteInv, AnswerInv, DoneInv, [Next]_vars PROVE DoneInv'
<1>0. Stored(d, store)
  BY Zenon DEF AnswerInv
<1>1. CASE Still
  BY Zenon, <1>1 DEF Still, DoneInv
<1>2. CASE dir' = "in" \/ dir' = "out" \/ dir' = "panic"
  <2>1. dir' # "done"
    BY <1>2
  <2>2. QED
    BY Zenon, <2>1 DEF DoneInv
<1>3. CASE Arrive \/ Passing \/ Turning \/ Falling \/ RawReturns
  BY Zenon, <1>2, <1>3 DEF Arrive, Passing, Turning, Turned, Falling, RawReturns, Pass, Panics, Returns
<1>4. CASE RawOp
  BY Zenon, <1>2, <1>4 DEF RawOp, AtHandler
<1>5. CASE Leave
  BY Zenon, <1>2, <1>5 DEF Leave, LeaveTransparent, LeaveTimeout, LeaveAccessLog, LeaveTracing, LeaveMetrics,
     LeaveCacheRead, LeaveCacheInvalidate, Outward, Observed
<1>6. CASE Unwind
  BY Zenon, <1>2, <1>6 DEF Unwind
<1>7. CASE Finish
  <2>1. CASE dir = "panic"
    <3>1. stored = NoKey /\ at = 0 /\ UNCHANGED <<d, stored>>
      BY Zenon, <1>7, <2>1 DEF AnswerInv, Finish
    <3>2. ~Recovers(d)
      BY Zenon, <2>1, <3>1, PanicRecovered
    <3>3. QED
      BY Zenon, <3>1, <3>2 DEF DoneInv
  <2>2. CASE dir = "out"
    <3>1. out.wire.status \in Nat
      BY Zenon DEF WriteInv, Wired
    <3>2. out'.wire.status # 0
      BY <1>7, <2>2, <3>1 DEF Finish, Output, Sent
    <3>3. QED
      BY Zenon, <3>2 DEF DoneInv
  <2>3. QED
    BY <1>7, <2>1, <2>2 DEF Finish
<1>8. QED
  BY Zenon, <1>0, <1>1, <1>3, <1>4, <1>5, <1>6, <1>7, Kinds

\* Who wrote, as the properties say it.
LEMMA WritersAre ==
    /\ \A type : type \in Writers <=> By(out.wire.body, type)
    /\ Uniform(out.wire.body) => \A a, b \in Writers : a = b
<1>1. \A type : type \in Writers <=> By(out.wire.body, type)
  BY Zenon DEF Writers, By
<1>2. ASSUME Uniform(out.wire.body), NEW a \in Writers, NEW b \in Writers PROVE a = b
  <2>1. PICK m \in DOMAIN out.wire.body : out.wire.body[m].by = a
    BY Zenon, <1>1, <1>2 DEF By
  <2>2. PICK k \in DOMAIN out.wire.body : out.wire.body[k].by = b
    BY Zenon, <1>1, <1>2 DEF By
  <2>3. QED
    BY Zenon, <1>2, <2>1, <2>2 DEF Uniform
<1>3. QED
  BY Zenon, <1>1, <1>2

\* One answer, from the inductive invariant.
LEMMA AnsweredOnce == WriteInv /\ AnswerInv => OneAnswer
<1> SUFFICES ASSUME WriteInv, AnswerInv, Answered PROVE OneAnswer
  BY Zenon DEF OneAnswer
<1>1. dir = "done" /\ req # NoRequest
  BY Zenon DEF Answered
<1>2. Single(d, out, ops, at) /\ out.wire.body \in Seq(Chunks) /\ (out.wire.body # <<>> => out.wire.status # 0)
  BY Zenon DEF WriteInv, AnswerInv, Wired
<1>3. ~RawPanic => \A a, b \in Writers : a = b
  BY Zenon, <1>2, WritersAre DEF Single, RawPanic, Raw
<1>4. "timeout" \in Writers /\ ~RawPanic => out.wire.status = GatewayTimeout \/ ops.flush
  BY Zenon, <1>2, WritersAre DEF Single, RawPanic, Raw
<1>5. ASSUME d.route.handler = "adapter", Has("recoverer")
      PROVE  out.wire.status # 0 /\ Whole(out.wire.status, out.wire.body)
  <2>1. Adapts(d) /\ Back(d, dir, req)
    BY Zenon, <1>1, <1>5 DEF Adapts, Back, Recovers, Has
  <2>2. Whole(out.wire.status, out.wire.body)
    BY Zenon, <2>1 DEF AnswerInv
  <2>3. 0 \notin Bodiless /\ Len(<<>>) # 1
    BY DEF Bodiless
  <2>4. QED
    BY Zenon, <1>2, <2>2, <2>3 DEF Whole
<1>6. QED
  BY Zenon, <1>3, <1>4, <1>5 DEF OneAnswer, GatewayTimeout, Whole

\* What is cached is what was sent, from the inductive invariant.
LEMMA CachedWhatWasSent == WriteInv /\ AnswerInv /\ DoneInv => CachedAsSent
<1> SUFFICES ASSUME WriteInv, AnswerInv, DoneInv, Answered, stored # NoKey PROVE CachedAsSent
  BY Zenon DEF CachedAsSent
<1>1. AsSent(store, stored, out) /\ Stored(d, store) /\ out.wire.body \in Seq(Chunks) /\ out.wire.status # 0
  BY Zenon DEF WriteInv, AnswerInv, Wired, DoneInv, Answered
<1>2. stored \in DOMAIN store /\ ~out.cookie /\ store[stored].status = 200
  BY Zenon, <1>1 DEF AsSent, Stored
<1>3. CASE Final(out.wire.status) = 200 /\ out.wire.body = store[stored].body
  <2>1. out.wire.status = 200
    BY Zenon, <1>1, <1>3 DEF Final
  <2>2. QED
    BY Zenon, <1>2, <1>3, <2>1 DEF CachedAsSent
<1>4. CASE store[stored].body = <<>> /\ out.wire.body # <<>> /\ OnlyBy(out.wire.body, "timeout")
  <2>1. 1 \in DOMAIN out.wire.body
    BY <1>1, <1>4
  <2>2. By(out.wire.body, "timeout") /\ \A type : By(out.wire.body, type) => type = "timeout"
    BY Zenon, <1>4, <2>1 DEF By, OnlyBy
  <2>3. \A type : type \in Writers <=> type = "timeout"
    BY Zenon, <2>2, WritersAre
  <2>4. Writers = {"timeout"}
    BY Zenon, <2>3
  <2>5. QED
    BY Zenon, <1>2, <1>4, <2>4 DEF CachedAsSent
<1>5. QED
  BY Zenon, <1>1, <1>3, <1>4 DEF AsSent

SentInv == IInv /\ KeepInv /\ WriteInv /\ AnswerInv /\ DoneInv

\* The invariant of the answers holds at the start.
LEMMA InitSentInv == Init => SentInv
  BY Zenon, InitIInv, InitKeepInv, InitWriteInv, InitAnswerInv, InitDoneInv DEF SentInv

\* Every step keeps the invariant of the answers.
LEMMA NextSentInv == SentInv /\ [Next]_vars => SentInv'
<1> SUFFICES ASSUME SentInv, [Next]_vars PROVE SentInv'
  OBVIOUS
<1>1. IInv /\ KeepInv /\ WriteInv /\ AnswerInv /\ DoneInv /\ Stored(d, store)
  BY Zenon DEF SentInv, AnswerInv
<1>2. QED
  BY Zenon, <1>1, NextIInv, NextKeepInv, NextWriteInv, NextAnswerInv, NextDoneInv DEF SentInv

\* What was written is in order, in every state of every deployment.
THEOREM SentInvariant == Spec => []SentInv
  BY InitSentInv, NextSentInv, PTL DEF Spec

\* For every middleware, route and handler: no body is a mix of two answers, a late
\* 504 goes out as one, and an Adapter route under Recoverer answers exactly once.
THEOREM AlwaysOneAnswer == Spec => []OneAnswer
<1>1. SentInv => OneAnswer
  BY Zenon, AnsweredOnce DEF SentInv
<1>2. QED
  BY <1>1, SentInvariant, PTL

\* And whatever the cache holds of a request is what its client received.
THEOREM AlwaysCachedAsSent == Spec => []CachedAsSent
<1>1. SentInv => CachedAsSent
  BY Zenon, CachedWhatWasSent DEF SentInv
<1>2. QED
  BY <1>1, SentInvariant, PTL

-----------------------------------------------------------------------------
(* What the observers recorded. *)

Observing(x, o, p, i, s, t, r) ==
    Measured(x, o, p, i, s) /\ Logged(x, o, p, i, s, t) /\ Traced(x, o, p, i, s) /\ Bumped(x, o, p, i, s, r)

\* A layer of another type does not change what an observer has to say.
LEMMA StillObserving ==
    ASSUME NEW x \in Deployments, NEW i \in 1..Len(Layers(x)), NEW o, NEW p, NEW s, NEW z, NEW t, NEW r,
           NEW type, Layers(x)[i].type = type, Observing(x, o, p, i, s, t, r)
    PROVE  /\ type # "metrics" /\ z.metric = s.metric => Measured(x, o, p, i - 1, z)
           /\ type # "access_log" /\ type # "timeout" /\ z.log = s.log => Logged(x, o, p, i - 1, z, t)
           /\ type # "tracing" /\ z.span = s.span => Traced(x, o, p, i - 1, z)
           /\ type # "cache_invalidate" /\ z.bump = s.bump => Bumped(x, o, p, i - 1, z, r)
<1>1. Len(Layers(x)) \in Nat /\ DOMAIN Layers(x) = 1..Len(Layers(x))
  BY LayerShape
<1>2. i \in Nat
  BY <1>1
<1>3. \A y : Passed(x, i - 1, y) => Passed(x, i, y) \/ y = type
  BY Zenon, <1>2, StillPassed
<1>4. /\ Measured(x, o, p, i, s) /\ Logged(x, o, p, i, s, t) /\ Traced(x, o, p, i, s) /\ Bumped(x, o, p, i, s, r)
  BY Zenon DEF Observing
<1>5. type # "metrics" /\ z.metric = s.metric => Measured(x, o, p, i - 1, z)
  BY Zenon, <1>3, <1>4 DEF Measured
<1>6. type # "tracing" /\ z.span = s.span => Traced(x, o, p, i - 1, z)
  BY Zenon, <1>3, <1>4 DEF Traced
<1>7. type # "cache_invalidate" /\ z.bump = s.bump => Bumped(x, o, p, i - 1, z, r)
  <2>1. z.bump = s.bump => (z.bump \in {0, 1} <=> s.bump \in {0, 1}) /\ (z.bump = 1 <=> s.bump = 1)
    BY Zenon
  <2>2. QED
    BY Zenon, <1>3, <1>4, <2>1 DEF Bumped
<1>8. type # "timeout" /\ Pending(x, o, i, t) => Pending(x, o, i - 1, t)
  <2>1. \A k \in DOMAIN Layers(x) : (k <= i /\ k # i => k <= i - 1) /\ (k <= i - 1 => k <= i)
    BY <1>1
  <2>2. type # "timeout" /\ Ahead(x, i, "timeout") => Ahead(x, i - 1, "timeout")
    BY Zenon, <2>1 DEF Ahead
  <2>3. QED
    BY Zenon, <1>1, <2>1, <2>2 DEF Pending
<1>9. type # "access_log" /\ type # "timeout" /\ z.log = s.log => Logged(x, o, p, i - 1, z, t)
  <2>1. z.log = s.log => (\A y : s.log = y => z.log = y)
    BY Zenon
  <2>2. QED
    BY Zenon, <1>3, <1>4, <1>8, <2>1 DEF Logged
<1>10. QED
  BY ZenonT(60), <1>5, <1>6, <1>7, <1>9

\* Behind a layer there is no layer of the outer middleware that ranks before it.
LEMMA NotPassed ==
    ASSUME NEW x \in Deployments, NEW i \in 1..Len(Layers(x)), NEW type, Rank(type) < Rank(Layers(x)[i].type)
    PROVE  ~Passed(x, i - 1, type)
<1> SUFFICES ASSUME Passed(x, i - 1, type) PROVE FALSE
  OBVIOUS
<1>1. Len(Layers(x)) \in Nat /\ DOMAIN Layers(x) = 1..Len(Layers(x))
  BY LayerShape
<1>2. PICK k \in DOMAIN Layers(x) : k > i - 1 /\ Layers(x)[k].type = type
  BY Zenon DEF Passed
<1>3. k \in 1..Len(Layers(x)) /\ ~(k < i)
  BY <1>1, <1>2
<1>4. Rank(Layers(x)[k].type) < Rank(Layers(x)[i].type)
  BY Zenon, <1>2
<1>5. QED
  BY Zenon, <1>3, <1>4, LayerOrder

\* Behind the handler there is nothing.
LEMMA NothingPassed ==
    ASSUME NEW x \in Deployments, NEW i, i = Len(Layers(x)) + 1, NEW o, NEW p, NEW s, NEW t, NEW r
    PROVE  Observing(x, o, p, i - 1, s, t, r)
<1>1. Len(Layers(x)) \in Nat /\ DOMAIN Layers(x) = 1..Len(Layers(x))
  BY LayerShape
<1>2. \A k \in DOMAIN Layers(x) : ~(k > i - 1)
  BY <1>1
<1>3. \A y : ~Passed(x, i - 1, y)
  BY Zenon, <1>2 DEF Passed
<1>4. QED
  BY Zenon, <1>3 DEF Observing, Measured, Logged, Traced, Bumped

\* Where an answer excuses the observers, only the metrics have something to say.
LEMMA ExcusedObserving ==
    ASSUME NEW x, NEW o, NEW p, NEW i, NEW s, NEW t, NEW r, Excused(x, o, p), Measured(x, o, p, i, s)
    PROVE  Observing(x, o, p, i, s, t, r)
  BY Zenon DEF Observing, Logged, Traced, Bumped

\* Nothing was observed before the first request.
LEMMA InitObserveInv == Init => ObserveInv
<1> SUFFICES ASSUME Init PROVE ObserveInv
  OBVIOUS
<1>1. deadline = "none" /\ dir = "done" /\ req = NoRequest
  BY Zenon DEF Init
<1>2. dir # "in" /\ dir # "out"
  BY <1>1
<1>3. QED
  BY Zenon, <1>1, <1>2 DEF ObserveInv, Back

\* On the way in, and after a panic, there is nothing to say.
LEMMA InwardObserves ==
    ASSUME deadline' # "none" => \E k \in DOMAIN Layers(d') : Layers(d')[k].type = "timeout",
           (dir' = "in" /\ seen' = Unseen) \/ dir' = "panic"
    PROVE  ObserveInv'
<1>1. dir' # "out" /\ dir' # "done" /\ (dir' = "in" => seen' = Unseen)
  OBVIOUS
<1>2. QED
  BY Zenon, <1>1 DEF ObserveInv, Back

\* On the way out the observers say what they have to.
LEMMA OutwardObserves ==
    ASSUME deadline' # "none" => \E k \in DOMAIN Layers(d') : Layers(d')[k].type = "timeout",
           dir' = "out", Observing(d, out, ops, at, seen, deadline, req)'
    PROVE  ObserveInv'
<1>1. dir' # "in"
  OBVIOUS
<1>2. QED
  BY Zenon, <1>1 DEF ObserveInv, Observing

\* A step outside the request path observes nothing.
LEMMA StillObserves == ASSUME ObserveInv, Still PROVE ObserveInv'
<1>1. UNCHANGED <<d, at, dir, req, out, seen, ops>> /\ (deadline' = deadline \/ deadline = "armed")
  BY Zenon DEF Still
<1>2. CASE deadline' = deadline
  BY Zenon, <1>1, <1>2 DEF ObserveInv
<1>3. CASE deadline = "armed"
  <2>1. deadline # "none" /\ deadline # "passed"
    BY <1>3
  <2>2. Logged(d, out, ops, at, seen, deadline) => Logged(d, out, ops, at, seen, deadline')
    BY Zenon, <2>1 DEF Logged, Pending
  <2>3. QED
    BY Zenon, <1>1, <2>1, <2>2 DEF ObserveInv
<1>4. QED
  BY Zenon, <1>1, <1>2, <1>3

\* A layer that passes the request on has observed nothing yet.
LEMMA PassingObserves == ASSUME IInv, ObserveInv, Passing PROVE ObserveInv'
<1>1. /\ dir = "in" /\ ~Handling /\ dir' = "in" /\ UNCHANGED <<d, seen>> /\ (deadline' = deadline \/ layer.type = "timeout")
  BY Zenon DEF Passing, Pass
<1>2. at \in 1..Len(Layers(d)) /\ layer = Layers(d)[at]
  BY Zenon, <1>1, InsideAt
<1>3. at \in DOMAIN Layers(d)
  <2>1. DOMAIN Layers(d) = 1..Len(Layers(d))
    BY Zenon, <1>1, InwardAt
  <2>2. QED
    BY Zenon, <1>2, <2>1
<1>4. deadline' # "none" => \E k \in DOMAIN Layers(d) : Layers(d)[k].type = "timeout"
  BY Zenon, <1>1, <1>2, <1>3 DEF ObserveInv
<1>5. seen = Unseen
  BY Zenon, <1>1 DEF ObserveInv
<1>6. QED
  BY Zenon, <1>1, <1>4, <1>5, InwardObserves

\* An answer from outside an observer is one that this observer never sees.
LEMMA TurningObserves ==
    ASSUME IInv, WriteInv, ObserveInv, NEW v, NEW b, Turned(v, b), UNCHANGED <<req, seen, deadline>>
    PROVE  ObserveInv'
<1>1. /\ dir = "in" /\ at' = at - 1 /\ dir' = "out" /\ UNCHANGED <<d, ops>>
      /\ v \in Nat \ {0} /\ b \in Seq(Chunks) /\ Sends(out, out', at, v, b) /\ Answer(d, at, req, v, b)
  BY Zenon DEF Turned, Answer
<1>2. Pristine(d, out)
  BY Zenon, TurningWrites
<1>3. out'.wire.body = b /\ out'.wire.status = v
  <2>1. out.wire.body = <<>> /\ out.wire.status = 0
    BY Zenon, <1>2 DEF Pristine
  <2>2. out'.wire.body = out.wire.body \o b /\ out'.wire.status = IF out.wire.status = 0 THEN v ELSE out.wire.status
    BY Zenon, <1>1 DEF Sends
  <2>3. <<>> \o b = b
    BY <1>1
  <2>4. QED
    BY Zenon, <2>1, <2>2, <2>3
<1>4. at \in Nat \ {0} /\ d \in Deployments /\ DOMAIN Layers(d) = 1..Len(Layers(d))
  BY Zenon, <1>1, InwardAt
<1>5. seen = Unseen /\ (deadline # "none" => \E k \in DOMAIN Layers(d) : Layers(d)[k].type = "timeout")
  BY Zenon, <1>1 DEF ObserveInv
<1>6. Observing(d, out', ops, at - 1, seen, deadline, req)
  <2>1. CASE at = Len(Layers(d)) + 1
    BY Zenon, <1>4, <2>1, NothingPassed
  <2>2. CASE at \in DOMAIN Layers(d) /\ Layers(d)[at].type = "cors" /\ (v = NoContent \/ By(b, "cors"))
    <3>1. Rank("metrics") < Rank("cors")
      BY DEF Rank
    <3>2. Rank("metrics") < Rank(Layers(d)[at].type) /\ at \in 1..Len(Layers(d))
      BY Zenon, <1>4, <2>2, <3>1
    <3>3. ~Passed(d, at - 1, "metrics")
      BY Zenon, <1>4, <3>2, NotPassed
    <3>4. Measured(d, out', ops, at - 1, seen)
      BY Zenon, <3>3 DEF Measured
    <3>5. Excused(d, out', ops)
      BY Zenon, <1>3, <2>2 DEF Excused
    <3>6. QED
      BY Zenon, <3>4, <3>5, ExcusedObserving
  <2>3. CASE /\ at \in DOMAIN Layers(d) /\ Layers(d)[at].type \in PolicyTypes \cup {"tenant"}
             /\ v \in Refusals \/ (Layers(d)[at].type = "cache_read" /\ ~req.write)
    <3>1. \A y \in {"metrics", "tracing", "access_log"} : Rank(y) < Rank(Layers(d)[at].type)
      <4>1. Layers(d)[at].type \in PolicyTypes \cup {"tenant"}
        BY Zenon, <2>3
      <4>2. Rank(Layers(d)[at].type) \in {7, 8}
        BY <4>1 DEF Rank, PolicyTypes
      <4>3. \A y \in {"metrics", "tracing", "access_log"} : Rank(y) \in {1, 5, 6}
        BY DEF Rank
      <4>4. QED
        BY <4>2, <4>3
    <3>2. at \in 1..Len(Layers(d))
      BY Zenon, <1>4, <2>3
    <3>3. \A y \in {"metrics", "tracing", "access_log"} : ~Passed(d, at - 1, y)
      BY Zenon, <1>4, <3>1, <3>2, NotPassed
    <3>4. ~Passed(d, at - 1, "metrics") /\ ~Passed(d, at - 1, "tracing") /\ ~Passed(d, at - 1, "access_log")
      BY Zenon, <3>3
    <3>5. Bumped(d, out', ops, at - 1, seen, req)
      <4>1. CASE v \in Refusals
        <5>1. ~Succeeded(v) /\ v # 0 /\ Final(v) = v
          BY <4>1, RefusalsAreStatuses DEF Final
        <5>2. seen.bump = 0
          BY <1>5 DEF Unseen, Seen
        <5>3. seen.bump \in {0, 1} /\ seen.bump # 1
          BY <5>2
        <5>4. ~Succeeded(Final(out'.wire.status))
          BY Zenon, <1>3, <5>1
        <5>5. QED
          BY Zenon, <5>3, <5>4 DEF Bumped
      <4>2. CASE Layers(d)[at].type = "cache_read" /\ ~req.write
        BY Zenon, <2>3, <4>2 DEF Bumped
      <4>3. QED
        BY Zenon, <2>3, <4>1, <4>2
    <3>6. QED
      BY Zenon, <3>4, <3>5 DEF Observing, Measured, Logged, Traced
  <2>4. QED
    BY Zenon, <1>1, <2>1, <2>2, <2>3 DEF Answer
<1>7. Observing(d, out, ops, at, seen, deadline, req)'
  BY Zenon, <1>1, <1>6
<1>8. QED
  BY Zenon, <1>1, <1>5, <1>7, OutwardObserves

\* The observers are still ahead when a raw handler returns.
LEMMA RawReturnsObserves == ASSUME IInv, ObserveInv, RawReturns PROVE ObserveInv'
<1>1. dir = "in" /\ Handling /\ at' = at - 1 /\ dir' = "out" /\ UNCHANGED <<d, out, ops, seen, deadline, req>>
  BY Zenon DEF RawReturns, AtHandler, Returns, handlerUnchanged
<1>2. d \in Deployments /\ at = Len(Layers(d)) + 1
  BY Zenon, <1>1, InwardAt DEF Handling
<1>3. Observing(d, out, ops, at - 1, seen, deadline, req)
  BY Zenon, <1>2, NothingPassed
<1>4. deadline # "none" => \E k \in DOMAIN Layers(d) : Layers(d)[k].type = "timeout"
  BY Zenon DEF ObserveInv
<1>5. Observing(d, out, ops, at, seen, deadline, req)'
  BY Zenon, <1>1, <1>3
<1>6. QED
  BY Zenon, <1>1, <1>4, <1>5, OutwardObserves

\* What the writer of a layer knows when the request leaves it.
LEMMA WriterKnows ==
    ASSUME IInv, WriteInv, dir = "out", at > 0
    PROVE  /\ out.ws[at].status = Final(out.wire.status)
              \/ (ops.flush /\ By(out.wire.body, "timeout")) \/ (ops.panic /\ Raw(d))
           /\ ~out.ws[at].wrote => \A j \in 1..Len(Layers(d)) : j <= at => ~out.ws[j].wrote
<1>1. at \in Nat \ {0} /\ at \in 1..Len(Layers(d)) /\ at <= at
  <2>1. at \in Nat \ {0} /\ at \in 1..Len(Layers(d))
    BY Zenon, OutwardAt
  <2>2. QED
    BY <2>1
<1>2. Synced(d, out, ops, at, at) /\ \A k \in 1..Len(Layers(d)) : k <= at => out.ws[k] = out.ws[at]
  BY Zenon, <1>1 DEF WriteInv, AllSynced
<1>3. \A k \in 1..Len(Layers(d)) : k <= at /\ out.ws[k].wrote => out.ws[at].wrote
  BY Zenon, <1>2
<1>4. QED
  BY Zenon, <1>2, <1>3 DEF Synced

\* The facts about a layer that is left.
LEMMA LeavingAt ==
    ASSUME IInv, ObserveInv, NEW types, Leaving(types)
    PROVE  /\ dir = "out" /\ at > 0 /\ at \in 1..Len(Layers(d)) /\ d \in Deployments /\ layer = Layers(d)[at]
           /\ layer.type \in types
           /\ Observing(d, out, ops, at, seen, deadline, req)
           /\ deadline # "none" => \E k \in DOMAIN Layers(d) : Layers(d)[k].type = "timeout"
<1>1. dir = "out" /\ at > 0 /\ layer.type \in types
  BY Zenon DEF Leaving
<1>2. QED
  BY Zenon, <1>1, OutwardAt DEF ObserveInv, Observing, Back, layer

\* A layer that does nothing on its way out is no observer.
LEMMA TransparentObserves ==
    ASSUME IInv, ObserveInv, LeaveTransparent \/ LeaveCacheRead
    PROVE  ObserveInv'
<1> DEFINE quiet == {"recoverer", "cors", "tenant", "auth_required", "tenant_required", "tenant_match",
                     "require_perm", "require_json", "rate_limit", "cache_control", "cache_read"}
<1>1. Leaving(quiet) /\ at' = at - 1 /\ dir' = "out" /\ UNCHANGED <<d, out, ops, seen, deadline, req>>
  BY DEF LeaveTransparent, LeaveCacheRead, Outward, requestVars, Leaving
<1>2. layer.type \in quiet
  BY Zenon, <1>1 DEF Leaving
<1>3. /\ layer.type # "metrics" /\ layer.type # "access_log" /\ layer.type # "timeout" /\ layer.type # "tracing"
      /\ layer.type # "cache_invalidate"
  BY <1>2
<1> HIDE DEF quiet
<1>4. /\ at \in 1..Len(Layers(d)) /\ d \in Deployments /\ layer = Layers(d)[at]
      /\ Observing(d, out, ops, at, seen, deadline, req)
      /\ deadline # "none" => \E k \in DOMAIN Layers(d) : Layers(d)[k].type = "timeout"
  BY Zenon, <1>1, LeavingAt
<1>5. Observing(d, out, ops, at - 1, seen, deadline, req)
  <2>1. Layers(d)[at].type = layer.type
    BY Zenon, <1>4
  <2>2. /\ Measured(d, out, ops, at - 1, seen) /\ Logged(d, out, ops, at - 1, seen, deadline)
        /\ Traced(d, out, ops, at - 1, seen) /\ Bumped(d, out, ops, at - 1, seen, req)
    BY Zenon, <1>3, <1>4, <2>1, StillObserving
  <2>3. QED
    BY Zenon, <2>2 DEF Observing
<1>6. Observing(d, out, ops, at, seen, deadline, req)'
  BY Zenon, <1>1, <1>5
<1>7. QED
  BY ZenonT(60), <1>1, <1>4, <1>6, OutwardObserves

\* AccessLog logs the status that its writer saw, and samples those below 500.
LEMMA AccessLogObserves == ASSUME IInv, WriteInv, ObserveInv, LeaveAccessLog PROVE ObserveInv'
<1>1. /\ Leaving({"access_log"}) /\ at' = at - 1 /\ dir' = "out" /\ UNCHANGED <<d, out, ops, deadline, req>>
  BY Zenon DEF LeaveAccessLog, Observed, Outward
<1>0. \E s \in {LogStatus} \cup (IF LogStatus >= 500 THEN {} ELSE {0}) :
         seen' = Seen(s, seen.span, seen.metric, seen.bump)
  BY Zenon DEF LeaveAccessLog, Observed, Outward
<1>2. /\ dir = "out" /\ at > 0 /\ at \in 1..Len(Layers(d)) /\ d \in Deployments /\ layer = Layers(d)[at]
      /\ layer.type \in {"access_log"} /\ Observing(d, out, ops, at, seen, deadline, req)
      /\ deadline # "none" => \E k \in DOMAIN Layers(d) : Layers(d)[k].type = "timeout"
  BY Zenon, <1>1, LeavingAt
<1>3. layer.type = "access_log" /\ layer.type # "metrics" /\ layer.type # "tracing" /\ layer.type # "cache_invalidate"
  BY <1>2
<1>4. PICK s \in {LogStatus} \cup (IF LogStatus >= 500 THEN {} ELSE {0}) :
         seen' = Seen(s, seen.span, seen.metric, seen.bump)
  BY Zenon, <1>0
<1>5. seen'.log = s /\ seen'.span = seen.span /\ seen'.metric = seen.metric /\ seen'.bump = seen.bump
  BY <1>4 DEF Seen
<1>6. s = LogStatus \/ (s = 0 /\ ~(LogStatus >= 500))
  BY Zenon, <1>4
<1>7. Layers(d)[at].type = layer.type
  BY Zenon, <1>2
<1>8. /\ Measured(d, out, ops, at - 1, seen') /\ Traced(d, out, ops, at - 1, seen')
      /\ Bumped(d, out, ops, at - 1, seen', req)
  BY Zenon, <1>2, <1>3, <1>5, <1>7, StillObserving
<1>9. Logged(d, out, ops, at - 1, seen', deadline)
  <2>1. CASE Late(out)
    <3>1. deadline = "passed" /\ ~out.ws[at].wrote
      BY Zenon, <2>1 DEF Late
    <3>2. deadline # "none"
      BY <3>1
    <3>3. PICK k \in DOMAIN Layers(d) : Layers(d)[k].type = "timeout"
      BY Zenon, <1>2, <3>2
    <3>4. Rank("timeout") < Rank("access_log")
      BY DEF Rank
    <3>5. Rank(Layers(d)[k].type) < Rank(Layers(d)[at].type)
      BY ZenonT(60), <1>3, <1>7, <3>3, <3>4
    <3>6. DOMAIN Layers(d) = 1..Len(Layers(d)) /\ Len(Layers(d)) \in Nat
      BY <1>2, LayerShape
    <3>7. k \in 1..Len(Layers(d))
      BY Zenon, <3>3, <3>6
    <3>8. k < at
      BY ZenonT(60), <1>2, <3>5, <3>7, LayerOrder
    <3>9. k <= at - 1 /\ \A j \in 1..Len(Layers(d)) : j <= at - 1 => j <= at
      BY <1>2, <3>6, <3>7, <3>8
    <3>10. \A j \in 1..Len(Layers(d)) : j <= at => ~out.ws[j].wrote
      BY Zenon, <1>2, <3>1, WriterKnows
    <3>11. Pending(d, out, at - 1, deadline)
      BY Zenon, <3>1, <3>3, <3>9, <3>10 DEF Pending, Ahead
    <3>12. QED
      BY Zenon, <3>11 DEF Logged
  <2>2. CASE ~Late(out)
    <3>1. LogStatus = out.ws[at].status
      BY ZenonT(60), <2>2 DEF LogStatus
    <3>2. CASE out.ws[at].status = Final(out.wire.status)
      <4>1. Final(out.wire.status) \in Nat
        <5>1. out.wire.status \in Nat
          BY Zenon DEF WriteInv, Wired
        <5>2. QED
          BY <5>1 DEF Final
      <4>2. LogStatus = Final(out.wire.status)
        BY Zenon, <3>1, <3>2
      <4>3. s = Final(out.wire.status) \/ (s = 0 /\ Sampled(Final(out.wire.status)))
        BY <1>6, <4>1, <4>2 DEF Sampled
      <4>4. seen'.log = Final(out.wire.status) \/ (seen'.log = 0 /\ Sampled(Final(out.wire.status)))
        BY Zenon, <1>5, <4>3
      <4>5. QED
        BY Zenon, <4>4 DEF Logged
    <3>3. CASE (ops.flush /\ By(out.wire.body, "timeout")) \/ (ops.panic /\ Raw(d))
      BY Zenon, <3>3 DEF Logged, Excused
    <3>4. QED
      BY Zenon, <1>2, <3>2, <3>3, WriterKnows
  <2>3. QED
    BY Zenon, <2>1, <2>2
<1>10. Observing(d, out, ops, at, seen, deadline, req)'
  BY Zenon, <1>1, <1>8, <1>9 DEF Observing
<1>11. QED
  BY Zenon, <1>1, <1>2, <1>10, OutwardObserves

\* Tracing records the status that its writer saw.
LEMMA TracingObserves == ASSUME IInv, WriteInv, ObserveInv, LeaveTracing PROVE ObserveInv'
<1>1. /\ Leaving({"tracing"}) /\ at' = at - 1 /\ dir' = "out" /\ UNCHANGED <<d, out, ops, deadline, req>>
      /\ seen' = Seen(seen.log, out.ws[at].status, seen.metric, seen.bump)
  BY Zenon DEF LeaveTracing, Observed, Outward
<1>2. /\ dir = "out" /\ at > 0 /\ at \in 1..Len(Layers(d)) /\ d \in Deployments /\ layer = Layers(d)[at]
      /\ layer.type \in {"tracing"} /\ Observing(d, out, ops, at, seen, deadline, req)
      /\ deadline # "none" => \E k \in DOMAIN Layers(d) : Layers(d)[k].type = "timeout"
  BY Zenon, <1>1, LeavingAt
<1>3. /\ layer.type # "access_log" /\ layer.type # "timeout" /\ layer.type # "metrics"
      /\ layer.type # "cache_invalidate"
  BY <1>2
<1>4. seen'.log = seen.log /\ seen'.span = out.ws[at].status /\ seen'.metric = seen.metric /\ seen'.bump = seen.bump
  BY <1>1 DEF Seen
<1>5. Layers(d)[at].type = layer.type
  BY Zenon, <1>2
<1>6. /\ Measured(d, out, ops, at - 1, seen') /\ Logged(d, out, ops, at - 1, seen', deadline)
      /\ Bumped(d, out, ops, at - 1, seen', req)
  BY Zenon, <1>2, <1>3, <1>4, <1>5, StillObserving
<1>7. Traced(d, out, ops, at - 1, seen')
  BY Zenon, <1>2, <1>4, WriterKnows DEF Traced, Excused
<1>8. Observing(d, out, ops, at, seen, deadline, req)'
  BY Zenon, <1>1, <1>6, <1>7 DEF Observing
<1>9. QED
  BY Zenon, <1>1, <1>2, <1>8, OutwardObserves

\* Metrics counts the status that its writer saw.
LEMMA MetricsObserves == ASSUME IInv, WriteInv, ObserveInv, LeaveMetrics PROVE ObserveInv'
<1>1. /\ Leaving({"metrics"}) /\ at' = at - 1 /\ dir' = "out" /\ UNCHANGED <<d, out, ops, deadline, req>>
      /\ seen' = Seen(seen.log, seen.span, out.ws[at].status, seen.bump)
  BY Zenon DEF LeaveMetrics, Observed, Outward
<1>2. /\ dir = "out" /\ at > 0 /\ at \in 1..Len(Layers(d)) /\ d \in Deployments /\ layer = Layers(d)[at]
      /\ layer.type \in {"metrics"} /\ Observing(d, out, ops, at, seen, deadline, req)
      /\ deadline # "none" => \E k \in DOMAIN Layers(d) : Layers(d)[k].type = "timeout"
  BY Zenon, <1>1, LeavingAt
<1>3. /\ layer.type # "access_log" /\ layer.type # "timeout" /\ layer.type # "tracing"
      /\ layer.type # "cache_invalidate"
  BY <1>2
<1>4. seen'.log = seen.log /\ seen'.metric = out.ws[at].status /\ seen'.span = seen.span /\ seen'.bump = seen.bump
  BY <1>1 DEF Seen
<1>5. Layers(d)[at].type = layer.type
  BY Zenon, <1>2
<1>6. /\ Traced(d, out, ops, at - 1, seen') /\ Logged(d, out, ops, at - 1, seen', deadline)
      /\ Bumped(d, out, ops, at - 1, seen', req)
  BY Zenon, <1>2, <1>3, <1>4, <1>5, StillObserving
<1>7. Measured(d, out, ops, at - 1, seen')
  BY Zenon, <1>2, <1>4, WriterKnows DEF Measured
<1>8. Observing(d, out, ops, at, seen, deadline, req)'
  BY Zenon, <1>1, <1>6, <1>7 DEF Observing
<1>9. QED
  BY Zenon, <1>1, <1>2, <1>8, OutwardObserves

\* CacheInvalidate bumps its tags when its writer saw success.
LEMMA InvalidateObserves == ASSUME IInv, WriteInv, ObserveInv, LeaveCacheInvalidate PROVE ObserveInv'
<1> DEFINE n == IF out.ws[at].status \in 200..299 THEN 1 ELSE 0
<1>1. /\ Leaving({"cache_invalidate"}) /\ at' = at - 1 /\ dir' = "out" /\ UNCHANGED <<d, out, ops, deadline, req>>
      /\ seen' = Seen(seen.log, seen.span, seen.metric, n)
  BY Zenon DEF LeaveCacheInvalidate, Observed, Outward
<1>2. /\ dir = "out" /\ at > 0 /\ at \in 1..Len(Layers(d)) /\ d \in Deployments /\ layer = Layers(d)[at]
      /\ layer.type \in {"cache_invalidate"} /\ Observing(d, out, ops, at, seen, deadline, req)
      /\ deadline # "none" => \E k \in DOMAIN Layers(d) : Layers(d)[k].type = "timeout"
  BY Zenon, <1>1, LeavingAt
<1>3. /\ layer.type # "access_log" /\ layer.type # "timeout" /\ layer.type # "tracing"
      /\ layer.type # "metrics"
  BY <1>2
<1>0. 1 # 0
  OBVIOUS
<1>4. n \in {0, 1} /\ (n = 1 <=> Succeeded(out.ws[at].status))
  BY Zenon, <1>0 DEF Succeeded
<1> HIDE DEF n
<1>5. seen'.log = seen.log /\ seen'.metric = seen.metric /\ seen'.span = seen.span /\ seen'.bump = n
  BY <1>1 DEF Seen
<1>6. Layers(d)[at].type = layer.type
  BY Zenon, <1>2
<1>7. /\ Traced(d, out, ops, at - 1, seen') /\ Logged(d, out, ops, at - 1, seen', deadline)
      /\ Measured(d, out, ops, at - 1, seen')
  BY Zenon, <1>2, <1>3, <1>5, <1>6, StillObserving
<1>8. Bumped(d, out, ops, at - 1, seen', req)
  <2>1. CASE out.ws[at].status = Final(out.wire.status)
    BY Zenon, <1>4, <1>5, <2>1 DEF Bumped
  <2>2. CASE (ops.flush /\ By(out.wire.body, "timeout")) \/ (ops.panic /\ Raw(d))
    BY Zenon, <2>2 DEF Bumped, Excused
  <2>3. QED
    BY Zenon, <1>2, <2>1, <2>2, WriterKnows
<1>9. Observing(d, out, ops, at, seen, deadline, req)'
  BY Zenon, <1>1, <1>7, <1>8 DEF Observing
<1>10. QED
  BY Zenon, <1>1, <1>2, <1>9, OutwardObserves

\* An answer of RequestTimeout is seen by the observers that are still ahead.
LEMMA TimeoutObserves == ASSUME IInv, WriteInv, ObserveInv, LeaveTimeout PROVE ObserveInv'
<1>1. /\ Leaving({"timeout"}) /\ at' = at - 1 /\ dir' = "out" /\ UNCHANGED <<d, ops, seen, req>>
      /\ deadline' = IF deadline = "armed" THEN "none" ELSE deadline
  BY Zenon DEF LeaveTimeout, Outward
<1>2. /\ dir = "out" /\ at > 0 /\ at \in 1..Len(Layers(d)) /\ d \in Deployments /\ layer = Layers(d)[at]
      /\ layer.type \in {"timeout"} /\ Observing(d, out, ops, at, seen, deadline, req)
      /\ deadline # "none" => \E k \in DOMAIN Layers(d) : Layers(d)[k].type = "timeout"
  BY Zenon, <1>1, LeavingAt
<1>3. /\ layer.type = "timeout" /\ layer.type # "access_log" /\ layer.type # "tracing" /\ layer.type # "metrics"
      /\ layer.type # "cache_invalidate"
  BY <1>2
<1>4. deadline' # "none" => \E k \in DOMAIN Layers(d) : Layers(d)[k].type = "timeout"
  BY Zenon, <1>1, <1>2
<1>5. Layers(d)[at].type = layer.type
  BY Zenon, <1>2
<1>6. Observing(d, out', ops, at - 1, seen, deadline', req)
  <2>1. CASE Late(out)
    <3>1. By(out'.wire.body, "timeout")
      <4> DEFINE v == GatewayTimeout
      <4>1. PICK b : Sends(out, out', at, v, b) /\ Lonely(b, "timeout")
        BY Zenon, <2>1, LateAnswer
      <4> HIDE DEF v
      <4>2. out'.wire.body = out.wire.body \o b /\ b \in Seq(Chunks) /\ By(b, "timeout")
        BY Zenon, <4>1 DEF Sends, Lonely
      <4>3. out.wire.body \in Seq(Chunks)
        BY Zenon DEF WriteInv, Wired
      <4>4. Made(out'.wire.body, out.wire.body, b)
        BY Zenon, <4>2, <4>3, Elements
      <4>5. QED
        BY Zenon, <4>2, <4>4, MadeBy
    <3>2. Rank("metrics") < Rank("timeout")
      BY DEF Rank
    <3>3. Rank("metrics") < Rank(Layers(d)[at].type)
      BY Zenon, <1>3, <1>5, <3>2
    <3>4. ~Passed(d, at - 1, "metrics")
      BY Zenon, <1>2, <3>3, NotPassed
    <3>5. Measured(d, out', ops, at - 1, seen) /\ Excused(d, out', ops)
      BY Zenon, <3>1, <3>4 DEF Measured, Excused
    <3>6. QED
      BY Zenon, <3>5, ExcusedObserving
  <2>2. CASE ~Late(out)
    <3>1. out' = out
      BY Zenon, <2>2 DEF LeaveTimeout
    <3>2. /\ Traced(d, out, ops, at - 1, seen) /\ Measured(d, out, ops, at - 1, seen)
          /\ Bumped(d, out, ops, at - 1, seen, req)
      BY Zenon, <1>2, <1>3, <1>5, StillObserving
    <3>3. at <= at /\ at \in Nat
      <4>1. Len(Layers(d)) \in Nat
        BY <1>2, LayerShape
      <4>2. QED
        BY <1>2, <4>1
    <3>4. ~Pending(d, out, at, deadline)
      BY Zenon, <1>2, <2>2, <3>3 DEF Pending, Late
    <3>5. Passed(d, at - 1, "access_log") => Passed(d, at, "access_log")
      BY Zenon, <1>2, <1>3, <1>5, <3>3, StillPassed
    <3>6. Logged(d, out, ops, at, seen, deadline)
      BY Zenon, <1>2 DEF Observing
    <3>7. Logged(d, out, ops, at - 1, seen, deadline')
      BY Zenon, <3>4, <3>5, <3>6 DEF Logged
    <3>8. QED
      BY Zenon, <3>1, <3>2, <3>7 DEF Observing
  <2>3. QED
    BY Zenon, <2>1, <2>2
<1>7. Observing(d, out, ops, at, seen, deadline, req)'
  BY Zenon, <1>1, <1>6
<1>8. QED
  BY Zenon, <1>1, <1>4, <1>7, OutwardObserves

\* An answer of Recoverer is seen by the observers that are still ahead.
LEMMA UnwindObserves == ASSUME IInv, WriteInv, ObserveInv, Unwind PROVE ObserveInv'
<1>1. /\ dir = "panic" /\ at > 0 /\ at' = at - 1 /\ UNCHANGED <<d, ops, req>>
      /\ dir' = IF layer.type = "recoverer" THEN "out" ELSE "panic"
      /\ deadline' = deadline \/ deadline' = "none"
  BY Zenon DEF Unwind
<1>2. deadline' # "none" => \E k \in DOMAIN Layers(d) : Layers(d)[k].type = "timeout"
  BY Zenon, <1>1 DEF ObserveInv
<1>3. CASE layer.type # "recoverer"
  <2>1. dir' = "panic"
    BY Zenon, <1>1, <1>3
  <2>2. QED
    BY Zenon, <1>1, <1>2, <2>1, InwardObserves
<1>4. CASE layer.type = "recoverer"
  <2>1. dir' = "out"
    BY Zenon, <1>1, <1>4
  <2>2. at \in 1..Len(Layers(d)) /\ d \in Deployments
    BY Zenon, <1>1, OutwardAt
  <2>3. By(out'.wire.body, "recoverer")
    <3> DEFINE v == 500
    <3>1. PICK b : Sends(out, out', at, v, b) /\ Lonely(b, "recoverer")
      BY Zenon, <1>4, RecoverAnswer
    <3> HIDE DEF v
    <3>2. out'.wire.body = out.wire.body \o b /\ b \in Seq(Chunks) /\ By(b, "recoverer")
      BY Zenon, <3>1 DEF Sends, Lonely
    <3>3. out.wire.body \in Seq(Chunks)
      BY Zenon DEF WriteInv, Wired
    <3>4. Made(out'.wire.body, out.wire.body, b)
      BY Zenon, <3>2, <3>3, Elements
    <3>5. QED
      BY Zenon, <3>2, <3>4, MadeBy
  <2>4. Rank("metrics") < Rank("recoverer")
    BY DEF Rank
  <2>5. Rank("metrics") < Rank(Layers(d)[at].type)
    BY Zenon, <1>4, <2>4 DEF layer
  <2>6. ~Passed(d, at - 1, "metrics")
    BY Zenon, <2>2, <2>5, NotPassed
  <2>7. Measured(d, out', ops, at - 1, seen') /\ Excused(d, out', ops)
    BY Zenon, <2>3, <2>6 DEF Measured, Excused
  <2>8. Observing(d, out', ops, at - 1, seen', deadline', req)
    BY Zenon, <2>7, ExcusedObserving
  <2>9. Observing(d, out, ops, at, seen, deadline, req)'
    BY Zenon, <1>1, <2>8
  <2>10. QED
    BY Zenon, <1>1, <1>2, <2>1, <2>9, OutwardObserves
<1>5. QED
  BY Zenon, <1>3, <1>4

\* The observers took an unwritten status for 200, and so does the server.
LEMMA FinishObserves == ASSUME IInv, WriteInv, ObserveInv, Finish PROVE ObserveInv'
<1>1. /\ at = 0 /\ at' = at /\ dir' = "done" /\ UNCHANGED <<d, ops, req, seen, deadline>> /\ (dir = "out" \/ dir = "panic")
      /\ out'.wire.body = out.wire.body /\ out'.ws = out.ws
      /\ out'.wire.status = out.wire.status \/ out'.wire.status = Final(out.wire.status)
  BY DEF Finish, Output, Sent, Final
<1>2. /\ Final(out'.wire.status) = Final(out.wire.status)
      /\ out.wire.status = NoContent => out'.wire.status = NoContent
  <2>1. out.wire.status \in Nat
    BY Zenon DEF WriteInv, Wired
  <2>2. out'.wire.status = out.wire.status \/ out'.wire.status = Final(out.wire.status)
    BY Zenon, <1>1
  <2>3. QED
    BY <2>1, <2>2 DEF Final, NoContent
<1>3. Back(d, "done", req) => Back(d, dir, req)
  <2>1. "done" # "out"
    OBVIOUS
  <2>2. QED
    BY Zenon, <1>1, <2>1, PanicRecovered DEF Back
<1>4. Excused(d, out, ops) => Excused(d, out', ops)
  BY Zenon, <1>1, <1>2 DEF Excused
<1>5. Measured(d, out, ops, at, seen) => Measured(d, out', ops, at, seen)
  BY Zenon, <1>1, <1>2 DEF Measured
<1>6. Pending(d, out, at, deadline) => Pending(d, out', at, deadline)
  BY Zenon, <1>1 DEF Pending
<1>7. Logged(d, out, ops, at, seen, deadline) => Logged(d, out', ops, at, seen, deadline)
  BY Zenon, <1>2, <1>4, <1>6 DEF Logged
<1>8. Traced(d, out, ops, at, seen) => Traced(d, out', ops, at, seen)
  BY Zenon, <1>2, <1>4 DEF Traced
<1>9. Bumped(d, out, ops, at, seen, req) => Bumped(d, out', ops, at, seen, req)
  BY Zenon, <1>2, <1>4 DEF Bumped
<1>10. dir' # "in"
  BY <1>1
<1>11. QED
  BY Zenon, <1>1, <1>3, <1>5, <1>7, <1>8, <1>9, <1>10 DEF ObserveInv

\* Every step keeps the observers true to what was sent.
LEMMA NextObserveInv == ASSUME IInv, KeepInv, WriteInv, AnswerInv, ObserveInv, [Next]_vars PROVE ObserveInv'
<1>0. Stored(d, store)
  BY Zenon DEF AnswerInv
<1>1. CASE Arrive
  <2>1. deadline' = "none" /\ dir' = "in" /\ seen' = Unseen
    BY Zenon, <1>1 DEF Arrive
  <2>2. QED
    BY Zenon, <2>1, InwardObserves
<1>2. CASE Turning
  BY Zenon, <1>2, TurningObserves DEF Turning
<1>3. CASE Falling
  <2>1. dir' = "panic" /\ UNCHANGED <<d, deadline>>
    BY Zenon, <1>3 DEF Falling, Panics
  <2>2. deadline # "none" => \E k \in DOMAIN Layers(d) : Layers(d)[k].type = "timeout"
    BY Zenon DEF ObserveInv
  <2>3. QED
    BY Zenon, <2>1, <2>2, InwardObserves
<1>4. CASE RawOp
  <2>1. dir = "in" /\ UNCHANGED <<d, dir, seen, deadline>>
    BY Zenon, <1>4, RawOpIs
  <2>2. seen = Unseen /\ (deadline # "none" => \E k \in DOMAIN Layers(d) : Layers(d)[k].type = "timeout")
    BY Zenon, <2>1 DEF ObserveInv
  <2>3. QED
    BY Zenon, <2>1, <2>2, InwardObserves
<1>5. CASE Leave
  BY Zenon, <1>5, TransparentObserves, AccessLogObserves, TracingObserves, MetricsObserves, InvalidateObserves,
     TimeoutObserves DEF Leave
<1>6. QED
  BY Zenon, <1>0, <1>1, <1>2, <1>3, <1>4, <1>5, Kinds, StillObserves, PassingObserves, RawReturnsObserves,
     UnwindObserves, FinishObserves

\* What the observers recorded of an answer.
LEMMA ObservedAsSent == SentInv /\ ObserveInv => ObserversAgree
<1> SUFFICES ASSUME SentInv, ObserveInv, Answered, ~RawPanic, Has("recoverer"), "recoverer" \notin Writers
             PROVE  ObserversAgree
  BY Zenon DEF ObserversAgree
<1>1. IInv /\ WriteInv /\ DoneInv /\ dir = "done" /\ req # NoRequest /\ Recovers(d)
  BY Zenon DEF SentInv, Answered, Has, Recovers
<1>2. d \in Deployments /\ at = 0
  BY Zenon, <1>1 DEF IInv
<1>3. Len(Layers(d)) \in Nat /\ DOMAIN Layers(d) = 1..Len(Layers(d))
  BY <1>2, LayerShape
<1>4. \A k \in DOMAIN Layers(d) : k > 0 /\ ~(k <= 0)
  BY <1>3
<1>5. /\ \A type : Has(type) => Passed(d, at, type)
      /\ ~Ahead(d, at, "timeout")
  BY Zenon, <1>2, <1>4 DEF Has, Passed, Ahead
<1>6. out.wire.status # 0
  BY Zenon, <1>1 DEF DoneInv
<1>7. Final(out.wire.status) = out.wire.status
  BY Zenon, <1>6 DEF Final
<1>8. /\ Measured(d, out, ops, at, seen) /\ Logged(d, out, ops, at, seen, deadline)
      /\ Traced(d, out, ops, at, seen) /\ Bumped(d, out, ops, at, seen, req)
  BY Zenon, <1>1 DEF ObserveInv, Back
<1>9. ~(ops.panic /\ Raw(d)) /\ ~By(out.wire.body, "recoverer")
  BY Zenon, WritersAre DEF RawPanic, Raw
<1>10. Has("metrics") => seen.metric = out.wire.status \/ (ops.flush /\ "timeout" \in Writers)
  BY Zenon, <1>5, <1>7, <1>8, <1>9, WritersAre DEF Measured
<1>11. ASSUME "timeout" \notin Writers, "cors" \notin Writers, out.wire.status # NoContent
       PROVE  /\ Has("access_log") => seen.log = out.wire.status \/ (seen.log = 0 /\ out.wire.status < 500)
              /\ Has("tracing") => seen.span = out.wire.status
              /\ Has("cache_invalidate") /\ (req.write \/ ~Has("cache_read")) =>
                    (seen.bump = 1) = (out.wire.status \in 200..299)
  <2>1. ~Excused(d, out, ops)
    BY Zenon, <1>9, <1>11, WritersAre DEF Excused
  <2>2. ~Pending(d, out, at, deadline)
    BY Zenon, <1>5 DEF Pending
  <2>3. Has("access_log") => seen.log = out.wire.status \/ (seen.log = 0 /\ out.wire.status < 500)
    <3>1. Has("access_log") => seen.log = Final(out.wire.status) \/ (seen.log = 0 /\ Sampled(Final(out.wire.status)))
      BY Zenon, <1>5, <1>8, <2>1, <2>2 DEF Logged
    <3>2. QED
      BY Zenon, <1>7, <3>1 DEF Sampled
  <2>4. Has("tracing") => seen.span = out.wire.status
    BY Zenon, <1>5, <1>7, <1>8, <2>1 DEF Traced
  <2>5. ASSUME Has("cache_invalidate"), req.write \/ ~Has("cache_read")
        PROVE  (seen.bump = 1) = (out.wire.status \in 200..299)
    <3>1. seen.bump = 1 <=> Succeeded(Final(out.wire.status))
      BY Zenon, <1>5, <1>8, <2>1, <2>5 DEF Bumped, Has
    <3>2. seen.bump = 1 <=> out.wire.status \in 200..299
      BY Zenon, <1>7, <3>1 DEF Succeeded
    <3>3. QED
      BY <3>2
  <2>6. QED
    BY Zenon, <2>3, <2>4, <2>5
<1>12. QED
  BY Zenon, <1>10, <1>11 DEF ObserversAgree, NoContent

\* For every middleware, route and handler: what log, span, metrics and bumped tags
\* say of a request is what its client got.
THEOREM ObserversAlwaysAgree == Spec => []ObserversAgree
<1>1. SentInv /\ ObserveInv /\ [Next]_vars => ObserveInv'
  BY Zenon, NextObserveInv DEF SentInv
<1>2. Spec => []ObserveInv
  BY <1>1, InitObserveInv, SentInvariant, PTL DEF Spec
<1>3. QED
  BY <1>2, SentInvariant, ObservedAsSent, PTL
=============================================================================
