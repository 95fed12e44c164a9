---------------------------- MODULE RequestPath -----------------------------
(***************************************************************************)
(* One route from its registration to the answers clients receive: the     *)
(* validator (RouteRules), then requests through the metrics, the global   *)
(* middleware, the policies and the handler, and back, with what every     *)
(* response writer wrapped around the connection records on the way.       *)
(*                                                                         *)
(* The layers of a deployment are a sequence, outermost first.  A request  *)
(* goes in layer by layer, a layer may answer and turn it back, the        *)
(* handler runs, and the layers act again on the way out, or are skipped   *)
(* by a panic.  Layer i writes through the writers of the layers before    *)
(* it.  The deadline of RequestTimeout may pass at any step, and Redis may *)
(* fail at any call.  RequestID, ClientIP, SecurityHeaders and MaxBodyBytes *)
(* only add to headers, context or body reader and are left out.           *)
(***************************************************************************)
EXTENDS RouteRules

CONSTANTS
    Deployments,    \* records: app (what is switched on) and route
    Requests(_),    \* the requests sent to a deployment
    TenantOf,       \* the tenant of every user
    MaxOps,         \* bound: operations of a handler that writes by itself
    MaxBytes        \* the cache's limit on a body, in chunks

\* A request carries the token of a user, or of nobody ("anon"); "none" stands for
\* what nobody attached, so it names neither a user nor a tenant.
ASSUME RequestsAssumption ==
    /\ \A x \in Deployments : \A r \in Requests(x) : r.user \in DOMAIN TenantOf \cup {"anon"}
    /\ DOMAIN TenantOf \subseteq STRING \ {"none", "anon"}
    /\ \A u \in DOMAIN TenantOf : TenantOf[u] # "none"

\* Policies come from the constructors; what shares a literal shares the type.
ASSUME DeploymentsAssumption == \A x \in Deployments :
    /\ x.route.policies \in Seq(Policy)
    /\ \A t \in DOMAIN x.route.last : x.route.last[t].type = t

VARIABLES
    d,          \* the deployment
    up,         \* "starting", "serving" or "refused"
    at, dir,    \* the layer the request is at, and which way it goes
    req,        \* the request
    who,        \* the user AuthRequired attached, "none" without
    tenant,     \* the tenant the tenant middleware attached, "none" without
    deadline,   \* "none", "armed" or "passed"
    out,        \* what was written: wire, the layers' writers, the caching writer
    seen,       \* what log, trace and metrics recorded and if tags were bumped, 0 for nothing
    ops,        \* operations of the handler so far: their number, and if it panicked or flushed
    store,      \* cached responses by key
    stored      \* the key this request stored, NoKey without

vars == <<d, up, at, dir, req, who, tenant, deadline, out, seen, ops, store, stored>>

-----------------------------------------------------------------------------
(* The layers. *)

If(c, type) == IF c THEN <<Plain(type)>> ELSE <<>>

\* app.New and AssembleGlobalMiddleware.
GlobalLayers(app) ==
    If(app.metrics, "metrics") \o If(app.recoverer, "recoverer") \o If(app.cors, "cors")
    \o If(app.timeout, "timeout") \o If(app.tracing, "tracing")
    \o If(app.accessLog, "access_log") \o If(app.tenancy, "tenant")

\* Chain wraps the handler in the route's policies.
Layers(x) == GlobalLayers(x.app) \o x.route.policies

layer == Layers(d)[at]
Handling == at = Len(Layers(d)) + 1

-----------------------------------------------------------------------------
(* Writing.  A chunk of a body remembers who wrote it and for which user.  *)

NoKey == <<"none", "none">>

Chunk(by, of) == [by |-> by, of |-> of]

\* What was sent, what a layer's writer knows, the caching writer of layer i (0: none).
Sent(status, body) == [status |-> status, body |-> body]
Writer(status, wrote) == [status |-> status, wrote |-> wrote]
Caching(i, key, body, large, stream) ==
    [at |-> i, key |-> key, body |-> body, large |-> large, stream |-> stream]

Output(wire, ws, cw, cookie) == [wire |-> wire, ws |-> ws, cw |-> cw, cookie |-> cookie]

Fresh(x) ==
    Output(Sent(0, <<>>), [i \in DOMAIN Layers(x) |-> Writer(200, FALSE)],
           Caching(0, NoKey, <<>>, FALSE, FALSE), FALSE)

\* WriteHeader from layer i: every writer outside records the status, the
\* connection keeps the first.
WriteHeader(o, i, status) ==
    Output(Sent(IF o.wire.status = 0 THEN status ELSE o.wire.status, o.wire.body),
           [j \in DOMAIN o.ws |-> IF j < i THEN Writer(status, TRUE) ELSE o.ws[j]],
           o.cw, o.cookie)

\* The caching writer drops the body once it is too large.
Captured(cw, i, body, size) ==
    IF cw.at \notin 1..(i - 1) \/ cw.large THEN cw
    ELSE IF Len(cw.body) + size > MaxBytes THEN Caching(cw.at, cw.key, cw.body, TRUE, cw.stream)
    ELSE Caching(cw.at, cw.key, cw.body \o body, FALSE, cw.stream)

\* Write from layer i.
Write(o, i, body, size) ==
    Output(Sent(IF o.wire.status = 0 THEN 200 ELSE o.wire.status, o.wire.body \o body),
           [j \in DOMAIN o.ws |-> IF j < i THEN Writer(o.ws[j].status, TRUE) ELSE o.ws[j]],
           Captured(o.cw, i, body, size), o.cookie)

\* Flush from layer i.  The recorder of CacheInvalidate cannot flush, so the
\* writers outside of it, and the connection, see nothing; no writer marks the
\* header as written, though the connection sends it.
Flush(o, i) ==
    LET recorders == {j \in 1..(i - 1) : Layers(d)[j].type = "cache_invalidate"}
        cw == o.cw
    IN  Output(Sent(IF o.wire.status = 0 /\ recorders = {} THEN 200 ELSE o.wire.status, o.wire.body),
               o.ws,
               Caching(cw.at, cw.key, cw.body, cw.large,
                       cw.stream \/ (cw.at \in 1..(i - 1) /\ \A k \in recorders : k < cw.at)),
               o.cookie)

\* response.JSON and response.Error: a header and one envelope.
Envelope(o, i, status) ==
    LET by == IF i \in DOMAIN Layers(d) THEN Layers(d)[i].type ELSE "handler"
    IN  Write(WriteHeader(o, i, status), i, <<Chunk(by, "none")>>, 1)

-----------------------------------------------------------------------------
(* Registration and the arrival of a request. *)

Seen(log, span, metric, bump) == [log |-> log, span |-> span, metric |-> metric, bump |-> bump]
Unseen == Seen(0, 0, 0, 0)

Ops(n, panic, flush) == [n |-> n, panic |-> panic, flush |-> flush]

NoRequest == [user |-> "none"]

Init ==
    /\ d \in Deployments
    /\ up = "starting" /\ at = 0 /\ dir = "done"
    /\ req = NoRequest /\ who = "none" /\ tenant = "none" /\ deadline = "none"
    /\ out = Fresh(d) /\ seen = Unseen
    /\ ops = Ops(0, FALSE, FALSE)
    /\ store = <<>> /\ stored = NoKey

requestVars == <<req, who, tenant, deadline, out, seen, ops, stored>>

\* Mux.Handle: MustValidateRouteWith panics on a route it refuses.
Handle ==
    LET r == d.route
    IN  /\ up = "starting"
        /\ up' = IF ValidateRoute(d.app.tenancy, r.pattern, r.last, r.policies) THEN "serving"
                 ELSE "refused"
        /\ UNCHANGED <<d, at, dir, store, requestVars>>

Arrive ==
    /\ up = "serving" /\ dir = "done"
    /\ req' \in Requests(d)
    /\ at' = 1 /\ dir' = "in"
    /\ who' = "none" /\ tenant' = "none" /\ deadline' = "none"
    /\ out' = Fresh(d) /\ seen' = Unseen
    /\ ops' = Ops(0, FALSE, FALSE) /\ stored' = NoKey
    /\ UNCHANGED <<d, up, store>>

\* The deadline passes while RequestTimeout is on the stack.
Expire ==
    /\ deadline = "armed"
    /\ deadline' = "passed"
    /\ UNCHANGED <<d, up, at, dir, req, who, tenant, out, seen, ops, store, stored>>

-----------------------------------------------------------------------------
(* On the way in: pass the request on, or answer and turn it back. *)

Pass == at' = at + 1 /\ dir' = "in"
TurnBack == at' = at - 1 /\ dir' = "out"
Panics == at' = at - 1 /\ dir' = "panic"

At(types) == dir = "in" /\ ~Handling /\ layer.type \in types

\* The layers that only do something on the way out, or only to headers.
EnterTransparent ==
    /\ At({"metrics", "recoverer", "tracing", "access_log", "cache_control", "cache_invalidate"})
    /\ Pass
    /\ UNCHANGED <<d, up, store, requestVars>>

\* RequestTimeout; shouldBypassRequestTimeout leaves streams alone.
EnterTimeout ==
    /\ At({"timeout"})
    /\ deadline' = IF req.stream THEN "none" ELSE "armed"
    /\ Pass
    /\ UNCHANGED <<d, up, req, who, tenant, out, seen, ops, store, stored>>

\* CORS answers every preflight of an origin, and passes everything else.
EnterCORS ==
    /\ At({"cors"})
    /\ IF req.preflight /\ req.origin # "none"
       THEN /\ TurnBack
            /\ out' = IF req.origin = "allowed" THEN WriteHeader(out, at, 204) ELSE Envelope(out, at, 403)
       ELSE Pass /\ out' = out
    /\ UNCHANGED <<d, up, req, who, tenant, deadline, seen, ops, store, stored>>

\* What a guarding layer may do with the request: 0 to pass it on, or the
\* status it answers with.
TokenTenant == IF d.app.tenancy THEN TenantOf[req.user] ELSE "0"
PrincipalTenant == IF d.app.tenancy THEN TenantOf[who] ELSE "0"

TenantVerdicts ==
    CASE req.named = "none" -> {400}
      [] req.named = "unknown" -> {404, 503}
      [] OTHER -> {0, 503}

\* goAuth accepts the token, then the tenancy extension binds it to the tenant.
AuthVerdict ==
    IF req.user = "anon" \/ (d.app.tenancy /\ TokenTenant # tenant) THEN 401 ELSE 0

TenantRequiredVerdict ==
    IF who = "none" THEN 401
    ELSE IF tenant # "none" /\ PrincipalTenant # tenant THEN 404
    ELSE 0

\* The parameter's value: the path's tenant, or what stands for {other}.
PathValue(param) ==
    IF param \notin ParamsOf(d.route.pattern) THEN ""
    ELSE IF param = "tenant_id" THEN req.path
    ELSE req.other

TenantMatchVerdict ==
    IF who = "none" THEN 401
    ELSE IF PathValue(layer.param) = "" THEN 400
    ELSE IF PathValue(layer.param) # PrincipalTenant THEN 404
    ELSE 0

RequirePermVerdict ==
    IF who = "none" THEN 401 ELSE IF ~req.perm THEN 403 ELSE 0

RequireJSONVerdict == IF req.write /\ req.body = "text" THEN 415 ELSE 0

\* Allowed, over the limit, a request Allow cannot decide on, or Redis failing closed.
RateLimitVerdicts == {0, 429, 500, 503}

Verdicts ==
    CASE layer.type = "tenant" -> TenantVerdicts
      [] layer.type = "auth_required" -> {AuthVerdict}
      [] layer.type = "tenant_required" -> {TenantRequiredVerdict}
      [] layer.type = "tenant_match" -> {TenantMatchVerdict}
      [] layer.type = "require_perm" -> {RequirePermVerdict}
      [] layer.type = "require_json" -> {RequireJSONVerdict}
      [] layer.type = "rate_limit" -> RateLimitVerdicts

Guard ==
    /\ At({"tenant", "auth_required", "tenant_required", "tenant_match", "require_perm",
           "require_json", "rate_limit"})
    /\ \E v \in Verdicts :
          IF v = 0
          THEN /\ Pass
               /\ tenant' = IF layer.type = "tenant" THEN req.named ELSE tenant
               /\ who' = IF layer.type = "auth_required" THEN req.user ELSE who
               /\ out' = out
          ELSE TurnBack /\ out' = Envelope(out, at, v) /\ UNCHANGED <<tenant, who>>
    /\ UNCHANGED <<d, up, req, deadline, seen, ops, store, stored>>

\* Mutant: whoever asks, the key is the tenant's.
KeyForTenant(vary) ==
    IF vary = "none" THEN <<"any", "any">>
    ELSE <<"tenant", IF who = "none" THEN "none" ELSE PrincipalTenant>>

\* BuildReadKeyWithTemplate, as far as identities go.
KeyFor(vary) ==
    CASE vary = "user"   -> <<"user", who>>
      [] vary = "tenant" -> <<"tenant", IF who = "none" THEN "none" ELSE PrincipalTenant>>
      [] OTHER           -> <<"any", "any">>

\* CacheRead: a bypass for writes, the panic of ensureAuthCacheSafety, an error
\* of Redis (open or closed), a hit, or a miss under the caching writer.
EnterCacheRead ==
    LET key == KeyFor(layer.vary)
        Miss == Pass /\ out' = Output(out.wire, out.ws, Caching(at, key, <<>>, FALSE, FALSE), out.cookie)
    IN  /\ At({"cache_read"})
        /\ \/ req.write /\ Pass /\ out' = out
           \/ ~req.write /\ layer.vary = "none" /\ who # "none" /\ Panics /\ out' = out
           \/ /\ ~req.write /\ ~(layer.vary = "none" /\ who # "none")
              /\ \/ IF d.app.failOpen THEN (Pass /\ out' = out) \/ Miss
                    ELSE TurnBack /\ out' = Envelope(out, at, 503)
                 \/ IF key \in DOMAIN store
                    THEN /\ TurnBack
                         /\ out' = Write(WriteHeader(out, at, store[key].status), at,
                                         store[key].body, Len(store[key].body))
                    ELSE Miss
        /\ UNCHANGED <<d, up, req, who, tenant, deadline, seen, ops, store, stored>>

-----------------------------------------------------------------------------
(* The handler. *)

Owner == IF who = "none" THEN "anon" ELSE who
Returns == at' = at - 1 /\ dir' = "out"

AtHandler(kind) == dir = "in" /\ Handling /\ d.route.handler = kind
handlerUnchanged == UNCHANGED <<d, up, req, who, tenant, deadline, seen, store, stored>>

\* Of a request with a body: a failure to read or decode it is a 400, Validate may
\* choose its own status.
DecodeAndValidateJSON ==
    IF ~req.write \/ req.body \in {"ok", "text"} THEN {0}
    ELSE IF req.body = "invalid" THEN {400, 422}
    ELSE {400}

\* Adapter: the body is decoded and validated, then the function's result or
\* error becomes the one envelope.  A function that gives up on the deadline
\* returns its error.  Results and details of errors are the application's own, and
\* where they do not encode only the status goes out: the error of Encode is dropped.
Adapter ==
    /\ AtHandler("adapter")
    /\ Returns
    /\ \/ \E s \in DecodeAndValidateJSON \ {0} :
             out' = Envelope(out, at, s) \/ (req.body = "invalid" /\ out' = WriteHeader(out, at, s))
       \/ /\ DecodeAndValidateJSON = {0}
          /\ \/ out' = Write(WriteHeader(out, at, 200), at, <<Chunk("handler", Owner)>>, 1)
             \/ \E s \in {404, 500} : out' = Envelope(out, at, s)
             \/ \E s \in {200, 404, 500} : out' = WriteHeader(out, at, s)
             \/ deadline = "passed" /\ out' = Envelope(out, at, 504)
    /\ ops' = ops
    /\ handlerUnchanged

\* A handler that writes by itself: one header before anything is sent, bodies,
\* flushes, a cookie.
RawOp ==
    /\ AtHandler("raw") /\ ops.n < MaxOps
    /\ \/ /\ out.wire.status = 0
          /\ \E s \in {200, 500} : out' = WriteHeader(out, at, s)
          /\ ops' = Ops(ops.n + 1, ops.panic, ops.flush)
       \/ /\ \E size \in 1..2 : out' = Write(out, at, <<Chunk("handler", Owner)>>, size)
          /\ ops' = Ops(ops.n + 1, ops.panic, ops.flush)
       \/ out' = Flush(out, at) /\ ops' = Ops(ops.n + 1, ops.panic, TRUE)
       \/ out' = Output(out.wire, out.ws, out.cw, TRUE) /\ ops' = Ops(ops.n + 1, ops.panic, ops.flush)
    /\ UNCHANGED <<at, dir>>
    /\ handlerUnchanged

RawReturns ==
    /\ AtHandler("raw") /\ Returns
    /\ UNCHANGED <<out, ops>> /\ handlerUnchanged

HandlerPanics ==
    /\ dir = "in" /\ Handling
    /\ Panics
    /\ ops' = Ops(ops.n, TRUE, ops.flush) /\ out' = out
    /\ handlerUnchanged

-----------------------------------------------------------------------------
(* On the way out. *)

Leaving(types) == dir = "out" /\ at > 0 /\ layer.type \in types
Outward == at' = at - 1 /\ dir' = "out"

LeaveTransparent ==
    /\ \/ Leaving({"recoverer", "cors", "tenant", "auth_required", "tenant_required", "tenant_match",
                   "require_perm", "require_json", "rate_limit", "cache_control"})
       \/ Leaving({"cache_read"}) /\ out.cw.at # at
    /\ Outward
    /\ UNCHANGED <<d, up, store, requestVars>>

\* Mutant: the timeout answers whether or not something was written.
LateAlways(o) == deadline = "passed"

\* RequestTimeout answers only a request nobody answered.
Late(o) == deadline = "passed" /\ ~o.ws[at].wrote

LeaveTimeout ==
    /\ Leaving({"timeout"})
    /\ out' = IF Late(out) THEN Envelope(out, at, 504) ELSE out
    /\ deadline' = IF deadline = "armed" THEN "none" ELSE deadline
    /\ Outward
    /\ UNCHANGED <<d, up, req, who, tenant, seen, ops, store, stored>>

\* AccessLog always logs an answer of 500 and above; the others are sampled.
LogStatus == IF Late(out) THEN 504 ELSE out.ws[at].status

Observed == Outward /\ UNCHANGED <<d, up, req, who, tenant, deadline, out, ops, store, stored>>

LeaveAccessLog ==
    /\ Leaving({"access_log"})
    /\ \E s \in {LogStatus} \cup (IF LogStatus >= 500 THEN {} ELSE {0}) :
          seen' = Seen(s, seen.span, seen.metric, seen.bump)
    /\ Observed

LeaveTracing ==
    /\ Leaving({"tracing"})
    /\ seen' = Seen(seen.log, out.ws[at].status, seen.metric, seen.bump)
    /\ Observed

\* InstrumentHTTP.
LeaveMetrics ==
    /\ Leaving({"metrics"})
    /\ seen' = Seen(seen.log, seen.span, out.ws[at].status, seen.bump)
    /\ Observed

\* Mutant: the part that fitted of a response that is too large is cacheable.
CacheableLarge == ~out.cw.stream /\ ~out.cookie /\ out.ws[at].status = 200

Cacheable == ~out.cw.stream /\ ~out.cw.large /\ ~out.cookie /\ out.ws[at].status = 200

\* CacheRead after a miss.  Set fails with the request's context, and with Redis.
LeaveCacheRead ==
    /\ Leaving({"cache_read"}) /\ out.cw.at = at
    /\ \/ /\ Cacheable /\ deadline # "passed"
          /\ LET entry == [status |-> out.ws[at].status, body |-> out.cw.body]
             IN  store' = [k \in DOMAIN store \cup {out.cw.key} |-> IF k = out.cw.key THEN entry ELSE store[k]]
          /\ stored' = out.cw.key
       \/ UNCHANGED <<store, stored>>
    /\ Outward
    /\ UNCHANGED <<d, up, req, who, tenant, deadline, out, seen, ops>>

\* Mutant: the tags are bumped whatever the answer.
LeaveCacheInvalidateAlways ==
    /\ Leaving({"cache_invalidate"})
    /\ seen' = Seen(seen.log, seen.span, seen.metric, 1)
    /\ Observed

\* CacheInvalidate bumps its tags after a success.
LeaveCacheInvalidate ==
    /\ Leaving({"cache_invalidate"})
    /\ seen' = Seen(seen.log, seen.span, seen.metric, IF out.ws[at].status \in 200..299 THEN 1 ELSE 0)
    /\ Observed

\* A panic skips what the layers would do, up to Recoverer, which answers 500.
\* The tracing layer records the error and lets it go on.
Unwind ==
    /\ dir = "panic" /\ at > 0
    /\ at' = at - 1
    /\ dir' = IF layer.type = "recoverer" THEN "out" ELSE "panic"
    /\ out' = IF layer.type = "recoverer" THEN Envelope(out, at, 500) ELSE out
    /\ seen' = IF layer.type = "tracing" THEN Seen(seen.log, 500, seen.metric, seen.bump) ELSE seen
    /\ deadline' = IF layer.type = "timeout" /\ deadline = "armed" THEN "none" ELSE deadline
    /\ UNCHANGED <<d, up, req, who, tenant, ops, store, stored>>

\* net/http sends 200 for a handler that wrote nothing, and drops the
\* connection of one that panicked.
Finish ==
    /\ at = 0 /\ dir \in {"out", "panic"}
    /\ dir' = "done"
    /\ out' = Output(Sent(IF out.wire.status = 0 /\ dir = "out" THEN 200 ELSE out.wire.status,
                          out.wire.body), out.ws, out.cw, out.cookie)
    /\ UNCHANGED <<d, up, at, req, who, tenant, deadline, seen, ops, store, stored>>

Next ==
    \/ Handle \/ Arrive \/ Expire
    \/ EnterTransparent \/ EnterTimeout \/ EnterCORS \/ Guard \/ EnterCacheRead
    \/ Adapter \/ RawOp \/ RawReturns \/ HandlerPanics
    \/ LeaveTransparent \/ LeaveTimeout \/ LeaveAccessLog \/ LeaveTracing \/ LeaveMetrics
    \/ LeaveCacheRead \/ LeaveCacheInvalidate
    \/ Unwind \/ Finish

Spec == Init /\ [][Next]_vars

-----------------------------------------------------------------------------
(* Properties. *)

Answered == dir = "done" /\ req # NoRequest
Has(type) == \E i \in DOMAIN Layers(d) : Layers(d)[i].type = type
Writers == {out.wire.body[i].by : i \in DOMAIN out.wire.body}
Data == {c \in {out.wire.body[i] : i \in DOMAIN out.wire.body} : c.of # "none"}
RawPanic == ops.panic /\ d.route.handler = "raw"

\* What may be answered without a body: a preflight, and what the application makes
\* Adapter encode.
Bodiless == {200, 204, 400, 404, 422, 500}

\* The route matches the tenant of the principal with the one in its path.
MatchesTenant == \E i \in DOMAIN d.route.policies : d.route.policies[i] = TenantMatchFromPath("tenant_id")

\* A body is never a mix of two answers, whatever deadline, panic or failing
\* dependency a request meets: Recoverer, RequestTimeout, Adapter and the policies
\* write only when nobody did, and only a handler that panics after it wrote gets
\* two.  The envelope of RequestTimeout goes out as the 504 it says, unless the handler
\* flushed before it wrote.  Under Recoverer, an Adapter route answers with one envelope,
\* or with the status alone where that is all Adapter or a preflight has.
OneAnswer ==
    Answered =>
        /\ ~RawPanic => \A a, b \in Writers : a = b
        /\ "timeout" \in Writers /\ ~RawPanic => out.wire.status = 504 \/ ops.flush
        /\ d.route.handler = "adapter" /\ Has("recoverer") =>
              /\ out.wire.status # 0
              /\ Len(out.wire.body) = 1 \/ (out.wire.body = <<>> /\ out.wire.status \in Bodiless)

\* Without a panic, what the access log, the span and the metrics say is what the
\* client got, every answer of 500 and above is in the log, and CacheInvalidate bumps its
\* tags exactly when a request succeeded (on a route with CacheRead too, a write: a read
\* may be answered from the cache before it gets there).  Only the answer of RequestTimeout
\* itself can be missed, by the observers inside of it, and overstated, after a flush sent
\* the 200.
ObserversAgree ==
    Answered /\ ~RawPanic /\ Has("recoverer") /\ "recoverer" \notin Writers =>
        /\ Has("metrics") => seen.metric = out.wire.status \/ (ops.flush /\ "timeout" \in Writers)
        /\ "timeout" \notin Writers /\ "cors" \notin Writers /\ out.wire.status # 204 =>
              /\ Has("access_log") => seen.log = out.wire.status \/ (seen.log = 0 /\ out.wire.status < 500)
              /\ Has("tracing") => seen.span = out.wire.status
              /\ Has("cache_invalidate") /\ (req.write \/ ~Has("cache_read")) =>
                    (seen.bump = 1) = (out.wire.status \in 200..299)

\* A response is cached only as the client received it: whole, alone, without the
\* cookie of the user who caused it.  Nothing after CacheRead stored it adds to it,
\* unless the handler wrote nothing and the deadline passes at the last moment.
CachedAsSent ==
    Answered /\ stored # NoKey =>
        /\ ~out.cookie
        /\ \/ out.wire.status = store[stored].status /\ out.wire.body = store[stored].body
           \/ store[stored].body = <<>> /\ Writers = {"timeout"}

\* A response produced for one user reaches another only on a route that varies by
\* tenant, and then within the tenant; what was produced for a user never
\* reaches an anonymous client.  It holds even where registration judged CacheRead by
\* the metadata of another route: then the request panics.
CacheKeepsApart ==
    Answered => \A c \in Data :
        \/ c.of = Owner
        \/ /\ {c.of, who} \cap {"anon", "none"} = {}
           /\ \E i \in DOMAIN d.route.policies : d.route.policies[i].vary = "tenant"
           /\ d.app.tenancy => TenantOf[c.of] = TenantOf[who]

\* With tenancy on, a route under {tenant_id} that carries TenantMatchFromPath("tenant_id")
\* gives the data of a tenant only to its users, addressed as that tenant, from the handler
\* or from the cache, wherever else its policies stand and whatever metadata they were
\* judged by: registration keeps the match before the cache.
TenantIsolation ==
    Answered /\ d.app.tenancy /\ "tenant_id" \in ParamsOf(d.route.pattern) /\ MatchesTenant =>
        \A c \in Data : c.of # "anon" /\ TenantOf[c.of] = req.path /\ req.named = req.path

\* What docs/multi-tenancy.md says of registration: with tenancy on, a route under
\* {tenant_id} carries TenantRequired and TenantMatchFromPath("tenant_id").  The code
\* accepts one without policies before it asks the tenancy rule.
TenantPathsGuarded ==
    up = "serving" /\ d.app.tenancy /\ "tenant_id" \in ParamsOf(d.route.pattern) =>
        MatchesTenant /\ \E i \in DOMAIN d.route.policies : d.route.policies[i] = TenantRequired

\* On a registered route no permission or tenant check ever meets a request without
\* a principal: their own 401s are never sent.
GuardedByAuth == dir = "in" /\ ~Handling /\ layer.type \in Checks => who # "none"
=============================================================================
