--------------------------- MODULE TenantResolver ---------------------------
(***************************************************************************)
(* The tenant resolution middleware (internal/tenancy/resolver.go), its    *)
(* validation cache (cache.go) and the tenants table they ask              *)
(* (directory.go), with the tool that creates tenants (createuser.go).     *)
(*                                                                         *)
(* Requests run concurrently. A lookup takes a lock per segment of the     *)
(* cache, once to read and once to write, and asks the database in         *)
(* between, so every one of those is a step of its own. Time is a Tick     *)
(* that ages the entries; an entry keeps how long it has left, not a       *)
(* deadline, which keeps the state space finite without bounding time.     *)
(***************************************************************************)
EXTENDS Integers, Sequences, FiniteSets, FiniteSetsExt

CONSTANTS
  Tenants,     \* tenant ids; a value a client sends is spelled like one
  SlugOf,      \* the slugs of seeded tenants, spelled like some tenant's id
  Seeds,       \* which tenants the table may hold at the start
  Operated,    \* tenants an operator creates, activates and deactivates
  Requests,    \* concurrent requests
  Settings,    \* the TENANCY_* settings considered
  MaxActive,   \* maxCacheEntries
  MaxInactive, \* maxNegativeCacheEntries
  MinNegTTL,   \* minNegativeTTL
  MaxLag       \* the delay of a lookup is counted up to here

None == "none"
Values == Tenants \cup {"", "malformed"}
Refusals == {"required", "invalid", "unavailable", "notfound"}

ASSUME TenantAssumption ==
  /\ SlugOf \in [Tenants -> Tenants]
  /\ \A t, u \in Tenants : SlugOf[t] = SlugOf[u] => t = u
  /\ Operated \subseteq Tenants /\ Seeds \subseteq SUBSET Tenants
  /\ Tenants \cap ({"", "malformed", None} \cup Refusals) = {}
  /\ MaxActive \in Nat \ {0} /\ MaxInactive \in Nat \ {0}
  /\ MinNegTTL \in Nat \ {0} /\ MaxLag \in Nat
  /\ Settings \subseteq [resolver : {"header", "subdomain"}, validate : BOOLEAN,
                         postgres : BOOLEAN, baseDomain : BOOLEAN,
                         spelled : BOOLEAN, ttl : Nat]

VARIABLES
  cfg,      \* the settings of this process
  rows,     \* tenants.status, "absent" when there is no row
  slug,     \* tenants.slug; of an absent row, the one it would be created with
  active,   \* validationCache.active, most recently used first
  inactive, \* validationCache.inactive
  req,      \* the requests
  since,    \* history: ticks since a tenant was last active
  down      \* history: ticks since a value last named no active tenant

tenantVars == <<cfg, rows, slug, active, inactive, req, since, down>>

-----------------------------------------------------------------------------
(* Config.Lint of the feature, with tenancy enabled. A setting is spelled  *)
(* when its header is one name, its exempt paths are paths and its TTL is  *)
(* not negative.                                                           *)
Lint(c) ==
  /\ c.spelled
  /\ c.resolver = "subdomain" => c.baseDomain /\ c.validate
  /\ c.validate => c.postgres

(* negativeTTL. *)
negativeTTL(positive) == Min({Max({positive \div 4, MinNegTTL}), positive})

caching == cfg.validate /\ cfg.ttl > 0
FarSince == cfg.ttl + MaxLag

-----------------------------------------------------------------------------
(* ttlLRU: a list, most recently used first. An entry whose time left is   *)
(* negative has expired.                                                   *)
KeysOf(l) == {l[i].key : i \in 1..Len(l)}
IndexOf(l, k) == CHOOSE i \in 1..Len(l) : l[i].key = k
EntryOf(l, k) == l[IndexOf(l, k)]
Removed(l, i) == SubSeq(l, 1, i - 1) \o SubSeq(l, i + 1, Len(l))
Without(l, k) == IF k \in KeysOf(l) THEN Removed(l, IndexOf(l, k)) ELSE l
Live(l, k) == k \in KeysOf(l) /\ EntryOf(l, k).left >= 0

(* Mutant: a hit renews the deadline. *)
AfterGetRenewed(l, k) ==
  IF Live(l, k)
  THEN <<[EntryOf(l, k) EXCEPT !.left = cfg.ttl]>> \o Without(l, k)
  ELSE Without(l, k)

(* ttlLRU.get: a hit moves the entry to the front and keeps its deadline,  *)
(* an expired entry is removed.                                            *)
AfterGet(l, k) ==
  IF Live(l, k) THEN <<EntryOf(l, k)>> \o Without(l, k) ELSE Without(l, k)

(* ttlLRU.put: a fresh entry in front, the last ones dropped while the     *)
(* list is longer than max.                                                *)
AfterPut(l, e, max) ==
  LET all == <<e>> \o Without(l, e.key) IN SubSeq(all, 1, Min({max, Len(all)}))

Aged(l) == [i \in 1..Len(l) |-> [l[i] EXCEPT !.left = Max({@ - 1, -1})]]

-----------------------------------------------------------------------------
(* The table, as the resolver asks it: Directory.Get by the id of a        *)
(* tenant, GetBySlug by its slug.                                          *)
Named(t, v) == v = IF cfg.resolver = "subdomain" THEN slug[t] ELSE t

RowFor(v) == {t \in Tenants : rows[t] # "absent" /\ Named(t, v)}
Row(v) == IF RowFor(v) = {} THEN None ELSE CHOOSE t \in RowFor(v) : TRUE
Active(v) == RowFor(v) # {} /\ rows[Row(v)] = "active"

-----------------------------------------------------------------------------
(* A request that has no result of a lookup in hand. *)
ReqAt(at, value, reply) ==
  [at |-> at, value |-> value, id |-> None, ok |-> FALSE, lag |-> 0, reply |-> reply]

(* A request that has found tenant t, and has its answer to store. *)
Found(value, t, ok) ==
  [at |-> "drop", value |-> value, id |-> t, ok |-> ok, lag |-> 0, reply |-> None]

idle == ReqAt("idle", "", None)

TenantInit ==
  /\ cfg \in {c \in Settings : Lint(c)}
  /\ \E S \in Seeds :
       rows = [t \in Tenants |-> IF t \in S THEN "active" ELSE "absent"]
  /\ slug = [t \in Tenants |-> IF rows[t] = "absent" THEN t ELSE SlugOf[t]]
  /\ active = <<>> /\ inactive = <<>>
  /\ req = [r \in Requests |-> idle]
  /\ since = [t \in Tenants |-> IF rows[t] = "active" THEN 0 ELSE FarSince]
  /\ down = [v \in Tenants |-> IF Active(v) THEN FarSince ELSE 0]

-----------------------------------------------------------------------------
(* Middleware.                                                             *)

Move(r, to) == req' = [req EXCEPT ![r].at = to]
Request == UNCHANGED <<cfg, rows, slug, since, down>>

Refuse(r, a) == req' = [req EXCEPT ![r] = ReqAt("done", "", a)]
Serve(r, v, t) == req' = [req EXCEPT ![r] = ReqAt("done", v, t)]
Begin(r, v, to) == req' = [req EXCEPT ![r] = ReqAt(to, v, None)]

Answer(r, t, ok) == IF ok THEN Serve(r, req[r].value, t) ELSE Refuse(r, "notfound")

(* A request arrives with nothing, or with a malformed value; exempt paths *)
(* never come here.                                                        *)
ArriveUnnamed(r, v) ==
  /\ req[r].at = "idle"
  /\ v \in {"", "malformed"}
  /\ Refuse(r, IF v = "" THEN "required" ELSE "invalid")
  /\ UNCHANGED <<active, inactive>>
  /\ Request

(* Without a directory the value is the tenant, and a slug is refused.     *)
ArriveUnchecked(r, v) ==
  /\ req[r].at = "idle"
  /\ ~cfg.validate
  /\ IF cfg.resolver = "subdomain" THEN Refuse(r, "unavailable") ELSE Serve(r, v, v)
  /\ UNCHANGED <<active, inactive>>
  /\ Request

(* lookupTenant and validationCache.get, the active segment.               *)
GetActive(r, v) ==
  /\ req[r].at = "idle"
  /\ cfg.validate
  /\ active' = AfterGet(active, v)
  /\ CASE Live(active, v) -> Serve(r, v, EntryOf(active, v).id)
       [] OTHER -> Begin(r, v, IF caching THEN "getInactive" ELSE "ask")
  /\ UNCHANGED inactive
  /\ Request

(* validationCache.get, the inactive segment. *)
GetInactive(r) ==
  /\ req[r].at = "getInactive"
  /\ inactive' = AfterGet(inactive, req[r].value)
  /\ IF Live(inactive, req[r].value) THEN Refuse(r, "notfound") ELSE Move(r, "ask")
  /\ UNCHANGED active
  /\ Request

(* The database answers; without a cache the answer is the reply.          *)
Ask(r) ==
  /\ req[r].at = "ask"
  /\ LET v == req[r].value
     IN IF caching THEN req' = [req EXCEPT ![r] = Found(v, Row(v), Active(v))]
        ELSE Answer(r, Row(v), Active(v))
  /\ UNCHANGED <<active, inactive>>
  /\ Request

(* Mutant: a lookup that fails is cached like an unknown tenant. *)
AskFailsCached(r) ==
  /\ req[r].at = "ask"
  /\ IF caching THEN req' = [req EXCEPT ![r] = Found(req[r].value, None, FALSE)]
     ELSE Refuse(r, "unavailable")
  /\ UNCHANGED <<active, inactive>>
  /\ Request

(* The lookup fails: nothing is cached. *)
AskFails(r) ==
  /\ req[r].at = "ask"
  /\ Refuse(r, "unavailable")
  /\ UNCHANGED <<active, inactive>>
  /\ Request

(* validationCache.put, first lock: the other segment drops the key.       *)
Drop(r) ==
  /\ req[r].at = "drop"
  /\ Move(r, "store")
  /\ IF req[r].ok
     THEN inactive' = Without(inactive, req[r].value) /\ UNCHANGED active
     ELSE active' = Without(active, req[r].value) /\ UNCHANGED inactive
  /\ Request

(* The id of an inactive entry is never read. *)
Fresh(r, ttl) ==
  [key |-> req[r].value, id |-> IF req[r].ok THEN req[r].id ELSE None, left |-> ttl,
   lag |-> req[r].lag]

(* Mutant: one list for both kinds of result. *)
StoreTogether(r) ==
  /\ req[r].at = "store"
  /\ active' = IF req[r].ok
               THEN AfterPut(active, Fresh(r, cfg.ttl), MaxActive)
               ELSE Without(AfterPut(active, Fresh(r, cfg.ttl), MaxActive), req[r].value)
  /\ Answer(r, req[r].id, req[r].ok)
  /\ UNCHANGED inactive
  /\ Request

(* validationCache.put, second lock, and the reply of the request.         *)
Store(r) ==
  /\ req[r].at = "store"
  /\ IF req[r].ok
     THEN /\ active' = AfterPut(active, Fresh(r, cfg.ttl), MaxActive)
          /\ UNCHANGED inactive
     ELSE /\ inactive' = AfterPut(inactive, Fresh(r, negativeTTL(cfg.ttl)), MaxInactive)
          /\ UNCHANGED active
  /\ Answer(r, req[r].id, req[r].ok)
  /\ Request

(* The handler is done with the request. *)
Leave(r) ==
  /\ req[r].at = "done"
  /\ req' = [req EXCEPT ![r] = idle]
  /\ UNCHANGED <<active, inactive>>
  /\ Request

-----------------------------------------------------------------------------
(* The tenants table. Nothing in the code changes a status: an operator    *)
(* does.                                                                   *)
SetStatus(t, s) ==
  /\ rows[t] # "absent" /\ rows[t] # s
  /\ rows' = [rows EXCEPT ![t] = s]
  /\ since' = [since EXCEPT ![t] = 0]
  /\ UNCHANGED <<cfg, slug, active, inactive, req>>
  /\ down' = [v \in Tenants |-> IF Active(v)' THEN down[v] ELSE 0]

(* userStep.ensureTenant with --create-tenant: a Get that finds no row,    *)
(* then an INSERT of a tenant whose slug is its id. A run that loses the   *)
(* race for the id, or finds the slug taken, fails without a write, so the *)
(* pair has the effect of the INSERT.                                      *)
EnsureTenant(t) ==
  /\ rows[t] = "absent"
  /\ \A u \in Tenants : rows[u] # "absent" => slug[u] # t
  /\ rows' = [rows EXCEPT ![t] = "active"]
  /\ since' = [since EXCEPT ![t] = 0]
  /\ UNCHANGED <<cfg, slug, active, inactive, req>>
  /\ down' = [v \in Tenants |-> IF Active(v)' THEN down[v] ELSE 0]

(* Time passes: entries age, lookups that have their answer are delayed.   *)
Tick ==
  /\ active' = Aged(active) /\ inactive' = Aged(inactive)
  /\ req' = [r \in Requests |->
       [req[r] EXCEPT !.lag = IF req[r].at \in {"drop", "store"}
                              THEN Min({@ + 1, MaxLag}) ELSE @]]
  /\ since' = [t \in Tenants |->
       IF rows[t] = "active" THEN 0 ELSE Min({since[t] + 1, FarSince})]
  /\ down' = [v \in Tenants |->
       IF Active(v) THEN Min({down[v] + 1, FarSince}) ELSE 0]
  /\ UNCHANGED <<cfg, rows, slug>>

-----------------------------------------------------------------------------
Lookup(r) ==
  \/ GetInactive(r)
  \/ Ask(r)
  \/ AskFails(r)
  \/ Drop(r)
  \/ Store(r)
  \/ Leave(r)

Arrive(r) ==
  \/ \E v \in Values : ArriveUnnamed(r, v)
  \/ \E v \in Tenants : ArriveUnchecked(r, v) \/ GetActive(r, v)

TenantNext ==
  \/ \E r \in Requests : Lookup(r) \/ Arrive(r)
  \/ \E t \in Operated, s \in {"active", "inactive"} : SetStatus(t, s)
  \/ \E t \in Operated : EnsureTenant(t)
  \/ Tick

TenantSpec == TenantInit /\ [][TenantNext]_tenantVars

(* Goroutines run and time passes; nobody has to send a request.           *)
TenantFairSpec == TenantSpec /\ WF_tenantVars(Tick) /\ \A r \in Requests : WF_tenantVars(Lookup(r))

-----------------------------------------------------------------------------
(* A request is served as the tenant whose id, or slug, it named, whoever  *)
(* cached the answer, and not on an old one: "An entry lives at most one   *)
(* TTL after it was stored, so a tenant deactivated in the database stops  *)
(* being served within a TTL however busy it is" (ttlLRU). What the active *)
(* segment would still serve was active in the table within the time the   *)
(* entry has lived, plus the delay between the query and the store, which  *)
(* the comment leaves out.                                                 *)
ServedTenantWasActive ==
  /\ \A i \in 1..Len(active) :
       LET e == active[i] IN
         e.left >= 0 /\ e.lag < MaxLag => since[e.id] <= (cfg.ttl - e.left) + e.lag
  /\ \A r \in Requests : req[r].at = "done" /\ req[r].reply \in Tenants =>
       Named(req[r].reply, req[r].value)

(* Nor is a request refused on an old answer: unknown and inactive results *)
(* are kept shorter, since a tenant may have been "just created or         *)
(* re-activated" (negativeTTL). What the inactive segment would still      *)
(* refuse was unknown or inactive in the table within the time the entry   *)
(* has lived, plus the delay of its lookup. It holds of a key that is in   *)
(* both segments, too: put takes two locks, so of two overlapping puts     *)
(* with different results each may leave its own, and get reports the      *)
(* active one, although the comment of put says that a tenant that changed *)
(* state is never reported from both.                                      *)
RefusedTenantWasInactive ==
  \A i \in 1..Len(inactive) :
    LET e == inactive[i] IN
      e.left >= 0 /\ e.lag < MaxLag =>
        down[e.key] <= (negativeTTL(cfg.ttl) - e.left) + e.lag

(* A flood of unknown tenants "can never push real tenants out of the      *)
(* cache": a live entry leaves the active segment only for another active  *)
(* tenant, or because its own tenant was found inactive.                   *)
RealTenantsStay ==
  [][\A k \in KeysOf(active) \ KeysOf(active)' :
       \/ EntryOf(active, k).left < 0
       \/ KeysOf(active)' \ KeysOf(active) # {}
       \/ \E r \in Requests : req[r].value = k /\ req[r].at = "drop" /\ ~req[r].ok]_tenantVars

(* A tenant that stays deactivated is refused in the end, however many     *)
(* requests keep its entry in use, and whatever lookups were under way.    *)
DeactivationTakesEffect ==
  \A t \in Operated :
    cfg.validate /\ <>[](rows[t] = "inactive")
      => <>[](\A r \in Requests : req[r].reply # t)

-----------------------------------------------------------------------------
(* The inductive invariant behind the properties. *)

Entries == [key : Tenants, id : Tenants \cup {None}, left : Int, lag : 0..MaxLag]

RequestStates ==
  [at : {"idle", "getInactive", "ask", "drop", "store", "done"}, value : Values,
   id : Tenants \cup {None}, ok : BOOLEAN, lag : 0..MaxLag,
   reply : Tenants \cup {None} \cup Refusals]

TenantTypeOK ==
  /\ cfg \in Settings /\ Lint(cfg)
  /\ rows \in [Tenants -> {"absent", "active", "inactive"}]
  /\ slug \in [Tenants -> Tenants]
  /\ active \in Seq(Entries) /\ inactive \in Seq(Entries)
  /\ req \in [Requests -> RequestStates]
  /\ since \in [Tenants -> Nat] /\ down \in [Tenants -> Nat]

(* An entry names its tenant, and is no older than it says.                *)
EntryOK(e) ==
  /\ e.id \in Tenants /\ Named(e.id, e.key)
  /\ e.left >= 0 /\ e.lag < MaxLag => since[e.id] <= (cfg.ttl - e.left) + e.lag

RefusalOK(e) ==
  e.left >= 0 /\ e.lag < MaxLag => down[e.key] <= (negativeTTL(cfg.ttl) - e.left) + e.lag

(* A lookup that found a tenant active names it, and its delay covers the  *)
(* time since it did, as of one that found none; a reply names its tenant. *)
RequestOK(q) ==
  /\ q.at \in {"getInactive", "ask", "drop", "store"} => q.value \in Tenants
  /\ q.ok => /\ q.at \in {"drop", "store"}
             /\ q.id \in Tenants /\ Named(q.id, q.value)
             /\ q.lag < MaxLag => since[q.id] <= q.lag
  /\ ~q.ok /\ q.at \in {"drop", "store"} /\ q.lag < MaxLag => down[q.value] <= q.lag
  /\ q.at = "done" /\ q.reply \in Tenants => Named(q.reply, q.value)

(* The segments stay within their capacities, with one entry to a key.     *)
SegmentsBounded ==
  /\ Len(active) <= MaxActive /\ Len(inactive) <= MaxInactive
  /\ \A l \in {active, inactive} : \A i, j \in 1..Len(l) : l[i].key = l[j].key => i = j

TenantIInv ==
  /\ TenantTypeOK
  /\ \A t \in Tenants : rows[t] = "active" => since[t] = 0
  /\ \A v \in Tenants : ~Active(v) => down[v] = 0
  /\ \A i \in 1..Len(active) : EntryOK(active[i])
  /\ \A i \in 1..Len(inactive) : RefusalOK(inactive[i])
  /\ \A r \in Requests : RequestOK(req[r])
  /\ SegmentsBounded
=============================================================================
