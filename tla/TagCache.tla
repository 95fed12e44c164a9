------------------------------ MODULE TagCache ------------------------------
(***************************************************************************)
(* The response cache with tag invalidation: policy.CacheRead and          *)
(* policy.CacheInvalidate (internal/core/policy/cache.go) over             *)
(* cache.Manager (internal/core/cache/manager.go).                         *)
(*                                                                         *)
(* A cached response lives in Redis under a key that contains the version  *)
(* of every tag of its route. A write increments the versions of its tags, *)
(* so later reads build other keys. Each process also keeps the versions   *)
(* it last read (tagTokenCache) for a short time.                          *)
(*                                                                         *)
(* The database is abstracted to db[t], the number of committed writes     *)
(* under tag t: a response is the vector of the values its handler read.   *)
(* bumps[t] records the value of db[t] at each INCR of the version of t,   *)
(* so the version in Redis is the length of bumps[t].                      *)
(***************************************************************************)
EXTENDS Naturals, Sequences

CONSTANTS
  Tags,
  Routes,        \* cached read routes, with their vary-by dimensions
  TagsOf,        \* the tags each route resolves to
  Procs,         \* the processes that share Redis
  Readers,       \* requests to cached routes
  Writers,       \* requests to routes with CacheInvalidate
  ProcOf,        \* the process that serves each request
  WriteTags,     \* the tags each write resolves to
  TokenCaching,  \* the processes with CACHE_TAG_VERSION_CACHE_TTL > 0
  FailOpen       \* the routes that resolve to fail-open

ASSUME TagCacheAssumption ==
  /\ TagsOf \in [Routes -> SUBSET Tags]
  /\ ProcOf \in [Readers \cup Writers -> Procs]
  /\ WriteTags \in [Writers -> SUBSET Tags]
  /\ TokenCaching \subseteq Procs
  /\ FailOpen \subseteq Routes

VARIABLES
  db,       \* committed writes per tag
  bumps,    \* what each version of a tag covers
  entries,  \* the cached responses in Redis
  local,    \* tagTokenCache of each process
  route,    \* the route of each read
  rpc, token, data, floor,   \* each read: position, tag versions in its key,
                             \* response, acked when it began
  wpc, todo, wrote,          \* each write: position, tags not yet bumped,
                             \* what its commit left in the database
  acked                      \* writes whose bump was acknowledged, per process

redisVars == <<bumps, entries>>
readVars == <<rpc, token, data, floor>>
writeVars == <<wpc, todo, wrote, acked>>
vars == <<db, redisVars, local, route, readVars, writeVars>>

Version(t) == Len(bumps[t])
Covered(t, v) == IF v = 0 THEN 0 ELSE bumps[t][v]

ReadPos == {"idle", "mget", "store", "get", "handle", "bypass", "set", "done",
            "unavailable"}
WritePos == {"idle", "committed", "bumping", "clearing", "failed", "done"}

TypeOK ==
  /\ db \in [Tags -> Nat]
  /\ bumps \in [Tags -> Seq(Nat)]
  /\ \A e \in entries : /\ e.route \in Routes
                        /\ e.token \in [TagsOf[e.route] -> Nat]
                        /\ e.data \in [TagsOf[e.route] -> Nat]
  /\ DOMAIN local = Procs
  /\ \A p \in Procs : \A l \in local[p] : /\ DOMAIN l \subseteq Tags
                                         /\ l \in [DOMAIN l -> Nat]
  /\ route \in [Readers -> Routes]
  /\ rpc \in [Readers -> ReadPos]
  /\ DOMAIN token = Readers /\ DOMAIN data = Readers
  /\ \A r \in Readers : /\ token[r] \in [TagsOf[route[r]] -> Nat]
                        /\ data[r] \in [TagsOf[route[r]] -> Nat]
  /\ floor \in [Readers -> [Procs -> [Tags -> Nat]]]
  /\ wpc \in [Writers -> WritePos]
  /\ todo \in [Writers -> SUBSET Tags]
  /\ wrote \in [Writers -> [Tags -> Nat]]
  /\ acked \in [Procs -> [Tags -> Nat]]

Zero(S) == [t \in S |-> 0]
Join(f, g) == [t \in Tags |-> IF f[t] < g[t] THEN g[t] ELSE f[t]]

Init ==
  /\ db = Zero(Tags)
  /\ bumps = [t \in Tags |-> <<>>]
  /\ entries = {}
  /\ local = [p \in Procs |-> {}]
  /\ route \in [Readers -> Routes]
  /\ rpc = [r \in Readers |-> "idle"]
  /\ token = [r \in Readers |-> Zero(TagsOf[route[r]])]
  /\ data = [r \in Readers |-> Zero(TagsOf[route[r]])]
  /\ wpc = [w \in Writers |-> "idle"]
  /\ todo = [w \in Writers |-> {}]
  /\ wrote = [w \in Writers |-> Zero(Tags)]
  /\ acked = [p \in Procs |-> Zero(Tags)]
  /\ floor = [r \in Readers |-> acked]

-----------------------------------------------------------------------------
(* CacheRead. A reader is a client that sends one request after another.   *)

MoveRead(r, from, to) ==
  /\ rpc[r] = from
  /\ rpc' = [rpc EXCEPT ![r] = to]
  /\ UNCHANGED <<db, bumps, route, writeVars>>

Tagged(r) == TagsOf[route[r]]

(* tagTokenCache is keyed by the list of tags.                             *)
LocalFor(r) == {l \in local[ProcOf[r]] : DOMAIN l = Tagged(r)}

(* tagVersionTokenNormalized: no tags give the empty token; a token found  *)
(* in tagTokenCache is used as it is; otherwise Redis is asked.            *)
BeginUntagged(r) ==
  /\ Tagged(r) = {}
  /\ MoveRead(r, "idle", "get")
  /\ floor' = [floor EXCEPT ![r] = acked]
  /\ UNCHANGED <<entries, local, token, data>>

BeginTokenHit(r) ==
  /\ Tagged(r) # {}
  /\ \E l \in LocalFor(r) : token' = [token EXCEPT ![r] = l]
  /\ MoveRead(r, "idle", "get")
  /\ floor' = [floor EXCEPT ![r] = acked]
  /\ UNCHANGED <<entries, local, data>>

BeginTokenMiss(r) ==
  /\ Tagged(r) # {}
  /\ LocalFor(r) = {}
  /\ MoveRead(r, "idle", "mget")
  /\ floor' = [floor EXCEPT ![r] = acked]
  /\ UNCHANGED <<entries, local, token, data>>

MGet(r) ==
  /\ MoveRead(r, "mget", "store")
  /\ token' = [token EXCEPT ![r] = [t \in Tagged(r) |-> Version(t)]]
  /\ UNCHANGED <<entries, local, data, floor>>

(* The key cannot be built, because a tag does not resolve or because MGET *)
(* fails: the handler runs uncached, or the request is refused.            *)
ResolveFails(r) ==
  /\ MoveRead(r, "idle", IF route[r] \in FailOpen THEN "bypass" ELSE "unavailable")
  /\ floor' = [floor EXCEPT ![r] = acked]
  /\ UNCHANGED <<entries, local, token, data>>

KeyFails(r) ==
  /\ MoveRead(r, "mget", IF route[r] \in FailOpen THEN "bypass" ELSE "unavailable")
  /\ UNCHANGED <<entries, local, token, data, floor>>

(* Mutant: a TTL of zero is taken for no limit. *)
storeAlways(r) ==
  /\ MoveRead(r, "store", "get")
  /\ local' = [local EXCEPT ![ProcOf[r]] = (@ \ LocalFor(r)) \cup {token[r]}]
  /\ UNCHANGED <<entries, token, data, floor>>

storeTagToken(r) ==
  /\ MoveRead(r, "store", "get")
  /\ local' = [local EXCEPT ![ProcOf[r]] =
       IF ProcOf[r] \in TokenCaching
         THEN (@ \ LocalFor(r)) \cup {token[r]}
         ELSE @]
  /\ UNCHANGED <<entries, token, data, floor>>

(* Mutant: the key does not contain the tag versions. *)
UnderRoute(r) == {e \in entries : e.route = route[r]}

Under(r) == {e \in entries : e.route = route[r] /\ e.token = token[r]}

GetHit(r) ==
  /\ \E e \in Under(r) : data' = [data EXCEPT ![r] = e.data]
  /\ MoveRead(r, "get", "done")
  /\ UNCHANGED <<entries, local, token, floor>>

GetMiss(r) ==
  /\ Under(r) = {}
  /\ MoveRead(r, "get", "handle")
  /\ UNCHANGED <<entries, local, token, data, floor>>

(* With fail-open a failed Get counts as a miss, and the response may      *)
(* still be stored.                                                        *)
GetFails(r) ==
  /\ MoveRead(r, "get", IF route[r] \in FailOpen THEN "handle" ELSE "unavailable")
  /\ UNCHANGED <<entries, local, token, data, floor>>

(* The handler answers from the database; it may answer with something     *)
(* that is not cacheable.                                                  *)
Handle(r, to) ==
  /\ MoveRead(r, "handle", to)
  /\ to \in {"set", "done"}
  /\ data' = [data EXCEPT ![r] = [t \in Tagged(r) |-> db[t]]]
  /\ UNCHANGED <<entries, local, token, floor>>

HandleBypass(r) ==
  /\ MoveRead(r, "bypass", "done")
  /\ data' = [data EXCEPT ![r] = [t \in Tagged(r) |-> db[t]]]
  /\ UNCHANGED <<entries, local, token, floor>>

(* Set stores under the key that was built before the handler ran.         *)
Set(r) ==
  /\ MoveRead(r, "set", "done")
  /\ entries' = (entries \ Under(r)) \cup
                  {[route |-> route[r], token |-> token[r], data |-> data[r]]}
  /\ UNCHANGED <<local, token, data, floor>>

SetFails(r) ==
  /\ MoveRead(r, "set", "done")
  /\ UNCHANGED <<entries, local, token, data, floor>>

NextRequest(r) ==
  /\ \E p \in {"done", "unavailable"} : MoveRead(r, p, "idle")
  /\ token' = [token EXCEPT ![r] = Zero(Tagged(r))]
  /\ data' = [data EXCEPT ![r] = Zero(Tagged(r))]
  /\ floor' = [floor EXCEPT ![r] = [p \in Procs |-> Zero(Tags)]]
  /\ UNCHANGED <<entries, local>>

-----------------------------------------------------------------------------
(* CacheInvalidate. *)

WriteFrame == UNCHANGED <<entries, route, readVars>>

(* The handler commits; a handler that fails commits nothing.              *)
Commit(w) ==
  /\ wpc[w] = "idle"
  /\ db' = [t \in Tags |-> IF t \in WriteTags[w] THEN db[t] + 1 ELSE db[t]]
  /\ wrote' = [wrote EXCEPT ![w] =
                 [t \in Tags |-> IF t \in WriteTags[w] THEN db'[t] ELSE 0]]
  /\ wpc' = [wpc EXCEPT ![w] = "committed"]
  /\ UNCHANGED <<bumps, local, todo, acked>>
  /\ WriteFrame

(* ResolveTagNames fails, or the request ends first: no version changes.   *)
BumpLost(w) ==
  /\ wpc[w] = "committed"
  /\ wpc' = [wpc EXCEPT ![w] = "failed"]
  /\ UNCHANGED <<db, bumps, local, todo, wrote, acked>>
  /\ WriteFrame

BumpTags(w) ==
  /\ wpc[w] = "committed"
  /\ wpc' = [wpc EXCEPT ![w] = IF WriteTags[w] = {} THEN "done" ELSE "bumping"]
  /\ todo' = [todo EXCEPT ![w] = WriteTags[w]]
  /\ UNCHANGED <<db, bumps, local, wrote, acked>>
  /\ WriteFrame

(* The pipeline is not a transaction: each INCR takes effect on its own.   *)
Incr(w, t) ==
  /\ wpc[w] = "bumping"
  /\ t \in todo[w]
  /\ bumps' = [bumps EXCEPT ![t] = Append(@, db[t])]
  /\ todo' = [todo EXCEPT ![w] = @ \ {t}]
  /\ wpc' = [wpc EXCEPT ![w] = IF todo'[w] = {} THEN "clearing" ELSE @]
  /\ UNCHANGED <<db, local, wrote, acked>>
  /\ WriteFrame

(* Exec returns an error: what was incremented stays, the local tokens are *)
(* not cleared.                                                            *)
ExecFails(w) ==
  /\ wpc[w] \in {"bumping", "clearing"}
  /\ wpc' = [wpc EXCEPT ![w] = "failed"]
  /\ UNCHANGED <<db, bumps, local, todo, wrote, acked>>
  /\ WriteFrame

(* The loop over tagTokenCache deletes every token it meets; one stored    *)
(* meanwhile that it does not meet counts as stored after it.              *)
ClearTokens(w) ==
  /\ wpc[w] = "clearing"
  /\ local' = [local EXCEPT ![ProcOf[w]] = {}]
  /\ acked' = [acked EXCEPT ![ProcOf[w]] = Join(@, wrote[w])]
  /\ wpc' = [wpc EXCEPT ![w] = "done"]
  /\ UNCHANGED <<db, bumps, todo, wrote>>
  /\ WriteFrame

-----------------------------------------------------------------------------
(* Time. *)

(* The TTL of a local token has passed.                                    *)
TokenExpires(p) ==
  /\ \E l \in local[p] : local' = [local EXCEPT ![p] = @ \ {l}]
  /\ UNCHANGED <<db, redisVars, route, readVars, writeVars>>

(* The TTL of a cached response has passed.                                *)
EntryExpires ==
  /\ \E e \in entries : entries' = entries \ {e}
  /\ UNCHANGED <<db, bumps, local, route, readVars, writeVars>>

-----------------------------------------------------------------------------
Reading(r) ==
  \/ BeginUntagged(r)
  \/ BeginTokenHit(r)
  \/ BeginTokenMiss(r)
  \/ MGet(r)
  \/ ResolveFails(r)
  \/ KeyFails(r)
  \/ storeTagToken(r)
  \/ GetHit(r)
  \/ GetMiss(r)
  \/ GetFails(r)
  \/ \E to \in {"set", "done"} : Handle(r, to)
  \/ HandleBypass(r)
  \/ Set(r)
  \/ SetFails(r)
  \/ NextRequest(r)

Writing(w) ==
  \/ Commit(w)
  \/ BumpLost(w)
  \/ BumpTags(w)
  \/ \E t \in Tags : Incr(w, t)
  \/ ExecFails(w)
  \/ ClearTokens(w)

Next ==
  \/ \E r \in Readers : Reading(r)
  \/ \E w \in Writers : Writing(w)
  \/ \E p \in Procs : TokenExpires(p)
  \/ EntryExpires

Spec == Init /\ [][Next]_vars

-----------------------------------------------------------------------------
(* The heart of bump-miss invalidation: a response stored in Redis under   *)
(* given tag versions contains every write that those versions cover. A    *)
(* handler that was slow, while the versions moved on, can only store      *)
(* under the old versions, because the key is built before it runs.        *)
EntriesCoverTheirVersions ==
  \A e \in entries : \A t \in DOMAIN e.token :
    e.data[t] >= Covered(t, e.token[t])

(* The same for what a client gets, from the cache or from the handler.    *)
AnswersCoverTheirVersions ==
  \A r \in Readers : rpc[r] = "done" =>
    \A t \in Tagged(r) : data[r][t] >= Covered(t, token[r][t])

(* No token, in a process or in a request, is ahead of Redis: a version    *)
(* that nobody has reached cannot be used as a key.                        *)
TokensNotAhead ==
  /\ \A p \in Procs : \A l \in local[p] : \A t \in DOMAIN l : l[t] <= Version(t)
  /\ \A r \in Readers : \A t \in Tagged(r) : token[r][t] <= Version(t)

(* Without tagTokenCache a read that begins after BumpTags has returned    *)
(* successfully, in any process, is not answered with anything older than  *)
(* that write, whatever else runs or fails meanwhile.                      *)
UncachedReadIsFresh ==
  \A r \in Readers : rpc[r] = "done" /\ ProcOf[r] \notin TokenCaching =>
    \A p \in Procs : \A t \in Tagged(r) : data[r][t] >= floor[r][p][t]

-----------------------------------------------------------------------------
(* The inductive invariant. What a version covers is already in the        *)
(* database; tokens and keys are never ahead of Redis; and what a handler  *)
(* reads after its key was built covers that key.                          *)
CoveredIsCommitted ==
  \A t \in Tags : \A v \in 1..Version(t) : bumps[t][v] <= db[t]

KeysNotAhead ==
  \A e \in entries : \A t \in DOMAIN e.token : e.token[t] <= Version(t)

ResponsesCoverTheirKeys ==
  \A r \in Readers : rpc[r] \in {"set", "done"} =>
    \A t \in Tagged(r) : data[r][t] >= Covered(t, token[r][t])

CoverInv ==
  /\ TypeOK
  /\ TokensNotAhead
  /\ KeysNotAhead
  /\ CoveredIsCommitted
  /\ ResponsesCoverTheirKeys
  /\ EntriesCoverTheirVersions

(* For freshness: what was acknowledged is covered by the current version, *)
(* and a read without tagTokenCache carries that over to its key and from  *)
(* there to its answer.                                                    *)
TopCovered(t) == Covered(t, Version(t))

WritesCovered ==
  \A w \in Writers :
    /\ wpc[w] = "clearing" => todo[w] = {}
    /\ \A t \in Tags : wrote[w][t] <= db[t]
    /\ \A t \in Tags \ WriteTags[w] : wrote[w][t] = 0
    /\ wpc[w] \in {"bumping", "clearing"} =>
         \A t \in Tags \ todo[w] : wrote[w][t] <= TopCovered(t)

AcksCovered == \A p \in Procs : \A t \in Tags : acked[p][t] <= TopCovered(t)

CarriesFloor(r) ==
  \A p \in Procs : \A t \in Tagged(r) :
    /\ rpc[r] = "mget" => floor[r][p][t] <= TopCovered(t)
    /\ rpc[r] \in {"store", "get", "handle", "set"} =>
         floor[r][p][t] <= Covered(t, token[r][t])
    /\ rpc[r] = "bypass" => floor[r][p][t] <= db[t]
    /\ rpc[r] = "done" => floor[r][p][t] <= data[r][t]

UncachedKeysFresh ==
  /\ \A p \in Procs \ TokenCaching : local[p] = {}
  /\ \A r \in Readers : ProcOf[r] \notin TokenCaching => CarriesFloor(r)

IInv ==
  /\ CoverInv
  /\ WritesCovered
  /\ AcksCovered
  /\ UncachedKeysFresh
=============================================================================
