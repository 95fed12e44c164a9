# Verification of superapi

TLA+ models of the parts of superapi in which several requests, goroutines, replicas or commands touch
the same state, in which one step of several can fail, or in which rules checked at one place must protect
another. TLC checks the models on small instances; TLAPS proves the main safety properties for instances of
every size. `PROJECT.json` maps each definition to the lines of Go or SQL it stands for and lists the
components, runs, findings, hazards and theorems.

To repeat a run: `tlc -workers 2 -config MCDispatcher_calls.cfg MCDispatcher`. To repeat a proof:
`tlapm LifecycleProofs.tla`. `RequestPathProofs` takes about a quarter of an hour from nothing, the others one to
seven minutes each.

## 1. The system

superapi is a template for an HTTP service. A request passes the global middleware, the router, the
policies of its route (authentication, tenancy, rate limit, cache, invalidation), and a handler that calls a
service, which owns the transactions over Postgres. Redis holds rate-limit counters, cached responses, tag
versions and goAuth's sessions. goAuth is a library outside the repository; it calls back into the
repository's user provider.

| Part (under `internal/` unless noted) | State | Operations | Who shares it | What is hard |
|---|---|---|---|---|
| Notification dispatcher `core/notify/notify.go` | semaphore channel, WaitGroup, counter, closed flag, stop context | dispatch, deliver, Shutdown, Wait | handlers, delivery goroutines, the main goroutine | shutdown against admission, three counters released in three steps, deadlines, sends that hang |
| Process lifecycle `core/app`, `cmd/api` | what is open, server, deadline, drained flag | New, Run, closeDependencies | main goroutine, handlers, signal | many error paths at startup; the order of releases; two places that may drain |
| Response cache `core/cache`, `core/policy/cache.go` | entries and tag versions in Redis, tag tokens per process | CacheRead, CacheInvalidate, BumpTags | all replicas | slow handlers, partial pipelines, lost bumps, stale tokens |
| Rate limiter `core/ratelimit`, `core/policy/ratelimit.go` | counter and expiry per key in Redis | Allow (a Lua script) | all replicas | window edges, lost replies, shared keys, rounding |
| TOTP key rotation `core/auth/secret_cipher.go`, `cmd/rotatetotpkey` | ciphertext per user, keyring per replica, cursor of the command | seal, open, lazy rotation, paging, retirement of a key | replicas, the command, the operator | a page that is stale when written, rolling deployment |
| Second factor `modules/auth/service.go`, `core/auth` | `user_totp`, `users.totp_enabled`, `user_backup_codes` | setup, confirm, verify, disable, regenerate, backup login | concurrent requests of one user | check-then-write in separate statements, requests that die half way, READ COMMITTED |
| Accounts `modules/auth`, `core/auth`, `tenancy` | `users`, `webauthn_credentials`, messages sent | register, verify, reset, security keys | concurrent requests, tenants | failures between calls, late answers, sign counts stored out of order |
| Tenant resolution `tenancy` | tenants table, validation cache (two LRU segments) | resolve, validate, create | requests, the operator | stale entries, two locks, capacity, ids and slugs spelled alike |
| Document store `storage/document` | map of collections, staged writes | Get, Insert, Replace, Delete, Find, WithTx | requests | check-then-write, nested transactions, panics |
| Configuration and startup `core/config`, `cmd/api`, `core/app/deps.go` | the environment, what exists so far | Load, Lint, wiring | startup only | many rules in several places that must agree |
| Route policies `core/policy` | metadata registry | Annotate, ValidateRouteWith, the chain | startup; requests | order and dependencies; metadata keyed by code pointer |
| HTTP layer `core/httpx` | per request: deadline, header written | middleware chain, adapter | the layers around one request | deadline, panic and flush against the written header |
| Other endpoints of `modules/auth` | in goAuth | login, refresh, logout, sessions | requests | owned by goAuth |
| Readiness, metrics, tracing, logging, responses | none of their own | observe | requests | nothing a model would add |
| Tools `cmd/*`, `devx`, `tools` | files | generate, analyse, migrate | one process | nothing concurrent (rotatetotpkey excepted) |

## 2. Modules

| Component | Specification | Instance for TLC | Proofs |
|---|---|---|---|
| Dispatcher | `DeliveryPool` (promise), `Dispatcher` | `MCDispatcher` | `LifecycleProofs` |
| Lifecycle, composed with the dispatcher | `AppLifecycle` (extends `Dispatcher`) | `MCAppLifecycle` | `LifecycleProofs` |
| Response cache | `TagCache` | `MCTagCache` | `TagCacheProofs` |
| Rate limiter | `RateLimiter` | `MCRateLimiter` | `RateLimiterProofs` |
| Key rotation | `KeyRotation` | `MCKeyRotation` | `KeyRotationProofs` |
| Second factor | `SecondFactor` | `MCSecondFactor`, `MCAuth` | `AccountsProofs` |
| Accounts, tenancy provider | `Accounts` | `MCAccounts`, `MCAuth` | `AccountsProofs` |
| Tenant resolution | `TenantResolver` | `MCTenantResolver` | `TenantProofs` |
| Document store | `DocumentStore` | `MCDocumentStore`, `MCStartupStore` | `StartupStoreProofs` |
| Configuration, startup | `Config` (operators), `Startup` (extends it) | `MCStartup`, `MCStartupStore` | `StartupStoreProofs` |
| Route policies, HTTP layer | `RouteRules` (operators), `RequestPath` (extends it) | `MCRequestPath` | `RequestPathProofs` |

`LifecycleProofs`, `StartupStoreProofs` and `AccountsProofs` cover two specifications each. The last two extend both of
theirs, so `SecondFactor` and `Startup` prefix the names of their `Init`, `Next` and `Spec`.

The header of each module lists its variables next to the Go state they stand for. Operators marked "Mutant"
are altered forms of the definition that follows them; no specification uses them. They show that each
checked property notices a plausible mistake in that definition.

**Dispatcher.** Atomic steps are the operations on shared Go state: the section of `dispatch` under `d.mu`,
each statement of the deferred function, each receive and send of `Wait`, each branch of the `select` in
`Shutdown`, the helper goroutine that waits for the group. A send succeeds, fails or hangs until its context is
done. `DeliveryPool` is the promise to callers: at most `Cap` live deliveries, none accepted after the
close, a report that is never less than what is live. `ImplementsPool` is the refinement.

**AppLifecycle.** `pc` follows the main goroutine through the stages of `initDependencies`, the registration
of modules, `Run` and `closeDependencies`. Each stage succeeds or fails, with the closes of its error
path in the same step, since nothing else runs yet. Handlers query, dispatch or end at any moment;
the main goroutine calls the dispatcher's `Shutdown` from one of two places. `http.Server` (Shutdown waits for
handlers or returns the context's error) and the pool (Close waits for acquired connections) are external.

**TagCache.** A response is abstracted to the number of writes its handler saw under each tag. `bumps[t]`
remembers how many writes each version of a tag covers, so "fresh" is a comparison of numbers. A read
resolves the tag versions (from the process or by MGET), looks up its key, runs the handler and stores under
the key *built before the handler ran*. The pipeline of INCRs is executed tag by tag and may stop anywhere. The
vary-by dimensions of a key are part of the route here; `RequestPath` has them.

**RateLimiter.** A key is built as in the code: the keyer tries its scopes in turn, then the scope of the rule, then the
fallback; route pattern and identifier are then sanitized. A text is a record of what sanitizing keeps and what it
loses, so that different texts may give one key. The script runs atomically with the time of Redis, which expires keys by
itself. Replies may be lost, and a command may be repeated by the client library. Windows are given in units finer than a
millisecond because the code truncates them to milliseconds and rounds `Retry-After` up to seconds.

**KeyRotation.** A ciphertext is a format, a key id, a secret and a nonce. Opening fails unless the ring holds
the key that sealed it. The command reads pages by primary key, handles the rows of a page in any order (each
row is independent), and compares-and-swaps each. The operator follows
`docs/security-env-recommendations.md`: stage everywhere, run, retire after a run without failures.

**SecondFactor.** One account, and requests that run one endpoint each. Each SQL statement is one step;
`ReplaceBackupCodes` is a READ COMMITTED transaction whose DELETE takes a snapshot, waits for locks and then
re-checks its rows. goAuth's order of the provider calls (advance the counter, mark verified, enable,
replace the codes) is external and assumed. Any request may die between two steps.

**Accounts.** Requests that register, ask for and confirm a verification or a reset, add a security key or log in
with one. A step is one call of goAuth or one statement, and any call may fail. An identifier
arrives in one of several spellings and is normalised as in the code. A user row is its tenant, status,
version and who wrote its password; a message is its recipient, kind and whether its challenge is on record. That a messenger exists when a
feature needs one is `OfferedIsBacked` of `Startup`.

**TenantResolver.** The middleware from the extracted value to the tenant it attaches. A lookup reads a segment
under its lock, asks the database, and writes a segment under its lock: three steps with other requests
between them; `put` itself takes the locks of the two segments one after the other. An entry keeps the time it has left, and
`Tick` ages all entries, so time is not bounded. Two histories count the ticks since a tenant was active (`since`) and since a
value named no active tenant (`down`). Extracting the value from a header or host name is a choice of inputs.

**DocumentStore.** Every operation of the in-memory store with its locks, inside and outside of `WithTx`,
which ends in a commit, an error or a panic and may be nested. Each write stores a payload of its own, so what is read
names its writer.

**Config, Startup.** An environment is a function from names of settings to classes of text (unset, empty, blank, not
parsable, below, within and above the limits, well-formed values). `Config` has the profiles, the loader and every
check of `Lint` as operators; `Startup` runs `main` on one environment, step by step, until it serves or refuses.

**RouteRules, RequestPath.** `RouteRules` has the constructors of the policies, the registry of their metadata
(shared by all policies of one function literal, as in the code) and the validator. `RequestPath` registers one route
and sends requests through the layers, in and out again: each layer may answer, each response writer records what
passes through it, the deadline may pass and Redis may fail at any step, a handler may write, flush and
panic, and what it hands to Adapter may not be encodable, in which case only the status goes out. Layers that only add a header, a context value or a body limit are left out. Of two `CacheRead` policies on one
route, which no code here has and the validator accepts, the model keeps the writer of the inner one only.

## 3. Runs

| Run | Question | Outcome |
|---|---|---|
| `dispatcher` | What can a Wait and a Shutdown rely on, is the promise implemented, and does every call end? | holds |
| `app_life` | Are resources released after the drain, once; are the pools closed on every way out; does a signal end the process? | holds |
| `cache_tags` | Does what is stored or served contain what its versions cover; is an uncached read fresh? | holds |
| `rate_limit` | At most twice the limit in any interval, decided by the client's own requests, with an honest Retry-After? | holds |
| `key_rotation` | Is no secret lost or revived, and is retiring the old key safe? | holds |
| `totp_setup_race` | Is TOTP only ever on with a confirmed secret? | violated (section 5) |
| `tenant_cache` | How old may the answer be that serves a tenant or refuses one; is it the one named; who displaces whom; does a deactivation take effect? | holds |
| `process` | Is what is written what is loaded; is production guarded; is what is offered backed; do Lint and the later checks agree? Does a client of the document store read only what is committed or its own; is a batch applied as a whole? | holds |
| `unread_settings` | Do values that cannot be read fail fast? | violated (section 5) |
| `serving` | One answer per request, agreeing observers, cached as sent, cache and tenants kept apart? | holds |
| `tenant_paths` | Does every `{tenant_id}` route that is registered require and match the tenant? | violated (section 5) |
| `auth` | Who becomes active, what does a success promise, whose mail and password does a request touch, what can sign counts do? Are time steps and codes accepted once, do flag and row agree, are replacements whole, and what survives one? | holds |

`process` joins `Startup` and `DocumentStore`, `auth` joins `Accounts` and `SecondFactor`. The two of a pair share no variable
and no table, so each behaves as it does alone, and their interleavings are left out: the document store runs in the process
that starts with nothing set, the second factor while the accounts rest.

**Bounds.** They are the smallest at which the interesting cases occur together.
- Dispatcher (215 thousand states): two messages for two slots, and Shutdown and Wait each called once with a deadline and
  once without, because they return for different reasons.
- Lifecycle (288 thousand): two requests, two messages, one slot; four configurations that cover every stage present and absent.
- Cache (493 thousand): two processes, one with a token cache; a route with two tags, one with one, one with none;
  two readers and one writer of both tags. Two tags are needed for a partial pipeline and two readers for one to
  serve what the other stored. Readers start again after an answer.
- Rate limiter (1.35 million): two rules on one pattern, one with a keyer, with limits of 1 and windows of 2 and 2.5
  milliseconds, which are the same to Redis; two clients whose ids sanitize to one key, and a tenant of the same name, whose key
  must not be the same. The clock runs to 6, long enough for three windows; a second has two milliseconds, so that `Retry-After` is
  rounded; `MaxCount` bounds a counter.
- Key rotation (736 thousand): two users and pages of one row, so that there is always a row behind and one ahead of the cursor;
  two replicas; three seals, so that a row can be sealed again after the page that holds it was read.
- Tenant resolution (653 thousand): two requests for two tenants, each with the other's id as its slug, and one entry per
  segment, so that every insertion evicts; five settings, among them a TTL of zero. The operator creates and switches one of the
  tenants. `MaxLag` caps the counted delay of a lookup: at 2, lookups that took no tick and one tick are told apart.
- Process (825 thousand): 26,248 environments. Every setting takes all its classes alone under bases that give both names of
  production, and the settings that one check relates (stores, mail, TOTP keys, signing keys, tenancy) are combined. Two clients,
  two documents, three writes, transactions two deep.
- Serving (1.67 million): every list of up to three policies, with every metadata another route may have
  left, meets requests of three users of two tenants; the whole middleware, in many combinations, meets handlers of up to
  three writes, flushes and panics.
- Auth (989 thousand): two requests at a time and three in all; one identifier in two spellings and another; two tenants; two
  security keys, one already used twice; a database that is empty or holds one verified account. On the second factor three
  requests, three time steps and sets of two codes; a race needs two requests, and the third prepares or observes.

Deadlock is checked in `tenant_cache`, `process` and `unread_settings`. It is off in the other runs because those systems may stop: all messages sent, all
requests answered, the bound of a clock reached. Waiting for ever is the subject of the liveness properties.

**Fairness.** `dispatcher` assumes that the Go scheduler runs ready goroutines, that timers fire,
and that a send returns once its context is done. It does not assume that sends return otherwise, nor that anyone
calls anything. `app_life` assumes the main goroutine runs, its deadline passes and a running query ends; a handler or a
delivery may hang for ever. `tenant_cache` assumes that time passes and that a lookup that began goes on; nobody has to send
a request. Weak fairness is enough: an action that is ready stays ready until it is taken.

## 4. Proofs

All theorems hold for every value of the constants that satisfies the named ASSUMEs. Each module on a state
machine shows `Init => IInv` and `IInv /\ [Next]_vars => IInv'`, one step per action, and derives the listed properties.

- **Dispatcher** (assumes: at least one slot, finitely many messages and Waits). "Nothing runs after a drain" is
  not inductive: it follows from the counter `wg` being zero, so the invariant says that each counter
  equals the number of parties that incremented it and have not given back. The lemmas count sets that gain
  or lose one member. From it: bounded concurrency, receives that never block, a quiet drain, a full Wait that is quiet,
  drops only when full, honest reports, a group that only shrinks, and the refinement of `DeliveryPool`.
- **TagCache.** The invariant says that a version only covers what is committed, that no token or key is ahead
  of Redis, and that what a handler read after its key was built covers that key. Freshness needs a
  second layer: an acknowledged write is covered by the current version, and an uncached read carries that over to its key
  and then to its answer. The second layer does not hold for processes with a token cache (section 5).
- **RateLimiter.** The counter of a live key equals the requests in its window; the logged times of earlier windows lie
  before the current one, and those of the one before that a whole window earlier. The factor two follows.
  `TwiceInAnyInterval` assumes that the rules that share a counter share a window (`Steady`). For `DecidedByOwnRequests` the requests of a
  key are those of one sanitized identity on one pattern; for `RetryCoversWindow` a refusal remembers the window it belongs to.
- **KeyRotation.** "The old key can be retired" rests on: everything up to the cursor is under the new
  key; a row of the page that is not yet handled is unchanged or already under the new key; once all replicas are staged no
  row goes back. Failures and interruptions void the claim of a run, not the facts about rows.
- **SecondFactor.** The counter of a row is at least every step accepted for it, rows have distinct ids, and
  a set of codes is inserted once, so a spent code is marked or gone for good. `ReplacesWhatItSaw` needs more: a snapshot
  only holds sets whose request is over, and a replacement that is about to insert holds the locks of all that is left of its
  snapshot (`LeftoverInv`). So what survives it came later.
- **DocumentStore.** What is stored was written or committed, what is staged in a transaction was staged by its client, and a
  pending Insert has noted every change of its id since it looked. From it: a client sees only what is kept, batches are whole, and
  an Insert overwrites only what was stored after it had looked.
- **AppLifecycle** (assumes: Shutdown is called from the two places with a deadline, nobody calls Wait). First `AppSpec => Spec`: every step of
  the process is a step of `Dispatcher` or leaves it alone, so its invariant holds inside the process. `AppIInv` adds what each position
  of the main goroutine knows: the dispatcher is open until one of the two callers has shut it, no handler is left once the server
  stopped, and what is still to be released. All four invariants of `app_life` follow.
- **TenantResolver** (assumes: slugs of seeded tenants are distinct, capacities are positive). `ServedTenantWasActive` and
  `RefusedTenantWasInactive` are about entries, and an entry is written by a request that read the table earlier. So `TenantIInv` bounds the
  delay of every lookup under way by how long its answer can have been wrong, and an entry inherits the bound. Nothing is assumed of the order in
  which lookups reach the segments, so both hold where overlapping puts left a key in both. The lemmas say what get, put and
  eviction do to the lists.
- **Startup.** For every environment, not only the 26,248 of the run. `StartIInv` says that by each stage the configuration is what `Load`
  built and `Lint` accepted, and that exactly the dependencies and routes it asks for exist. The work is in lemmas about `Config`: what
  the loader does with each class of text, and which later check each check of `Lint` implies.
- **RequestPath** (assumes: policies come from the constructors, what shares a function literal shares its type, users have
  tenants and names of their own). Two theorems on the validator, for lists of any length and whatever was annotated last: `AuthComesFirst` and
  `IsolationBeforeCache`. Then a tower of invariants, each proved with the ones below it:
  - `IInv`: a serving deployment has been validated, and a request past `AuthRequired` has a principal. `AlwaysGuardedByAuth` follows.
  - `KeepInv`: who may see a chunk. A key admits the users it is built from, everything stored under it or captured for it was produced for
    one of them, and what is on the wire may be shown to this request. `CacheKeepsApart` follows, and `TenantIsolation` with
    `BehindMatch`: on a route that matches the tenant, what is behind the match runs for the tenant of the path only, and the validator has put
    the cache there.
  - `WriteInv`: what has been written by whom at each layer and direction, and that the response writers a request has not passed yet
    on its way out agree with the connection.
  - `AnswerInv`, `DoneInv`: there is one writer, an adapter has written one envelope, and what was captured or stored is what was sent.
    `OneAnswer` and `CachedAsSent` follow.
  - `ObserveInv`: each observer already passed on the way out recorded the final status, unless the answer is one of those `ObserversAgree`
    excuses. `ObserversAgree` follows.

  The fixed order of the middleware enters through one lemma family (`Rank`): every layer but the policies has its place, so "inside
  of" is a comparison of numbers.
- **Accounts** (assumes that the texts "0" and "none" are not tenants). Accounts and messages only grow: an account
  keeps its tenant and never returns to pending, and a message stays sent. So what a request learned before a call still holds after it,
  and the invariant can state it for every position of every request. From it: the five properties of `auth` that are about accounts.

Only model-checked: the three liveness properties `AllReturn`, `SignalEndsProcess` and `DeactivationTakesEffect`, because TLAPS
does not handle fairness. Every other property of a passing run has a theorem. `ActiveSecretConfirmed` has none, since the
code violates it, nor have `InvalidFailsFast` and `TenantPathsGuarded` (section 5).

## 5. Findings and observations

Three runs show disagreements between the code and what is written about it. `PROJECT.json` quotes the lines on both sides.
- `totp_setup_race`: `setupTOTP` checks and writes in separate statements, and the upsert keeps `verified`, so a secret that nobody has
  confirmed can become the active one.
- `unread_settings`: `docs/environment-variables.md:18` says invalid values fail fast. Twelve switches and numbers are not read again by
  `Lint`, and text that does not parse there is silently the fallback.
- `tenant_paths`: `docs/multi-tenancy.md:45` says a `{tenant_id}` route must carry the tenant policies. A route without any policy is not
  looked at (`validator.go:69`), and a list whose match was judged by the metadata of another route (`metadata.go:136`) passes.
  `TenantIsolation` is about the routes that do match.

Seen while modelling. The models contain these behaviours, and the properties are stated so as to allow them; no run is devoted to them.
- Two concurrent calls of `Dispatcher.Wait` without a deadline can each hold part of the slots and wait for the other (`notify.go:251`,
  `:257`). The `dispatcher` run therefore gives one of the two a deadline.
- When tracing fails to start, the auth engine stays open (`deps.go:325`), and a failing notifier leaves tracing open (`app.go:80`),
  although "Resources initialized earlier are closed before returning startup error" (`docs/architecture.md:130`). `ExitReleasesPools`
  claims the connection pools only.
- When `server.Shutdown` times out, the drain runs while handlers are active (`app.go:199`; `docs/architecture.md:373`).
- With the token cache, a read that fetched tag versions before a bump may store them after the bump cleared the
  cache (`manager.go:427`; `docs/cache-guide.md:180`). `UncachedReadIsFresh` is about processes without it.
- Two overlapping replacements of backup codes leave both sets valid at READ COMMITTED (`docs/auth-flows.md:209`).
- In the document store, a `WithTx` inside another is independent of it, and of two overlapping Inserts of one id the later wins.
- A handler that flushes before its deadline gets the timeout envelope appended after a 200 header (`requesttimeout.go:92`). The
  span of a request answered with 504 may say 200, and the access log, skipped by a panic, may miss an error.
- Two overlapping puts with different results can leave a tenant in both segments of the validation cache, and `get` then reports the
  active one, although `put` says a tenant that changed state "is never reported from both" (`cache.go:88`). The properties
  bound how long either entry may answer instead.
- The `log` notifier passes `Lint` in production with resets and verifications on, although it delivers nothing (`config.go:944`;
  `docs/security-env-recommendations.md:170`). `ProductionIsGuarded` names the safeguards it is about.
- Two identifiers that `sanitizeIdentifier` makes equal share a rate-limit budget.
- `UpdateSignCount` is unconditional and ignores the user id (`webauthn_repository.go:90`), so a count may go back when logins overlap.
- With tenancy, a change of status may be committed and still report an error (`provider.go:166`).
- A challenge asked for before its account exists may be mailed although it is synthetic; `SentIsUsable` names this case.

## 6. Assumptions about what is outside

Redis executes a command or script atomically. Postgres executes a statement atomically at READ COMMITTED and
releases locks when a transaction ends. AES-GCM opens only what the same key sealed. Hashes of cache keys do
not collide. goAuth makes its provider calls in the order the modules state, and answers a challenge that is not on record with an
error. A rate-limit window below a millisecond truncates to zero and limits nothing; `Rule.Validate` accepts it, no rule
of the repository has one, and `Steady` excludes it. While the new TOTP key is being deployed, a replica
without it cannot open what another sealed with it; that is inherent in the procedure. A time step is accepted once
per row of `user_totp`; a row inserted after a removal counts from zero again. Evicting a tag version from Redis (which would
restart it at zero) is not modelled.

## 7. Not modelled

- goAuth's own state: login, refresh, sessions, change of password, auto-login tokens. The code here is one call and a mapping of its error.
- Generated queries (the statements that modelled parts use are mapped from `db/queries`) and migrations.
- Command-line tools, code generation and static analysis: one process that rewrites files. `rotatetotpkey`, which shares rows with
  running servers, is in `KeyRotation`.
- The SMTP dialogue: a send that succeeds, fails or hangs is what `Dispatcher` assumes of it.
- Readiness, pool metrics, export of traces, logging, response formatting: they observe and decide nothing.
- String work on one request: request ids, client addresses, body limits, route patterns, JSON decoding, the match of a
  Find filter. A model would repeat the code.
- A nested relational `WithTx`, which has no caller, and `Hijack`.
- The comparison of environment files with the documentation, and test support.

`PROJECT.json` lists each with its sources.
