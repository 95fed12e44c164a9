------------------------------ MODULE Startup -------------------------------
(***************************************************************************)
(* Bringing up the process from its environment (cmd/api/main.go): load,   *)
(* lint, the tenancy feature's own settings, the dependencies with the     *)
(* goAuth configuration, the notifier, and the routes the shipped modules  *)
(* register.  Here the stores are reachable and a step fails only because  *)
(* of the configuration; AppLifecycle has the stores and the drivers fail  *)
(* and says what is released then.                                         *)
(***************************************************************************)
EXTENDS Config

CONSTANT Envs   \* the environments the process may be started with

VARIABLES
    env,        \* the environment
    stage,      \* the step main is at
    cfg,        \* what Load returned
    tenancy,    \* what tenancy.LoadConfig returned
    engine,     \* the goAuth configuration the engine was built with
    deps,       \* the dependencies that exist
    routes,     \* route groups registered
    refused     \* the step that refused to start, "none" while none has

startVars == <<env, stage, cfg, tenancy, engine, deps, routes, refused>>

None == [ok |-> FALSE]

-----------------------------------------------------------------------------
(* The tenancy feature. *)

TenancyConfig ==
    LET Bool(k, d) == IF Getenv(env, k) \in {"true", "false"} THEN Getenv(env, k) = "true" ELSE d
        Text(k, d) == IF Getenv(env, k) = "" THEN d ELSE TrimSpace(Getenv(env, k))
    IN  [enabled  |-> Bool("TENANCY_ENABLED", FALSE),
         resolver |-> Text("TENANCY_RESOLVER", "header"),
         header   |-> Text("TENANCY_HEADER", "name"),
         base     |-> Text("TENANCY_BASE_DOMAIN", ""),
         validate |-> Bool("TENANCY_VALIDATE", TRUE),
         ttl      |-> IF Getenv(env, "TENANCY_VALIDATE_CACHE_TTL") \in DOMAIN Rank
                      THEN env["TENANCY_VALIDATE_CACHE_TTL"] ELSE "mid",
         exempt   |-> IF TrimSpace(Getenv(env, "TENANCY_EXEMPT_PATHS")) \in {"", ","}
                      THEN "ok" ELSE env["TENANCY_EXEMPT_PATHS"]]

TenancyLint(t) ==
    t.enabled =>
        /\ \/ t.resolver = "header" /\ t.header \notin {"", "bad"}
           \/ t.resolver = "subdomain" /\ t.base # "" /\ t.validate
        /\ t.validate => On(cfg, "POSTGRES_ENABLED")
        /\ Rank[t.ttl] >= Rank["zero"]
        /\ t.exempt # "bad"

-----------------------------------------------------------------------------
(* The goAuth configuration (internal/core/auth). *)

ParseMode(v) ==
    CASE TrimSpace(v) = "jwt_only" -> "jwt_only"
      [] TrimSpace(v) \in {"hybrid", ""} -> "hybrid"
      [] TrimSpace(v) = "strict" -> "strict"
      [] OTHER -> "invalid"

VerifyKeyLists ==
    [current |-> <<[kid |-> "s1", pem |-> TRUE]>>,
     overlap |-> <<[kid |-> "s0", pem |-> TRUE], [kid |-> "s1", pem |-> TRUE]>>,
     noKid   |-> <<[kid |-> "", pem |-> TRUE]>>,
     noPem   |-> <<[kid |-> "s1", pem |-> FALSE]>>]

VerifyKeys ==
    LET v == TrimSpace(Getenv(env, "AUTH_VERIFY_KEYS"))
    IN  IF v \in DOMAIN VerifyKeyLists THEN VerifyKeyLists[v] ELSE <<>>

\* applyKeyRotation: verify keys need the active key id, and need it among them.
KeyRotationOK ==
    LET id == TrimSpace(Getenv(env, "AUTH_KEY_ID")) ks == VerifyKeys
    IN  ks # <<>> => /\ id # ""
                     /\ \A i \in DOMAIN ks : ks[i].kid # "" /\ ks[i].pem
                     /\ \E i \in DOMAIN ks : ks[i].kid = id

\* envDuration: optional, but a value that is set must be positive.
SessionOK == TrimSpace(Getenv(env, "AUTH_MAX_SESSION_DURATION")) \in {"", "low", "mid", "high"}

\* applyTestOverrides refuses the overrides outside development and test, and
\* there replaces the signer by the shared secret and its fixed key id.
OverridesOK == TestOverridesAllowed(cfg) \/ NoTestOverrides(env)
SharedSigner == TestOverridesAllowed(cfg) /\ TrimSpace(Getenv(env, "AUTH_TEST_SHARED_SECRET")) # ""

\* ProjectGoAuthConfig with the features of AuthFeatures(cfg) and the tenancy mutator.
ProjectGoAuthConfig ==
    [ok        |-> SessionOK /\ KeyRotationOK /\ OverridesOK,
     mode      |-> ParseMode(cfg["AUTH_MODE"]),
     autoLogin |-> On(cfg, "AUTH_REGISTRATION_ENABLED") /\ On(cfg, "AUTH_REGISTRATION_AUTO_LOGIN"),
     reset     |-> On(cfg, "AUTH_PASSWORD_RESET_ENABLED"),
     verify    |-> On(cfg, "AUTH_EMAIL_VERIFICATION_ENABLED"),
     needVerified |-> /\ On(cfg, "AUTH_EMAIL_VERIFICATION_ENABLED")
                      /\ On(cfg, "AUTH_EMAIL_VERIFICATION_REQUIRED"),
     totp      |-> On(cfg, "AUTH_TOTP_ENABLED"),
     webauthn  |-> Truthy(Getenv(env, "WEBAUTHN_ENABLED")),
     shared    |-> SharedSigner,
     keyID     |-> IF SharedSigner THEN "superapi-perf-key" ELSE TrimSpace(Getenv(env, "AUTH_KEY_ID")),
     kids      |-> {VerifyKeys[i].kid : i \in DOMAIN VerifyKeys},
     limiter   |-> TrimSpace(Getenv(env, "AUTH_LIMITER_WINDOW_MODE")),
     multi     |-> tenancy.enabled]

\* goAuth's Build: the checks the comments of internal/core/auth ascribe to it.
GoAuthKnowsRPID(g) ==
    LET id == TrimSpace(Getenv(env, "WEBAUTHN_RP_ID"))
    IN  g.webauthn => id \in DOMAIN RPIDs /\ ValidRPID(id)

GoAuthBuilds(g) ==
    /\ TrimSpace(Getenv(env, "AUTH_MAX_SESSION_DURATION")) # "low"
    /\ g.limiter \in {"", "fixed", "sliding"}
    /\ g.kids # {} => g.keyID \in g.kids
    /\ GoAuthKnowsRPID(g)

\* NewKeyRingCipher checks the ring again: the active id is one of the keys.
CipherBuilds == TOTPKeyring(cfg).ok /\ TOTPKeyring(cfg).active \in TOTPKeyring(cfg).kids

-----------------------------------------------------------------------------
(* main and app.New, one step per call. *)

StartInit ==
    /\ env \in Envs
    /\ stage = "load"
    /\ cfg = None /\ tenancy = None /\ engine = None
    /\ deps = {} /\ routes = {} /\ refused = "none"

\* A step of main: the process goes on to the next one or exits with an error.
Proceed(why, next) ==
    /\ stage' = IF why = "none" THEN next ELSE "refused"
    /\ refused' = why
    /\ UNCHANGED env

Unless(ok, why) == IF ok THEN "none" ELSE why

\* config.Load fails only for an unknown profile.
LoadConfig ==
    /\ stage = "load"
    /\ cfg' = IF ProfileKnown(env) THEN Load(env) ELSE None
    /\ Proceed(Unless(ProfileKnown(env), "profile"), "lint")
    /\ UNCHANGED <<tenancy, engine, deps, routes>>

LintConfig ==
    /\ stage = "lint"
    /\ Proceed(Unless(Lint(env, cfg), "lint"), "logger")
    /\ UNCHANGED <<cfg, tenancy, engine, deps, routes>>

\* logx.New parses the level again, and takes any format.
BuildLogger ==
    /\ stage = "logger"
    /\ Proceed(Unless(TrimSpace(cfg["LOG_LEVEL"]) \in LogLevels, "logger"), "features")
    /\ UNCHANGED <<cfg, tenancy, engine, deps, routes>>

\* loadFeatures, for the one feature that is compiled in.
LoadFeatures ==
    /\ stage = "features"
    /\ tenancy' = IF TenancyLint(TenancyConfig) THEN TenancyConfig ELSE None
    /\ Proceed(Unless(TenancyLint(TenancyConfig), "tenancy"), "deps")
    /\ UNCHANGED <<cfg, engine, deps, routes>>

Stores ==
    {d \in {"postgres", "redis"} :
        \/ d = "postgres" /\ On(cfg, "POSTGRES_ENABLED")
        \/ d = "redis" /\ On(cfg, "REDIS_ENABLED")}

\* tracing.New knows one exporter.
TracingBuilds == cfg["TRACING_EXPORTER"] = "otlpgrpc"

\* The first check of initDependencies that fails, if any.
WhyNotBuilt ==
    LET auth == On(cfg, "AUTH_ENABLED")
        g    == ProjectGoAuthConfig
    IN  IF ParseMode(cfg["AUTH_MODE"]) = "invalid" THEN "mode"
        ELSE IF auth /\ "postgres" \notin Stores THEN "database"
        ELSE IF auth /\ On(cfg, "AUTH_TOTP_ENABLED") /\ ~CipherBuilds THEN "cipher"
        ELSE IF auth /\ "redis" \notin Stores THEN "redis"
        ELSE IF auth /\ ~g.ok THEN IF OverridesOK THEN "goauth config" ELSE "overrides"
        ELSE IF auth /\ ~GoAuthBuilds(g)
             THEN IF GoAuthKnowsRPID(g) THEN "goauth build" ELSE "rp id"
        ELSE IF /\ On(cfg, "RATELIMIT_ENABLED") \/ On(cfg, "CACHE_ENABLED")
                /\ "redis" \notin Stores THEN "redis"
        ELSE IF On(cfg, "TRACING_ENABLED") /\ ~TracingBuilds THEN "tracing"
        ELSE "none"

\* initDependencies.
InitDependencies ==
    LET auth == On(cfg, "AUTH_ENABLED")
        If(c, d) == IF c THEN {d} ELSE {}
    IN  /\ stage = "deps"
        /\ Proceed(WhyNotBuilt, "notifier")
        /\ engine' = IF auth /\ WhyNotBuilt = "none" THEN ProjectGoAuthConfig ELSE None
        /\ deps' = IF WhyNotBuilt # "none" THEN {}
                   ELSE Stores \cup If(auth, "engine")
                               \cup If(auth /\ On(cfg, "AUTH_TOTP_ENABLED"), "cipher")
                               \cup If(On(cfg, "RATELIMIT_ENABLED"), "limiter")
                               \cup If(On(cfg, "CACHE_ENABLED"), "cache")
                               \cup If(On(cfg, "METRICS_ENABLED"), "metrics")
                               \cup If(On(cfg, "TRACING_ENABLED"), "tracing")
        /\ UNCHANGED <<cfg, tenancy, routes>>

\* notify.New, the SMTP driver's refusal of mail in the clear outside dev, and
\* the checks of NewSMTP.
NotifierBuilds ==
    /\ cfg["NOTIFY_DRIVER"] \in NotifyDrivers \cup {""}
    /\ cfg["NOTIFY_DRIVER"] = "smtp" =>
          /\ cfg["SMTP_TLS"] = "none" => cfg["APP_ENV"] = "dev"
          /\ cfg["SMTP_HOST"] # ""
          /\ cfg["SMTP_PORT"] \in {"low", "mid"}
          /\ cfg["SMTP_TLS"] \in {"starttls", "implicit", "none"}
          /\ cfg["SMTP_FROM"] \notin {"", "bad"}
          /\ \A k \in {"NOTIFY_RESET_URL", "NOTIFY_VERIFY_URL"} :
                cfg[k] # "" => ValidLinkTemplate(cfg[k])

BuildNotifier ==
    /\ stage = "notifier"
    /\ deps' = IF NotifierBuilds THEN deps \cup {"notifier"} ELSE {}
    /\ Proceed(Unless(NotifierBuilds, "notifier"), "routes")
    /\ UNCHANGED <<cfg, tenancy, engine, routes>>

\* The groups (*Module).Register of the auth module mounts.
AuthRoutes ==
    LET If(c, group) == IF c THEN {group} ELSE {}
    IN  IF "engine" \notin deps THEN {}
        ELSE {"credentials", "account", "webauthn"}
             \cup If("limiter" \in deps, "limited account")
             \cup If(On(cfg, "AUTH_REGISTRATION_ENABLED"), "registration")
             \cup If(On(cfg, "AUTH_PASSWORD_RESET_ENABLED"), "password reset")
             \cup If(On(cfg, "AUTH_EMAIL_VERIFICATION_ENABLED"), "email verification")
             \cup If(On(cfg, "AUTH_TOTP_ENABLED"), "totp")

\* The metrics route, behind its token when there is one.
MetricsRoutes ==
    IF "metrics" \notin deps THEN {}
    ELSE IF TrimSpace(cfg["METRICS_AUTH_TOKEN"]) = "" THEN {"open metrics"} ELSE {"metrics"}

\* The rest of app.New: the metrics route, the health module, the auth module.
RegisterRoutes ==
    /\ stage = "routes"
    /\ routes' = {"health"} \cup MetricsRoutes \cup AuthRoutes
    /\ Proceed("none", "serving")
    /\ UNCHANGED <<cfg, tenancy, engine, deps>>

Done == stage \in {"refused", "serving"} /\ UNCHANGED startVars

StartNext ==
    \/ LoadConfig \/ LintConfig \/ BuildLogger \/ LoadFeatures
    \/ InitDependencies \/ BuildNotifier \/ RegisterRoutes \/ Done

StartSpec == StartInit /\ [][StartNext]_startVars

-----------------------------------------------------------------------------
(* Properties. *)

Accepted == stage \notin {"load", "lint"} /\ refused \notin {"profile", "lint"}

\* Typed settings Lint does not read again from the environment: a value that
\* does not parse is taken for the fallback without a word.
SilentlyReplaced ==
    {"CACHE_ENABLED", "CACHE_FAIL_OPEN", "CACHE_DEFAULT_MAX_BYTES", "NOTIFY_LOG_SECRETS",
     "NOTIFY_TIMEOUT", "SMTP_PORT", "AUTH_REGISTRATION_AUTO_LOGIN",
     "AUTH_EMAIL_VERIFICATION_REQUIRED"} \cup AuthFeatureFlags

(* The settings Lint reads again from the environment are never misread: once  *)
(* it has passed, each of them that is set has in the configuration exactly    *)
(* the value written, whatever the profile and APP_ENV supply for it, although *)
(* Load itself replaces what it cannot parse.  The other settings, the ones of *)
(* SilentlyReplaced, are not covered: for them InvalidFailsFast fails.         *)
WrittenIsLoaded ==
    Accepted => \A k \in ((Bools \cup Nums) \ SilentlyReplaced) \cap DOMAIN env : cfg[k] = env[k]

(* What docs/environment-variables.md promises, "Startup always runs           *)
(* config.Lint(). Invalid values and invalid feature combinations fail fast.", *)
(* and the comment of Lint, "Validates env value formats": a process gets past *)
(* Lint only if every switch and number that is set can be read.  The code     *)
(* does not keep it: Lint does not look at the settings of SilentlyReplaced,   *)
(* and text that Load cannot read there is the fallback, without an error.     *)
InvalidFailsFast ==
    Accepted => \A k \in (Bools \cup Nums) \cap DOMAIN env :
                    TrimSpace(env[k]) # "" => Parses(k, env[k])

(* No production process, under either name of production, serves with one of  *)
(* these safeguards off: limiter and cache fail closed, /metrics asks for a    *)
(* token, tokens are not signed with a shared test secret, NOTIFY_LOG_SECRETS  *)
(* is off, SMTP is encrypted, and no password reset or email verification is   *)
(* offered on the noop driver, which discards every message.  The log driver   *)
(* is not among them: Lint accepts it in production, where it delivers nothing.*)
ProductionIsGuarded ==
    stage = "serving" /\ cfg["APP_ENV"] \in {"prod", "production"} =>
        /\ "limiter" \in deps => ~On(cfg, "RATELIMIT_FAIL_OPEN")
        /\ "cache" \in deps => ~On(cfg, "CACHE_FAIL_OPEN")
        /\ "open metrics" \notin routes
        /\ engine.ok => ~engine.shared
        /\ ~On(cfg, "NOTIFY_LOG_SECRETS")
        /\ cfg["NOTIFY_DRIVER"] = "smtp" => cfg["SMTP_TLS"] # "none"
        /\ {"password reset", "email verification"} \cap routes # {} => ~UsesNoop(cfg)

(* What is offered is backed: every optional route group has the engine        *)
(* section, the stores and the mail settings its handlers use, and the engine  *)
(* has no such section on without the route group that serves it.              *)
OfferedIsBacked ==
    stage = "serving" =>
        /\ "engine" \in deps <=> "credentials" \in routes
        /\ "engine" \in deps => {"postgres", "redis", "notifier"} \subseteq deps
        /\ "limiter" \in deps \/ "cache" \in deps => "redis" \in deps
        /\ "password reset" \in routes <=> engine.ok /\ engine.reset
        /\ "email verification" \in routes <=> engine.ok /\ engine.verify
        /\ "totp" \in routes <=> engine.ok /\ engine.totp /\ "cipher" \in deps
        /\ "password reset" \in routes /\ cfg["NOTIFY_DRIVER"] = "smtp" =>
              ValidLinkTemplate(cfg["NOTIFY_RESET_URL"])
        /\ "email verification" \in routes /\ cfg["NOTIFY_DRIVER"] = "smtp" =>
              ValidLinkTemplate(cfg["NOTIFY_VERIFY_URL"])
        /\ engine.ok /\ engine.autoLogin => "registration" \in routes
        /\ tenancy.enabled /\ tenancy.validate => "postgres" \in deps

\* An environment that sets nothing, or a known profile.
Untouched == DOMAIN env \subseteq {"APP_PROFILE"} /\ ProfileKnown(env)

(* Lint decides: a configuration it accepts is not refused later for one of    *)
(* the reasons it is there to catch (log level, auth mode, missing stores,     *)
(* TOTP keys, test overrides, relying party id, exporter, notifier), although  *)
(* those are checked again, by other code, when the dependencies are built.    *)
(* An environment that names only a known profile, or nothing, starts.         *)
LintDecides ==
    /\ refused \notin {"logger", "mode", "database", "redis", "cipher", "overrides", "rp id",
                      "tracing", "notifier"}
    /\ Untouched => stage # "refused"
-----------------------------------------------------------------------------
(* The inductive invariant behind the properties: what each step of main has *)
(* established when the next one starts.                                     *)

StartStages ==
    {"load", "lint", "logger", "features", "deps", "notifier", "routes", "serving", "refused"}

\* Load's result is the configuration, and nothing behind Lint runs without it.
LintedConfig ==
    /\ stage \notin {"load", "refused"} => ProfileKnown(env) /\ cfg = Load(env)
    /\ Accepted => cfg = Load(env) /\ Lint(env, cfg)

\* initDependencies has built what the configuration enables, from what it had.
Built ==
    /\ On(cfg, "AUTH_ENABLED") => engine.ok
    /\ engine = IF On(cfg, "AUTH_ENABLED") THEN ProjectGoAuthConfig ELSE None
    /\ "postgres" \in deps <=> On(cfg, "POSTGRES_ENABLED")
    /\ "redis" \in deps <=> On(cfg, "REDIS_ENABLED")
    /\ "engine" \in deps <=> On(cfg, "AUTH_ENABLED")
    /\ "cipher" \in deps <=> On(cfg, "AUTH_ENABLED") /\ On(cfg, "AUTH_TOTP_ENABLED")
    /\ "limiter" \in deps <=> On(cfg, "RATELIMIT_ENABLED")
    /\ "cache" \in deps <=> On(cfg, "CACHE_ENABLED")
    /\ "metrics" \in deps <=> On(cfg, "METRICS_ENABLED")

StartIInv ==
    /\ stage \in StartStages
    /\ stage # "refused" => refused = "none"
    /\ LintedConfig
    /\ stage \in {"deps", "notifier", "routes", "serving"} => TenancyLint(tenancy)
    /\ stage \in {"notifier", "routes", "serving"} => Built
    /\ stage \in {"routes", "serving"} => "notifier" \in deps
    /\ stage = "serving" => routes = {"health"} \cup MetricsRoutes \cup AuthRoutes
    /\ LintDecides
=============================================================================
