------------------------- MODULE StartupStoreProofs -------------------------
(***************************************************************************)
(* Proofs about the two ends of a process that hold its data.              *)
(*                                                                         *)
(* Startup, for any environment: StartIInv says what Lint has accepted by  *)
(* each stage, and which dependencies and routes follow from it.           *)
(*                                                                         *)
(* DocumentStore, for any clients and ids, and any number of writes and of *)
(* transactions inside each other.                                         *)
(***************************************************************************)
EXTENDS Startup, DocumentStore, TLAPS

-----------------------------------------------------------------------------
(* Startup: what Lint has accepted, and what is built from it.             *)

(* The kinds of settings are apart: a number is no list, text or flag.     *)
LEMMA NumsApart == \A k \in Nums : k \notin Lists /\ k \notin Texts /\ k \notin Bools
  <1>1. \A k \in HTTPNums : k \notin Lists /\ k \notin Texts /\ k \notin Bools
    BY DEF HTTPNums, HTTPTimeouts, Lists, PathLists, OriginLists, TokenLists, Texts, TextDefault,
           Bools, HTTPBools, AuthBools, AuthFeatureFlags
  <1>2. \A k \in Nums \ HTTPNums : k \notin Lists /\ k \notin Texts /\ k \notin Bools
    BY DEF Nums, PostgresNums, RedisNums, RedisTimeouts, Lists, PathLists, OriginLists, TokenLists, Texts, TextDefault,
           Bools, HTTPBools, AuthBools, AuthFeatureFlags
  <1> QED  BY Zenon, <1>1, <1>2

(* A flag is no list and no text.                                          *)
LEMMA BoolsApart == \A k \in Bools : k \notin Lists /\ k \notin Texts
    BY DEF Lists, PathLists, OriginLists, TokenLists, Texts, TextDefault,
           Bools, HTTPBools, AuthBools, AuthFeatureFlags

(* The settings that Load trims or completes are texts.                    *)
LEMMA TrimmedTexts ==
    Trimmed \subseteq Texts /\ "TRACING_SERVICE_NAME" \in Texts /\ "AUTH_TOTP_ISSUER" \in Texts
  BY DEF Trimmed, Texts, TextDefault

(* Lint looks at the format of every flag and number, but for the ones     *)
(* SilentlyReplaced names.                                                 *)
LEMMA Linted == (Bools \cup Nums) \ SilentlyReplaced \subseteq FormatLinted
  <1>1. Bools \ SilentlyReplaced \subseteq FormatLinted
    BY DEF Bools, AuthBools, AuthFeatureFlags, SilentlyReplaced, FormatLinted, HTTPFormats, StoreFormats, OtherFormats
  <1>2. Nums \ SilentlyReplaced \subseteq FormatLinted
    BY DEF Nums, SilentlyReplaced, FormatLinted, HTTPFormats, StoreFormats, OtherFormats
  <1> QED  BY Zenon, <1>1, <1>2

(* Load reads a flag or a number from the environment, the profile or the  *)
(* defaults and leaves it as it is.                                        *)
LEMMA LoadedTyped ==
    ASSUME NEW e, NEW k \in Bools \cup Nums
    PROVE  Load(e)[k] = Get(e, k, IsProd(Get(e, "APP_ENV", FALSE)))
  <1>1. k \in Settings  BY Zenon DEF Settings
  <1>2. k \notin Texts /\ k \notin Trimmed /\ k # "TRACING_SERVICE_NAME" /\ k # "AUTH_TOTP_ISSUER"
    BY Zenon, NumsApart, BoolsApart, TrimmedTexts
  <1> QED  BY <1>1, <1>2 DEF Load

(* A flag or number that is written in the environment and passes the      *)
(* format lints is the one loaded.                                         *)
LEMMA WrittenWins ==
    ASSUME NEW e, NEW k \in ((Bools \cup Nums) \ SilentlyReplaced) \cap DOMAIN e, LintFormats(e)
    PROVE  Load(e)[k] = e[k]
  <1>1. Parses(k, e[k])  BY Zenon, Linted DEF LintFormats
  <1>2. k \notin Lists  BY Zenon, NumsApart, BoolsApart
  <1>3. e[k] # ""  BY <1>1 DEF Parses, Rank
  <1>4. RawOf(e, k) = e[k]  BY Zenon, <1>2, <1>3 DEF RawOf, Getenv
  <1>5. Load(e)[k] = Get(e, k, IsProd(Get(e, "APP_ENV", FALSE)))  BY Zenon, LoadedTyped
  <1> QED  BY Zenon, <1>1, <1>3, <1>4, <1>5 DEF Get

(* The inductive invariant implies WrittenIsLoaded: Lint has seen every    *)
(* format.                                                                 *)
LEMMA IInvWritten == StartIInv => WrittenIsLoaded
  BY Zenon, WrittenWins DEF StartIInv, LintedConfig, WrittenIsLoaded, Lint

(* A process that serves has passed Lint and has built what its settings   *)
(* ask for.                                                                *)
LEMMA ServedConfig == StartIInv /\ stage = "serving" => Accepted /\ Lint(env, cfg) /\ Built
  <1> SUFFICES ASSUME StartIInv, stage = "serving"  PROVE Accepted /\ Lint(env, cfg) /\ Built
    OBVIOUS
  <1>1. refused = "none" /\ Built  BY DEF StartIInv
  <1>2. Accepted  BY <1>1 DEF Accepted
  <1> QED  BY Zenon, <1>1, <1>2 DEF StartIInv, LintedConfig

(* The inductive invariant implies ProductionIsGuarded: each guard is a    *)
(* lint of the configuration, or a choice made when a part is built.       *)
LEMMA IInvGuarded == StartIInv => ProductionIsGuarded
  <1> SUFFICES ASSUME StartIInv, stage = "serving", cfg["APP_ENV"] \in {"prod", "production"}
               PROVE  ProductionIsGuarded
    BY Zenon DEF ProductionIsGuarded
  <1>0. IsProd(cfg["APP_ENV"])  BY DEF IsProd
  <1>1. Lint(env, cfg) /\ Built  BY Zenon, ServedConfig
  <1>2. routes = {"health"} \cup MetricsRoutes \cup AuthRoutes  BY Zenon DEF StartIInv
  <1>3. /\ "limiter" \in deps => ~On(cfg, "RATELIMIT_FAIL_OPEN")
        /\ "cache" \in deps => ~On(cfg, "CACHE_FAIL_OPEN")
    BY Zenon, <1>0, <1>1 DEF Lint, LintFailOpen, Built
  <1>4. "open metrics" \notin routes
    <2>1. "open metrics" \notin AuthRoutes  BY DEF AuthRoutes
    <2>2. "open metrics" \notin MetricsRoutes
      <3>1. On(cfg, "METRICS_ENABLED") => TrimSpace(cfg["METRICS_AUTH_TOKEN"]) # ""
        BY Zenon, <1>0, <1>1 DEF Lint, LintMetrics
      <3>2. "metrics" \in deps <=> On(cfg, "METRICS_ENABLED")  BY Zenon, <1>1 DEF Built
      <3> QED  BY <3>1, <3>2 DEF MetricsRoutes
    <2> QED  BY <1>2, <2>1, <2>2
  <1>5. cfg["APP_ENV"] # "dev" /\ ~IsDevOrTest(cfg["APP_ENV"])
    BY DEF IsDevOrTest
  <1>6. engine.ok => ~engine.shared
    <2>1. CASE On(cfg, "AUTH_ENABLED")
      <3>1. engine = ProjectGoAuthConfig  BY Zenon, <1>1, <2>1 DEF Built
      <3>2. ~SharedSigner  BY Zenon, <1>5 DEF SharedSigner, TestOverridesAllowed
      <3>3. ProjectGoAuthConfig.shared = SharedSigner  BY Zenon DEF ProjectGoAuthConfig
      <3> QED  BY Zenon, <3>1, <3>2, <3>3
    <2>2. CASE ~On(cfg, "AUTH_ENABLED")
      <3>1. engine = None  BY Zenon, <1>1, <2>2 DEF Built
      <3> QED  BY <3>1 DEF None
    <2> QED  BY Zenon, <2>1, <2>2
  <1>7. LintNotify(cfg)  BY Zenon, <1>1 DEF Lint
  <1>8. ~On(cfg, "NOTIFY_LOG_SECRETS")  BY Zenon, <1>5, <1>7 DEF LintNotify
  <1>9. cfg["NOTIFY_DRIVER"] = "smtp" => cfg["SMTP_TLS"] # "none"
    BY <1>5, <1>7 DEF LintNotify, LintSMTP
  <1>10. {"password reset", "email verification"} \cap routes # {} => ~UsesNoop(cfg)
    <2>1. /\ "password reset" \in AuthRoutes => On(cfg, "AUTH_PASSWORD_RESET_ENABLED")
          /\ "email verification" \in AuthRoutes => On(cfg, "AUTH_EMAIL_VERIFICATION_ENABLED")
      BY DEF AuthRoutes
    <2>2. {"password reset", "email verification"} \cap MetricsRoutes = {}  BY DEF MetricsRoutes
    <2>3. {"password reset", "email verification"} \cap routes # {} => DeliveryFlags(cfg) # {}
      BY <1>2, <2>1, <2>2 DEF DeliveryFlags
    <2> QED  BY Zenon, <1>5, <1>7, <2>3 DEF LintNotify, LintNotifyDelivery
  <1> QED  BY Zenon, <1>3, <1>4, <1>6, <1>8, <1>9, <1>10 DEF ProductionIsGuarded

(* The inductive invariant implies OfferedIsBacked: a route group follows  *)
(* from the flag that the dependency behind it was built for.              *)
LEMMA IInvBacked == StartIInv => OfferedIsBacked
  <1> SUFFICES ASSUME StartIInv, stage = "serving"  PROVE  OfferedIsBacked
    BY Zenon DEF OfferedIsBacked
  <1>1. Lint(env, cfg) /\ Built  BY Zenon, ServedConfig
  <1>2. routes = {"health"} \cup MetricsRoutes \cup AuthRoutes  BY Zenon DEF StartIInv
  <1>3. "notifier" \in deps /\ TenancyLint(tenancy)  BY DEF StartIInv
  <1>4. \A g : g \notin {"health", "open metrics", "metrics"} => (g \in routes <=> g \in AuthRoutes)
    BY <1>2 DEF MetricsRoutes
  <1>5. "engine" \in deps <=> On(cfg, "AUTH_ENABLED")  BY Zenon, <1>1 DEF Built
  <1>6. /\ "credentials" \in routes <=> "engine" \in deps
        /\ "password reset" \in routes <=>
              "engine" \in deps /\ On(cfg, "AUTH_PASSWORD_RESET_ENABLED")
        /\ "email verification" \in routes <=>
              "engine" \in deps /\ On(cfg, "AUTH_EMAIL_VERIFICATION_ENABLED")
        /\ "totp" \in routes <=> "engine" \in deps /\ On(cfg, "AUTH_TOTP_ENABLED")
        /\ "registration" \in routes <=> "engine" \in deps /\ On(cfg, "AUTH_REGISTRATION_ENABLED")
    <2>1. /\ "credentials" \in AuthRoutes <=> "engine" \in deps
          /\ "password reset" \in AuthRoutes <=>
                "engine" \in deps /\ On(cfg, "AUTH_PASSWORD_RESET_ENABLED")
          /\ "email verification" \in AuthRoutes <=>
                "engine" \in deps /\ On(cfg, "AUTH_EMAIL_VERIFICATION_ENABLED")
          /\ "totp" \in AuthRoutes <=> "engine" \in deps /\ On(cfg, "AUTH_TOTP_ENABLED")
          /\ "registration" \in AuthRoutes <=>
                "engine" \in deps /\ On(cfg, "AUTH_REGISTRATION_ENABLED")
      BY DEF AuthRoutes
    <2>2. \A g \in {"credentials", "password reset", "email verification", "totp", "registration"} :
             g \in routes <=> g \in AuthRoutes
      BY <1>4
    <2> QED  BY Zenon, <2>1, <2>2
  <1>7. LintAuthStores(cfg) /\ LintLimits(cfg) /\ LintSMTP(cfg)
    BY Zenon, <1>1 DEF Lint, LintNotify
  <1>8. "engine" \in deps => {"postgres", "redis", "notifier"} \subseteq deps
    BY Zenon, <1>1, <1>3, <1>7 DEF Built, LintAuthStores
  <1>9. "limiter" \in deps \/ "cache" \in deps => "redis" \in deps
    BY Zenon, <1>1, <1>7 DEF Built, LintLimits
  <1>10. "engine" \in deps => engine.ok  BY Zenon, <1>1, <1>5 DEF Built
  <1>11. "engine" \notin deps => ~engine.ok  BY <1>1, <1>5 DEF Built, None
  <1>12. "engine" \in deps =>
            /\ engine.reset = On(cfg, "AUTH_PASSWORD_RESET_ENABLED")
            /\ engine.verify = On(cfg, "AUTH_EMAIL_VERIFICATION_ENABLED")
            /\ engine.totp = On(cfg, "AUTH_TOTP_ENABLED")
            /\ engine.autoLogin => On(cfg, "AUTH_REGISTRATION_ENABLED")
    BY Zenon, <1>1, <1>5 DEF Built, ProjectGoAuthConfig
  <1>13. "cipher" \in deps <=> "engine" \in deps /\ On(cfg, "AUTH_TOTP_ENABLED")
    BY Zenon, <1>1, <1>5 DEF Built
  <1>14. cfg["NOTIFY_DRIVER"] = "smtp" =>
            /\ On(cfg, "AUTH_PASSWORD_RESET_ENABLED") => ValidLinkTemplate(cfg["NOTIFY_RESET_URL"])
            /\ On(cfg, "AUTH_EMAIL_VERIFICATION_ENABLED") =>
                  ValidLinkTemplate(cfg["NOTIFY_VERIFY_URL"])
    BY Zenon, <1>7 DEF LintSMTP
  <1>15. tenancy.enabled /\ tenancy.validate => "postgres" \in deps
    BY Zenon, <1>1, <1>3 DEF TenancyLint, Built
  <1> QED
    BY Zenon, <1>6, <1>8, <1>9, <1>10, <1>11, <1>12, <1>13, <1>14, <1>15 DEF OfferedIsBacked

(* A keyring that is accepted has its active key.                          *)
LEMMA CipherFromRing == \A c : TOTPKeyring(c).ok => TOTPKeyring(c).active \in TOTPKeyring(c).kids
  <1> SUFFICES ASSUME NEW c, TOTPKeyring(c).ok
               PROVE  TOTPKeyring(c).active \in TOTPKeyring(c).kids
    OBVIOUS
  <1>1. CASE c["AUTH_TOTP_ENCRYPTION_KEY"] = "" /\ c["AUTH_TOTP_ENCRYPTION_KEYS"] = ""
    BY <1>1 DEF TOTPKeyring
  <1>2. CASE c["AUTH_TOTP_ENCRYPTION_KEY"] # "" /\ c["AUTH_TOTP_ENCRYPTION_KEYS"] = ""
    BY <1>2 DEF TOTPKeyring
  <1>3. CASE c["AUTH_TOTP_ENCRYPTION_KEYS"] # ""
    BY <1>3 DEF TOTPKeyring
  <1> QED  BY Zenon, <1>1, <1>2, <1>3

(* After Lint, initDependencies can only fail in the goAuth library.       *)
LEMMA LintLeavesGoAuth ==
    ASSUME Lint(env, cfg)
    PROVE  WhyNotBuilt \in {"none", "goauth config", "goauth build"}
  <1>1. ParseMode(cfg["AUTH_MODE"]) # "invalid"
    BY DEF Lint, LintAuthMode, ModeNames, ParseMode
  <1>2. On(cfg, "AUTH_ENABLED") => "postgres" \in Stores /\ "redis" \in Stores
    BY DEF Lint, LintAuthStores, Stores
  <1>3. On(cfg, "RATELIMIT_ENABLED") \/ On(cfg, "CACHE_ENABLED") => "redis" \in Stores
    BY DEF Lint, LintLimits, Stores
  <1>4. On(cfg, "AUTH_TOTP_ENABLED") => CipherBuilds
    BY Zenon, CipherFromRing DEF Lint, LintAuthFeatures, CipherBuilds
  <1>5. OverridesOK  BY Zenon DEF Lint, LintAuthFeatures, OverridesOK
  <1>6. GoAuthKnowsRPID(ProjectGoAuthConfig)
    BY Zenon DEF Lint, LintWebAuthn, GoAuthKnowsRPID, ProjectGoAuthConfig
  <1>7. On(cfg, "TRACING_ENABLED") => TracingBuilds
    BY Zenon DEF Lint, LintTracing, TracingBuilds
  <1> QED
    BY <1>1, <1>2, <1>3, <1>4, <1>5, <1>6, <1>7 DEF WhyNotBuilt

(* After Lint, the notifier builds.                                        *)
LEMMA LintBuildsNotifier == ASSUME Lint(env, cfg) PROVE NotifierBuilds
  BY DEF Lint, LintNotify, LintNotifyDriver, LintSMTP, NotifierBuilds

(* After Lint, the logger knows its level.                                 *)
LEMMA LintBuildsLogger == ASSUME Lint(env, cfg) PROVE TrimSpace(cfg["LOG_LEVEL"]) \in LogLevels
  BY DEF Lint, LintLog, LogLevels, TrimSpace

(* An environment that sets only APP_PROFILE reads as empty everywhere     *)
(* else.                                                                   *)
LEMMA UntouchedReads ==
    ASSUME Untouched, NEW k, k # "APP_PROFILE"
    PROVE  Getenv(env, k) = "" /\ TrimSpace(Getenv(env, k)) = ""
  BY DEF Untouched, Getenv, TrimSpace

(* The defaults of the tenancy feature pass its own lint.                  *)
LEMMA UntouchedTenancy == ASSUME Untouched PROVE TenancyLint(TenancyConfig)
  <1>1. Getenv(env, "TENANCY_ENABLED") = ""  BY UntouchedReads
  <1>2. TenancyConfig.enabled = FALSE  BY <1>1 DEF TenancyConfig
  <1> QED  BY Zenon, <1>2 DEF TenancyLint

(* The defaults, once linted, are accepted by goAuth.                      *)
LEMMA UntouchedBuilds ==
    ASSUME Untouched, Lint(env, cfg)
    PROVE  WhyNotBuilt = "none"
  <1>1. /\ Getenv(env, "AUTH_MAX_SESSION_DURATION") = ""
        /\ Getenv(env, "AUTH_VERIFY_KEYS") = ""
        /\ TrimSpace(Getenv(env, "AUTH_LIMITER_WINDOW_MODE")) = ""
        /\ TrimSpace(Getenv(env, "AUTH_MAX_SESSION_DURATION")) = ""
        /\ TrimSpace(Getenv(env, "AUTH_VERIFY_KEYS")) = ""
    <2>1. "APP_PROFILE" \notin {"AUTH_MAX_SESSION_DURATION", "AUTH_VERIFY_KEYS",
                                "AUTH_LIMITER_WINDOW_MODE"}
      OBVIOUS
    <2> QED  BY Zenon, UntouchedReads, <2>1
  <1>2. SessionOK  BY <1>1 DEF SessionOK
  <1>3. VerifyKeys = <<>>  BY <1>1 DEF VerifyKeys, VerifyKeyLists
  <1>4. KeyRotationOK  BY Zenon, <1>3 DEF KeyRotationOK
  <1>5. OverridesOK  BY Zenon DEF Lint, LintAuthFeatures, OverridesOK
  <1>6. ProjectGoAuthConfig.ok  BY Zenon, <1>2, <1>4, <1>5 DEF ProjectGoAuthConfig
  <1>7. GoAuthKnowsRPID(ProjectGoAuthConfig)
    BY Zenon DEF Lint, LintWebAuthn, GoAuthKnowsRPID, ProjectGoAuthConfig
  <1>8. ProjectGoAuthConfig.kids = {}
    <2>1. ProjectGoAuthConfig.kids = {VerifyKeys[i].kid : i \in DOMAIN VerifyKeys}
      BY Zenon DEF ProjectGoAuthConfig
    <2>2. DOMAIN VerifyKeys = {}  BY <1>3
    <2> QED  BY Zenon, <2>1, <2>2
  <1>9. ProjectGoAuthConfig.limiter = ""  BY Zenon, <1>1 DEF ProjectGoAuthConfig
  <1>10. GoAuthBuilds(ProjectGoAuthConfig)  BY <1>1, <1>7, <1>8, <1>9 DEF GoAuthBuilds
  <1>11. WhyNotBuilt # "goauth config" /\ WhyNotBuilt # "goauth build"
    BY <1>6, <1>10 DEF WhyNotBuilt
  <1> QED  BY Zenon, <1>11, LintLeavesGoAuth

(* The invariant holds before anything was loaded.                         *)
LEMMA StartInitIInv == StartInit => StartIInv
  BY DEF StartInit, StartIInv, StartStages, LintedConfig, Accepted, LintDecides

(* A step of the startup goes to its next stage or is the last one.        *)
LEMMA ProceedMoves ==
    ASSUME NEW why, NEW next, Proceed(why, next), next \in StartStages, next # "refused"
    PROVE  /\ env' = env /\ refused' = why
           /\ stage' \in StartStages
           /\ stage' # "refused" => refused' = "none"
           /\ why = "none" => stage' = next
           /\ why # "none" => stage' = "refused"
  BY DEF Proceed, StartStages

(* The outcome of a step that refuses for one reason.                      *)
LEMMA StepOutcome ==
    ASSUME NEW ok \in BOOLEAN, NEW why, NEW next, Proceed(Unless(ok, why), next),
           next \in StartStages, next # "refused", why # "none"
    PROVE  /\ env' = env
           /\ ok => stage' = next /\ refused' = "none"
           /\ ~ok => stage' = "refused" /\ refused' = why
  BY DEF Proceed, Unless

(* What Lint has accepted stays accepted while main goes on.               *)
LEMMA GoesOn ==
    ASSUME StartIInv, Accepted, env' = env, cfg' = cfg, refused' = "none",
           stage' \in {"features", "deps", "notifier", "routes", "serving"}
    PROVE  /\ stage' \in StartStages
           /\ stage' # "refused" => refused' = "none"
           /\ LintedConfig' /\ LintDecides'
  <1>1. stage' \in StartStages /\ stage' # "refused"  BY DEF StartStages
  <1>2. cfg' = Load(env') /\ Lint(env', cfg')  BY Zenon DEF StartIInv, LintedConfig
  <1>3. ProfileKnown(env')  BY Zenon, <1>2 DEF Lint
  <1>4. LintDecides'  BY <1>1 DEF LintDecides
  <1> QED  BY Zenon, <1>1, <1>2, <1>3, <1>4 DEF LintedConfig

(* Main gives up for a reason Lint is not there to catch.                  *)
LEMMA GivesUp ==
    ASSUME StartIInv, env' = env, stage' = "refused", ~Untouched,
           \/ refused' \in {"profile", "lint"}
           \/ Accepted /\ cfg' = cfg /\ refused' \in {"tenancy", "goauth config", "goauth build"}
    PROVE  StartIInv'
  <1>1. ~Untouched'  BY Zenon DEF Untouched
  <1>2. LintDecides'  BY <1>1 DEF LintDecides
  <1>3. LintedConfig'
    <2>1. CASE refused' \in {"profile", "lint"}  BY <2>1 DEF LintedConfig, Accepted
    <2>2. CASE Accepted /\ cfg' = cfg
      <3>1. cfg' = Load(env') /\ Lint(env', cfg')  BY Zenon, <2>2 DEF StartIInv, LintedConfig
      <3> QED  BY Zenon, <3>1 DEF LintedConfig
    <2> QED  BY Zenon, <2>1, <2>2
  <1> QED  BY <1>2, <1>3 DEF StartIInv, StartStages

(* Load keeps the invariant: an unknown profile ends the startup.          *)
LEMMA LoadKeeps == ASSUME StartIInv, LoadConfig PROVE StartIInv'
  <1>1. Proceed(Unless(ProfileKnown(env), "profile"), "lint")  BY Zenon DEF LoadConfig
  <1>2. ProfileKnown(env) \in BOOLEAN  BY DEF ProfileKnown
  <1>3. "lint" \in StartStages /\ "lint" # "refused" /\ "profile" # "none"  BY DEF StartStages
  <1>4. /\ env' = env
        /\ ProfileKnown(env) => stage' = "lint" /\ refused' = "none"
        /\ ~ProfileKnown(env) => stage' = "refused" /\ refused' = "profile"
    BY Zenon, <1>1, <1>2, <1>3, StepOutcome
  <1>5. CASE ProfileKnown(env)
    <2>1. cfg' = Load(env') /\ ProfileKnown(env')  BY Zenon, <1>4, <1>5 DEF LoadConfig
    <2>2. LintedConfig'  BY <1>4, <1>5, <2>1 DEF LintedConfig, Accepted
    <2>3. LintDecides'  BY <1>4, <1>5 DEF LintDecides
    <2> QED  BY <1>4, <1>5, <2>2, <2>3 DEF StartIInv, StartStages
  <1>6. CASE ~ProfileKnown(env)
    <2>1. ~Untouched  BY Zenon, <1>6 DEF Untouched
    <2> QED  BY Zenon, <1>4, <1>6, <2>1, GivesUp
  <1> QED  BY Zenon, <1>5, <1>6

(* Lint keeps the invariant, if it accepts the defaults.                   *)
LEMMA LintKeeps ==
    ASSUME StartIInv, LintConfig, Untouched => Lint(env, Load(env))
    PROVE  StartIInv'
  <1>1. stage = "lint" /\ Proceed(Unless(Lint(env, cfg), "lint"), "logger") /\ cfg' = cfg
    BY Zenon DEF LintConfig
  <1>2. Lint(env, cfg) \in BOOLEAN  BY Zenon DEF Lint
  <1>3. "logger" \in StartStages /\ "logger" # "refused" /\ "lint" # "none"  BY DEF StartStages
  <1>4. /\ env' = env
        /\ Lint(env, cfg) => stage' = "logger" /\ refused' = "none"
        /\ ~Lint(env, cfg) => stage' = "refused" /\ refused' = "lint"
    BY Zenon, <1>1, <1>2, <1>3, StepOutcome
  <1>5. cfg = Load(env)  BY <1>1 DEF StartIInv, LintedConfig
  <1>6. CASE Lint(env, cfg)
    <2>1. cfg' = Load(env') /\ Lint(env', cfg')  BY Zenon, <1>1, <1>4, <1>5, <1>6
    <2>2. ProfileKnown(env')  BY Zenon, <2>1 DEF Lint
    <2>3. LintedConfig'  BY Zenon, <2>1, <2>2 DEF LintedConfig
    <2>4. LintDecides'  BY <1>4, <1>6 DEF LintDecides
    <2> QED  BY <1>4, <1>6, <2>3, <2>4 DEF StartIInv, StartStages
  <1>7. CASE ~Lint(env, cfg)
    <2>1. ~Untouched  BY Zenon, <1>5, <1>7
    <2> QED  BY Zenon, <1>4, <1>7, <2>1, GivesUp
  <1> QED  BY Zenon, <1>6, <1>7

(* Every stage after Lint works on a configuration that Lint accepted.     *)
LEMMA WhileAccepted ==
    ASSUME StartIInv, stage \in {"logger", "features", "deps", "notifier", "routes", "serving"}
    PROVE  Accepted /\ Lint(env, cfg) /\ refused = "none"
  <1>1. stage \notin {"load", "lint", "refused"}  OBVIOUS
  <1>2. refused = "none"  BY Zenon, <1>1 DEF StartIInv
  <1>3. Accepted  BY <1>1, <1>2 DEF Accepted
  <1> QED  BY Zenon, <1>2, <1>3 DEF StartIInv, LintedConfig

(* Building the logger keeps the invariant.                                *)
LEMMA LoggerKeeps == ASSUME StartIInv, BuildLogger PROVE StartIInv'
  <1> DEFINE ok == TrimSpace(cfg["LOG_LEVEL"]) \in LogLevels
  <1>1. stage = "logger" /\ Proceed(Unless(ok, "logger"), "features") /\ cfg' = cfg
    BY Zenon DEF BuildLogger
  <1>2. Accepted /\ Lint(env, cfg)  BY Zenon, <1>1, WhileAccepted
  <1>3. ok  BY Zenon, <1>2, LintBuildsLogger
  <1>4. "features" \in StartStages /\ "features" # "refused" /\ "logger" # "none"  BY DEF StartStages
  <1>5. env' = env /\ stage' = "features" /\ refused' = "none"
    BY Zenon, <1>1, <1>3, <1>4, StepOutcome
  <1>6. /\ stage' \in StartStages /\ LintedConfig' /\ LintDecides'
    BY Zenon, <1>1, <1>2, <1>5, GoesOn
  <1> QED  BY <1>5, <1>6 DEF StartIInv

(* Loading the features keeps the invariant.                               *)
LEMMA FeaturesKeep == ASSUME StartIInv, LoadFeatures PROVE StartIInv'
  <1> DEFINE ok == TenancyLint(TenancyConfig)
  <1>1. /\ stage = "features" /\ Proceed(Unless(ok, "tenancy"), "deps") /\ cfg' = cfg
        /\ ok => tenancy' = TenancyConfig
    BY Zenon DEF LoadFeatures
  <1>2. Accepted /\ Lint(env, cfg)  BY Zenon, <1>1, WhileAccepted
  <1>3. ok \in BOOLEAN  BY Zenon DEF TenancyLint
  <1>4. "deps" \in StartStages /\ "deps" # "refused" /\ "tenancy" # "none"  BY DEF StartStages
  <1>5. /\ env' = env
        /\ ok => stage' = "deps" /\ refused' = "none"
        /\ ~ok => stage' = "refused" /\ refused' = "tenancy"
    BY Zenon, <1>1, <1>3, <1>4, StepOutcome
  <1>6. CASE ok
    <2>1. stage' \in StartStages /\ LintedConfig' /\ LintDecides'
      BY Zenon, <1>1, <1>2, <1>5, <1>6, GoesOn
    <2>2. TenancyLint(tenancy)'  BY Zenon, <1>1, <1>6 DEF TenancyLint
    <2> QED  BY <1>5, <1>6, <2>1, <2>2 DEF StartIInv
  <1>7. CASE ~ok
    <2>1. ~Untouched  BY Zenon, <1>7, UntouchedTenancy
    <2> QED  BY Zenon, <1>1, <1>2, <1>5, <1>7, <2>1, GivesUp
  <1> QED  BY Zenon, <1>6, <1>7

(* The projection of the configuration for goAuth is a function of the     *)
(* environment, the configuration and the tenancy settings.                *)
LEMMA SameGoAuth ==
    ASSUME env' = env, cfg' = cfg, tenancy' = tenancy
    PROVE  ProjectGoAuthConfig' = ProjectGoAuthConfig
  <1>1. VerifyKeys' = VerifyKeys  BY Zenon DEF VerifyKeys
  <1>2. KeyRotationOK' = KeyRotationOK  BY Zenon, <1>1 DEF KeyRotationOK
  <1>3. SessionOK' = SessionOK  BY Zenon DEF SessionOK
  <1>4. OverridesOK' = OverridesOK  BY Zenon DEF OverridesOK
  <1>5. SharedSigner' = SharedSigner  BY Zenon DEF SharedSigner
  <1> QED  BY Zenon, <1>1, <1>2, <1>3, <1>4, <1>5 DEF ProjectGoAuthConfig

(* initDependencies keeps the invariant: it builds what the flags ask for, *)
(* or ends the startup.                                                    *)
LEMMA DepsKeep == ASSUME StartIInv, InitDependencies PROVE StartIInv'
  <1>1. stage = "deps" /\ Proceed(WhyNotBuilt, "notifier") /\ cfg' = cfg /\ tenancy' = tenancy
    BY Zenon DEF InitDependencies
  <1>2. Accepted /\ Lint(env, cfg)  BY Zenon, <1>1, WhileAccepted
  <1>3. env' = env /\ refused' = WhyNotBuilt  BY Zenon, <1>1 DEF Proceed
  <1>4. WhyNotBuilt \in {"none", "goauth config", "goauth build"}
    BY Zenon, <1>2, LintLeavesGoAuth
  <1>5. CASE WhyNotBuilt = "none"
    <2>1. stage' = "notifier"  BY Zenon, <1>1, <1>5 DEF Proceed
    <2>2. stage' \in StartStages /\ LintedConfig' /\ LintDecides'
      BY Zenon, <1>1, <1>2, <1>3, <1>5, <2>1, GoesOn
    <2>3. TenancyLint(tenancy)'  BY <1>1 DEF StartIInv, TenancyLint
    <2>4. Built'
      <3>1. On(cfg, "AUTH_ENABLED") => ProjectGoAuthConfig.ok  BY <1>5 DEF WhyNotBuilt
      <3>2. ProjectGoAuthConfig' = ProjectGoAuthConfig
        BY Zenon, <1>1, <1>3, SameGoAuth
      <3>3. engine' = IF On(cfg', "AUTH_ENABLED") THEN ProjectGoAuthConfig' ELSE None
        BY Zenon, <1>1, <1>5, <3>2 DEF InitDependencies
      <3>4. /\ "postgres" \in deps' <=> On(cfg', "POSTGRES_ENABLED")
            /\ "redis" \in deps' <=> On(cfg', "REDIS_ENABLED")
            /\ "engine" \in deps' <=> On(cfg', "AUTH_ENABLED")
            /\ "cipher" \in deps' <=> On(cfg', "AUTH_ENABLED") /\ On(cfg', "AUTH_TOTP_ENABLED")
            /\ "limiter" \in deps' <=> On(cfg', "RATELIMIT_ENABLED")
            /\ "cache" \in deps' <=> On(cfg', "CACHE_ENABLED")
            /\ "metrics" \in deps' <=> On(cfg', "METRICS_ENABLED")
        BY <1>1, <1>5 DEF InitDependencies, Stores
      <3> QED  BY Zenon, <1>1, <3>1, <3>2, <3>3, <3>4 DEF Built
    <2> QED  BY <1>3, <1>5, <2>1, <2>2, <2>3, <2>4 DEF StartIInv
  <1>6. CASE WhyNotBuilt # "none"
    <2>1. stage' = "refused"  BY Zenon, <1>1, <1>6 DEF Proceed
    <2>2. ~Untouched  BY Zenon, <1>2, <1>6, UntouchedBuilds
    <2> QED  BY <1>1, <1>2, <1>3, <1>4, <1>6, <2>1, <2>2, GivesUp
  <1> QED  BY Zenon, <1>5, <1>6

(* Building the notifier keeps the invariant.                              *)
LEMMA NotifierKeeps == ASSUME StartIInv, BuildNotifier PROVE StartIInv'
  <1>1. /\ stage = "notifier" /\ Proceed(Unless(NotifierBuilds, "notifier"), "routes")
        /\ cfg' = cfg /\ tenancy' = tenancy /\ engine' = engine
    BY Zenon DEF BuildNotifier
  <1>2. Accepted /\ Lint(env, cfg)  BY Zenon, <1>1, WhileAccepted
  <1>3. NotifierBuilds  BY Zenon, <1>2, LintBuildsNotifier
  <1>4. "routes" \in StartStages /\ "routes" # "refused" /\ "notifier" # "none"  BY DEF StartStages
  <1>5. env' = env /\ stage' = "routes" /\ refused' = "none"
    BY Zenon, <1>1, <1>3, <1>4, StepOutcome
  <1>6. stage' \in StartStages /\ LintedConfig' /\ LintDecides'
    BY Zenon, <1>1, <1>2, <1>5, GoesOn
  <1>7. deps' = deps \cup {"notifier"}  BY Zenon, <1>3 DEF BuildNotifier
  <1>8. TenancyLint(tenancy)'  BY <1>1 DEF StartIInv, TenancyLint
  <1>9. Built'
    <2>1. Built  BY <1>1 DEF StartIInv
    <2>2. ProjectGoAuthConfig' = ProjectGoAuthConfig
      BY ZenonT(60), <1>1, <1>5 DEF ProjectGoAuthConfig, OverridesOK, SharedSigner, SessionOK,
            KeyRotationOK, VerifyKeys
    <2>3. \A d \in {"postgres", "redis", "engine", "cipher", "limiter", "cache", "metrics"} :
             d \in deps' <=> d \in deps
      BY <1>7
    <2> QED  BY Zenon, <1>1, <2>1, <2>2, <2>3 DEF Built
  <1> QED  BY <1>5, <1>6, <1>7, <1>8, <1>9 DEF StartIInv

(* Registering the routes keeps the invariant.                             *)
LEMMA RoutesKeep == ASSUME StartIInv, RegisterRoutes PROVE StartIInv'
  <1>1. /\ stage = "routes" /\ Proceed("none", "serving")
        /\ cfg' = cfg /\ tenancy' = tenancy /\ engine' = engine /\ deps' = deps
        /\ routes' = {"health"} \cup MetricsRoutes \cup AuthRoutes
    BY Zenon DEF RegisterRoutes
  <1>2. Accepted /\ Lint(env, cfg)  BY Zenon, <1>1, WhileAccepted
  <1>3. env' = env /\ stage' = "serving" /\ refused' = "none"  BY Zenon, <1>1 DEF Proceed
  <1>4. stage' \in StartStages /\ LintedConfig' /\ LintDecides'
    BY Zenon, <1>1, <1>2, <1>3, GoesOn
  <1>5. TenancyLint(tenancy)' /\ "notifier" \in deps'  BY <1>1 DEF StartIInv, TenancyLint
  <1>6. MetricsRoutes' = MetricsRoutes /\ AuthRoutes' = AuthRoutes
    BY Zenon, <1>1 DEF MetricsRoutes, AuthRoutes
  <1>7. Built'
    <2>1. Built  BY <1>1 DEF StartIInv
    <2>2. ProjectGoAuthConfig' = ProjectGoAuthConfig
      BY Zenon, <1>1, <1>3, SameGoAuth
    <2> QED  BY Zenon, <1>1, <2>1, <2>2 DEF Built
  <1> QED  BY <1>1, <1>3, <1>4, <1>5, <1>6, <1>7 DEF StartIInv

(* A step that changes nothing keeps the invariant.                        *)
LEMMA StartIdles == ASSUME StartIInv, UNCHANGED startVars PROVE StartIInv'
  <1> USE DEF startVars
  <1>1. LintedConfig'  BY Zenon DEF StartIInv, LintedConfig, Accepted
  <1>2. LintDecides'  BY Zenon DEF StartIInv, LintDecides, Untouched
  <1>3. TenancyLint(tenancy)' <=> TenancyLint(tenancy)  BY Zenon DEF TenancyLint
  <1>4. ProjectGoAuthConfig' = ProjectGoAuthConfig
    BY Zenon, SameGoAuth
  <1>5. Built' <=> Built  BY Zenon, <1>4 DEF Built
  <1>6. MetricsRoutes' = MetricsRoutes /\ AuthRoutes' = AuthRoutes
    BY Zenon DEF MetricsRoutes, AuthRoutes
  <1> QED  BY Zenon, <1>1, <1>2, <1>3, <1>5, <1>6 DEF StartIInv

(* The settings some profile supplies a value for.                         *)
ProfileKeys ==
    {"APP_ENV", "AUTH_MODE", "METRICS_AUTH_TOKEN", "CACHE_FAIL_OPEN", "RATELIMIT_FAIL_OPEN"}
    \cup DOMAIN EverythingOn

(* A profile with everything on holds its own settings and the shared      *)
(* ones.                                                                   *)
LEMMA EverythingHas ==
    ASSUME NEW more, DOMAIN more \subseteq ProfileKeys \ DOMAIN EverythingOn
    PROVE  /\ DOMAIN Everything(more) = DOMAIN more \cup DOMAIN EverythingOn
           /\ \A k \in DOMAIN more : Everything(more)[k] = more[k]
           /\ \A k \in DOMAIN EverythingOn : Everything(more)[k] = EverythingOn[k]
  BY Zenon DEF Everything

DevMore == [APP_ENV |-> "dev", AUTH_MODE |-> "jwt_only", CACHE_FAIL_OPEN |-> "true",
            RATELIMIT_FAIL_OPEN |-> "true"]

ProdMore == [APP_ENV |-> "prod", AUTH_MODE |-> "strict", CACHE_FAIL_OPEN |-> "false",
             RATELIMIT_FAIL_OPEN |-> "false", METRICS_AUTH_TOKEN |-> "token"]

(* The three profiles.                                                     *)
LEMMA ProfilesAre ==
    /\ ProfileDefaults["dev"] = Everything(DevMore)
    /\ ProfileDefaults["prod"] = Everything(ProdMore)
    /\ DOMAIN DevMore \subseteq ProfileKeys \ DOMAIN EverythingOn
    /\ DOMAIN ProdMore \subseteq ProfileKeys \ DOMAIN EverythingOn
    /\ DOMAIN ProfileDefaults["minimal"] \subseteq ProfileKeys
    /\ DOMAIN ProfileDefaults = {"minimal", "dev", "prod"}
  <1>1. ProfileDefaults["dev"] = Everything(DevMore) /\ ProfileDefaults["prod"] = Everything(ProdMore)
    BY DEF ProfileDefaults, DevMore, ProdMore
  <1>2. DOMAIN DevMore \subseteq ProfileKeys \ DOMAIN EverythingOn
    BY DEF ProfileKeys, DevMore, EverythingOn
  <1>3. DOMAIN ProdMore \subseteq ProfileKeys \ DOMAIN EverythingOn
    BY DEF ProfileKeys, ProdMore, EverythingOn
  <1>4. DOMAIN ProfileDefaults["minimal"] \subseteq ProfileKeys
    BY DEF ProfileKeys, ProfileDefaults, EverythingOn
  <1>5. DOMAIN ProfileDefaults = {"minimal", "dev", "prod"}
    BY DEF ProfileDefaults
  <1> QED  BY Zenon, <1>1, <1>2, <1>3, <1>4, <1>5

(* What a profile supplies is a setting that Load takes as it is.          *)
LEMMA ProfileKeysAre ==
    /\ ProfileKeys \subseteq Settings
    /\ \A k \in ProfileKeys : k \notin Lists /\ k \notin Trimmed
                              /\ k # "TRACING_SERVICE_NAME" /\ k # "AUTH_TOTP_ISSUER"
  <1>1. ProfileKeys \subseteq Settings
    BY DEF ProfileKeys, EverythingOn, Settings, Bools, Nums, Texts, TextDefault, AuthBools
  <1>2. \A k \in ProfileKeys : k \notin Lists /\ k \notin Trimmed
                              /\ k # "TRACING_SERVICE_NAME" /\ k # "AUTH_TOTP_ISSUER"
    BY DEF ProfileKeys, EverythingOn, Lists, PathLists, OriginLists, TokenLists, Trimmed
  <1> QED  BY Zenon, <1>1, <1>2

(* The profile is no setting of the configuration.                         *)
LEMMA APP_PROFILE == "APP_PROFILE" \notin Settings
  <1>1. "APP_PROFILE" \notin Bools \cup Lists \cup Texts
    BY DEF Lists, PathLists, OriginLists, TokenLists, Texts, TextDefault,
           Bools, HTTPBools, AuthBools, AuthFeatureFlags
  <1>2. "APP_PROFILE" \notin Nums
    BY DEF Nums, HTTPNums, HTTPTimeouts, PostgresNums, RedisNums, RedisTimeouts
  <1> QED  BY Zenon, <1>1, <1>2 DEF Settings

FlaggedBools ==
    {"HTTP_MIDDLEWARE_REQUEST_ID_ENABLED", "HTTP_MIDDLEWARE_RECOVERER_ENABLED",
     "HTTP_MIDDLEWARE_ACCESS_LOG_ENABLED", "AUTH_EMAIL_VERIFICATION_REQUIRED",
     "METRICS_ENABLED", "HTTP_MIDDLEWARE_SECURITY_HEADERS_ENABLED",
     "RATELIMIT_FAIL_OPEN", "CACHE_FAIL_OPEN", "TRACING_INSECURE"}

ZeroNums ==
    {"HTTP_MIDDLEWARE_REQUEST_TIMEOUT", "HTTP_MIDDLEWARE_CORS_MAX_AGE",
     "POSTGRES_MIN_CONNS", "REDIS_DB", "REDIS_MIN_IDLE_CONNS"}

(* A list is no text.                                                      *)
LEMMA ListsApart == \A k \in Lists : k \notin Texts
  BY DEF Lists, PathLists, OriginLists, TokenLists, Texts, TextDefault

(* The defaults, by kind of setting.                                       *)
LEMMA Defaults ==
    ASSUME NEW k, NEW b \in BOOLEAN
    PROVE  /\ k \in Nums => DefaultOf(k, b) = IF k \in ZeroNums THEN "zero" ELSE "mid"
           /\ k \in Texts => DefaultOf(k, b) = TextDefault[k]
           /\ k \in Lists => DefaultOf(k, b) \in {"ok", "none"}
           /\ k \in Bools \ FlaggedBools => DefaultOf(k, b) = "false"
  <1>1. FlaggedBools \subseteq Bools
    BY DEF FlaggedBools, Bools, HTTPBools, AuthBools
  <1>2. k \in Nums => k \notin Bools /\ k \notin Lists /\ k \notin Texts
    BY Zenon, NumsApart
  <1>3. k \in Bools => k \notin Lists /\ k \notin Texts
    BY Zenon, BoolsApart
  <1>4. k \in Lists => k \notin Texts  BY Zenon, ListsApart
  <1>5. k \in PathLists => k \in Lists  BY Zenon DEF Lists
  <1>6. CASE k \in Nums
    <2>1. k \notin FlaggedBools  BY Zenon, <1>1, <1>2, <1>6
    <2> QED  BY Zenon, <1>2, <1>5, <1>6, <2>1 DEF DefaultOf, FlaggedBools, ZeroNums
  <1>7. CASE k \in Texts
    <2>1. k \notin FlaggedBools  BY Zenon, <1>1, <1>3, <1>7
    <2> QED  BY Zenon, <1>2, <1>3, <1>4, <1>5, <1>7, <2>1 DEF DefaultOf, FlaggedBools
  <1>8. CASE k \in Lists
    <2>1. k \notin FlaggedBools  BY Zenon, <1>1, <1>3, <1>8
    <2> QED  BY Zenon, <1>2, <1>3, <1>4, <1>5, <1>8, <2>1 DEF DefaultOf, FlaggedBools
  <1>9. CASE k \in Bools \ FlaggedBools
    BY Zenon, <1>2, <1>3, <1>5, <1>9 DEF DefaultOf, FlaggedBools
  <1> QED  BY Zenon, <1>6, <1>7, <1>8, <1>9

Prod == IsProd(Get(env, "APP_ENV", FALSE))

(* Without an environment the profile supplies a setting, or nothing does. *)
LEMMA UntouchedRaw ==
    ASSUME Untouched, NEW k \in Settings
    PROVE  RawOf(env, k) = IF k \in DOMAIN ProfileOf(env) THEN ProfileOf(env)[k] ELSE ""
  <1>1. k # "APP_PROFILE"  BY Zenon, APP_PROFILE
  <1>2. Getenv(env, k) = "" /\ TrimSpace(Getenv(env, k)) = ""  BY Zenon, <1>1, UntouchedReads
  <1> QED  BY Zenon, <1>2 DEF RawOf

(* What no profile supplies is loaded from the defaults.                   *)
LEMMA UntouchedDefault ==
    ASSUME Untouched, NEW k \in Settings, k \notin DOMAIN ProfileOf(env),
           k # "TRACING_SERVICE_NAME", k # "AUTH_TOTP_ISSUER"
    PROVE  Load(env)[k] = IF k \in Trimmed THEN TrimSpace(DefaultOf(k, Prod)) ELSE DefaultOf(k, Prod)
  <1>1. RawOf(env, k) = ""  BY Zenon, UntouchedRaw
  <1>2. Get(env, k, Prod) = DefaultOf(k, Prod)  BY Zenon, <1>1 DEF Get
  <1> QED  BY <1>2 DEF Load, Prod

(* What a profile supplies, well formed, is loaded.                        *)
LEMMA UntouchedSupplied ==
    ASSUME Untouched, NEW k \in ProfileKeys, k \in DOMAIN ProfileOf(env),
           ProfileOf(env)[k] # "", Parses(k, ProfileOf(env)[k])
    PROVE  Load(env)[k] = ProfileOf(env)[k]
  <1>1. /\ k \in Settings /\ k \notin Trimmed
        /\ k # "TRACING_SERVICE_NAME" /\ k # "AUTH_TOTP_ISSUER"
    BY Zenon, ProfileKeysAre
  <1>2. RawOf(env, k) = ProfileOf(env)[k]  BY Zenon, <1>1, UntouchedRaw
  <1>3. Get(env, k, Prod) = ProfileOf(env)[k]  BY Zenon, <1>2 DEF Get
  <1> QED  BY <1>1, <1>3 DEF Load, Prod

ProfileBools ==
    {"AUTH_ENABLED", "CACHE_ENABLED", "RATELIMIT_ENABLED", "POSTGRES_ENABLED", "REDIS_ENABLED",
     "CACHE_FAIL_OPEN", "RATELIMIT_FAIL_OPEN"}
ProfileNums == {"RATELIMIT_DEFAULT_LIMIT", "RATELIMIT_DEFAULT_WINDOW"}
ProfileTexts == {"APP_ENV", "AUTH_MODE", "METRICS_AUTH_TOKEN", "POSTGRES_URL", "REDIS_ADDR"}

(* The kinds of settings a profile supplies.                               *)
LEMMA ProfileKinds ==
    /\ ProfileKeys = ProfileBools \cup ProfileNums \cup ProfileTexts
    /\ ProfileBools \subseteq Bools /\ ProfileNums \subseteq Nums /\ ProfileTexts \subseteq Texts
    /\ ProfileNums \cap ZeroNums = {}
  <1>1. ProfileKeys = ProfileBools \cup ProfileNums \cup ProfileTexts
    BY DEF ProfileKeys, EverythingOn, ProfileBools, ProfileNums, ProfileTexts
  <1>2. ProfileBools \subseteq Bools  BY DEF ProfileBools, Bools, AuthBools
  <1>3. ProfileNums \subseteq Nums  BY DEF ProfileNums, Nums
  <1>4. ProfileTexts \subseteq Texts  BY DEF ProfileTexts, Texts, TextDefault
  <1>5. ProfileNums \cap ZeroNums = {}  BY DEF ProfileNums, ZeroNums
  <1> QED  BY Zenon, <1>1, <1>2, <1>3, <1>4, <1>5

(* A value of a profile reaches the configuration when the setting's parser takes it. *)
LEMMA UntouchedValue ==
    ASSUME Untouched, NEW k \in ProfileKeys, k \in DOMAIN ProfileOf(env),
           NEW v, v = ProfileOf(env)[k], v # "",
           \/ k \in ProfileBools /\ v \in {"true", "false"}
           \/ k \in ProfileNums /\ v = "mid"
           \/ k \in ProfileTexts
    PROVE  Load(env)[k] = v
  <1>1. "mid" \in DOMAIN Rank  BY DEF Rank
  <1>2. k \notin Lists  BY Zenon, ProfileKeysAre
  <1>3. Parses(k, v)
    BY Zenon, <1>1, <1>2, ProfileKinds, NumsApart, BoolsApart DEF Parses
  <1> QED  BY Zenon, <1>3, UntouchedSupplied

(* What the profile leaves out is off, or has its default.                 *)
LEMMA UntouchedFallback ==
    ASSUME Untouched, NEW k \in ProfileKeys, k \notin DOMAIN ProfileOf(env)
    PROVE  /\ k \in ProfileBools \ {"CACHE_FAIL_OPEN", "RATELIMIT_FAIL_OPEN"} => Load(env)[k] = "false"
           /\ k \in ProfileNums => Load(env)[k] = "mid"
           /\ k \in ProfileTexts => Load(env)[k] = TextDefault[k]
  <1>1. /\ k \in Settings /\ k \notin Trimmed
        /\ k # "TRACING_SERVICE_NAME" /\ k # "AUTH_TOTP_ISSUER"
    BY Zenon, ProfileKeysAre
  <1>2. Load(env)[k] = DefaultOf(k, Prod)  BY Zenon, <1>1, UntouchedDefault
  <1>3. k \in ProfileBools \ {"CACHE_FAIL_OPEN", "RATELIMIT_FAIL_OPEN"} => k \notin FlaggedBools
    BY DEF ProfileBools, FlaggedBools
  <1>4. Prod \in BOOLEAN  BY DEF Prod, IsProd
  <1> QED  BY Zenon, <1>2, <1>3, <1>4, Defaults, ProfileKinds

(* The settings a profile may supply fit each other, under every profile.  *)
Fitting(c) ==
    /\ On(c, "AUTH_ENABLED") => On(c, "REDIS_ENABLED") /\ On(c, "POSTGRES_ENABLED")
    /\ On(c, "RATELIMIT_ENABLED") \/ On(c, "CACHE_ENABLED") => On(c, "REDIS_ENABLED")
    /\ On(c, "POSTGRES_ENABLED") => c["POSTGRES_URL"] # ""
    /\ c["REDIS_ADDR"] # ""
    /\ c["AUTH_MODE"] \in {"jwt_only", "hybrid", "strict"}
    /\ c["RATELIMIT_DEFAULT_LIMIT"] = "mid" /\ c["RATELIMIT_DEFAULT_WINDOW"] = "mid"
    /\ IsProd(c["APP_ENV"]) => /\ ~On(c, "RATELIMIT_FAIL_OPEN") /\ ~On(c, "CACHE_FAIL_OPEN")
                               /\ c["METRICS_AUTH_TOKEN"] = "token"

(* No profile, or the minimal one: nothing is on that would need anything. *)
LEMMA FittingBare ==
    ASSUME Untouched,
           \/ ProfileOf(env) = <<>>
           \/ ProfileOf(env) = ProfileDefaults["minimal"]
    PROVE  Fitting(Load(env))
  <1> DEFINE c == Load(env)
             p == ProfileOf(env)
             off == {"AUTH_ENABLED", "CACHE_ENABLED", "RATELIMIT_ENABLED", "POSTGRES_ENABLED"}
             bare == {"AUTH_MODE", "REDIS_ADDR", "RATELIMIT_DEFAULT_LIMIT", "RATELIMIT_DEFAULT_WINDOW"}
  <1>1. /\ \A k \in DOMAIN p : k \notin bare
        /\ \A k \in off : k \in DOMAIN p => p[k] = "false"
        /\ "APP_ENV" \in DOMAIN p => p["APP_ENV"] = "dev"
    BY DEF ProfileDefaults
  <1>2. \A k \in off \cup bare : k \in ProfileKeys
    BY ProfileKinds DEF ProfileBools, ProfileNums, ProfileTexts
  <1>3. \A k \in off : k \in ProfileBools \ {"CACHE_FAIL_OPEN", "RATELIMIT_FAIL_OPEN"}
    BY DEF ProfileBools
  <1>4. \A k \in off : c[k] = "false"
    <2> TAKE k \in off
    <2>1. CASE k \in DOMAIN p
      <3>1. p[k] = "false" /\ "false" # ""  BY <1>1, <2>1
      <3> QED  BY Zenon, <1>2, <1>3, <2>1, <3>1, UntouchedValue
    <2>2. CASE k \notin DOMAIN p
      BY Zenon, <1>2, <1>3, <2>2, UntouchedFallback
    <2> QED  BY Zenon, <2>1, <2>2
  <1>5. c["AUTH_MODE"] = TextDefault["AUTH_MODE"] /\ c["REDIS_ADDR"] = TextDefault["REDIS_ADDR"]
    <2>1. {"AUTH_MODE", "REDIS_ADDR"} \subseteq ProfileTexts  BY DEF ProfileTexts
    <2> QED  BY Zenon, <1>1, <1>2, <2>1, UntouchedFallback
  <1>6. c["RATELIMIT_DEFAULT_LIMIT"] = "mid" /\ c["RATELIMIT_DEFAULT_WINDOW"] = "mid"
    BY Zenon, <1>1, <1>2, UntouchedFallback DEF ProfileNums
  <1>7. c["APP_ENV"] = "dev"
    <2>1. "APP_ENV" \in ProfileTexts /\ "APP_ENV" \in ProfileKeys  BY Zenon, ProfileKinds DEF ProfileTexts
    <2>2. CASE "APP_ENV" \in DOMAIN p
      <3>1. p["APP_ENV"] = "dev" /\ "dev" # ""  BY <1>1, <2>2
      <3> QED  BY Zenon, <2>1, <2>2, <3>1, UntouchedValue
    <2>3. CASE "APP_ENV" \notin DOMAIN p
      <3>1. TextDefault["APP_ENV"] = "dev"  BY DEF TextDefault
      <3> QED  BY Zenon, <2>1, <2>3, <3>1, UntouchedFallback
    <2> QED  BY Zenon, <2>2, <2>3
  <1>8. /\ c["AUTH_ENABLED"] = "false" /\ c["CACHE_ENABLED"] = "false"
        /\ c["RATELIMIT_ENABLED"] = "false" /\ c["POSTGRES_ENABLED"] = "false"
    BY Zenon, <1>4
  <1>9. c["AUTH_MODE"] = "hybrid" /\ c["REDIS_ADDR"] = "addr"  BY <1>5 DEF TextDefault
  <1> HIDE DEF c
  <1>10. Fitting(c)  BY <1>6, <1>7, <1>8, <1>9 DEF Fitting, On, IsProd
  <1> QED  BY Zenon, <1>10 DEF c

(* The dev and prod profiles turn on what they depend on.                  *)
LEMMA FittingFull ==
    ASSUME Untouched, NEW more \in {DevMore, ProdMore}, ProfileOf(env) = Everything(more)
    PROVE  Fitting(Load(env))
  <1> DEFINE c == Load(env)
             p == ProfileOf(env)
             bools == {"AUTH_ENABLED", "CACHE_ENABLED", "RATELIMIT_ENABLED", "POSTGRES_ENABLED",
                       "REDIS_ENABLED"}
             texts == {"POSTGRES_URL", "REDIS_ADDR"}
  <1>1. /\ DOMAIN p = DOMAIN more \cup DOMAIN EverythingOn
        /\ \A k \in DOMAIN more : p[k] = more[k]
        /\ \A k \in DOMAIN EverythingOn : p[k] = EverythingOn[k]
    <2>1. DOMAIN more \subseteq ProfileKeys \ DOMAIN EverythingOn  BY Zenon, ProfilesAre
    <2> HIDE DEF p
    <2>2. p = Everything(more)  BY Zenon DEF p
    <2> QED  BY Zenon, <2>1, <2>2, EverythingHas
  <1>2. DOMAIN EverythingOn = bools \cup ProfileNums \cup texts
    BY DEF EverythingOn, ProfileNums
  <1>3. /\ \A k \in bools : EverythingOn[k] = "true"
        /\ \A k \in ProfileNums : EverythingOn[k] = "mid"
        /\ \A k \in texts : EverythingOn[k] # ""
    BY DEF EverythingOn, ProfileNums
  <1>4. bools \subseteq ProfileBools /\ texts \subseteq ProfileTexts
    BY DEF ProfileBools, ProfileTexts
  <1>5. DOMAIN p \subseteq ProfileKeys
    BY Zenon, <1>1, <1>2, <1>4, ProfilesAre, ProfileKinds
  <1>6. \A k \in bools : c[k] = "true"
    <2> TAKE k \in bools
    <2>1. k \in DOMAIN EverythingOn /\ k \in ProfileBools  BY Zenon, <1>2, <1>4
    <2>2. k \in DOMAIN p /\ k \in ProfileKeys /\ p[k] = "true"
      BY Zenon, <1>1, <1>3, <1>5, <2>1
    <2>3. "true" # ""  OBVIOUS
    <2> QED  BY Zenon, <2>1, <2>2, <2>3, UntouchedValue
  <1>7. \A k \in ProfileNums : c[k] = "mid"
    <2>1. "mid" # ""  OBVIOUS
    <2> QED  BY Zenon, <1>1, <1>2, <1>3, <1>5, <2>1, UntouchedValue
  <1>8. \A k \in texts : c[k] # ""
    <2> TAKE k \in texts
    <2>1. k \in DOMAIN EverythingOn /\ k \in ProfileTexts  BY Zenon, <1>2, <1>4
    <2>2. k \in DOMAIN p /\ k \in ProfileKeys /\ p[k] # ""
      BY Zenon, <1>1, <1>3, <1>5, <2>1
    <2> QED  BY Zenon, <2>1, <2>2, UntouchedValue
  <1>9. /\ "AUTH_MODE" \in DOMAIN more /\ more["AUTH_MODE"] \in {"jwt_only", "strict"}
        /\ "APP_ENV" \in DOMAIN more /\ more["APP_ENV"] \in {"dev", "prod"}
        /\ "RATELIMIT_FAIL_OPEN" \in DOMAIN more /\ "CACHE_FAIL_OPEN" \in DOMAIN more
        /\ more["RATELIMIT_FAIL_OPEN"] \in {"true", "false"}
        /\ more["CACHE_FAIL_OPEN"] \in {"true", "false"}
        /\ more["APP_ENV"] = "prod" => /\ more["RATELIMIT_FAIL_OPEN"] = "false"
                                       /\ more["CACHE_FAIL_OPEN"] = "false"
                                       /\ "METRICS_AUTH_TOKEN" \in DOMAIN more
                                       /\ more["METRICS_AUTH_TOKEN"] = "token"
    <2>1. CASE more = DevMore  BY <2>1 DEF DevMore
    <2>2. CASE more = ProdMore  BY <2>2 DEF ProdMore
    <2> QED  BY Zenon, <2>1, <2>2
  <1>10. \A k \in DOMAIN more : k \in ProfileTexts /\ more[k] # "" => c[k] = more[k]
    BY Zenon, <1>1, <1>5, UntouchedValue
  <1>11. \A k \in DOMAIN more : k \in ProfileBools /\ more[k] \in {"true", "false"} => c[k] = more[k]
    <2>1. "true" # "" /\ "false" # ""  OBVIOUS
    <2> QED  BY Zenon, <1>1, <1>5, <2>1, UntouchedValue
  <1>12. {"APP_ENV", "AUTH_MODE", "METRICS_AUTH_TOKEN"} \subseteq ProfileTexts
    BY DEF ProfileTexts
  <1>13. {"RATELIMIT_FAIL_OPEN", "CACHE_FAIL_OPEN"} \subseteq ProfileBools  BY DEF ProfileBools
  <1> HIDE DEF c
  <1>14. c["AUTH_MODE"] \in {"jwt_only", "strict"} /\ c["APP_ENV"] = more["APP_ENV"]
    BY <1>9, <1>10, <1>12
  <1>15. more["APP_ENV"] = "prod" => /\ c["RATELIMIT_FAIL_OPEN"] = "false"
                                     /\ c["CACHE_FAIL_OPEN"] = "false"
                                     /\ c["METRICS_AUTH_TOKEN"] = "token"
    BY <1>9, <1>10, <1>11, <1>12, <1>13
  <1>16. c["RATELIMIT_DEFAULT_LIMIT"] = "mid" /\ c["RATELIMIT_DEFAULT_WINDOW"] = "mid"
    BY Zenon, <1>7 DEF ProfileNums
  <1>17. /\ c["REDIS_ENABLED"] = "true" /\ c["POSTGRES_ENABLED"] = "true"
         /\ c["POSTGRES_URL"] # "" /\ c["REDIS_ADDR"] # ""
    BY Zenon, <1>6, <1>8
  <1>18. c["APP_ENV"] = "prod" \/ ~IsProd(c["APP_ENV"])  BY <1>9, <1>14 DEF IsProd
  <1>19. Fitting(c)  BY <1>14, <1>15, <1>16, <1>17, <1>18 DEF Fitting, On
  <1> QED  BY Zenon, <1>19 DEF c

(* The settings of every profile fit together.                             *)
LEMMA UntouchedFits == Untouched => Fitting(Load(env))
  <1> SUFFICES ASSUME Untouched PROVE Fitting(Load(env))  OBVIOUS
  <1>1. \/ ProfileOf(env) = <<>>
        \/ \E p \in DOMAIN ProfileDefaults : ProfileOf(env) = ProfileDefaults[p]
    BY Zenon DEF ProfileOf
  <1> QED  BY Zenon, <1>1, FittingBare, FittingFull, ProfilesAre

(* A profile supplies no more than ProfileKeys.                            *)
LEMMA ProfileInKeys == Untouched => DOMAIN ProfileOf(env) \subseteq ProfileKeys
  <1> SUFFICES ASSUME Untouched PROVE DOMAIN ProfileOf(env) \subseteq ProfileKeys  OBVIOUS
  <1>1. \/ ProfileOf(env) = <<>>
        \/ \E p \in DOMAIN ProfileDefaults : ProfileOf(env) = ProfileDefaults[p]
    BY Zenon DEF ProfileOf
  <1>2. DOMAIN <<>> \subseteq ProfileKeys  OBVIOUS
  <1>3. DOMAIN EverythingOn \subseteq ProfileKeys  BY Zenon DEF ProfileKeys
  <1>4. /\ DOMAIN ProfileDefaults["dev"] \subseteq ProfileKeys
        /\ DOMAIN ProfileDefaults["prod"] \subseteq ProfileKeys
    BY Zenon, <1>3, EverythingHas, ProfilesAre
  <1> QED  BY Zenon, <1>1, <1>2, <1>4, ProfilesAre

(* With nothing but a profile set, every other setting has its fallback.   *)
LEMMA UntouchedKinds ==
    ASSUME Untouched
    PROVE  /\ \A k \in Nums : Load(env)[k] = IF k \in ZeroNums THEN "zero" ELSE "mid"
           /\ \A k \in (Bools \ FlaggedBools) \ ProfileBools : Load(env)[k] = "false"
           /\ \A k \in Lists : Load(env)[k] \in {"ok", "none"}
           /\ \A k \in Texts \ (ProfileTexts \cup Trimmed) :
                 k # "TRACING_SERVICE_NAME" => Load(env)[k] = TextDefault[k]
           /\ Load(env)["NOTIFY_DRIVER"] = "noop"
  <1> DEFINE c == Load(env)
  <1>1. Prod \in BOOLEAN  BY DEF Prod, IsProd
  <1>2. \A k \in Settings \ ProfileKeys :
           k # "TRACING_SERVICE_NAME" /\ k # "AUTH_TOTP_ISSUER" =>
              c[k] = IF k \in Trimmed THEN TrimSpace(DefaultOf(k, Prod)) ELSE DefaultOf(k, Prod)
    BY Zenon, ProfileInKeys, UntouchedDefault
  <1>3. \A k \in Nums : c[k] = IF k \in ZeroNums THEN "zero" ELSE "mid"
    <2> TAKE k \in Nums
    <2>1. CASE k \in ProfileKeys
      <3>1. k \in ProfileNums  BY Zenon, <2>1, ProfileKinds, NumsApart
      <3>2. Fitting(c)  BY Zenon, UntouchedFits
      <3>3. c[k] = "mid"  BY Zenon, <3>1, <3>2 DEF Fitting, ProfileNums
      <3> QED  BY Zenon, <3>1, <3>3, ProfileKinds
    <2>2. CASE k \notin ProfileKeys
      <3>1. k \in Settings /\ k \notin Texts  BY Zenon, NumsApart DEF Settings
      <3>2. c[k] = DefaultOf(k, Prod)  BY Zenon, <1>2, <2>2, <3>1, TrimmedTexts
      <3> QED  BY Zenon, <1>1, <3>2, Defaults
    <2> QED  BY Zenon, <2>1, <2>2
  <1>4. \A k \in (Bools \ FlaggedBools) \ ProfileBools : c[k] = "false"
    <2> TAKE k \in (Bools \ FlaggedBools) \ ProfileBools
    <2>1. k \notin ProfileKeys  BY Zenon, ProfileKinds, NumsApart, BoolsApart
    <2>2. k \in Settings /\ k \notin Texts  BY Zenon, BoolsApart DEF Settings
    <2>3. c[k] = DefaultOf(k, Prod)  BY Zenon, <1>2, <2>1, <2>2, TrimmedTexts
    <2> QED  BY Zenon, <1>1, <2>3, Defaults
  <1>5. \A k \in Lists : c[k] \in {"ok", "none"}
    <2> TAKE k \in Lists
    <2>1. k \notin ProfileKeys  BY Zenon, ProfileKeysAre
    <2>2. k \in Settings /\ k \notin Texts  BY Zenon, ListsApart DEF Settings
    <2>3. c[k] = DefaultOf(k, Prod)  BY Zenon, <1>2, <2>1, <2>2, TrimmedTexts
    <2> QED  BY Zenon, <1>1, <2>3, Defaults
  <1>6. \A k \in Texts : k \notin Bools /\ k \notin Nums  BY Zenon, BoolsApart, NumsApart
  <1>7. "AUTH_TOTP_ISSUER" \in Trimmed  BY DEF Trimmed
  <1>8. \A k \in Texts \ (ProfileTexts \cup Trimmed) :
           k # "TRACING_SERVICE_NAME" => c[k] = TextDefault[k]
    <2> TAKE k \in Texts \ (ProfileTexts \cup Trimmed)
    <2> HAVE k # "TRACING_SERVICE_NAME"
    <2>1. k \notin ProfileKeys  BY Zenon, <1>6, ProfileKinds
    <2>2. k \in Settings  BY Zenon DEF Settings
    <2>3. c[k] = DefaultOf(k, Prod)  BY Zenon, <1>2, <1>7, <2>1, <2>2
    <2> QED  BY Zenon, <1>1, <2>3, Defaults
  <1>9. c["NOTIFY_DRIVER"] = "noop"
    <2>1. /\ "NOTIFY_DRIVER" \in Trimmed /\ "NOTIFY_DRIVER" \notin ProfileTexts
          /\ "NOTIFY_DRIVER" # "TRACING_SERVICE_NAME" /\ "NOTIFY_DRIVER" # "AUTH_TOTP_ISSUER"
          /\ TextDefault["NOTIFY_DRIVER"] = "noop" /\ "noop" # "blank"
      BY DEF Trimmed, ProfileTexts, TextDefault
    <2>2. "NOTIFY_DRIVER" \in Texts  BY Zenon, <2>1, TrimmedTexts
    <2>3. "NOTIFY_DRIVER" \in Settings \ ProfileKeys
      BY Zenon, <1>6, <2>1, <2>2, ProfileKinds DEF Settings
    <2>4. c["NOTIFY_DRIVER"] = TrimSpace("noop")
      BY Zenon, <1>1, <1>2, <2>1, <2>2, <2>3, Defaults
    <2> QED  BY Zenon, <2>1, <2>4 DEF TrimSpace
  <1> QED  BY Zenon, <1>3, <1>4, <1>5, <1>8, <1>9

(* Lint accepts every profile as it stands, so the defaults of the program *)
(* never contradict its own lints.                                         *)
LEMMA UntouchedLints == Untouched => Lint(env, Load(env))
  <1> SUFFICES ASSUME Untouched PROVE Lint(env, Load(env))  OBVIOUS
  <1> DEFINE c == Load(env)
  <1>1. Fitting(c)  BY Zenon, UntouchedFits
  <1>2. \A k \in Nums : c[k] = IF k \in ZeroNums THEN "zero" ELSE "mid"  BY Zenon, UntouchedKinds
  <1>3. \A k \in (Bools \ FlaggedBools) \ ProfileBools : c[k] = "false"  BY Zenon, UntouchedKinds
  <1>4. \A k \in Lists : c[k] \in {"ok", "none"}  BY Zenon, UntouchedKinds
  <1>5. \A k \in Texts \ (ProfileTexts \cup Trimmed) :
           k # "TRACING_SERVICE_NAME" => c[k] = TextDefault[k]
    BY Zenon, UntouchedKinds
  <1>6. c["NOTIFY_DRIVER"] = "noop"  BY Zenon, UntouchedKinds
  <1> HIDE DEF c
  <1>7. \A k \in Nums : Rank[c[k]] \in {1, 3} /\ (k \notin ZeroNums => Rank[c[k]] = 3)
    BY <1>2 DEF Rank
  <1>8. Rank["zero"] = 1 /\ Rank["low"] = 2 /\ Rank["mid"] = 3  BY DEF Rank
  <1>9. \A k \in Nums : AtLeast(c, k, "zero")  BY <1>7, <1>8 DEF AtLeast
  <1>10. \A k \in Nums \ ZeroNums : AtLeast(c, k, "low") /\ AtLeast(c, k, "mid")
    BY <1>7, <1>8 DEF AtLeast
  <1>11. \A k \in Nums \ ZeroNums : \A z \in Nums : AtLeast(c, k, c[z])
    BY <1>7 DEF AtLeast
  <1>12. \A k \in AuthFeatureFlags \cup {"AUTH_REGISTRATION_AUTO_LOGIN", "NOTIFY_LOG_SECRETS",
                     "TRACING_ENABLED", "HTTP_MIDDLEWARE_CORS_ALLOW_CREDENTIALS"} : c[k] = "false"
    <2>1. AuthFeatureFlags \cup {"AUTH_REGISTRATION_AUTO_LOGIN", "NOTIFY_LOG_SECRETS",
             "TRACING_ENABLED", "HTTP_MIDDLEWARE_CORS_ALLOW_CREDENTIALS"}
          \subseteq (Bools \ FlaggedBools) \ ProfileBools
      BY DEF AuthFeatureFlags, AuthBools, Bools, HTTPBools, FlaggedBools, ProfileBools
    <2> QED  BY Zenon, <1>3, <2>1
  <1>13. \A k \in AuthFeatureFlags \cup {"AUTH_REGISTRATION_AUTO_LOGIN", "NOTIFY_LOG_SECRETS",
                     "TRACING_ENABLED", "HTTP_MIDDLEWARE_CORS_ALLOW_CREDENTIALS"} : ~On(c, k)
    BY <1>12 DEF On
  <1>14. /\ c["APP_SERVICE_NAME"] = "api-template" /\ c["HTTP_ADDR"] = ":8080"
         /\ c["METRICS_PATH"] = "/metrics" /\ c["LOG_LEVEL"] = "info" /\ c["LOG_FORMAT"] = "json"
    <2>1. \A k \in {"APP_SERVICE_NAME", "HTTP_ADDR", "METRICS_PATH", "LOG_LEVEL", "LOG_FORMAT"} :
             k \in Texts \ (ProfileTexts \cup Trimmed) /\ k # "TRACING_SERVICE_NAME"
      BY DEF Texts, TextDefault, ProfileTexts, Trimmed
    <2>2. \A k \in {"APP_SERVICE_NAME", "HTTP_ADDR", "METRICS_PATH", "LOG_LEVEL", "LOG_FORMAT"} :
             c[k] = TextDefault[k]
      BY Zenon, <1>5, <2>1
    <2> QED  BY <2>2 DEF TextDefault
  <1>15. LintHTTP(c)
    <2>1. HTTPTimeouts \cup {"HTTP_MAX_HEADER_BYTES", "HTTP_WRITE_TIMEOUT"} \subseteq Nums \ ZeroNums
      BY DEF HTTPTimeouts, Nums, HTTPNums, ZeroNums
    <2>2. {"HTTP_MIDDLEWARE_MAX_BODY_BYTES", "HTTP_MIDDLEWARE_REQUEST_TIMEOUT",
           "HTTP_MIDDLEWARE_ACCESS_LOG_SLOW_THRESHOLD", "HTTP_MIDDLEWARE_CORS_MAX_AGE",
           "CACHE_TAG_VERSION_CACHE_TTL", "HTTP_MIDDLEWARE_ACCESS_LOG_SAMPLE_RATE"} \subseteq Nums
      BY DEF Nums, HTTPNums
    <2>3. Within01(c, "HTTP_MIDDLEWARE_ACCESS_LOG_SAMPLE_RATE")  BY <1>2, <2>2 DEF Within01
    <2>4. c["APP_SERVICE_NAME"] # "" /\ TrimSpace(c["HTTP_ADDR"]) # ""  BY <1>14 DEF TrimSpace
    <2> QED  BY Zenon, <1>9, <1>10, <1>11, <1>13, <2>1, <2>2, <2>3, <2>4 DEF LintHTTP
  <1>16. LintLists(c)  BY <1>4 DEF LintLists
  <1>17. LintAuthMode(c) /\ LintAuthStores(c)
    BY <1>1 DEF Fitting, LintAuthMode, LintAuthStores, ModeNames, TrimSpace
  <1>18. LintAuthFeatures(env, c)
    <2>1. NoTestOverrides(env)  BY UntouchedReads DEF NoTestOverrides, TestOverrideKeys
    <2> QED  BY Zenon, <1>13, <2>1 DEF LintAuthFeatures, AuthFeatureFlags
  <1>19. LintWebAuthn(env)
    <2>1. "WEBAUTHN_ENABLED" # "APP_PROFILE"  OBVIOUS
    <2>2. TrimSpace(Getenv(env, "WEBAUTHN_ENABLED")) = ""  BY Zenon, <2>1, UntouchedReads
    <2> QED  BY <2>2 DEF LintWebAuthn, Truthy
  <1>20. LintNotify(c)
    <2>1. LintNotifyDriver(c) /\ LintSMTP(c)  BY <1>6 DEF LintNotifyDriver, NotifyDrivers, LintSMTP
    <2>2. DeliveryFlags(c) = {}  BY Zenon, <1>13 DEF DeliveryFlags, AuthFeatureFlags
    <2>3. "NOTIFY_TIMEOUT" \in Nums \ ZeroNums  BY DEF Nums, ZeroNums
    <2> QED  BY Zenon, <1>10, <1>13, <2>1, <2>2, <2>3 DEF LintNotify, LintNotifyDelivery
  <1>21. LintLimits(c)
    <2>1. {"RATELIMIT_DEFAULT_LIMIT", "RATELIMIT_DEFAULT_WINDOW", "CACHE_DEFAULT_MAX_BYTES"}
             \subseteq Nums \ ZeroNums
      BY DEF Nums, ZeroNums
    <2> QED  BY Zenon, <1>1, <1>10, <2>1 DEF Fitting, LintLimits
  <1>22. LintFailOpen(c)  BY Zenon, <1>1 DEF Fitting, LintFailOpen
  <1>23. LintPostgres(c)
    <2>1. /\ {"POSTGRES_MAX_CONNS", "POSTGRES_STARTUP_PING_TIMEOUT",
              "POSTGRES_HEALTH_CHECK_TIMEOUT"} \subseteq Nums \ ZeroNums
          /\ {"POSTGRES_MIN_CONNS", "POSTGRES_CONN_MAX_LIFETIME",
              "POSTGRES_CONN_MAX_IDLE_TIME"} \subseteq Nums
      BY DEF Nums, PostgresNums, ZeroNums
    <2> QED  BY Zenon, <1>1, <1>9, <1>10, <1>11, <2>1 DEF Fitting, LintPostgres
  <1>24. LintRedis(c)
    <2>1. /\ RedisTimeouts \cup {"REDIS_POOL_SIZE"} \subseteq Nums \ ZeroNums
          /\ {"REDIS_DB", "REDIS_MIN_IDLE_CONNS"} \subseteq Nums
      BY DEF Nums, RedisNums, RedisTimeouts, ZeroNums
    <2> QED  BY Zenon, <1>1, <1>9, <1>10, <1>11, <2>1 DEF Fitting, LintRedis
  <1>25. LintMetrics(c)  BY <1>1, <1>14 DEF Fitting, LintMetrics, TrimSpace
  <1>26. LintTracing(c)  BY Zenon, <1>13 DEF LintTracing
  <1>27. LintFormats(env)
    <2>1. FormatLinted \subseteq Settings
      BY Zenon DEF FormatLinted, HTTPFormats, StoreFormats, OtherFormats, Settings, Bools, Nums,
             AuthBools
    <2>2. "HTTP_ADDR" # "APP_PROFILE"  OBVIOUS
    <2>3. \A k \in DOMAIN env : k = "APP_PROFILE"  BY Zenon DEF Untouched
    <2> QED  BY Zenon, APP_PROFILE, <2>1, <2>2, <2>3 DEF LintFormats
  <1>28. LintLog(c)  BY <1>14 DEF LintLog, LogLevels
  <1>29. Lint(env, c)
    BY Zenon, <1>15, <1>16, <1>17, <1>18, <1>19, <1>20, <1>21, <1>22, <1>23, <1>24, <1>25, <1>26,
       <1>27, <1>28 DEF Lint, Untouched
  <1> QED  BY Zenon, <1>29 DEF c

(* Every step of the startup keeps the invariant.                          *)
LEMMA StartKeepsIInv == StartIInv /\ [StartNext]_startVars => StartIInv'
  <1> SUFFICES ASSUME StartIInv, [StartNext]_startVars PROVE StartIInv'  OBVIOUS
  <1> QED
    BY Zenon, LoadKeeps, LintKeeps, LoggerKeeps, FeaturesKeep, DepsKeep, NotifierKeeps, RoutesKeep,
       StartIdles, UntouchedLints DEF StartNext, Done

(* Every step of main finds what the steps before it established.          *)
THEOREM StartupInvariant == StartSpec => []StartIInv
  BY StartInitIInv, StartKeepsIInv, PTL DEF StartSpec

(* A flag or number that is written in the environment is the one the      *)
(* process runs with, or the process does not start (Load, Lint).          *)
THEOREM WrittenSettingsAreLoaded == StartSpec => []WrittenIsLoaded
  BY StartupInvariant, IInvWritten, PTL

(* A production process serves only with its guards up: closed failure     *)
(* modes, metrics behind a token, no shared signer, no logged secrets,     *)
(* mail over TLS, and a driver for the mail its routes promise (Lint,      *)
(* initDependencies).                                                      *)
THEOREM ProductionGuarded == StartSpec => []ProductionIsGuarded
  BY StartupInvariant, IInvGuarded, PTL

(* A route group is offered exactly when the parts it calls were built,    *)
(* and each part has the stores it needs (Lint, initDependencies,          *)
(* RegisterRoutes).                                                        *)
THEOREM OffersAreBacked == StartSpec => []OfferedIsBacked
  BY StartupInvariant, IInvBacked, PTL

(* After Lint only tenancy and goAuth can still refuse a configuration,    *)
(* and an environment that names nothing but a profile is never refused.   *)
THEOREM LintIsDecisive == StartSpec => []LintDecides
  <1>1. StartIInv => LintDecides  BY Zenon DEF StartIInv
  <1> QED  BY <1>1, StartupInvariant, PTL

-----------------------------------------------------------------------------
(* DocumentStore. *)

(* What is stored was written or committed. *)
DataKept == \A i \in Ids : data[i] # Absent => data[i] \in kept

(* What a client has staged it wrote itself, earlier. *)
OwnStaged ==
  \A c \in Clients : \A k \in 1..Len(tx[c]) : \A i \in Ids :
    tx[c][k][i] \in Payloads => tx[c][k][i][1] = c /\ tx[c][k][i][2] <= writes

CreatedOld == \A p \in created : p[2] <= writes

Typed ==
  /\ data \in [Ids -> Payloads \cup {Absent}]
  /\ tx \in [Clients -> Seq(Stagings)]
  /\ inserting \in [Clients -> Ids \cup {NoId}]
  /\ writes \in 0..MaxWrites
  /\ kept \subseteq Payloads /\ created \subseteq Payloads
  /\ moved \in [Clients -> SUBSET Ids]
  /\ \A c \in Clients : inserting[c] # NoId => tx[c] = <<>>

IInv == Typed /\ DataKept /\ OwnStaged /\ CreatedOld /\ InsertTakesFreeId

\* A sequence with one entry replaced is a sequence of the same length.
LEMMA Replaced ==
  ASSUME NEW S, NEW s \in Seq(S), NEW i \in 1..Len(s), NEW e \in S
  PROVE  [s EXCEPT ![i] = e] \in Seq(S) /\ Len([s EXCEPT ![i] = e]) = Len(s)
  OBVIOUS

-----------------------------------------------------------------------------
LEMMA TopTyped ==
  ASSUME Typed, NEW c \in Clients, InTx(c)
  PROVE  /\ Len(tx[c]) \in Nat \ {0}
         /\ Len(tx[c]) \in 1..Len(tx[c])
         /\ Top(c) \in Stagings
<1>1. tx[c] \in Seq(Stagings) /\ tx[c] # <<>>
  BY DEF Typed, InTx
<1>2. Len(tx[c]) \in Nat /\ Len(tx[c]) # 0
  BY <1>1
<1>3. Len(tx[c]) \in 1..Len(tx[c])
  BY <1>2
<1>4. tx[c][Len(tx[c])] \in Stagings
  BY <1>1, <1>3
<1> QED
  BY <1>2, <1>3, <1>4 DEF Top

(* What staging one document does to the transactions. *)
LEMMA StageEffect ==
  ASSUME Typed, NEW c \in Clients, InTx(c), NEW i \in Ids,
         NEW p \in Payloads \cup {Absent}, Stage(c, i, p)
  PROVE  /\ tx' \in [Clients -> Seq(Stagings)]
         /\ \A d \in Clients : Len(tx'[d]) = Len(tx[d])
         /\ \A d \in Clients : d # c => tx'[d] = tx[d]
         /\ \A k \in 1..Len(tx[c]) : \A j \in Ids :
              tx'[c][k][j] = IF k = Len(tx[c]) /\ j = i THEN p ELSE tx[c][k][j]
<1>1. Len(tx[c]) \in 1..Len(tx[c]) /\ Top(c) \in Stagings
  BY TopTyped
<1> DEFINE n == Len(tx[c])
           t == [Top(c) EXCEPT ![i] = p]
           s == [tx[c] EXCEPT ![n] = t]
<1>2. t \in Stagings
  BY <1>1 DEF Stagings
<1>3. tx[c] \in Seq(Stagings)
  BY DEF Typed
<1>4. s \in Seq(Stagings) /\ Len(s) = n
  BY <1>1, <1>2, <1>3, Replaced
<1>5. tx' = [tx EXCEPT ![c] = s]
  BY <1>1 DEF Stage, Top
<1>6. tx' \in [Clients -> Seq(Stagings)] /\ tx'[c] = s
  BY <1>4, <1>5 DEF Typed
<1>7. \A d \in Clients : d # c => tx'[d] = tx[d]
  BY <1>5 DEF Typed
<1>8. ASSUME NEW k \in 1..n, NEW j \in Ids
      PROVE  s[k][j] = IF k = n /\ j = i THEN p ELSE tx[c][k][j]
  <2>1. DOMAIN tx[c] = 1..n
    BY <1>3
  <2>2. CASE k = n
    BY <1>1, <2>1, <2>2 DEF Stagings, Top
  <2>3. CASE k # n
    BY <2>1, <2>3
  <2> QED
    BY <2>2, <2>3
<1>9. \A d \in Clients : Len(tx'[d]) = Len(tx[d])
  BY <1>4, <1>6, <1>7
<1> HIDE DEF s, t
<1> QED
  BY <1>6, <1>7, <1>8, <1>9

(* What leaving the innermost transaction does. *)
LEMMA PopEffect ==
  ASSUME Typed, NEW c \in Clients, InTx(c), tx' = [tx EXCEPT ![c] = Popped(@)]
  PROVE  /\ tx' \in [Clients -> Seq(Stagings)]
         /\ \A d \in Clients : d # c => tx'[d] = tx[d]
         /\ \A k \in 1..Len(tx'[c]) : k \in 1..Len(tx[c]) /\ tx'[c][k] = tx[c][k]
<1>1. tx[c] \in Seq(Stagings) /\ Len(tx[c]) \in Nat \ {0}
  BY TopTyped DEF Typed
<1> DEFINE n == Len(tx[c])
           s == SubSeq(tx[c], 1, n - 1)
<1>2. n - 1 \in Nat /\ n - 1 <= n /\ \A k \in 1..(n - 1) : k \in 1..n
  BY <1>1
<1>3. /\ s \in Seq(Stagings)
      /\ Len(s) = n - 1
      /\ \A k \in 1..(n - 1) : s[k] = tx[c][k]
  BY <1>1, <1>2
<1>4. tx'[c] = s
  BY DEF Typed, Popped
<1> QED
  BY ZenonT(60), <1>2, <1>3, <1>4 DEF Typed

(* A new transaction has nothing staged. *)
LEMMA BeginEffect ==
  ASSUME Typed, NEW c \in Clients, Begin(c)
  PROVE  /\ tx' \in [Clients -> Seq(Stagings)]
         /\ \A d \in Clients : d # c => tx'[d] = tx[d]
         /\ \A k \in 1..Len(tx'[c]) :
              \/ k \in 1..Len(tx[c]) /\ tx'[c][k] = tx[c][k]
              \/ \A i \in Ids : tx'[c][k][i] = Unstaged
<1> DEFINE e == [i \in Ids |-> Unstaged]
           s == Append(tx[c], e)
<1>1. tx[c] \in Seq(Stagings) /\ e \in Stagings
  BY DEF Typed, Stagings
<1>2. /\ s \in Seq(Stagings)
      /\ Len(s) = Len(tx[c]) + 1
      /\ \A k \in 1..Len(tx[c]) : s[k] = tx[c][k]
      /\ s[Len(tx[c]) + 1] = e
  BY <1>1
<1>3. tx' = [tx EXCEPT ![c] = s]
  BY DEF Begin
<1>4. tx'[c] = s /\ \A d \in Clients : d # c => tx'[d] = tx[d]
  BY <1>3 DEF Typed
<1>5. Len(tx[c]) \in Nat
  BY <1>1
<1>6. \A k \in 1..Len(s) : k \in 1..Len(tx[c]) \/ k = Len(tx[c]) + 1
  BY <1>2, <1>5
<1>7. tx' \in [Clients -> Seq(Stagings)]
  BY <1>2, <1>3 DEF Typed
<1> HIDE DEF s
<1>8. ASSUME NEW k \in 1..Len(tx'[c])
      PROVE  \/ k \in 1..Len(tx[c]) /\ tx'[c][k] = tx[c][k]
             \/ \A i \in Ids : tx'[c][k][i] = Unstaged
  BY <1>2, <1>4, <1>6
<1> QED
  BY <1>4, <1>7, <1>8

-----------------------------------------------------------------------------
(* A step that changes the store tells every pending Insert, and adds none.*)
LEMMA MovesKeepInserts ==
  ASSUME IInv, NEW S \in SUBSET Ids, Moves(S),
         \A i \in Ids \ S : data'[i] = data[i],
         \A d \in Clients : Pending(d)' \subseteq Pending(d)
  PROVE  InsertTakesFreeId'
<1> SUFFICES ASSUME NEW d \in Clients, NEW i \in Pending(d)', data'[i] # Absent
             PROVE  i \in moved'[d]
  BY DEF InsertTakesFreeId
<1>1. i \in Pending(d) /\ i \in Ids
  BY DEF Pending
<1>2. moved'[d] = moved[d] \cup (S \cap Pending(d))
  BY DEF Moves
<1>3. CASE i \in S
  BY <1>1, <1>2, <1>3
<1>4. CASE i \notin S
  BY <1>1, <1>2, <1>4 DEF IInv, InsertTakesFreeId
<1> QED
  BY <1>3, <1>4

(* A step that leaves the store alone and adds no pending Insert. *)
LEMMA NothingMoves ==
  ASSUME IInv, data' = data, moved' = moved,
         \A d \in Clients : Pending(d)' \subseteq Pending(d)
  PROVE  InsertTakesFreeId'
BY DEF IInv, InsertTakesFreeId

(* Popping a transaction, with no payload newly marked, adds no Insert.    *)
LEMMA PopPending ==
  ASSUME IInv, NEW c \in Clients, InTx(c), tx' = [tx EXCEPT ![c] = Popped(@)],
         inserting' = inserting, created' \subseteq created
  PROVE  \A d \in Clients : Pending(d)' \subseteq Pending(d)
<1> SUFFICES ASSUME NEW d \in Clients, NEW i \in Pending(d)'
             PROVE  i \in Pending(d)
  OBVIOUS
<1>1. i \in Ids /\ (inserting[d] = i \/ \E k \in 1..Len(tx'[d]) : tx'[d][k][i] \in created)
  BY DEF Pending
<1>2. CASE inserting[d] = i
  BY <1>1, <1>2 DEF Pending
<1>3. CASE \E k \in 1..Len(tx'[d]) : tx'[d][k][i] \in created
  <2>1. PICK k \in 1..Len(tx'[d]) : tx'[d][k][i] \in created
    BY <1>3
  <2>2. k \in 1..Len(tx[d]) /\ tx'[d][k] = tx[d][k]
    BY ZenonT(60), PopEffect DEF IInv
  <2> QED
    BY <1>1, <2>1, <2>2 DEF Pending
<1> QED
  BY <1>1, <1>2, <1>3

(* Staging something that is no marked payload adds no Insert. *)
LEMMA StagePending ==
  ASSUME IInv, NEW c \in Clients, InTx(c), NEW j \in Ids,
         NEW p \in (Payloads \cup {Absent}) \ created, Stage(c, j, p),
         inserting' = inserting, created' = created
  PROVE  \A d \in Clients : Pending(d)' \subseteq Pending(d)
<1> SUFFICES ASSUME NEW d \in Clients, NEW i \in Pending(d)'
             PROVE  i \in Pending(d)
  OBVIOUS
<1>1. i \in Ids /\ (inserting[d] = i \/ \E k \in 1..Len(tx'[d]) : tx'[d][k][i] \in created)
  BY DEF Pending
<1>2. CASE inserting[d] = i
  BY <1>1, <1>2 DEF Pending
<1>3. CASE \E k \in 1..Len(tx'[d]) : tx'[d][k][i] \in created
  <2>1. PICK k \in 1..Len(tx'[d]) : tx'[d][k][i] \in created
    BY <1>3
  <2>2. Len(tx'[d]) = Len(tx[d]) /\ (d # c => tx'[d] = tx[d])
    BY StageEffect DEF IInv
  <2>3. d = c => tx'[c][k][i] = IF k = Len(tx[c]) /\ i = j THEN p ELSE tx[c][k][i]
    BY <1>1, <2>2, StageEffect DEF IInv
  <2>4. tx[d][k][i] \in created
    BY <2>1, <2>2, <2>3
  <2> QED
    BY <1>1, <2>1, <2>2, <2>4 DEF Pending
<1> QED
  BY <1>1, <1>2, <1>3

-----------------------------------------------------------------------------
LEMMA FreshPayload ==
  ASSUME IInv, writes < MaxWrites, NEW c \in Clients
  PROVE  /\ Payload(c) \in Payloads /\ Payload(c) \notin created
         /\ Payload(c)[1] = c /\ Payload(c)[2] = writes + 1
         /\ writes + 1 \in 0..MaxWrites /\ writes \in Nat
         /\ Payload(c) # Absent
<1>1. writes \in Nat /\ MaxWrites \in Nat /\ writes + 1 \in 1..MaxWrites
  BY StoreAssumption DEF IInv, Typed
<1>2. Payload(c) \in Payloads /\ Payload(c)[1] = c /\ Payload(c)[2] = writes + 1
  BY <1>1 DEF Payload, Payloads
<1>3. Payload(c) \notin created
  BY <1>1, <1>2 DEF IInv, CreatedOld
<1> QED
  BY <1>1, <1>2, <1>3, StoreAssumption

(* Staging a new payload or a delete keeps what is known of staged writes. *)
LEMMA StageKeepsOwn ==
  ASSUME IInv, NEW c \in Clients, InTx(c), NEW i \in Ids,
         NEW p \in Payloads \cup {Absent}, Stage(c, i, p),
         writes' \in Nat, writes <= writes',
         p \in Payloads => p[1] = c /\ p[2] <= writes'
  PROVE  OwnStaged'
<1> SUFFICES ASSUME NEW d \in Clients, NEW k \in 1..Len(tx'[d]), NEW j \in Ids,
                    tx'[d][k][j] \in Payloads
             PROVE  tx'[d][k][j][1] = d /\ tx'[d][k][j][2] <= writes'
  BY DEF OwnStaged
<1>1. Len(tx'[d]) = Len(tx[d]) /\ (d # c => tx'[d] = tx[d])
  BY StageEffect DEF IInv
<1>2. d = c => tx'[c][k][j] = IF k = Len(tx[c]) /\ j = i THEN p ELSE tx[c][k][j]
  BY <1>1, StageEffect DEF IInv
<1>3. CASE d = c /\ k = Len(tx[c]) /\ j = i
  BY <1>2, <1>3
<1>4. CASE ~(d = c /\ k = Len(tx[c]) /\ j = i)
  <2>1. tx'[d][k][j] = tx[d][k][j]
    BY <1>1, <1>2, <1>4
  <2>2. tx[d][k][j][1] = d /\ tx[d][k][j][2] <= writes /\ tx[d][k][j][2] \in Nat
    BY <1>1, <2>1 DEF IInv, OwnStaged, Payloads
  <2>3. writes \in Nat
    BY StoreAssumption DEF IInv, Typed
  <2> QED
    BY SMTT(60), <2>1, <2>2, <2>3
<1> QED
  BY <1>3, <1>4

LEMMA InitIInv ==
  ASSUME Init
  PROVE  IInv
<1>1. Typed
  BY StoreAssumption DEF Init, Typed, Stagings
<1>2. DataKept /\ CreatedOld
  BY DEF Init, DataKept, CreatedOld
<1>3. \A c \in Clients : tx[c] = <<>> /\ Len(tx[c]) = 0
  BY Zenon DEF Init
<1>4. OwnStaged
  BY <1>3 DEF OwnStaged
<1>5. InsertTakesFreeId
  BY DEF Init, InsertTakesFreeId, Pending
<1> QED
  BY <1>1, <1>2, <1>4, <1>5 DEF IInv

(* A write outside a transaction: Replace, and the second half of Insert.  *)
LEMMA StoreWrite ==
  ASSUME IInv, NEW c \in Clients, NEW i \in Ids, writes < MaxWrites,
         ~InTx(c), Write(c, i), created' = created,
         inserting' = inserting \/ inserting' = [inserting EXCEPT ![c] = NoId]
  PROVE  IInv'
<1> DEFINE p == Payload(c)
<1>1. /\ data' = [data EXCEPT ![i] = p] /\ kept' = kept \cup {p}
      /\ Moves({i}) /\ tx' = tx /\ writes' = writes + 1
  BY DEF Write
<1>2. /\ p \in Payloads /\ p \notin created /\ p[1] = c /\ p[2] = writes + 1
      /\ writes + 1 \in 0..MaxWrites /\ writes \in Nat /\ p # Absent
  BY FreshPayload
<1> HIDE DEF p
<1>3. inserting' \in [Clients -> Ids \cup {NoId}]
      /\ \A d \in Clients : inserting'[d] = inserting[d] \/ inserting'[d] = NoId
  BY DEF IInv, Typed
<1>4. moved' \in [Clients -> SUBSET Ids]
  BY <1>1 DEF Moves, IInv, Typed
<1>5. Typed'
  BY <1>1, <1>2, <1>3, <1>4 DEF IInv, Typed
<1>6. DataKept'
  BY <1>1, <1>2 DEF IInv, Typed, DataKept
<1>7. OwnStaged'
  <2>1. \A d \in Clients : \A k \in 1..Len(tx[d]) : \A j \in Ids :
          tx[d][k][j] \in Payloads => tx[d][k][j][2] \in Nat
    BY DEF Payloads
  <2> SUFFICES ASSUME NEW d \in Clients, NEW k \in 1..Len(tx[d]), NEW j \in Ids, tx[d][k][j] \in Payloads
               PROVE  tx[d][k][j][1] = d /\ tx[d][k][j][2] <= writes + 1
    BY Zenon, <1>1 DEF OwnStaged
  <2>2. tx[d][k][j][1] = d /\ tx[d][k][j][2] <= writes
    BY Zenon DEF IInv, OwnStaged
  <2>3. tx[d][k][j][2] \in Nat
    BY Zenon, <2>1
  <2> QED
    BY <1>2, <2>2, <2>3
<1>8. CreatedOld'
  <2>1. \A q \in created : q[2] \in Nat
    BY DEF IInv, Typed, Payloads
  <2> QED
    BY <1>1, <1>2, <2>1 DEF IInv, CreatedOld
<1>9. \A d \in Clients : Pending(d)' \subseteq Pending(d)
  BY <1>1, <1>3, StoreAssumption DEF Pending
<1>10. \A j \in Ids \ {i} : data'[j] = data[j]
  BY <1>1 DEF IInv, Typed
<1>11. InsertTakesFreeId'
  BY <1>1, <1>9, <1>10, MovesKeepInserts
<1> QED
  BY <1>5, <1>6, <1>7, <1>8, <1>11 DEF IInv

(* A Replace inside a transaction. *)
LEMMA StagedReplace ==
  ASSUME IInv, NEW c \in Clients, NEW i \in Ids, InTx(c), Replace(c, i)
  PROVE  IInv'
<1> DEFINE p == Payload(c)
<1>1. /\ Stage(c, i, p) /\ writes' = writes + 1 /\ writes < MaxWrites
      /\ data' = data /\ kept' = kept /\ moved' = moved
      /\ created' = created /\ inserting' = inserting
  BY DEF Replace, Write
<1>2. /\ p \in Payloads /\ p \notin created /\ p[1] = c /\ p[2] = writes + 1
      /\ writes + 1 \in 0..MaxWrites /\ writes \in Nat
  BY <1>1, FreshPayload
<1> HIDE DEF p
<1>3. tx' \in [Clients -> Seq(Stagings)]
      /\ \A d \in Clients : d # c => tx'[d] = tx[d]
  BY <1>1, <1>2, StageEffect DEF IInv
<1>4. inserting[c] = NoId
  BY DEF Replace, Ready
<1>5. Typed'
  BY <1>1, <1>2, <1>3, <1>4 DEF IInv, Typed
<1>6. DataKept'
  BY <1>1 DEF IInv, DataKept
<1>7. OwnStaged'
  BY <1>1, <1>2, StageKeepsOwn
<1>8. CreatedOld'
  <2>1. \A q \in created : q[2] \in Nat
    BY DEF IInv, Typed, Payloads
  <2> QED
    BY <1>1, <1>2, <2>1 DEF IInv, CreatedOld
<1>9. \A d \in Clients : Pending(d)' \subseteq Pending(d)
  BY <1>1, <1>2, StagePending
<1>10. InsertTakesFreeId'
  BY <1>1, <1>9, NothingMoves
<1> QED
  BY <1>5, <1>6, <1>7, <1>8, <1>10 DEF IInv

LEMMA DeleteInv ==
  ASSUME IInv, NEW c \in Clients, NEW i \in Ids, Delete(c, i)
  PROVE  IInv'
<1>1. /\ writes' = writes /\ kept' = kept /\ created' = created
      /\ inserting' = inserting /\ inserting[c] = NoId
  BY DEF Delete, Ready
<1>2. writes \in Nat /\ created \subseteq Payloads
  BY StoreAssumption DEF IInv, Typed
<1>3. CreatedOld'
  BY <1>1 DEF IInv, CreatedOld
<1>4. CASE InTx(c)
  <2>1. Stage(c, i, Absent) /\ data' = data /\ moved' = moved
    BY <1>4 DEF Delete
  <2>2. tx' \in [Clients -> Seq(Stagings)]
        /\ \A d \in Clients : d # c => tx'[d] = tx[d]
    BY <1>4, <2>1, StageEffect DEF IInv
  <2>3. Typed'
    BY <1>1, <2>1, <2>2 DEF IInv, Typed
  <2>4. DataKept'
    BY <1>1, <2>1 DEF IInv, DataKept
  <2>5. OwnStaged'
    <3>1. writes' \in Nat /\ writes <= writes'
      BY <1>1, <1>2
    <3> QED
      BY <1>4, <2>1, <3>1, StageKeepsOwn, StoreAssumption
  <2>6. \A d \in Clients : Pending(d)' \subseteq Pending(d)
    BY <1>1, <1>2, <1>4, <2>1, StagePending, StoreAssumption
  <2>7. InsertTakesFreeId'
    BY <2>1, <2>6, NothingMoves
  <2> QED
    BY <1>3, <2>3, <2>4, <2>5, <2>7 DEF IInv
<1>5. CASE ~InTx(c)
  <2>1. data' = [data EXCEPT ![i] = Absent] /\ Moves({i}) /\ tx' = tx
    BY <1>5 DEF Delete
  <2>2. moved' \in [Clients -> SUBSET Ids]
    BY <2>1 DEF Moves, IInv, Typed
  <2>3. Typed'
    BY <1>1, <2>1, <2>2 DEF IInv, Typed
  <2>4. DataKept'
    BY <1>1, <2>1 DEF IInv, DataKept, Typed
  <2>5. OwnStaged'
    BY <1>1, <2>1 DEF IInv, OwnStaged
  <2>6. \A d \in Clients : Pending(d)' \subseteq Pending(d)
    BY <1>1, <2>1 DEF Pending
  <2>7. \A j \in Ids \ {i} : data'[j] = data[j]
    BY <2>1 DEF IInv, Typed
  <2>8. InsertTakesFreeId'
    BY <2>1, <2>6, <2>7, MovesKeepInserts
  <2> QED
    BY <1>3, <2>3, <2>4, <2>5, <2>8 DEF IInv
<1> QED
  BY <1>4, <1>5

(* The first half of an Insert outside a transaction. *)
LEMMA InsertLooks ==
  ASSUME IInv, NEW c \in Clients, NEW i \in Ids, ~InTx(c), Insert(c, i)
  PROVE  IInv'
<1>1. /\ inserting' = [inserting EXCEPT ![c] = i] /\ tx' = tx /\ writes' = writes
      /\ created' = created /\ data' = data /\ kept' = kept
      /\ moved' = [moved EXCEPT ![c] = @ \ {i}]
      /\ data[i] = Absent
  BY DEF Insert, Taken, View, InStore
<1>2. tx[c] = <<>>
  BY DEF InTx
<1>3. moved' \in [Clients -> SUBSET Ids]
      /\ \A d \in Clients, j \in Ids : j # i /\ j \in moved[d] => j \in moved'[d]
  BY <1>1 DEF IInv, Typed
<1>4. inserting' \in [Clients -> Ids \cup {NoId}]
      /\ \A d \in Clients : d # c => inserting'[d] = inserting[d]
      /\ inserting'[c] = i
  BY <1>1 DEF IInv, Typed
<1>5. Typed'
  BY <1>1, <1>2, <1>3, <1>4 DEF IInv, Typed
<1>6. DataKept' /\ OwnStaged' /\ CreatedOld'
  BY <1>1 DEF IInv, DataKept, OwnStaged, CreatedOld
<1>7. \A d \in Clients : \A j \in Pending(d)' : j # i => j \in Pending(d)
  BY <1>1, <1>4 DEF Pending
<1>8. InsertTakesFreeId'
  <2> SUFFICES ASSUME NEW d \in Clients, NEW j \in Pending(d)', data'[j] # Absent
               PROVE  j \in moved'[d]
    BY DEF InsertTakesFreeId
  <2>1. j # i /\ j \in Ids /\ j \in Pending(d)
    BY <1>1, <1>7 DEF Pending
  <2>2. j \in moved[d]
    BY <1>1, <2>1 DEF IInv, InsertTakesFreeId
  <2> QED
    BY <1>3, <2>1, <2>2
<1> QED
  BY <1>5, <1>6, <1>8 DEF IInv

(* An Insert inside a transaction. *)
LEMMA StagedInsert ==
  ASSUME IInv, NEW c \in Clients, NEW i \in Ids, InTx(c), Insert(c, i)
  PROVE  IInv'
<1> DEFINE p == Payload(c)
<1>1. /\ Stage(c, i, p) /\ writes' = writes + 1 /\ writes < MaxWrites
      /\ data' = data /\ kept' = kept /\ inserting' = inserting
      /\ created' = created \cup {q \in {p} : InStore(c, i)}
      /\ moved' = [moved EXCEPT ![c] = IF InStore(c, i) THEN @ \ {i} ELSE @]
      /\ inserting[c] = NoId
  BY DEF Insert, Ready
<1>2. /\ p \in Payloads /\ p \notin created /\ p[1] = c /\ p[2] = writes + 1
      /\ writes + 1 \in 0..MaxWrites /\ writes \in Nat
  BY <1>1, FreshPayload
<1>3. InStore(c, i) => data[i] = Absent
  BY DEF Insert, Taken, View
<1> HIDE DEF p
<1>4. /\ tx' \in [Clients -> Seq(Stagings)]
      /\ \A d \in Clients : d # c => tx'[d] = tx[d]
      /\ \A d \in Clients : Len(tx'[d]) = Len(tx[d])
  BY ZenonT(60), <1>1, <1>2, StageEffect DEF IInv
<1>12. \A k \in 1..Len(tx[c]) : \A j \in Ids :
         tx'[c][k][j] = IF k = Len(tx[c]) /\ j = i THEN p ELSE tx[c][k][j]
  BY <1>1, <1>2, StageEffect DEF IInv
<1>13. created' \subseteq created \cup {p}
  BY <1>1
<1>5. moved' \in [Clients -> SUBSET Ids]
  BY <1>1 DEF IInv, Typed
<1>6. Typed'
  BY <1>1, <1>2, <1>4, <1>5 DEF IInv, Typed
<1>7. DataKept'
  BY <1>1 DEF IInv, DataKept
<1>8. OwnStaged'
  BY <1>1, <1>2, StageKeepsOwn
<1>9. CreatedOld'
  <2>1. \A q \in created : q[2] \in Nat
    BY DEF IInv, Typed, Payloads
  <2> QED
    BY <1>1, <1>2, <2>1 DEF IInv, CreatedOld
<1>10. CASE ~InStore(c, i)
  <2>1. created' = created /\ moved' = moved
    BY <1>1, <1>10 DEF IInv, Typed
  <2>2. \A d \in Clients : Pending(d)' \subseteq Pending(d)
    BY <1>1, <1>2, <2>1, StagePending
  <2>3. InsertTakesFreeId'
    BY <1>1, <2>1, <2>2, NothingMoves
  <2> QED
    BY <1>6, <1>7, <1>8, <1>9, <2>3 DEF IInv
<1>11. CASE InStore(c, i)
  (* The new payload is staged nowhere else, so i is the only new one. *)
  <2>1. ASSUME NEW d \in Clients, NEW j \in Pending(d)', j # i
        PROVE  j \in Pending(d)
    <3>1. j \in Ids /\ (inserting[d] = j \/ \E k \in 1..Len(tx'[d]) : tx'[d][k][j] \in created')
      BY <1>1 DEF Pending
    <3>2. CASE inserting[d] = j
      BY <3>1, <3>2 DEF Pending
    <3>3. CASE \E k \in 1..Len(tx'[d]) : tx'[d][k][j] \in created'
      <4>0. Len(tx'[d]) = Len(tx[d]) /\ created' \subseteq created \cup {p}
        BY <1>4, <1>13, Zenon
      <4>1. PICK k \in 1..Len(tx[d]) : tx'[d][k][j] \in created \cup {p}
        BY <3>3, <4>0, Zenon
      <4>2. tx'[d][k][j] = tx[d][k][j]
        <5>1. CASE d = c
          <6>1. tx'[c][k][j] = IF k = Len(tx[c]) /\ j = i THEN p ELSE tx[c][k][j]
            BY <1>12, <3>1, <4>1, <5>1, Zenon
          <6> QED
            BY <2>1, <5>1, <6>1
        <5>2. CASE d # c
          BY <1>4, <5>2
        <5> QED
          BY <5>1, <5>2
      <4>3. tx[d][k][j] # p
        BY <1>2, <3>1, <4>1 DEF IInv, OwnStaged
      <4> QED
        BY <3>1, <4>1, <4>2, <4>3 DEF Pending
    <3> QED
      BY ONLY <3>1, <3>2, <3>3, ZenonT(60)
  <2>2. \A d \in Clients, j \in Ids : j # i /\ j \in moved[d] => j \in moved'[d]
    BY <1>1 DEF IInv, Typed
  <2>3. InsertTakesFreeId'
    <3> SUFFICES ASSUME NEW d \in Clients, NEW j \in Pending(d)', data'[j] # Absent
                 PROVE  j \in moved'[d]
      BY DEF InsertTakesFreeId
    <3>1. j # i /\ j \in Ids
      BY <1>1, <1>3, <1>11 DEF Pending
    <3>2. j \in moved[d]
      BY <1>1, <2>1, <3>1 DEF IInv, InsertTakesFreeId
    <3> QED
      BY ONLY <2>2, <3>1, <3>2, d \in Clients, ZenonT(60)
  <2> QED
    BY <1>6, <1>7, <1>8, <1>9, <2>3 DEF IInv
<1> QED
  BY <1>10, <1>11

LEMMA BeginInv ==
  ASSUME IInv, NEW c \in Clients, Begin(c)
  PROVE  IInv'
<1>1. /\ data' = data /\ kept' = kept /\ inserting' = inserting /\ writes' = writes
      /\ created' = created /\ moved' = moved /\ inserting[c] = NoId
  BY DEF Begin, Ready
<1>2. /\ tx' \in [Clients -> Seq(Stagings)]
      /\ \A d \in Clients : d # c => tx'[d] = tx[d]
      /\ \A k \in 1..Len(tx'[c]) :
           \/ k \in 1..Len(tx[c]) /\ tx'[c][k] = tx[c][k]
           \/ \A i \in Ids : tx'[c][k][i] = Unstaged
  BY BeginEffect DEF IInv
<1>3. Typed'
  BY <1>1, <1>2 DEF IInv, Typed
<1>4. DataKept' /\ CreatedOld'
  BY <1>1 DEF IInv, DataKept, CreatedOld
<1>5. OwnStaged'
  BY <1>1, <1>2, StoreAssumption DEF IInv, OwnStaged
<1>6. \A d \in Clients : Pending(d)' \subseteq Pending(d)
  <2>1. Unstaged \notin created
    BY StoreAssumption DEF IInv, Typed
  <2> QED
    BY <1>1, <1>2, <2>1 DEF Pending
<1>7. InsertTakesFreeId'
  BY <1>1, <1>6, NothingMoves
<1> QED
  BY <1>3, <1>4, <1>5, <1>7 DEF IInv

(* Leaving a transaction, committed or not. *)
LEMMA PopKeeps ==
  ASSUME IInv, NEW c \in Clients, InTx(c), Ready(c), tx' = [tx EXCEPT ![c] = Popped(@)],
         created' = created \ Staged(c), inserting' = inserting, writes' = writes
  PROVE  /\ tx' \in [Clients -> Seq(Stagings)]
         /\ \A d \in Clients : inserting'[d] # NoId => tx'[d] = <<>>
         /\ created' \subseteq Payloads /\ OwnStaged' /\ CreatedOld'
         /\ \A d \in Clients : Pending(d)' \subseteq Pending(d)
<1>1. /\ tx' \in [Clients -> Seq(Stagings)]
      /\ \A d \in Clients : d # c => tx'[d] = tx[d]
      /\ \A k \in 1..Len(tx'[c]) : k \in 1..Len(tx[c]) /\ tx'[c][k] = tx[c][k]
  BY ZenonT(60), PopEffect DEF IInv
<1>2. \A d \in Clients : inserting'[d] # NoId => tx'[d] = <<>>
  BY <1>1 DEF IInv, Typed, Ready
<1>3. created' \subseteq Payloads /\ created' \subseteq created
  BY DEF IInv, Typed
<1>4. OwnStaged'
  BY <1>1 DEF IInv, OwnStaged
<1>5. CreatedOld'
  BY <1>3 DEF IInv, CreatedOld
<1>6. \A d \in Clients : Pending(d)' \subseteq Pending(d)
  BY ZenonT(60), <1>3, PopPending
<1> QED
  BY <1>1, <1>2, <1>3, <1>4, <1>5, <1>6

LEMMA CommitInv ==
  ASSUME IInv, NEW c \in Clients, Commit(c)
  PROVE  IInv'
<1>1. /\ InTx(c) /\ Ready(c) /\ tx' = [tx EXCEPT ![c] = Popped(@)]
      /\ created' = created \ Staged(c) /\ inserting' = inserting /\ writes' = writes
      /\ data' = View(c) /\ kept' = kept \cup Staged(c) /\ Moves(StagedIds(c))
  BY DEF Commit
<1>2. /\ tx' \in [Clients -> Seq(Stagings)]
      /\ \A d \in Clients : inserting'[d] # NoId => tx'[d] = <<>>
      /\ created' \subseteq Payloads /\ OwnStaged' /\ CreatedOld'
      /\ \A d \in Clients : Pending(d)' \subseteq Pending(d)
  BY ZenonT(60), <1>1, PopKeeps
<1>3. Top(c) \in Stagings
  BY <1>1, TopTyped DEF IInv
<1>4. \A i \in Ids : data'[i] = IF Top(c)[i] = Unstaged THEN data[i] ELSE Top(c)[i]
  BY Zenon, <1>1 DEF View, InStore
<1>5. data' \in [Ids -> Payloads \cup {Absent}]
  <2>1. \A i \in Ids : data'[i] \in Payloads \cup {Absent}
    BY ZenonT(60), <1>3, <1>4 DEF Stagings, IInv, Typed
  <2> QED
    BY <1>1, <2>1 DEF View
<1>6. moved' \in [Clients -> SUBSET Ids] /\ StagedIds(c) \in SUBSET Ids
  <2>1. moved \in [Clients -> SUBSET Ids]
    BY Zenon DEF IInv, Typed
  <2>2. StagedIds(c) \in SUBSET Ids
    BY Zenon DEF StagedIds
  <2>3. moved' = [d \in Clients |-> moved[d] \cup (StagedIds(c) \cap Pending(d))]
    BY ONLY <1>1, Zenon DEF Moves
  <2> QED
    BY ONLY <2>1, <2>2, <2>3
<1>7. Typed'
  <2>1. kept' \subseteq Payloads
    BY ZenonT(60), <1>1 DEF IInv, Typed, Staged
  <2> QED
    BY Zenon, <1>1, <1>2, <1>5, <1>6, <2>1 DEF IInv, Typed
<1>8. DataKept'
  BY <1>1, <1>3, <1>4 DEF IInv, DataKept, Staged, Stagings
<1>9. \A i \in Ids \ StagedIds(c) : data'[i] = data[i]
  BY Zenon, <1>4 DEF StagedIds
<1>10. InsertTakesFreeId'
  BY Zenon, <1>1, <1>2, <1>6, <1>9, MovesKeepInserts
<1> QED
  BY Zenon, <1>2, <1>7, <1>8, <1>10 DEF IInv

LEMMA DropInv ==
  ASSUME IInv, NEW c \in Clients, Drop(c)
  PROVE  IInv'
<1>1. /\ InTx(c) /\ Ready(c) /\ tx' = [tx EXCEPT ![c] = Popped(@)]
      /\ created' = created \ Staged(c) /\ inserting' = inserting /\ writes' = writes
      /\ data' = data /\ kept' = kept /\ moved' = moved
  BY DEF Drop
<1>2. /\ tx' \in [Clients -> Seq(Stagings)]
      /\ \A d \in Clients : inserting'[d] # NoId => tx'[d] = <<>>
      /\ created' \subseteq Payloads /\ OwnStaged' /\ CreatedOld'
      /\ \A d \in Clients : Pending(d)' \subseteq Pending(d)
  BY ZenonT(60), <1>1, PopKeeps
<1>3. Typed'
  BY <1>1, <1>2 DEF IInv, Typed
<1>4. DataKept'
  BY <1>1 DEF IInv, DataKept
<1>5. InsertTakesFreeId'
  BY <1>1, <1>2, NothingMoves
<1> QED
  BY <1>2, <1>3, <1>4, <1>5 DEF IInv

-----------------------------------------------------------------------------
LEMMA NextInv ==
  ASSUME IInv, [Next]_vars
  PROVE  IInv'
<1>1. CASE UNCHANGED vars
  BY <1>1 DEF vars, IInv, Typed, DataKept, OwnStaged, CreatedOld, InsertTakesFreeId, Pending
<1>2. ASSUME NEW c \in Clients, NEW i \in Ids, Insert(c, i)
      PROVE  IInv'
  BY <1>2, InsertLooks, StagedInsert
<1>3. ASSUME NEW c \in Clients, NEW i \in Ids, Replace(c, i)
      PROVE  IInv'
  <2>1. CASE InTx(c)
    BY <1>3, <2>1, StagedReplace
  <2>2. CASE ~InTx(c)
    BY <1>3, <2>2, StoreWrite DEF Replace
  <2> QED
    BY <2>1, <2>2
<1>4. ASSUME NEW c \in Clients, InsertWrite(c)
      PROVE  IInv'
  <2>1. inserting[c] \in Ids /\ tx[c] = <<>>
    BY <1>4 DEF InsertWrite, IInv, Typed
  <2> QED
    BY ZenonT(60), <1>4, <2>1, StoreWrite DEF InsertWrite, InTx
<1>5. CASE Next
  BY <1>2, <1>3, <1>4, <1>5, DeleteInv, BeginInv, CommitInv, DropInv DEF Next
<1> QED
  BY <1>1, <1>5

(* The invariant, for any clients, ids, writes and nesting. *)
THEOREM StoreInvariant == Spec => []IInv
<1>1. Init => IInv
  BY InitIInv
<1>2. IInv /\ [Next]_vars => IInv'
  BY NextInv
<1> QED
  BY <1>1, <1>2, PTL DEF Spec

(* Nobody reads what was not committed, or what was given up. *)
THEOREM OnlyKeptIsSeen == Spec => []SeenIsKept
<1>1. ASSUME IInv PROVE SeenIsKept
  <2> SUFFICES ASSUME NEW c \in Clients, NEW i \in Ids, View(c)[i] \in Payloads
               PROVE  View(c)[i] \in kept \/ (InTx(c) /\ View(c)[i] \in Staged(c))
    BY DEF SeenIsKept
  <2>1. CASE InStore(c, i)
    <3>1. View(c)[i] = data[i]
      BY Zenon, <2>1 DEF View
    <3> QED
      BY Zenon, <1>1, <3>1, StoreAssumption DEF IInv, DataKept
  <2>2. CASE ~InStore(c, i)
    <3>1. View(c)[i] = Top(c)[i] /\ InTx(c)
      BY Zenon, <2>2 DEF View, InStore
    <3> QED
      BY Zenon, <3>1 DEF Staged
  <2> QED
    BY <2>1, <2>2
<1> QED
  BY <1>1, StoreInvariant, PTL

(* An Insert overwrites only what was stored after it had looked. *)
THEOREM InsertsTakeFreeIds == Spec => []InsertTakesFreeId
<1>1. IInv => InsertTakesFreeId
  BY DEF IInv
<1> QED
  BY <1>1, StoreInvariant, PTL

(* A batch becomes visible as a whole, or not at all. *)
THEOREM BatchesAreWhole == Spec => BatchWhole
<1> DEFINE Whole ==
      \A c \in Clients : InTx(c) /\ Staged(c) \cap (kept' \ kept) # {} =>
        /\ \A i \in StagedIds(c) : data'[i] = Top(c)[i]
        /\ \A i \in Ids \ StagedIds(c) : data'[i] = data[i]
        /\ tx'[c] = Popped(tx[c])
<1>1. ASSUME IInv, [Next]_vars PROVE Whole
  <2> SUFFICES ASSUME NEW c \in Clients, InTx(c),
                      NEW p \in Staged(c), p \in kept', p \notin kept
               PROVE  Commit(c)
    <3>1. ASSUME NEW c \in Clients, InTx(c), Commit(c)
          PROVE  /\ \A i \in StagedIds(c) : data'[i] = Top(c)[i]
                 /\ \A i \in Ids \ StagedIds(c) : data'[i] = data[i]
                 /\ tx'[c] = Popped(tx[c])
      <4>1. /\ data' = View(c) /\ tx' = [tx EXCEPT ![c] = Popped(@)]
            /\ tx \in [Clients -> Seq(Stagings)]
        BY Zenon, <1>1, <3>1 DEF Commit, IInv, Typed
      <4>2. \A i \in Ids : data'[i] = IF Top(c)[i] = Unstaged THEN data[i] ELSE Top(c)[i]
        BY Zenon, <3>1, <4>1 DEF View, InStore
      <4>3. tx'[c] = Popped(tx[c])
        BY Zenon, <4>1
      <4> QED
        BY Zenon, <4>2, <4>3 DEF StagedIds
    <3>2. ASSUME NEW c \in Clients, InTx(c), Staged(c) \cap (kept' \ kept) # {}
          PROVE  Commit(c)
      <4>1. PICK p \in Staged(c) : p \in kept' /\ p \notin kept
        BY ZenonT(60), <3>2
      <4> QED
        BY <3>2, <4>1
    <3> QED
      BY Zenon, <3>1, <3>2
  <2>1. ASSUME NEW d \in Clients, InTx(d), NEW q \in Staged(d)
        PROVE  q[1] = d /\ q[2] <= writes
    <3>1. PICK i \in Ids : q = Top(d)[i] /\ q \in Payloads
      BY <2>1 DEF Staged
    <3>2. Len(tx[d]) \in 1..Len(tx[d])
      BY <1>1, <2>1, TopTyped DEF IInv
    <3> QED
      BY <1>1, <3>1, <3>2 DEF Top, IInv, OwnStaged
  <2>2. ASSUME NEW d \in Clients, NEW i \in Ids, writes < MaxWrites, Write(d, i)
        PROVE  FALSE
    <3>1. p = Payload(d)
      BY <2>2 DEF Write
    <3>2. Payload(d)[2] = writes + 1 /\ writes \in Nat
      BY <1>1, <2>2, FreshPayload
    <3>3. p[2] <= writes
      BY <2>1
    <3> QED
      BY <3>1, <3>2, <3>3
  <2>3. ASSUME NEW d \in Clients, Commit(d)
        PROVE  d = c
    BY <2>1, <2>3 DEF Commit
  <2>4. kept' # kept
    OBVIOUS
  <2>5. PICK d \in Clients : Commit(d) \/ InsertWrite(d) \/ \E i \in Ids : Replace(d, i)
    BY ZenonT(60), <1>1, <2>4 DEF Next, Insert, Delete, Begin, Drop, vars
  <2>6. ~InsertWrite(d)
    BY <1>1, <2>2 DEF InsertWrite, IInv, Typed
  <2>7. ~\E i \in Ids : Replace(d, i)
    BY <2>2 DEF Replace
  <2> QED
    BY <2>3, <2>5, <2>6, <2>7
<1>2. IInv /\ [Next]_vars => [Whole]_vars
  BY <1>1
<1> QED
  BY <1>2, StoreInvariant, PTL DEF Spec, BatchWhole
=============================================================================
