------------------------------- MODULE Config -------------------------------
(***************************************************************************)
(* Loading and linting of the process configuration (internal/core/config) *)
(* as operators over an environment.                                       *)
(*                                                                         *)
(* An environment is a function from some setting names to raw text; a     *)
(* name outside its domain is unset.  Raw text is abstracted to what the   *)
(* code tells apart: "" (set, empty), "blank" (only white space), "bad"    *)
(* (text the setting's parser or validator rejects), "," (a list of empty  *)
(* entries) and well-formed values.  Numbers, durations and ratios are the *)
(* ranks neg < zero < low < mid < high: "low" is below a setting's lower   *)
(* limit above zero and "high" above its upper limit, where it has one.    *)
(* A loaded configuration is a function over Settings.                     *)
(***************************************************************************)
EXTENDS Naturals, Sequences

-----------------------------------------------------------------------------
(* The settings, by the getter that reads them. *)

HTTPBools ==
    {"HTTP_MIDDLEWARE_REQUEST_ID_ENABLED", "HTTP_MIDDLEWARE_RECOVERER_ENABLED",
     "HTTP_MIDDLEWARE_SECURITY_HEADERS_ENABLED", "HTTP_MIDDLEWARE_ACCESS_LOG_ENABLED",
     "HTTP_MIDDLEWARE_ACCESS_LOG_INCLUDE_USER_AGENT",
     "HTTP_MIDDLEWARE_ACCESS_LOG_INCLUDE_REMOTE_IP", "HTTP_MIDDLEWARE_CORS_ENABLED",
     "HTTP_MIDDLEWARE_CORS_ALLOW_CREDENTIALS", "HTTP_MIDDLEWARE_CORS_ALLOW_PRIVATE_NETWORK"}

HTTPTimeouts ==
    {"HTTP_READ_HEADER_TIMEOUT", "HTTP_READ_TIMEOUT", "HTTP_WRITE_TIMEOUT",
     "HTTP_IDLE_TIMEOUT", "HTTP_SHUTDOWN_TIMEOUT"}

HTTPNums ==
    HTTPTimeouts \cup
    {"HTTP_MAX_HEADER_BYTES", "HTTP_MIDDLEWARE_MAX_BODY_BYTES",
     "HTTP_MIDDLEWARE_REQUEST_TIMEOUT", "HTTP_MIDDLEWARE_ACCESS_LOG_SAMPLE_RATE",
     "HTTP_MIDDLEWARE_ACCESS_LOG_SLOW_THRESHOLD", "HTTP_MIDDLEWARE_CORS_MAX_AGE"}

PathLists ==
    {"HTTP_MIDDLEWARE_ACCESS_LOG_EXCLUDE_PATHS", "HTTP_MIDDLEWARE_TRACING_EXCLUDE_PATHS",
     "METRICS_EXCLUDE_PATHS"}

OriginLists ==
    {"HTTP_MIDDLEWARE_CORS_ALLOW_ORIGINS", "HTTP_MIDDLEWARE_CORS_DENY_ORIGINS"}

TokenLists ==
    {"HTTP_MIDDLEWARE_CORS_ALLOW_METHODS", "HTTP_MIDDLEWARE_CORS_ALLOW_HEADERS",
     "HTTP_MIDDLEWARE_CORS_EXPOSE_HEADERS"}

Lists == PathLists \cup OriginLists \cup TokenLists \cup {"HTTP_TRUSTED_PROXIES"}

AuthFeatureFlags ==
    {"AUTH_REGISTRATION_ENABLED", "AUTH_PASSWORD_RESET_ENABLED",
     "AUTH_EMAIL_VERIFICATION_ENABLED", "AUTH_TOTP_ENABLED"}

AuthBools ==
    AuthFeatureFlags \cup
    {"AUTH_ENABLED", "AUTH_REGISTRATION_AUTO_LOGIN", "AUTH_EMAIL_VERIFICATION_REQUIRED"}

PostgresNums ==
    {"POSTGRES_MAX_CONNS", "POSTGRES_MIN_CONNS", "POSTGRES_CONN_MAX_LIFETIME",
     "POSTGRES_CONN_MAX_IDLE_TIME", "POSTGRES_STARTUP_PING_TIMEOUT",
     "POSTGRES_HEALTH_CHECK_TIMEOUT"}

RedisTimeouts ==
    {"REDIS_DIAL_TIMEOUT", "REDIS_READ_TIMEOUT", "REDIS_WRITE_TIMEOUT",
     "REDIS_STARTUP_PING_TIMEOUT", "REDIS_HEALTH_CHECK_TIMEOUT"}

RedisNums == RedisTimeouts \cup {"REDIS_DB", "REDIS_POOL_SIZE", "REDIS_MIN_IDLE_CONNS"}

Bools ==
    HTTPBools \cup AuthBools \cup
    {"RATELIMIT_ENABLED", "RATELIMIT_FAIL_OPEN", "CACHE_ENABLED", "CACHE_FAIL_OPEN",
     "POSTGRES_ENABLED", "REDIS_ENABLED", "METRICS_ENABLED", "TRACING_ENABLED",
     "TRACING_INSECURE", "NOTIFY_LOG_SECRETS"}

Nums ==
    HTTPNums \cup PostgresNums \cup RedisNums \cup
    {"RATELIMIT_DEFAULT_LIMIT", "RATELIMIT_DEFAULT_WINDOW", "CACHE_DEFAULT_MAX_BYTES",
     "CACHE_TAG_VERSION_CACHE_TTL", "TRACING_SAMPLE_RATIO", "NOTIFY_TIMEOUT", "SMTP_PORT"}

\* Text settings with the value Load falls back to.
TextDefault ==
    [APP_ENV |-> "dev", APP_SERVICE_NAME |-> "api-template", HTTP_ADDR |-> ":8080",
     LOG_LEVEL |-> "info", LOG_FORMAT |-> "json", AUTH_MODE |-> "hybrid",
     AUTH_TOTP_ISSUER |-> "", AUTH_TOTP_ENCRYPTION_KEY |-> "",
     AUTH_TOTP_ENCRYPTION_KEYS |-> "", AUTH_TOTP_ENCRYPTION_ACTIVE_KID |-> "",
     POSTGRES_URL |-> "", REDIS_ADDR |-> "addr", METRICS_PATH |-> "/metrics",
     METRICS_AUTH_TOKEN |-> "", TRACING_SERVICE_NAME |-> "", TRACING_EXPORTER |-> "otlpgrpc",
     TRACING_OTLP_ENDPOINT |-> "addr", TRACING_SAMPLER |-> "traceidratio",
     NOTIFY_DRIVER |-> "noop", SMTP_TLS |-> "starttls", SMTP_HOST |-> "",
     SMTP_USERNAME |-> "", SMTP_PASSWORD |-> "", SMTP_FROM |-> "",
     NOTIFY_RESET_URL |-> "", NOTIFY_VERIFY_URL |-> ""]

Texts == DOMAIN TextDefault

\* Text settings Load stores without surrounding white space.
Trimmed ==
    {"AUTH_TOTP_ISSUER", "AUTH_TOTP_ENCRYPTION_KEY", "AUTH_TOTP_ENCRYPTION_KEYS",
     "AUTH_TOTP_ENCRYPTION_ACTIVE_KID", "NOTIFY_DRIVER", "SMTP_TLS", "SMTP_HOST", "SMTP_FROM",
     "NOTIFY_RESET_URL", "NOTIFY_VERIFY_URL"}

Settings == Bools \cup Nums \cup Lists \cup Texts

-----------------------------------------------------------------------------
(* Reading the environment. *)

Rank == [neg |-> 0, zero |-> 1, low |-> 2, mid |-> 3, high |-> 4]

\* os.Getenv: an unset name reads as the empty string.
Getenv(env, k) == IF k \in DOMAIN env THEN env[k] ELSE ""

TrimSpace(v) == IF v = "blank" THEN "" ELSE v

\* Compared without white space around it and without regard to case.
IsProd(appEnv) == appEnv \in {"prod", "production"}
IsDevOrTest(appEnv) == appEnv \in {"dev", "development", "local", "test"}

EverythingOn ==
    [AUTH_ENABLED |-> "true", CACHE_ENABLED |-> "true", RATELIMIT_ENABLED |-> "true",
     RATELIMIT_DEFAULT_LIMIT |-> "mid", RATELIMIT_DEFAULT_WINDOW |-> "mid",
     POSTGRES_ENABLED |-> "true", POSTGRES_URL |-> "url",
     REDIS_ENABLED |-> "true", REDIS_ADDR |-> "addr"]

\* A profile that has the stores and all they serve on.
Everything(more) ==
    [k \in DOMAIN EverythingOn \cup DOMAIN more |->
        IF k \in DOMAIN more THEN more[k] ELSE EverythingOn[k]]

\* profileDefaults: the values APP_PROFILE supplies for unset settings.
ProfileDefaults ==
    [minimal |-> [APP_ENV |-> "dev", AUTH_ENABLED |-> "false", CACHE_ENABLED |-> "false",
                  RATELIMIT_ENABLED |-> "false", POSTGRES_ENABLED |-> "false",
                  REDIS_ENABLED |-> "false"],
     dev |-> Everything([APP_ENV |-> "dev", AUTH_MODE |-> "jwt_only",
                         CACHE_FAIL_OPEN |-> "true", RATELIMIT_FAIL_OPEN |-> "true"]),
     prod |-> Everything([APP_ENV |-> "prod", AUTH_MODE |-> "strict",
                          CACHE_FAIL_OPEN |-> "false", RATELIMIT_FAIL_OPEN |-> "false",
                          METRICS_AUTH_TOKEN |-> "token"])]

\* resolveProfileDefaults accepts no profile or a known one.
ProfileKnown(env) == TrimSpace(Getenv(env, "APP_PROFILE")) \in {""} \cup DOMAIN ProfileDefaults

ProfileOf(env) ==
    LET p == TrimSpace(Getenv(env, "APP_PROFILE"))
    IN  IF p \in DOMAIN ProfileDefaults THEN ProfileDefaults[p] ELSE <<>>

\* The fallback of a setting; some fallbacks follow APP_ENV.
DefaultOf(k, prod) ==
    CASE k \in {"HTTP_MIDDLEWARE_REQUEST_ID_ENABLED", "HTTP_MIDDLEWARE_RECOVERER_ENABLED",
                "HTTP_MIDDLEWARE_ACCESS_LOG_ENABLED", "AUTH_EMAIL_VERIFICATION_REQUIRED",
                "METRICS_ENABLED"} -> "true"
      [] k = "HTTP_MIDDLEWARE_SECURITY_HEADERS_ENABLED" -> IF prod THEN "true" ELSE "false"
      [] k \in {"RATELIMIT_FAIL_OPEN", "CACHE_FAIL_OPEN", "TRACING_INSECURE"} ->
             IF prod THEN "false" ELSE "true"
      [] k \in PathLists -> "ok"
      [] k \in Lists \ PathLists -> "none"
      [] k \in Texts -> TextDefault[k]
      [] k \in Nums ->
             IF k \in {"HTTP_MIDDLEWARE_REQUEST_TIMEOUT", "HTTP_MIDDLEWARE_CORS_MAX_AGE",
                       "POSTGRES_MIN_CONNS", "REDIS_DB", "REDIS_MIN_IDLE_CONNS"}
             THEN "zero" ELSE "mid"
      [] OTHER -> "false"

\* getenv and getCSV ask the profile when the environment has no text for the
\* setting; for a list, white space is no text.
RawOf(env, k) ==
    LET v == IF k \in Lists THEN TrimSpace(Getenv(env, k)) ELSE Getenv(env, k)
        p == ProfileOf(env)
    IN  IF v = "" /\ k \in DOMAIN p THEN p[k] ELSE v

\* What the parser of a setting understands: strconv.ParseBool, the numeric and
\* duration parsers; any text is a string; a list drops its empty entries.
Parses(k, v) ==
    /\ k \in Bools => v \in {"true", "false"}
    /\ k \in Nums  => v \in DOMAIN Rank
    /\ k \in Lists => v # ","

\* getenv, getBool, getInt, getDuration, getFloat64, getCSV: text that does not
\* parse is read as the fallback, not as the profile's value.
Get(env, k, prod) ==
    LET v == RawOf(env, k)
    IN  IF v = "" \/ ~Parses(k, v) THEN DefaultOf(k, prod) ELSE v

\* Load, once the profile is known.
Load(env) ==
    LET prod == IsProd(Get(env, "APP_ENV", FALSE))
        read == [k \in Settings |->
                    LET v == Get(env, k, prod) IN IF k \in Trimmed THEN TrimSpace(v) ELSE v]
        OrService(k) == IF read[k] = "" THEN read["APP_SERVICE_NAME"] ELSE read[k]
    IN  [read EXCEPT !["TRACING_SERVICE_NAME"] = OrService("TRACING_SERVICE_NAME"),
                     !["AUTH_TOTP_ISSUER"] = OrService("AUTH_TOTP_ISSUER")]

On(c, k) == c[k] = "true"
AtLeast(c, k, bound) == Rank[c[k]] >= Rank[bound]
Within01(c, k) == c[k] \in {"zero", "low", "mid"}

-----------------------------------------------------------------------------
(* Lint.  Every check returns an error at the first thing it refuses, so   *)
(* the outcome is the conjunction of the checks.                           *)

LintHTTP(c) ==
    /\ c["APP_SERVICE_NAME"] # ""
    /\ TrimSpace(c["HTTP_ADDR"]) # ""
    /\ \A k \in HTTPTimeouts : AtLeast(c, k, "low")
    /\ AtLeast(c, "HTTP_MAX_HEADER_BYTES", "mid")
    /\ AtLeast(c, "HTTP_MIDDLEWARE_MAX_BODY_BYTES", "zero")
    /\ AtLeast(c, "HTTP_MIDDLEWARE_REQUEST_TIMEOUT", "zero")
    /\ AtLeast(c, "HTTP_WRITE_TIMEOUT", c["HTTP_MIDDLEWARE_REQUEST_TIMEOUT"])
    /\ Within01(c, "HTTP_MIDDLEWARE_ACCESS_LOG_SAMPLE_RATE")
    /\ AtLeast(c, "HTTP_MIDDLEWARE_ACCESS_LOG_SLOW_THRESHOLD", "zero")
    /\ AtLeast(c, "HTTP_MIDDLEWARE_CORS_MAX_AGE", "zero")
    /\ ~(/\ On(c, "HTTP_MIDDLEWARE_CORS_ALLOW_CREDENTIALS")
         /\ c["HTTP_MIDDLEWARE_CORS_ALLOW_ORIGINS"] = "*")
    /\ AtLeast(c, "CACHE_TAG_VERSION_CACHE_TTL", "zero")

\* validateOrigins, validateTokens, validateTrustedProxies and the loops over
\* excluded paths: no list keeps an entry its use could not read.
LintLists(c) == \A k \in Lists : c[k] # "bad"

ModeNames == {"jwt_only", "hybrid", "strict", ""}

LintAuthMode(c) == TrimSpace(c["AUTH_MODE"]) \in ModeNames

LintAuthStores(c) == On(c, "AUTH_ENABLED") => On(c, "REDIS_ENABLED") /\ On(c, "POSTGRES_ENABLED")

-----------------------------------------------------------------------------
(* The TOTP key settings.  A key list is a sequence of entries: a key id   *)
(* ("" or "bad" when it is none) and the text of its key.                  *)

KeyLists ==
    [one      |-> <<[kid |-> "k1", key |-> "key32"]>>,
     two      |-> <<[kid |-> "k1", key |-> "key32"], [kid |-> "k2", key |-> "key32"]>>,
     twice    |-> <<[kid |-> "k1", key |-> "key32"], [kid |-> "k1", key |-> "key32"]>>,
     takes    |-> <<[kid |-> "default", key |-> "key32"]>>,
     stray    |-> <<[kid |-> "k1", key |-> "key32"], [kid |-> "", key |-> ""]>>,
     badKid   |-> <<[kid |-> "bad", key |-> "key32"]>>,
     shortKey |-> <<[kid |-> "k1", key |-> "short"]>>]

\* DecodeKey32: base64 of exactly 32 bytes.
DecodesTo32(text) == text = "key32"

\* AuthConfig.TOTPKeyring: the ids of the ring and the active one, or no ring.
TOTPKeyring(c) ==
    LET single == c["AUTH_TOTP_ENCRYPTION_KEY"]
        list   == c["AUTH_TOTP_ENCRYPTION_KEYS"]
        active == c["AUTH_TOTP_ENCRYPTION_ACTIVE_KID"]
        es     == IF list \in DOMAIN KeyLists THEN KeyLists[list] ELSE <<>>
        own    == IF single = "" THEN {} ELSE {"default"}
        kids   == own \cup {es[i].kid : i \in DOMAIN es}
        EntryOK(i) == /\ es[i].kid \notin {"", "bad"}
                      /\ es[i].kid \notin own \cup {es[j].kid : j \in 1..(i - 1)}
                      /\ DecodesTo32(es[i].key)
    IN  CASE single = "" /\ list = "" -> [ok |-> FALSE, kids |-> {}, active |-> ""]
          [] single # "" /\ list = "" ->
               [ok     |-> DecodesTo32(single) /\ active \in {"", "default"},
                kids   |-> kids, active |-> "default"]
          [] OTHER ->
               [ok     |-> /\ single = "" \/ DecodesTo32(single)
                           /\ list \in DOMAIN KeyLists
                           /\ \A i \in DOMAIN es : EntryOK(i)
                           /\ active \in kids,
                kids   |-> kids, active |-> active]

TestOverrideKeys == {"AUTH_TEST_SHARED_SECRET", "AUTH_TEST_ACCESS_TTL", "AUTH_TEST_REFRESH_TTL"}

TestOverridesAllowed(c) == IsDevOrTest(c["APP_ENV"])

NoTestOverrides(env) == \A k \in TestOverrideKeys : TrimSpace(Getenv(env, k)) = ""

LintAuthFeatures(env, c) ==
    /\ \A k \in AuthFeatureFlags : On(c, k) => On(c, "AUTH_ENABLED")
    /\ On(c, "AUTH_REGISTRATION_AUTO_LOGIN") => On(c, "AUTH_REGISTRATION_ENABLED")
    /\ On(c, "AUTH_TOTP_ENABLED") => TOTPKeyring(c).ok
    /\ ~TestOverridesAllowed(c) => NoTestOverrides(env)

-----------------------------------------------------------------------------
(* WebAuthn: a relying party id is its sequence of labels by kind.         *)

RPIDs ==
    [localhost |-> <<"localhost">>,       domain  |-> <<"name", "name">>,
     single    |-> <<"name">>,            dotted  |-> <<"name", "empty">>,
     hyphened  |-> <<"hyphen", "name">>,  longest |-> <<"long", "name">>,
     url       |-> <<"colon", "name">>,   control |-> <<"name", "control">>,
     unicode   |-> <<"name", "unicode">>, numbered |-> <<"name", "number">>,
     address   |-> <<"number", "number", "number", "number">>]

\* ValidateRPID; an IP address is the four numbers of "address".
ValidRPID(id) ==
    LET labels == RPIDs[id]
    IN  /\ id # "address"
        /\ \A i \in DOMAIN labels :
              labels[i] \notin {"empty", "long", "hyphen", "colon", "control", "unicode"}
        /\ labels[Len(labels)] # "number"
        /\ Len(labels) = 1 => id = "localhost"

\* The spellings lintWebAuthn and envBool share; "yes" is no strconv boolean.
Truthy(v) == TrimSpace(v) \in {"true", "yes"}

\* Mutant: Lint understands only the spelling of strconv.
LintWebAuthnStrict(env) ==
    Getenv(env, "WEBAUTHN_ENABLED") = "true" =>
        LET id == TrimSpace(Getenv(env, "WEBAUTHN_RP_ID"))
        IN  id \in DOMAIN RPIDs /\ ValidRPID(id)

LintWebAuthn(env) ==
    Truthy(Getenv(env, "WEBAUTHN_ENABLED")) =>
        LET id == TrimSpace(Getenv(env, "WEBAUTHN_RP_ID"))
        IN  id \in DOMAIN RPIDs /\ ValidRPID(id)

-----------------------------------------------------------------------------
(* Notifications. *)

\* The names notifyDrivers holds: the built-in drivers and smtp, which adds itself.
NotifyDrivers == {"noop", "log", "smtp"}

LintNotifyDriver(c) == c["NOTIFY_DRIVER"] \in NotifyDrivers

LinkTemplates ==
    [link    |-> [space |-> FALSE, tokens |-> 1, scheme |-> "https", host |-> TRUE,  port |-> "none"],
     spaced  |-> [space |-> TRUE,  tokens |-> 1, scheme |-> "https", host |-> TRUE,  port |-> "none"],
     bare    |-> [space |-> FALSE, tokens |-> 0, scheme |-> "https", host |-> TRUE,  port |-> "none"],
     doubled |-> [space |-> FALSE, tokens |-> 2, scheme |-> "https", host |-> TRUE,  port |-> "none"],
     ftp     |-> [space |-> FALSE, tokens |-> 1, scheme |-> "ftp",   host |-> TRUE,  port |-> "none"],
     rooted  |-> [space |-> FALSE, tokens |-> 1, scheme |-> "https", host |-> FALSE, port |-> "none"],
     ported  |-> [space |-> FALSE, tokens |-> 1, scheme |-> "http",  host |-> TRUE,  port |-> "bad"]]

ValidLinkTemplate(name) ==
    /\ name \in DOMAIN LinkTemplates
    /\ LET t == LinkTemplates[name]
       IN  /\ ~t.space
           /\ t.tokens = 1
           /\ t.scheme \in {"http", "https"}
           /\ t.host
           /\ t.port # "bad"

\* Mutant: the links are checked when given, and not required.
LintSMTPNoLinks(c) ==
    c["NOTIFY_DRIVER"] = "smtp" =>
        /\ "" \notin {c["SMTP_HOST"], c["SMTP_FROM"]}
        /\ \A k \in {"NOTIFY_RESET_URL", "NOTIFY_VERIFY_URL"} :
              c[k] # "" => ValidLinkTemplate(c[k])

LintSMTP(c) ==
    c["NOTIFY_DRIVER"] = "smtp" =>
        /\ c["SMTP_HOST"] \notin {"", "bad"}
        /\ c["SMTP_PORT"] \in {"low", "mid"}
        /\ \/ c["SMTP_TLS"] \in {"starttls", "implicit"}
           \/ c["SMTP_TLS"] = "none" /\ c["APP_ENV"] = "dev"
        /\ (c["SMTP_USERNAME"] = "") = (c["SMTP_PASSWORD"] = "")
        /\ "bad" \notin {c["SMTP_USERNAME"], c["SMTP_PASSWORD"]}
        /\ c["SMTP_FROM"] \notin {"", "bad"}
        /\ On(c, "AUTH_PASSWORD_RESET_ENABLED") => c["NOTIFY_RESET_URL"] # ""
        /\ On(c, "AUTH_EMAIL_VERIFICATION_ENABLED") => c["NOTIFY_VERIFY_URL"] # ""
        /\ \A k \in {"NOTIFY_RESET_URL", "NOTIFY_VERIFY_URL"} :
              c[k] # "" => ValidLinkTemplate(c[k])

\* notifyDeliveryFlags: the enabled features that need a message to arrive.
DeliveryFlags(c) ==
    {k \in {"AUTH_PASSWORD_RESET_ENABLED", "AUTH_EMAIL_VERIFICATION_ENABLED"} : On(c, k)}

UsesNoop(c) == c["NOTIFY_DRIVER"] \in {"", "noop"}

LintNotifyDelivery(c) ==
    DeliveryFlags(c) # {} /\ UsesNoop(c) => IsDevOrTest(c["APP_ENV"])

LintNotify(c) ==
    /\ LintNotifyDriver(c)
    /\ LintSMTP(c)
    /\ LintNotifyDelivery(c)
    /\ On(c, "NOTIFY_LOG_SECRETS") => c["APP_ENV"] = "dev"
    /\ AtLeast(c, "NOTIFY_TIMEOUT", "low")

-----------------------------------------------------------------------------
(* Stores, limits, metrics and tracing. *)

LintLimits(c) ==
    /\ On(c, "RATELIMIT_ENABLED") \/ On(c, "CACHE_ENABLED") => On(c, "REDIS_ENABLED")
    /\ AtLeast(c, "RATELIMIT_DEFAULT_LIMIT", "low")
    /\ AtLeast(c, "RATELIMIT_DEFAULT_WINDOW", "low")
    /\ AtLeast(c, "CACHE_DEFAULT_MAX_BYTES", "low")

LintFailOpen(c) ==
    IsProd(c["APP_ENV"]) =>
        /\ ~(On(c, "RATELIMIT_ENABLED") /\ On(c, "RATELIMIT_FAIL_OPEN"))
        /\ ~(On(c, "CACHE_ENABLED") /\ On(c, "CACHE_FAIL_OPEN"))

LintPostgres(c) ==
    /\ On(c, "POSTGRES_ENABLED") => c["POSTGRES_URL"] # ""
    /\ \A k \in {"POSTGRES_MAX_CONNS", "POSTGRES_STARTUP_PING_TIMEOUT",
                 "POSTGRES_HEALTH_CHECK_TIMEOUT"} : AtLeast(c, k, "low")
    /\ \A k \in {"POSTGRES_MIN_CONNS", "POSTGRES_CONN_MAX_LIFETIME",
                 "POSTGRES_CONN_MAX_IDLE_TIME"} : AtLeast(c, k, "zero")
    /\ AtLeast(c, "POSTGRES_MAX_CONNS", c["POSTGRES_MIN_CONNS"])

LintRedis(c) ==
    /\ On(c, "REDIS_ENABLED") => c["REDIS_ADDR"] # ""
    /\ \A k \in RedisTimeouts \cup {"REDIS_POOL_SIZE"} : AtLeast(c, k, "low")
    /\ \A k \in {"REDIS_DB", "REDIS_MIN_IDLE_CONNS"} : AtLeast(c, k, "zero")
    /\ AtLeast(c, "REDIS_POOL_SIZE", c["REDIS_MIN_IDLE_CONNS"])

\* Mutant: this guard knows only one of the two names of production.
LintMetricsOneName(c) ==
    /\ c["METRICS_PATH"] \notin {"", "blank", "bad"}
    /\ c["APP_ENV"] = "prod" /\ On(c, "METRICS_ENABLED") => TrimSpace(c["METRICS_AUTH_TOKEN"]) # ""

LintMetrics(c) ==
    /\ c["METRICS_PATH"] \notin {"", "blank", "bad"}
    /\ IsProd(c["APP_ENV"]) /\ On(c, "METRICS_ENABLED") => TrimSpace(c["METRICS_AUTH_TOKEN"]) # ""

LintTracing(c) ==
    On(c, "TRACING_ENABLED") =>
        /\ c["TRACING_SERVICE_NAME"] # ""
        /\ c["TRACING_OTLP_ENDPOINT"] # ""
        /\ c["TRACING_EXPORTER"] = "otlpgrpc"
        /\ c["TRACING_SAMPLER"] \in {"always_on", "always_off", "traceidratio"}
        /\ Within01(c, "TRACING_SAMPLE_RATIO")

LogLevels == {"debug", "info", "warn", "warning", "error", "fatal", ""}

LintLog(c) ==
    /\ c["LOG_LEVEL"] \in LogLevels
    /\ c["LOG_FORMAT"] \in {"json", "text", ""}

\* The settings Lint reads again from the environment to refuse text that Load
\* replaced by a fallback.
HTTPFormats == HTTPBools \cup HTTPNums
StoreFormats == PostgresNums \cup RedisNums \cup {"POSTGRES_ENABLED", "REDIS_ENABLED"}
OtherFormats ==
    {"AUTH_ENABLED", "RATELIMIT_ENABLED", "RATELIMIT_FAIL_OPEN", "RATELIMIT_DEFAULT_LIMIT",
     "RATELIMIT_DEFAULT_WINDOW", "CACHE_TAG_VERSION_CACHE_TTL", "METRICS_ENABLED",
     "TRACING_ENABLED", "TRACING_SAMPLE_RATIO", "TRACING_INSECURE"}

\* Mutant: the stores' settings are not read again.
FormatLintedNoStores == HTTPFormats \cup OtherFormats

FormatLinted == HTTPFormats \cup StoreFormats \cup OtherFormats

\* lintBoolEnv, lintIntEnv, lintDurationEnv, lintFloat64Env and the inline ones:
\* a setting that is set must parse, the empty text included.
LintFormats(env) ==
    /\ \A k \in FormatLinted \cap DOMAIN env : Parses(k, env[k])
    /\ "HTTP_ADDR" \in DOMAIN env => TrimSpace(env["HTTP_ADDR"]) # ""

Lint(env, c) ==
    /\ ProfileKnown(env)
    /\ LintHTTP(c) /\ LintLists(c)
    /\ LintAuthMode(c) /\ LintAuthStores(c) /\ LintAuthFeatures(env, c)
    /\ LintWebAuthn(env) /\ LintNotify(c)
    /\ LintLimits(c) /\ LintFailOpen(c)
    /\ LintPostgres(c) /\ LintRedis(c)
    /\ LintMetrics(c) /\ LintTracing(c)
    /\ LintFormats(env) /\ LintLog(c)
=============================================================================
