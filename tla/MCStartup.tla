----------------------------- MODULE MCStartup ------------------------------
(***************************************************************************)
(* Environments for TLC.  Singles changes every setting on its own, under  *)
(* several profiles and values of APP_ENV; the other families combine the  *)
(* settings one check relates.                                             *)
(***************************************************************************)
EXTENDS Startup, TLC

Unset == "unset"

\* An environment from a function that may leave names unset.
Set(f) == [k \in {x \in DOMAIN f : f[x] # Unset} |-> f[k]]

AppEnvs == {Unset, "blank", "dev", "development", "local", "staging", "prod", "production"}
Profiles == {Unset, "minimal", "dev", "prod", "other"}

TextValues ==
    [APP_SERVICE_NAME |-> {"name"}, HTTP_ADDR |-> {"addr"}, LOG_LEVEL |-> {"warn", "bad"},
     LOG_FORMAT |-> {"text", "bad"}, AUTH_MODE |-> {"strict", "bad"},
     AUTH_TOTP_ISSUER |-> {"name"}, POSTGRES_URL |-> {"url"}, REDIS_ADDR |-> {"addr"},
     METRICS_PATH |-> {"/metrics", "bad"}, METRICS_AUTH_TOKEN |-> {"token"},
     TRACING_SERVICE_NAME |-> {"name"}, TRACING_EXPORTER |-> {"bad"},
     TRACING_OTLP_ENDPOINT |-> {"addr"}, TRACING_SAMPLER |-> {"always_on", "bad"},
     NOTIFY_DRIVER |-> {"log", "smtp", "bad"}, AUTH_LIMITER_WINDOW_MODE |-> {"sliding", "bad"},
     AUTH_MAX_SESSION_DURATION |-> {"neg", "low", "mid", "bad"},
     AUTH_TEST_SHARED_SECRET |-> {"secret"}, AUTH_TEST_ACCESS_TTL |-> {"mid"},
     AUTH_TEST_REFRESH_TTL |-> {"bad"}, WEBAUTHN_RP_ID |-> {"localhost"},
     WEBAUTHN_ENABLED |-> {"yes", "false", "bad"}]

ValuesOf(k) ==
    {"", "blank"} \cup
    (CASE k \in Bools -> {"true", "false", "bad"}
       [] k \in Nums  -> DOMAIN Rank \cup {"bad"}
       [] k \in Lists -> {"ok", "bad", ",", "*"}
       [] OTHER       -> TextValues[k])

Base == [APP_ENV : AppEnvs, APP_PROFILE : Profiles]

Singles ==
    UNION {{Set(b @@ (k :> v)) : b \in [APP_ENV : {Unset, "staging", "production"},
                                         APP_PROFILE : {Unset, "dev", "prod"}], v \in ValuesOf(k)} :
              k \in Bools \cup Nums \cup Lists \cup DOMAIN TextValues}

\* The switches of the stores and of what runs on them.
Switches ==
    [APP_ENV : {"dev", "prod", "production"}, APP_PROFILE : {Unset, "dev", "prod"},
     AUTH_ENABLED : {Unset, "true", "bad"}, REDIS_ENABLED : {Unset, "true", "false"},
     POSTGRES_ENABLED : {Unset, "true", "false"}, CACHE_ENABLED : {Unset, "true", "bad"},
     RATELIMIT_ENABLED : {Unset, "true"}, RATELIMIT_FAIL_OPEN : {Unset, "true"},
     POSTGRES_URL : {"url"}, METRICS_AUTH_TOKEN : {Unset, "token"}]

\* Features that send messages, and how the messages leave.
Mail ==
    [APP_ENV : {"dev", "development", "staging", "prod", "production"}, APP_PROFILE : {"dev", "prod"},
     METRICS_AUTH_TOKEN : {"token"}, CACHE_FAIL_OPEN : {"false"}, RATELIMIT_FAIL_OPEN : {"false"},
     AUTH_PASSWORD_RESET_ENABLED : {Unset, "true"}, AUTH_EMAIL_VERIFICATION_ENABLED : {Unset, "true"},
     AUTH_REGISTRATION_ENABLED : {"true"}, AUTH_REGISTRATION_AUTO_LOGIN : {Unset, "true"},
     NOTIFY_DRIVER : {Unset, "log", "smtp"}, NOTIFY_LOG_SECRETS : {Unset, "true"},
     SMTP_HOST : {"host"}, SMTP_FROM : {"from"}, SMTP_TLS : {Unset, "none", "bad"},
     NOTIFY_RESET_URL : {Unset, "link", "bare"}, NOTIFY_VERIFY_URL : {Unset, "link"}]

SMTPSingles ==
    LET base == [APP_PROFILE |-> "dev", NOTIFY_DRIVER |-> "smtp", SMTP_HOST |-> "host",
                 SMTP_FROM |-> "from", SMTP_USERNAME |-> "user", SMTP_PASSWORD |-> "pass",
                 NOTIFY_VERIFY_URL |-> "link", AUTH_EMAIL_VERIFICATION_ENABLED |-> "true"]
    IN  {[base EXCEPT ![k] = v] : k \in {"SMTP_HOST", "SMTP_FROM", "SMTP_USERNAME", "SMTP_PASSWORD"},
                                  v \in {"", "blank", "bad"}}
        \cup {[base EXCEPT !["NOTIFY_VERIFY_URL"] = v] : v \in DOMAIN LinkTemplates \cup {""}}

Keys ==
    [APP_PROFILE : {"dev"}, AUTH_TOTP_ENABLED : {"true"},
     AUTH_TOTP_ENCRYPTION_KEY : {Unset, "blank", "key32", "short"},
     AUTH_TOTP_ENCRYPTION_KEYS : {Unset, "bad"} \cup DOMAIN KeyLists,
     AUTH_TOTP_ENCRYPTION_ACTIVE_KID : {Unset, "default", "k1", "k2"}]

Signers ==
    [APP_ENV : {"development", "local", "test", "staging"}, APP_PROFILE : {"dev"},
     AUTH_TEST_SHARED_SECRET : {Unset, "blank", "secret"}, AUTH_KEY_ID : {Unset, "s1", "s2"},
     AUTH_VERIFY_KEYS : {Unset} \cup DOMAIN VerifyKeyLists,
     WEBAUTHN_ENABLED : {Unset, "yes"}, WEBAUTHN_RP_ID : {Unset} \cup DOMAIN RPIDs]

Tenancies ==
    [APP_PROFILE : {"minimal", "dev"}, TENANCY_ENABLED : {"true", "bad"},
     TENANCY_RESOLVER : {Unset, "blank", "subdomain", "bad"}, TENANCY_HEADER : {Unset, "blank", "bad"},
     TENANCY_BASE_DOMAIN : {Unset, "domain"}, TENANCY_VALIDATE : {Unset, "false", "bad"},
     TENANCY_VALIDATE_CACHE_TTL : {Unset, "neg", "zero"}, TENANCY_EXEMPT_PATHS : {Unset, ",", "bad"}]

MCEnvs ==
    {Set(b) : b \in Base} \cup Singles \cup SMTPSingles
    \cup {Set(e) : e \in Switches} \cup {Set(e) : e \in Mail} \cup {Set(e) : e \in Keys}
    \cup {Set(e) : e \in Signers} \cup {Set(e) : e \in Tenancies}
=============================================================================
