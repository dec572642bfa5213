------------------------------ MODULE Startup ------------------------------
(***************************************************************************)
(* The start of a service: paycloudhelper::init, which loads .env, sets the     *)
(* identity of the process (pc-config, pc-core) and the sampler (pc-log), as    *)
(* often as it is called; pc_sentry::init with the options from the environment; *)
(* the pools (Resources); then the service is up and answers health checks.      *)
(*                                                                         *)
(* Main does this step by step while the other threads log lines (Sentry); a    *)
(* health check (Health) is polled by any thread.                              *)
(***************************************************************************)
EXTENDS Sentry, Health, Resources

CONSTANTS Environs,   \* the environments the operator may give
          Disks,      \* the .env files there may be, by place
          NoFile,     \* no file at a place
          Bad,        \* a line of a file that does not parse
          Aliases,    \* AUDITTRAIL_KEY_ALIASES: a set of sets of names
          Flags       \* values of the LOG_FORWARD_* variables

(* Where find_env_path looks, in this order: the two overrides, the working     *)
(* directory, up to five parents, the directory of the binary, two mounts.      *)
SearchOrder == <<"ENV_FILE", "DOTENV_PATH", "cwd", "parents", "exe", "/app", "/">>

ASSUME StartupAssumption ==
    /\ {SearchOrder[i] : i \in DOMAIN SearchOrder}
          \union {"develop", "staging", "production"} \subseteq STRING
    /\ \A e \in Environs :
        /\ {"APP_NAME", "APP_ENV", "APP_MODE", "SENTRY_DSN", "SENTRY_ENVIRONMENT",
             "REDIS_HOST", "REDIS_PORT", "REDIS_DB", "DB_DSN", "DB_MAX_OPEN_CONN",
             "DB_MAX_IDLE_CONN", "DB_CONN_MAX_LIFETIME", "DB_CONN_MAX_IDLE_TIME"}
              \union UNION Aliases \subseteq DOMAIN e
        /\ \A k \in DOMAIN e : e[k] \in STRING \union {None}
    /\ \A disk \in Disks :
        /\ {SearchOrder[i] : i \in DOMAIN SearchOrder} \union {"ancestors"}
              \subseteq DOMAIN disk
        /\ \A p \in DOMAIN disk :
              disk[p] \in Seq((STRING \X STRING) \union {Bad}) \union {NoFile}

VARIABLES main,      \* the next step of Main
          given,     \* the environment the process was started with
          environ,   \* its environment now; None for a variable that is not set
          name,      \* APP_NAME of pc_core::identity
          envRaw,    \* its APP_ENV
          findings,  \* what validate_configuration found last
          sampler    \* the environment the sampler was tuned for, None if it is off

bootVars == <<main, given, environ, name, envRaw, findings, sampler>>
allVars == <<bootVars, sentryVars, resourceVars, healthVars>>

StartupTypeOK ==
    /\ HealthTypeOK
    /\ main \in {"dotenv", "name", "appenv", "validate", "sampler", "forward",
                 "bind", "seed", "redis", "db", "up", "failed"}
    /\ given \in Environs
    /\ DOMAIN environ = DOMAIN given
    /\ findings \subseteq {"APP_NAME", "APP_ENV", "SENTRY_DSN", "RabbitMQ"}

StartupInit ==
    /\ SentryInit /\ HealthInit /\ ResourcesInit
    /\ main = "dotenv"
    /\ given \in Environs /\ environ = given
    /\ name = "" /\ envRaw = ""        \* identity: empty by default
    /\ findings = {} /\ sampler = None

-----------------------------------------------------------------------------
(* find_env_path, with what is on the disk at that moment *)
FindEnvPath(disk) ==
    LET here == {i \in DOMAIN SearchOrder : disk[SearchOrder[i]] # NoFile} IN
    IF here = {} THEN None ELSE SearchOrder[CHOOSE i \in here : \A j \in here : i <= j]

(* The file load_dotenv reads.  Without a path, dotenvy looks in the working     *)
(* directory and all of its ancestors, also beyond the five parents.            *)
EnvFile(disk) ==
    IF FindEnvPath(disk) # None THEN disk[FindEnvPath(disk)]
    ELSE IF disk["ancestors"] # NoFile THEN disk["ancestors"] ELSE <<>>

(* External, dotenvy: a variable that is set, even to "", is left alone; of two    *)
(* lines the first counts; loading stops at a line that does not parse.           *)
LoadDotenv(file, env) ==
    LET read == {i \in DOMAIN file : \A j \in 1..i : file[j] # Bad} IN
    [k \in DOMAIN env |->
        LET at == {i \in read : file[i][1] = k} IN
        IF env[k] # None \/ at = {} THEN env[k]
        ELSE file[CHOOSE i \in at : \A j \in at : i <= j][2]]

(* env_nonempty, and the !v.is_empty() tests *)
NonEmpty(key) == environ[key] \notin {None, ""}
Value(key) == IF NonEmpty(key) THEN environ[key] ELSE ""

(* load_dotenv: a later call may find other files than the first. *)
Dotenv ==
    /\ main = "dotenv"
    /\ \E disk \in Disks : environ' = LoadDotenv(EnvFile(disk), environ)
    /\ main' = "name"
    /\ UNCHANGED <<given, name, envRaw, findings, sampler>>

(* initialize_app: APP_NAME into the identity. *)
SetName ==
    /\ main = "name"
    /\ name' = IF NonEmpty("APP_NAME") THEN environ["APP_NAME"] ELSE name
    /\ main' = "appenv"
    /\ UNCHANGED <<given, environ, envRaw, findings, sampler>>

(* Mutant: the legacy variable first. *)
SetEnv_ModeFirst ==
    /\ main = "appenv"
    /\ envRaw' = IF NonEmpty("APP_MODE") THEN environ["APP_MODE"]
                 ELSE IF NonEmpty("APP_ENV") THEN environ["APP_ENV"] ELSE envRaw
    /\ main' = "validate"
    /\ UNCHANGED <<given, environ, name, findings, sampler>>

(* initialize_app: APP_ENV into the identity, or else APP_MODE. *)
SetEnv ==
    /\ main = "appenv"
    /\ envRaw' = IF NonEmpty("APP_ENV") THEN environ["APP_ENV"]
                 ELSE IF NonEmpty("APP_MODE") THEN environ["APP_MODE"] ELSE envRaw
    /\ main' = "validate"
    /\ UNCHANGED <<given, environ, name, findings, sampler>>

(* count_configured *)
CountConfigured == Cardinality({row \in Aliases : \E key \in row : NonEmpty(key)})

(* validate_configuration *)
ValidateConfiguration ==
    LET app_env == IF NonEmpty("APP_ENV") THEN environ["APP_ENV"] ELSE envRaw IN
    {f \in {"APP_NAME", "APP_ENV", "SENTRY_DSN", "RabbitMQ"} :
        \/ f = "APP_NAME" /\ ~NonEmpty("APP_NAME")
        \/ f = "APP_ENV" /\ app_env \notin {"develop", "staging", "production"}
        \/ f = "SENTRY_DSN" /\ ~NonEmpty("SENTRY_DSN")
        \/ f = "RabbitMQ" /\ CountConfigured < Cardinality(Aliases)}

(* configuration_status: every finding is a warning. *)
ConfigurationStatus == IF ValidateConfiguration = {} THEN "healthy" ELSE "degraded"

(* initialize_app ends; init of the umbrella drops what was found. *)
Validate ==
    /\ main = "validate"
    /\ findings' = ValidateConfiguration
    /\ main' = "sampler"
    /\ UNCHANGED <<given, environ, name, envRaw, sampler>>

(* AppEnv::parse takes the short forms too. *)
AppEnv(raw) ==
    CASE raw \in {"develop", "developement", "dev"} -> "develop"
      [] raw \in {"staging", "stg"} -> "staging"
      [] raw \in {"production", "prod"} -> "production"
      [] OTHER -> None

(* pc_log::init: sampler_config_for_env has no sampling without an environment.    *)
(* Then the service calls init once more, or goes on to Sentry.                   *)
InitSampler ==
    /\ main = "sampler"
    /\ sampler' = AppEnv(envRaw)
    /\ main' \in {"dotenv", "forward"}
    /\ UNCHANGED <<given, environ, name, envRaw, findings>>

Proceed(where) ==
    /\ main' = where
    /\ UNCHANGED <<given, environ, name, envRaw, findings, sampler>>

(* pc_sentry::init(&SentryOptions::from_env()): without a DSN it ends here. *)
SentryForward ==
    /\ main = "forward"
    /\ \E flags \in Flags : Configure(flags)
    /\ Proceed(IF NonEmpty("SENTRY_DSN") THEN "bind" ELSE "redis")

(* SentryOptions::from_env: the environment falls back on the identity. *)
SentryEnvironment ==
    IF NonEmpty("SENTRY_ENVIRONMENT") THEN environ["SENTRY_ENVIRONMENT"] ELSE envRaw

SentryBind == main = "bind" /\ Bind(SentryEnvironment) /\ Proceed("seed")

SentrySeed == main = "seed" /\ Seed(name, envRaw) /\ Proceed("redis")

(* "an Err is returned so the caller can decide whether to abort startup" *)
Aborts(next) == Proceed("failed") \/ Proceed(next)

OpenRedis ==
    LET host == Value("REDIS_HOST")
        port == Value("REDIS_PORT")
    IN  /\ main = "redis"
        /\ \/ InitRedis(host, port, Value("REDIS_DB")) /\ Proceed("db")
           \/ InitRedisFails(host, port) /\ Aborts("db") /\ UNCHANGED resourceVars

DbConfig ==
    PoolConfig(Value("DB_MAX_OPEN_CONN"), Value("DB_MAX_IDLE_CONN"),
               Value("DB_CONN_MAX_LIFETIME"), Value("DB_CONN_MAX_IDLE_TIME"))

(* PoolConfig::from_env("DB").connect_pg(): the panic of the jitter ends Main. *)
OpenDb ==
    /\ main = "db"
    /\ \E percent \in Draws :
        \/ /\ JitterPanics(Value("DB_DSN"), DbConfig, percent)
           /\ Proceed("failed") /\ UNCHANGED resourceVars
        \/ /\ ~JitterPanics(Value("DB_DSN"), DbConfig, percent)
           /\ \/ ConnectDb(Value("DB_DSN"), DbConfig, percent) /\ Proceed("up")
              \/ ConnectDbFails /\ Aborts("up")

Boot ==
    \/ /\ Dotenv \/ SetName \/ SetEnv \/ Validate \/ InitSampler
       /\ UNCHANGED <<sentryVars, resourceVars>>
    \/ (SentryForward \/ SentryBind \/ SentrySeed) /\ UNCHANGED resourceVars
    \/ (OpenRedis \/ OpenDb) /\ UNCHANGED sentryVars

-----------------------------------------------------------------------------
(* Main logs between its steps like anybody else. *)
Log(t) ==
    /\ main # "failed"
    /\ \/ \E l \in Lines : Emit(t, l, main \in {"redis", "db", "up"})
       \/ Receive(t) \/ Capture(t, envRaw)

(* check_sentry asks for the hub of the thread that polls the check. *)
RestOfCheck(t) ==
    /\ CheckRest(SentryEnabled(t))
    /\ Ask(t) /\ hub' = [hub EXCEPT ![t] = HubOf(t)]
    /\ UNCHANGED <<forwarding, client, data, line, logged, events, missed>>

PollCheck ==
    \/ ((main = "up" /\ CheckRedis(redisPool.open)) \/ Poll) /\ UNCHANGED sentryVars
    \/ \E t \in Threads : RestOfCheck(t)

StartupNext ==
    \/ Boot /\ UNCHANGED healthVars
    \/ (\E t \in Threads : Log(t)) /\ UNCHANGED <<bootVars, resourceVars, healthVars>>
    \/ PollCheck /\ UNCHANGED <<bootVars, resourceVars>>
    \/ (Breaks \/ RabbitChanges \/ Tick) /\ UNCHANGED <<bootVars, resourceVars, sentryVars>>

StartupSpec == StartupInit /\ [][StartupNext]_allVars

(* Main runs, the runtime polls the check and time passes. *)
StartupFairSpec ==
    /\ StartupSpec
    /\ WF_allVars(Boot /\ UNCHANGED healthVars)
    /\ WF_allVars(PollCheck /\ UNCHANGED <<bootVars, resourceVars>>)
    /\ WF_allVars(Tick /\ UNCHANGED <<bootVars, resourceVars, sentryVars>>)

-----------------------------------------------------------------------------
(* What the operator set is what the process runs with, whatever files there are   *)
(* and however often init is called.  A configuration_status of "healthy" is the    *)
(* truth: the process has a name, samples its log and has a Sentry client.  "a bad   *)
(* env value can never produce an unbounded pool", and one for Redis is there if and  *)
(* only if a host was given and its port was good.                                *)
RunsAsConfigured ==
    main = "up" =>
        /\ \A k \in DOMAIN given : given[k] # None => environ[k] = given[k]
        /\ given["APP_NAME"] \notin {None, ""} => name = given["APP_NAME"]
        /\ given["APP_ENV"] \notin {None, ""} => envRaw = given["APP_ENV"]
        /\ ConfigurationStatus = "healthy" => name # "" /\ sampler # None /\ client # None
        /\ sampler = None => "APP_ENV" \in findings
        /\ client = None <=> "SENTRY_DSN" \in findings
        /\ redisPool.open <=>
            NonEmpty("REDIS_HOST") /\ RedisPort(Value("REDIS_PORT")) \in U16
        /\ dbPool.open =>
            /\ dbPool.max_connections \in 1..U32Max
            /\ dbPool.max_lifetime \in DbConfig.conn_max_lifetime..SecondsMax

(* A health check of a service that has come up ends, whatever Redis does. *)
CheckEnds == probe = "ping" ~> probe = "done"
=============================================================================
