----------------------------- MODULE MCStartup -----------------------------
(* Startup for TLC; the time of a health check is in units of half a second. *)
EXTENDS Startup

MCNever == 100
MCUnset == -100

(* Redis answers at once, between the deadlines, or never. *)
MCLatencies == {0, 3, MCNever}

(* Unset, zero and above the other deadlines. *)
MCSettings == {MCUnset, 0, 6}

Environ(appName, appEnv, mode, dsn, rows, pools) ==
    [k \in {"APP_NAME", "APP_ENV", "APP_MODE", "SENTRY_DSN", "SENTRY_ENVIRONMENT",
            "RABBITMQ_HOST", "RQ_HOST", "RABBITMQ_PORT", "RQ_PORT",
            "REDIS_HOST", "REDIS_PORT", "REDIS_DB", "DB_DSN", "DB_MAX_OPEN_CONN",
            "DB_MAX_IDLE_CONN", "DB_CONN_MAX_LIFETIME", "DB_CONN_MAX_IDLE_TIME"} |->
        CASE k = "APP_NAME" -> appName [] k = "APP_ENV" -> appEnv
          [] k = "APP_MODE" -> mode [] k = "SENTRY_DSN" -> dsn
          [] k \in DOMAIN pools -> pools[k]
          [] OTHER -> IF k \in rows THEN "set" ELSE None]

(* Small, zero, negative and larger than the scaled-down limits. *)
MCNumerals == [s \in {"8", "0", "-1", "400"} |->
    CASE s = "8" -> 8 [] s = "0" -> 0 [] s = "-1" -> -1 [] OTHER -> 400]

(* Only Redis; only the database; both broken; a lifetime that saturates. *)
Redis == [REDIS_HOST |-> "r", REDIS_DB |-> "x"]
Database == [DB_DSN |-> "d", DB_MAX_OPEN_CONN |-> "8"]
Broke == [REDIS_HOST |-> "r", REDIS_PORT |-> "-1", DB_DSN |-> "d", DB_MAX_OPEN_CONN |-> "400"]
Long == [REDIS_HOST |-> "r", REDIS_PORT |-> "8", DB_DSN |-> "d",
         DB_MAX_OPEN_CONN |-> "0", DB_CONN_MAX_LIFETIME |-> "400"]

MCAliases == {{"RABBITMQ_HOST", "RQ_HOST"}, {"RABBITMQ_PORT", "RQ_PORT"}}

Files(places) ==
    [p \in {"ENV_FILE", "DOTENV_PATH", "cwd", "parents", "exe", "/app", "/", "ancestors"} |->
        IF p \in DOMAIN places THEN places[p] ELSE NoFile]

Named == <<<<"APP_NAME", "file">>, <<"APP_ENV", "staging">>, <<"APP_NAME", "again">>>>
Broken == <<<<"APP_ENV", "stg">>, Bad, <<"SENTRY_DSN", "dsn">>>>

(* Everything set; only the legacy APP_MODE; an empty APP_NAME, which keeps the one  *)
(* in a file out; nothing but the pools.                                           *)
MCEnvirons ==
    {Environ("op", "production", None, "dsn", {"RQ_HOST", "RABBITMQ_PORT"}, Redis),
     Environ(None, None, "dev", None, {"RQ_HOST"}, Database),
     Environ("", "qa", "dev", "dsn", {}, Broke),
     Environ(None, None, None, None, {}, Long)}

(* No file; an override over the file of the working directory; a file where only    *)
(* dotenvy itself looks; two files, the first of them broken.                      *)
MCDisks ==
    {Files(<<>>),
     Files([p \in {"ENV_FILE", "cwd"} |-> IF p = "cwd" THEN Broken ELSE Named]),
     Files([p \in {"ancestors"} |-> Named]),
     Files([p \in {"exe", "/app"} |-> IF p = "exe" THEN Broken ELSE Named])}

(* An error, forwarded by default; a debug line, not forwarded. *)
MCLines == {[level |-> "error", prefix |-> "none"], [level |-> "debug", prefix |-> "fn"]}

(* The defaults; debug lines forwarded instead of errors. *)
MCFlags ==
    {[l \in {"error", "debug"} |-> None],
     [l \in {"error", "debug"} |-> l = "debug"]}
=============================================================================
