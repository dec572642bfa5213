----------------------------- MODULE Resources -----------------------------
(***************************************************************************)
(* The pools a service opens when it starts: init_from_env of pc-redis and      *)
(* PoolConfig of pc-db with the prefix DB.                                     *)
(*                                                                         *)
(* An environment variable is a string or None; Numerals are the strings that   *)
(* parse as an i64.  Durations are in seconds.                                 *)
(***************************************************************************)
EXTENDS Integers

CONSTANTS Numerals,   \* function from strings to integers
          U32Max,     \* greatest u32, scaled down
          SecondsMax, \* greatest number of seconds of a Duration, scaled down
          Draws       \* rand_fraction of the lifetime jitter, in percent

ASSUME ResourcesAssumption ==
    /\ \A s \in DOMAIN Numerals : Numerals[s] \in Int
    /\ U32Max \in Nat \ {0} /\ SecondsMax \in Nat \ {0}
    /\ Draws \subseteq 0..99

VARIABLES redisPool,  \* the RedisPool, if there is one
          dbPool      \* the SQL pool, if there is one

resourceVars == <<redisPool, dbPool>>

NoPool == [open |-> FALSE]

ResourcesInit == redisPool = NoPool /\ dbPool = NoPool

-----------------------------------------------------------------------------
(* s.parse() for an environment variable that may be unset *)
Parses(s) == s \in DOMAIN Numerals

U16 == 0..65535

(* init_from_env: a port that is no u16 is an error, a database that does not   *)
(* parse is database 0.                                                        *)
RedisPort(port) ==
    IF port = "" THEN 6379 ELSE IF Parses(port) THEN Numerals[port] ELSE -1
RedisDb(db) == IF Parses(db) THEN Numerals[db] ELSE 0

(* init_from_env: None without a host.  Nothing is connected yet. *)
InitRedis(host, port, db) ==
    /\ \/ host = "" /\ redisPool' = NoPool
       \/ /\ host # "" /\ RedisPort(port) \in U16
          /\ redisPool' = [open |-> TRUE, port |-> RedisPort(port), db |-> RedisDb(db)]
    /\ UNCHANGED dbPool

InitRedisFails(host, port) == host # "" /\ RedisPort(port) \notin U16

-----------------------------------------------------------------------------
(* env_int_positive *)
EnvIntPositive(s, default) ==
    IF Parses(s) THEN IF Numerals[s] > 0 THEN Numerals[s] ELSE default ELSE default

(* minutes: saturating_mul *)
Minutes(n) == IF n * 60 > SecondsMax THEN SecondsMax ELSE n * 60

(* PoolConfig::from_env *)
PoolConfig(maxOpen, maxIdle, lifetime, idleTime) ==
    [max_open_conns |-> EnvIntPositive(maxOpen, 15),
     max_idle_conns |-> EnvIntPositive(maxIdle, 15),
     conn_max_lifetime |-> Minutes(EnvIntPositive(lifetime, 30)),
     conn_max_idle_time |-> Minutes(EnvIntPositive(idleTime, 5))]

(* PoolConfig::validate *)
Valid(cfg) == cfg.max_open_conns > 0 /\ cfg.max_idle_conns >= 0

(* apply_lifetime_jitter: up to a tenth more. *)
ApplyLifetimeJitter(base, percent) == base + (base * percent) \div 1000

(* pool_options: u32::try_from, 0 here for the error. *)
MaxConnections(n) == IF n <= U32Max THEN n ELSE 0

(* connect_pg, connect_mysql: no DSN, no valid options, or no database. *)
ConnectDbFails == dbPool' = NoPool /\ UNCHANGED redisPool

(* connect_pg, connect_mysql: sqlx reads a zero duration as no limit, which none  *)
(* of these is.                                                                *)
ConnectDb(dsn, cfg, percent) ==
    /\ dsn # "" /\ Valid(cfg) /\ MaxConnections(cfg.max_open_conns) # 0
    /\ dbPool' = [open |-> TRUE,
                  max_connections |-> MaxConnections(cfg.max_open_conns),
                  max_lifetime |-> ApplyLifetimeJitter(cfg.conn_max_lifetime, percent),
                  idle_timeout |-> cfg.conn_max_idle_time]
    /\ UNCHANGED redisPool

(* The sum of the lifetime and its jitter is beyond a Duration: the addition       *)
(* panics, before the configuration is validated.                                *)
JitterPanics(dsn, cfg, percent) ==
    dsn # "" /\ ApplyLifetimeJitter(cfg.conn_max_lifetime, percent) > SecondsMax
=============================================================================
