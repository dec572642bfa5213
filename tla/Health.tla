------------------------------- MODULE Health -------------------------------
(***************************************************************************)
(* check_health of pc-health: the PING of Redis under two nested deadlines,     *)
(* op_timeout in pc-redis and two seconds in check_redis, then the readiness    *)
(* of RabbitMQ and of Sentry, and the worst of the three.  The process that asks *)
(* is in Startup.                                                              *)
(*                                                                         *)
(* The task may be polled late, up to Lag after something it waits for has      *)
(* happened; tokio::time::timeout looks at the answer before the timer.          *)
(***************************************************************************)
EXTENDS Integers, Sequences

CONSTANTS Latencies,     \* time after which Redis answers; Never if it does not
          Settings,      \* REDIS_OP_TIMEOUT_MS; Unset if there is no number
          Never, Unset,
          DefaultOp,     \* DEFAULT_OP_TIMEOUT_MS
          Deadline,      \* two seconds
          DegradedAfter, \* REDIS_DEGRADED_AFTER
          Lag            \* bound: how late the task is polled

ASSUME HealthAssumption ==
    /\ DefaultOp \in Nat \ {0} /\ Deadline \in Nat \ {0}
    /\ DegradedAfter \in Nat /\ Lag \in Nat
    /\ Latencies \subseteq Nat \union {Never} /\ Settings \subseteq Int \union {Unset}

VARIABLES probe,    \* where check_health is
          elapsed,  \* time since check_redis looked at the clock
          redis,    \* there is a pool
          latency,  \* of the Redis server
          setting,  \* its deadline as configured
          failed,   \* the connection broke before the answer
          rabbit,   \* RabbitMQ: "none", "ready" or "unready"
          checks,   \* the statuses so far
          overall   \* overall_status

healthVars == <<probe, elapsed, redis, latency, setting, failed, rabbit, checks, overall>>

Statuses == {"healthy", "degraded", "unhealthy"}

(* op_timeout_ms_from *)
OpTimeout(s) == IF s = Unset THEN DefaultOp ELSE IF s > 0 THEN s ELSE DefaultOp

(* The earlier of the two deadlines. *)
Cutoff == IF OpTimeout(setting) < Deadline THEN OpTimeout(setting) ELSE Deadline

HealthTypeOK ==
    /\ probe \in {"idle", "ping", "rest", "done"}
    /\ Cutoff \in 1..Deadline
    /\ elapsed \in 0..Cutoff + Lag
    /\ redis \in BOOLEAN
    /\ latency \in Latencies \union {Never} /\ setting \in Settings \union {Unset}
    /\ failed \in BOOLEAN
    /\ rabbit \in {"none", "ready", "unready"}
    /\ checks \in Seq(Statuses) /\ Len(checks) <= 3
    /\ overall \in Statuses \union {"none"}

HealthInit ==
    /\ probe = "idle" /\ elapsed = 0
    /\ redis = FALSE /\ latency = Never /\ setting = Unset
    /\ failed = FALSE
    /\ rabbit = "none"
    /\ checks = << >> /\ overall = "none"

-----------------------------------------------------------------------------
(* check_health is called with what there is of HealthResources.  check_redis: no   *)
(* pool is unhealthy; else the clock starts and RedisPool::ping is awaited: the      *)
(* latency is the time until the reply to PING is there, the wait for a connection   *)
(* of the pool included.                                                          *)
CheckRedis(pool) ==
    /\ probe = "idle"
    /\ rabbit' \in {"none", "ready", "unready"}
    /\ redis' = pool
    /\ \/ /\ ~pool
          /\ probe' = "rest" /\ checks' = <<"unhealthy">>
          /\ UNCHANGED <<latency, setting>>
       \/ /\ pool /\ latency' \in Latencies /\ setting' \in Settings
          /\ probe' = "ping" /\ UNCHANGED checks
    /\ UNCHANGED <<elapsed, failed, overall>>

Answered == latency # Never /\ latency <= elapsed /\ ~failed

(* Mutant: the timers are looked at first. *)
Verdict_TimerFirst ==
    IF elapsed >= Cutoff \/ failed THEN "unhealthy"
    ELSE IF ~Answered THEN "pending"
    ELSE IF elapsed > DegradedAfter THEN "degraded" ELSE "healthy"

(* Mutant: no deadline. *)
Verdict_NoDeadline ==
    IF Answered THEN IF elapsed > DegradedAfter THEN "degraded" ELSE "healthy"
    ELSE IF failed THEN "unhealthy" ELSE "pending"

(* What a poll of the two nested timeouts finds. *)
Verdict ==
    IF Answered THEN IF elapsed > DegradedAfter THEN "degraded" ELSE "healthy"
    ELSE IF failed \/ elapsed >= Cutoff THEN "unhealthy" ELSE "pending"

Poll ==
    /\ probe = "ping" /\ Verdict # "pending"
    /\ checks' = <<Verdict>>
    /\ probe' = "rest"
    /\ UNCHANGED <<elapsed, redis, latency, setting, failed, rabbit, overall>>

CheckRabbit ==
    CASE rabbit = "none" -> "unhealthy" [] rabbit = "ready" -> "healthy" [] OTHER -> "degraded"

CheckSentry(enabled) == IF enabled THEN "healthy" ELSE "unhealthy"

(* worst_status: the loop, which returns at the first unhealthy one. *)
WorstStatus(statuses) ==
    LET worst[i \in 0..Len(statuses)] ==
          IF i = 0 THEN "healthy"
          ELSE IF worst[i - 1] = "unhealthy" \/ statuses[i] = "unhealthy" THEN "unhealthy"
          ELSE IF statuses[i] = "degraded" THEN "degraded" ELSE worst[i - 1]
    IN  worst[Len(statuses)]

(* The rest of check_health, without an await. *)
CheckRest(enabled) ==
    /\ probe = "rest"
    /\ checks' = checks \o <<CheckRabbit, CheckSentry(enabled)>>
    /\ overall' = WorstStatus(checks')
    /\ probe' = "done"
    /\ UNCHANGED <<elapsed, redis, latency, setting, failed, rabbit>>

(* External: the connection to Redis breaks. *)
Breaks ==
    /\ probe = "ping" /\ ~Answered /\ ~failed
    /\ failed' = TRUE
    /\ UNCHANGED <<probe, elapsed, redis, latency, setting, rabbit, checks, overall>>

(* External: RabbitMQ comes and goes. *)
RabbitChanges ==
    /\ probe \in {"ping", "rest"} /\ rabbit # "none"
    /\ rabbit' = IF rabbit = "ready" THEN "unready" ELSE "ready"
    /\ UNCHANGED <<probe, elapsed, redis, latency, setting, failed, checks, overall>>

(* External: time passes. *)
Tick ==
    /\ probe = "ping" /\ elapsed < Cutoff + Lag
    /\ elapsed' = elapsed + 1
    /\ UNCHANGED <<probe, redis, latency, setting, failed, rabbit, checks, overall>>

-----------------------------------------------------------------------------
(* overall_status is one of the three statuses, and none of them is worse. *)
OverallIsWorst ==
    LET rank == [healthy |-> 0, degraded |-> 1, unhealthy |-> 2] IN
    probe = "done" => /\ \E i \in 1..3 : checks[i] = overall
                   /\ \A i \in 1..3 : rank[checks[i]] <= rank[overall]

(* A Redis that answers before the deadline is not called unhealthy, even if the     *)
(* task is polled only after the deadline.                                         *)
FastIsUp ==
    checks # << >> /\ redis /\ ~failed /\ latency # Never /\ latency < Cutoff
        => checks[1] # "unhealthy"

(* The verdict is fair to Redis and hides nothing. *)
VerdictSound == OverallIsWorst /\ FastIsUp

=============================================================================
