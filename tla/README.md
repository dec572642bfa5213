# TLA+ models of paycloudhelper-rs

paycloudhelper-rs is a workspace of small Rust crates that PayCloud's services
link against: resilience primitives, an AMQP client and an audit publisher on
top of it, gRPC channels with DNS discovery, Redis helpers and locks, HTTP
middlewares, logging, tracing and health checks.  There is no server here; what
is hard about the code is what happens when many tasks of a service share one of
its objects, when what they await fails or answers late, and when a future is
dropped in the middle.

This directory holds one TLA+ module per such object, the TLC configurations
that check them on small instances, and TLAPS proofs of the most important
safety properties for every size.  `PROJECT.json` is the index: the components,
the runs, the source lines every definition stands for, the hazards, the
findings and the theorems.

    tlc -workers 2 -config MCCircuitBreaker.cfg MCCircuitBreaker
    tlapm CircuitBreakerProofs.tla

## 1. Inventory

| component | state | operations | what is hard | what makes it correct |
|---|---|---|---|---|
| `pc-resilience::CircuitBreaker` | `Inner` behind a mutex: state, failure count, two instants | `call` = `try_acquire`, then `record_success`, `record_failure` or `record_cancel` | calls report on a breaker that has changed since they were admitted; probes that never report | one recent probe, fields that agree, never wedged, closes after recovery |
| `pc-resilience::Singleflight` | map from key to flight (id, waiters, shared future) | `do_call`, `FlightGuard::drop` | the starter is cancelled, late leavers meet a newer flight, panics | work runs once at a time, exact waiter counts, no result cache |
| `pc-resilience::RateLimiter`, `pc-log::KeyedLimiter` | governor's | `check` | nothing of their own | not modelled |
| `pc-audit::AuditPublisher` | bounded queue, worker pool, two atomics that form a breaker | `submit`, worker loop, `record_failure`, `stop` | two atomics updated separately, queue at its limit, `stop` in the middle of everything | accepted records are accounted for and settle, `stop` drains and returns, publishing resumes |
| `pc-amqp::AmqpClient` | shared slot with the current connection, reconnect mutex | `push`, `push_with_ttl`, `publish_to`, `reply`, `reconnect`, `is_ready`, `close`, `consume`, `send_wait` | tasks work on clones of a connection that others replace; lost confirmations; a push dropped at its deadline | one reconnect at a time and never over a good connection, bounded copies, calls return, a healthy broker is reached |
| `pc-grpc` discovery | `Refresher`: known addresses, seed slots; tonic's change queue | `run`, `apply`, `send_batch`, both ways of connecting | the queue fills in the middle of an update, endpoints that cannot be built, DNS that fails | the balancer is never emptied, and ends with what DNS says |
| `pc-grpc` client factory | configuration | `connect`, `connect_lazy`, `connect_discovered`, `connect_discovered_lazy` | retries of lookups and probes, a caller that gives up, an answer larger than the change queue, back-off arithmetic | a channel handed out is usable, a call ends unless a lookup hangs, pauses do not shrink, nothing is left behind by a failed call |
| `pc-auth::verify_idempotency` | keys in Redis with a TTL | GET, SET, pass on | Redis fails or applies a command late; clients go away; TTL edge cases | a duplicate of a stored key is not passed on, no key is permanent |
| `pc-auth::revoke_token`, `verify_csrf` | records and sessions in Redis | one GET each, pass on or refuse | the world changes while a request waits; the pool of connections is used up | what is wrong all along keeps a request out; an outage is not a bad token |
| `pc-redis` locks | one key per lock, a token per holder | `acquire_lock`, `acquire_lock_with_retry`, `release` | deadlines that cut off a command Redis still executes, keys that expire before the answer | a valid lock is held, nobody's key is deleted by another, no key for good |
| `pc-log` gates | sampler entries, window entries, a replaceable global sampler | `Sampler::check`, `RateLimiter::check`, `initialize_sampler` | the clock is read before the entry is locked; the sampler is replaced under its users | exact samples, suppressed lines reported once |
| `pc-trace::TraceGuard` | `ENABLED`, the global providers, a guard per init | `init`, `shutdown`, `drop` | several inits and shutdowns at once, each failing half way | flag down after the last guard, no provider left running |
| `pc-health` | none kept | `check_health` with `check_redis`, `check_rabbitmq`, `check_sentry`, `worst_status` | two nested deadlines, an answer around either, a late poll | ends, is fair to Redis, reports the worst |
| `pc-config`, `pc-core` identity, `paycloudhelper::init` | environment, name and environment of the process | `find_env_path`, `load_dotenv`, `initialize_app`, `validate_configuration`, `configuration_status` | files against variables, empty variables, two spellings, a second call | what the operator set is what runs, "healthy" is the truth |
| `pc-sentry` and the forwarding hook of `pc-log` | hub per thread, client, breadcrumb data, forwarded levels | `init`, `receive_log`, `configure_log_forwarding` | set up in three steps while threads log | a line logged after `init` is heard and has its data |
| `pc-redis::init_from_env`, `pc-db::PoolConfig` | a pool each | read, validate, jitter, connect | numbers out of range | no unbounded pool, a pool where one is configured |
| `pc-http` server | listener | `serve_with_graceful_shutdown`, `shutdown_signal` | a signal while requests wait on a Redis that hangs | returns unless a handler never ends |
| `pc-snapbi`, `pc-s3minio`, `pc-json`, `pc-validate`, `xtask` | none | signatures, I/O, formatting | – | not modelled, see section 8 |

How they interact: `AuditPublisher` calls any `pc_amqp::Publisher`, in services
an `AmqpClient`; `pc-auth` calls `pc-redis`, whose commands are all
bounded by `op_timeout`; `pc-health` asks `pc-redis` and the AMQP client;
everything logs through `pc-log`'s gates and from there to `pc-sentry`; requests
reach `pc-auth` through `pc-http`'s server.  The objects share no other state.

## 2. Modules

| module | models | state and actions in terms of the code |
|---|---|---|
| `CircuitBreaker` | `breaker.rs` | variables are the fields of `Inner`; every method holds the mutex, so each is one action.  Instants are kept as the time since then, saturating at the cooldown.  The failure counter has the width of a `u32` made small (`CounterMax`) and wraps. `call` and `age` are the callers' side. |
| `Singleflight` | `singleflight.rs` | `flight` and `waiters` are the map; a caller is `entered`, `waiting`, `finished` or `panicking`.  Polling the shared future and dropping the guard are separate steps, because the map is not locked between them. |
| `AuditPublisher` | `pc-audit` | `queue`, the two atomics, and each worker's place in its loop; `record_failure` is two steps (`CountFailure`, `Trip`), one per atomic.  The transport is arbitrary: `ready` and `publish` answer as they like. |
| `AmqpClient` | `pc-amqp` | `state` is the shared slot, `cur` the clone each task works on, `mutex` the reconnect mutex.  One step per await.  `Calls` says which methods a task may call; `consume`, `send_wait` (declare the reply queue, publish, take an answer) and `wait_for_ready` (poll until the deadline) share the steps of `push`.  Connections die at any time and never come back, and an exclusive reply queue dies with its own; `Timeout` drops a call wherever it is suspended.  `Reply` is a responder that uses `reply`, `Stray` one that puts anything into the reply queue. |
| `AuditOverAmqp` | both | extends `AuditPublisher` and instantiates `AmqpClient` with the workers as its tasks: `ready` is `is_ready`, `publish` is `push_with_ttl`.  Its steps are conjunctions of theirs. |
| `Discovery` | `discovery.rs` | fields of `Refresher`, the change queue, the balancer's set of endpoints.  Every batch sent is a step, since the balancer drains meanwhile. |
| `GrpcDial` | the client factory of `pc-grpc/src/lib.rs` | extends `Discovery`: one call of `connect`, `connect_lazy` or their `_discovered` twins, from the raw environment (`EnvParsed`, `PoolSizeFor`, `AttemptsFor`) through `InitialLookup`, `Build`, `Prewarm`, their sleeps (`BackoffCurve`) and `CheckBuffer` to the channel and the refresher.  The caller may drop the future at every await (`Abandon`). |
| `Idempotency` | `verify_idempotency`, `store` and `clamp_ttl` | a request is at its GET, its SET or passed on; Redis applies, fails or applies later (`LateSet`); keys count down. |
| `RedisLock` | the locks of `pc-redis` | the key's owner and time left, each client's attempt and validity; TTLs are the ones asked for and what `trx_lock_timeout` makes of the environment; commands cut off by `op_timeout` may still be executed (`late`, `dying`).  `Stray` owns a key whose token nobody was told. |
| `LogGate` | `sampler.rs`, `ratelimit.rs`, the gates of the macros | a check is two steps: `Enter` reads the clock and clones the sampler, `Check` works under the entry's lock. |
| `TraceGuard` | `pc-trace` init and shutdown | one location per statement that touches the flag or the global providers; any of them may fail. |
| `AuthGate` | `revoke_token`, `verify_csrf`, `ResponseApi` | a request goes through the layers of `Chain`, each with one awaited GET: a connection of the pool (`Checkout`), then the answer, both under one deadline (`GetFails`); meanwhile records, sessions and tokens change. |
| `HttpServer` | `serve_with_graceful_shutdown` of `pc-http` | extends `AuthGate` with the server the requests come to: bind, requests, signal, drain.  After the signal axum accepts no connection, but those that are open may still carry a request, so `Accept` stays possible. |
| `Health` | `pc-health`, `ping` and `op_timeout_ms_from` | one check from its start to its verdict, against a Redis of any latency and any setting of the inner deadline. |
| `Sentry` | `pc-sentry`, the forwarding hook of `pc-log` | the hub each thread has, the client, the breadcrumb data, and every line between its macro and the client.  `init` is three steps (`Configure`, `Bind`, `Seed`), a line three (`Emit`, `Receive`, `Capture`). |
| `Resources` | `pc-redis::init_from_env`, `pc-db::PoolConfig` | one operator per function of the configuration, and the step that opens each pool or fails. |
| `Startup` | `pc-config`, `pc-core`, `paycloudhelper::init` | composes `Sentry`, `Health` and `Resources`: `main` is the place of the main thread in the start of a service, `given` the environment it was started with, `environ` the one it has after `.env`.  The other threads log meanwhile; once it is up, a health check asks for the pool that was really opened and the hub of the thread that polls it. |

`MC<module>` gives the constants their values for TLC.  `<module>Proofs` holds
the theorems, `AuditProofs` those of `AuditPublisher` and `AuditOverAmqp`,
`TransportProofs` those of `AuthGate`, `HttpServer`, `Discovery` and `GrpcDial`,
`ObservabilityProofs` those of `TraceGuard`, `LogGate`, `Sentry`, `Health`, `Resources`
and `Startup`.  Definitions named `X_Something` before a definition `X` are
variants of it with a plausible mistake; each was seen to violate the property
it is listed with in `PROJECT.json`, so the properties do depend on the code.

Abstractions common to all modules: payloads, headers and names are model values
or small sets; log lines and formatting are left out; time is a countdown or a
discrete clock that only moves forward.

## 3. Runs, and what they show

| run | instance | distinct states | what it shows |
|---|---|---|---|
| `breaker` | 3 callers, threshold 2, cooldown 2, counter up to 4 | 2,496 | `StateCoherent`: the fields of `Inner` agree; `OneYoungProbe`: at most one recent probe; `NeverWedged`, `Recovers`: a lost probe does not shut the breaker for good, and it closes when the dependency is well |
| `singleflight` | 3 callers, 2 keys | 306,806 | `WaitersExact`, `OneExecution`, `NotACache`: through joins, cancellations and panics |
| `amqp` | 2 tasks (one pushes and closes, one requests, consumes and waits), 4 connection names, 2 attempts | 290,882 | `ReconnectExclusive`, `DeliveryBounds`: one reconnect at a time and never over a good connection, confirmed messages were taken by the broker, a bounded number of times; `AnswerIsMine`: what `send_wait` returns answers its own request, whatever else is in the queue and whichever connection the request went out on; `CallsReturn`, `StableDelivers` |
| `audit_amqp` | 2 workers, 2 records, queue of 1, threshold 2, cooldown 1 | 214,292 | `Accounting`, `PublishedOnce`: an accepted record is in one place, a published one in the broker's queue once; `AcceptedSettles`, `StopReturns` (with nothing left behind), `Resumes` |
| `audit_amqp_resume` (violation) | 1 worker, 2 records | – | `ResumesAfterBreak`, see section 6 |
| `grpc_dial` | 4 addresses (1 IPv4), 4 answers, pools of 2, queue of 5 | 525,763 | `HandedOutUsable`: a channel handed out has an endpoint or will have one, set-up never meets a full queue, a failed call leaves nothing behind; `QueuedIsKnown`, `NeverEmptied`, `Converges`: the refresher's side; `DialEnds`: every call comes back unless one of its first lookups hangs for good, and its task ends with the channel though a lookup hangs; `BackoffGrows` |
| `idempotency` | 3 requests, 1 key, 4 headers | 379,247 | `NoSequentialDuplicate`, `KeysExpire` |
| `redis_lock` | 2 clients, TTLs 2 and 4, deadline 3 | 715,628 | `HeldIsOwned`: a valid lock is held; `ReleaseOwnOnly`: nobody deletes another's key; `FreeAgain`: no key for good |
| `log_gate` | 2 threads, 1 key, 3 configurations, 6 calls | 1,749,761 | `SampledExactly`, `SuppressedConserved`, `StampsAdvance`: exact samples and counts though threads reach an entry in another order than they read the clock |
| `trace_guard` | 3 calls, 4 environments | 4,082 | `FlagFollowsGuards`, `NothingLeaks` |
| `http_server` | 2 requests, 1 merchant, both layers, a pool of 1 connection | 529,504 | `BarredNeverPasses`, `RefusedForAReason`: what was wrong all along keeps a request out, an outage is not a bad token; `OnlyHandlersHold`: after the signal the server returns though Redis hangs with all its connections taken; only a handler that never ends holds it up |
| `startup` | 3 threads, 2 lines, 4 environments, 4 sets of files, 3 latencies | 871,682 | `HeardWithContext`: which lines reach Sentry and that they carry their data; `RunsAsConfigured`: operator's values win, "healthy" is the truth, pools as configured and bounded; `VerdictSound`, `CheckEnds`: health checks are sound and end |

Why the bounds are enough to be interesting:

* *breaker*: three callers let one trip, one probe and one straggler report after
  both; threshold 2 separates one failure from a run of failures; a cooldown of 2
  has an instant strictly inside it; the counter wraps at 4.
* *singleflight*: three callers are two that share a flight and one that comes
  late; an entry always has a caller, so as many ids as callers suffice.
* *audit_amqp*: two workers can break the connection under each other and count a
  failure while the other succeeds; with two records and one place in the queue
  `submit` finds it full.  Records are renewed, so behaviours are infinite.
* *amqp*: two tasks, so that one can fail on an old connection while the other
  makes a new one; a push has one retry.  A connection nobody refers to is
  reused as a fresh one: one name per task, one for the shared slot and one for
  the reply queue suffice.
* *grpc_dial*: one IPv4 address with an IPv6 one beside it, IPv6 addresses that
  can be swapped, an answer too large for the queue; a queue for two batches and a
  half; three attempts and one; squares of attempts that saturate.
* *idempotency*: two requests that race and one that comes later; session headers
  absent, below the minimum, at it and above the ceiling.
* *redis_lock*: a TTL below `op_timeout`, so that keys expire while their client
  still waits, and one above it, so that keys outlive a release that times out.
* *log_gate*: six calls and three clock ticks bound the run (named `MaxCalls`,
  `MaxClock`, `MaxInits`): enough for two periods of a burst and two suppressed
  lines, with the sampler replaced in between.
* *trace_guard*: three calls, so that a disabled, an older and a newer guard meet.
* *http_server*: two requests of one merchant in both layers and one connection, so that one
  request can wait for the connection the other holds; a signal at any time.
* *startup*: everything set; only the legacy spelling; an empty variable that keeps the one
  in a file out; nothing set.  Every call of init finds no file, an override over another
  file, a file where only dotenvy looks, or two files, the first of them broken.  Pools: only Redis, only the
  database, both broken, a lifetime that saturates.  Latencies and settings of the health
  check lie on either side of the deadlines, in units of half a second; the task may be
  polled one unit late.

Type invariants (`TypeOK`, `HttpTypeOK`, ...) document the state of every module and are
no property of a run; where a module has proofs, it (in `RedisLockProofs` the
part of it that is needed) is the first conjunct of the inductive invariant.

Deadlock is checked except where the system may really stop: `log_gate` ends at its
bounds, every guard of `trace_guard` may be dropped, and a service of `startup`
without traffic stands still.

## 4. Fairness

Weak fairness of a step of a task says that the executor polls a task that can
go on.  On top of that:

* time passes (`Tick`), and timers fire;
* what an AMQP task awaits answers or fails: lapin's heartbeat finds a dead
  peer.  The tokio mutex is handed over in FIFO order, hence strong fairness of
  `Reconnect`;
* a connection attempt of `prewarm` ends within its timeout, and a lookup of the refresher
  within `LOOKUP_TIMEOUT`.  The lookups of `initial_lookup` have no deadline and no
  fairness (`InitialLookup` is not in `Polled`): `discovery.rs:46-47` says `getaddrinfo` can
  hang, and `DialEnds` allows for exactly that;
* `select!` in `Refresher::run` polls its branches in random order and the sleep
  that has just begun is not ready, hence strong fairness of `Quit`; a balancer
  in use drains its queue;
* callers of a breaker keep calling and their calls end one way or another:
  without calls nothing can close it, since it has no timer of its own;
* a GET of the middlewares ends by `op_timeout`, counted from before it has a connection
  (`GetFails`); Redis need not answer, the pool need not hand out a connection, and a
  handler need not return, since the `TimeoutLayer` of `base_router` covers only the
  routes of `base_router`.  axum returns once no request is under way (`Drained`);
* a Redis command on its way is applied or lost in the end.  In `RedisLock` only
  the timers are fair: Redis need not answer and nobody need release.

Nobody is obliged to cancel, to drop a channel, to stop a publisher or a
server, or to recover; properties that need a recovery have it as a premise (`healthy`,
`settled`).

## 5. Proofs

Theorems hold for every value of the constants that satisfies the named
assumption of the module (`BreakerAssumption`, ...): finite sets of callers where
cardinalities occur, positive limits, and model values that are not members of
the sets they extend.  They concern `Spec`, without fairness.

* **CircuitBreakerProofs**: `BreakerTypeOK`, `BreakerCoherent`,
  `BreakerOneProbe`.  `OneYoungProbe` alone is not inductive: a probe may be
  admitted while an older one is in flight.  `BreakerInv` adds `ProbesOlder`: a
  probe in flight is at least as old as `probe_started_at` while the breaker is
  half-open, or as the instant it was opened, so when another one is
  admitted those before it have passed the cooldown.
* **SingleflightProofs**: `SingleflightWaiters`, `SingleflightOneExecution`,
  `SingleflightNotACache`.  `SFInv` adds that idle callers hold no flight, that a
  flight with pending work and a caller is in the map under its callers'
  key, that a flight is in the map under one key only, and that a caller past its
  poll knows its outcome.  The count of waiters is the cardinality of the callers
  attached, so a late leaver cannot take a newer flight away.
* **IdempotencyProofs**: `IdempotencyTypeOK`, `IdempotencyNoDuplicate`.
  `IdemInv` adds `CoveredCached`: a request that came while its key was stored and is
  still marked as covered has its key in Redis, so its GET hits; for that a
  stored TTL must never be 0 (`StoredLife`).
* **RedisLockProofs**: `LockHeldIsOwned`, `LockReleaseOwnOnly`.  `LockInv` adds that a client whose SET
  succeeded and has not been answered owns a key with at least the
  TTL less the age of the attempt left, or the validity it will be given is
  used up.  This is where counting the validity from the start of the attempt
  matters.  `TtlsPositive` is the lemma that every TTL a lock can be given, asked
  for or read from the environment, is positive.  The same
  invariant gives the action property: a key that goes before its time is the one
  its own client asked to delete.
* **AmqpClientProofs**: `AmqpReconnectExclusive`, `AmqpDeliveryBounds`,
  `AmqpAnswerIsMine`.  `AmqpInv` adds `Local`: which call a task is in by where it is,
  that before a publish there is at most one copy per failed attempt, and that a task at
  its confirmation or its reply has handed its message to the broker.  A new connection is
  named by a name nobody refers to (`Nameable`), so it is not the one in the slot.
* **AuditProofs**: `AuditAccounting` and `AuditStopsDrained` over any transport;
  `OverAmqpImplements`, that the composition implements `AuditSpec`, so that
  `OverAmqpAccounting` follows.  `Accounting` with `TypeOK` is inductive; `ExitedLast`,
  that a worker ends only when the queue is closed and empty, gives the drain.
  `OverAmqpUsesClient` is the other half: the composition also implements `AmqpClient`,
  with the workers as its tasks.  What is proved of either holds of the whole, and
  `OverAmqpPublishedOnce` needs both: a record has one worker (`Accounting`), and a
  worker's call puts at most one copy into the broker's queue.
* **TransportProofs**, `HttpServer`: `HttpBarredNeverPasses`, `HttpRefusedForAReason`,
  for any chain of the two middlewares and any number of connections.  `AuthInv` adds `Cleared`: nothing that spoke against a request all along is
  what a middleware it has left would have seen; for `revoke_token`, which looks at the
  token before its await and at the record after it, that needs `TokenSeen`.
* **TransportProofs**, `GrpcDial` with `Discovery`: `DialTypes`, `DialQueuedIsKnown`,
  `DialHandedOutUsable`, `DialNeverEmptied`, `DialBackoffGrows`.  `DialInv` adds what each
  place of the factory's call has set up, and that the rest of the answer still fits into
  the queue (`Setup`); that an endpoint is always known and the refresher never
  removes them all (`Kept`); that the drained queue leaves the balancer with exactly what is
  known by then, during the set-up too (`Exact`); that whenever a removal is drained an
  endpoint under another key is there (`NeverBare`), which is why `NeverEmptied` holds; and
  that the last pause is bounded by the curve at the present attempt (`Paced`).
* **ObservabilityProofs**, `TraceGuard`: `TraceTypeOK`, `TraceFlag`, `TraceNothingLeaks`.
  `TraceInv` adds who owns a running provider at each location of an init or a
  shutdown, and that only checked configurations get past the start.
* **ObservabilityProofs**, `LogGate`: `GateTypes`, `GateSampledExactly`,
  `GateSuppressedConserved`, `GateStampsAdvance`.  `GateInv` adds that a sampler not yet
  installed has neither entry nor user, and that an entry without a time stamp counts
  nothing.  The step of a sampled line is an arithmetic lemma (`DivStep`): quotient and
  remainder advance exactly when the verdict says so.
* **ObservabilityProofs**, `Startup`: `StartupTypes`, `StartupHeardWithContext`,
  `StartupRunsAsConfigured`, `StartupVerdictSound`.  `StartInv` has three parts that need
  each other only at the seams.  `HealthInv`: the statuses collected by where the check is;
  `worst_status` is a loop, unrolled for the three statuses it is called with.  `SentryInv`: a hub
  made before the client was bound is without it, one copied from Main's later
  has it, and a line is late only after init.  `BootInv`: `load_dotenv` keeps what is set, so
  after a second call of init the identity, the findings and the sampler still agree with
  the environment; there is a client if and only if there is a DSN; a pool that opened is bounded.

Each proof has one lemma per action (or per kind of action), and the temporal step
combines `Init => Inv` and `Inv /\ [Next]_vars => Inv'`.

Assumptions worth knowing: `None`, `Never` and their like are not among the values they stand
beside; the literals used as values are members of `STRING`, which is true and which the
provers do not know; the environments and files of `Startup` hold strings.  TLC evaluates all
of them in the runs.

Only model-checked: liveness, since fairness and ENABLED are beyond the prover
(`NeverWedged`, `Recovers`, `CallsReturn`, `StableDelivers`, `AcceptedSettles`, `StopReturns`,
`Resumes`, `Converges`, `DialEnds`, `KeysExpire`, `FreeAgain`, `CheckEnds`,
`OnlyHandlersHold`), and `ResumesAfterBreak`, which does not hold.  Every invariant and every action property of the runs has its theorem.

## 6. Findings

`audit_amqp_resume` refutes what the README (line 120) and `pc-amqp/src/lib.rs:53` say of
the client, that it reconnects on demand after a broken connection, for the set-up the
README shows.  A worker drops a record when `client.ready()` is false and calls
`publish` only when it is true; the client reconnects only inside a publish.  After
the first broken connection nothing ever reconnects, and every audit record is
discarded until the process restarts.  `audit_amqp` shows what does hold: as long
as the connection stays ready, the breaker lets records through again (`Resumes`).

Seen while modelling, stated here with the line and not as a run:

* `breaker.rs:231`: `record_success` closes the breaker whatever its state, so a
  call admitted before the trip re-opens the gate at once, although
  `breaker.rs:28` says an open breaker short-circuits "until the cooldown elapses".
* `singleflight.rs:136`: a panicked flight stays in the map until its last
  waiter has unwound; a call that begins meanwhile joins it and panics too,
  although the module comment says a failed flight is never served to a later
  caller.
* `pc-auth/src/lib.rs:264`: the GET and the SET are two commands and the SET is
  unconditional, so two requests with the same body that overlap are both passed
  on, although lines 170-171 say a duplicate returns 202.  `NoSequentialDuplicate`
  is what holds instead.
* `pc-auth/src/lib.rs:278`: a SET that timed out or whose client went away may
  have been applied; retries are then told 202 "your request in process" until
  the key expires, and nothing was passed on.
* `pc-log/src/lib.rs:106`: a second `init` installs a new sampler and so starts
  every burst again; lines 103-104 call it a silent no-op.
* `pc-trace/src/lib.rs:134`: dropping an older or disabled guard lowers `ENABLED`
  while a newer one exports.
* `pc-trace/src/config.rs:146`: a configured ratio of 0 becomes 1.
* `pc-health/src/lib.rs:66`: with the default `op_timeout` of one second a PING
  slower than that is an error, so the status is unhealthy and never degraded,
  although lines 59-60 promise a two-second deadline.
* `pc-sentry/src/lib.rs:209`: the hook is installed before the client is bound at line
  224.  A thread that logs an error in between, or any thread that asked for its hub
  earlier, keeps a hub without a client and is never heard; `HeardWithContext`
  says exactly who.  A DSN that does not parse still binds a client, so
  `check_sentry` says healthy while nothing is sent.
* `pc-db/src/lib.rs:255`: a lifetime near the largest `Duration` makes the addition of the
  jitter panic, before `validate` is asked, although lines 245-246 say the result is
  always within a tenth of the base.
* `pc-grpc/src/lib.rs:567`: the first lookup of `connect_discovered` has no
  `LOOKUP_TIMEOUT`, unlike those of the refresher: a `getaddrinfo` that hangs holds the
  call up for good, and `DialEnds` says that nothing else does.
* `pc-config/src/lib.rs:110`: without a file in the places `find_env_path` names,
  dotenvy goes on to all ancestors of the working directory, also beyond the five
  parents.
* `pc-http/src/lib.rs:247`: the layer added last is the outermost, contrary to the
  comment, so responses made by the body limit and the timeout carry no secure headers.
  The layers are not modelled.
* `pc-http/src/lib.rs:264`: the timeout covers the routes `base_router` adds itself, so a
  service's handler that never ends keeps `serve_with_graceful_shutdown` from returning;
  `OnlyHandlersHold` says that it is the only thing that does.
* `pc-http/src/lib.rs:293`: an error of `ctrl_c()` counts as the signal.

## 7. Plan

The models above cover what keeps state in the repository.  What would come next, in
this order:

1. Abstract specifications: a breaker as an admission rule, a singleflight as one
   execution per key, a lock as mutual exclusion for a time, and the modules shown to
   implement them.
2. The safety part of liveness: that the measures on which `StopReturns` and `DialEnds`
   rest never grow.

## 8. Not modelled

* `pc-s3minio`: one request and one answer per call, no state and no retry.
* `pc-snapbi`: signatures; what matters there is cryptographic and is covered by
  the repository's golden vectors.
* `pc-json`, `pc-validate`: stateless helpers; `xtask`: a lint at build time.
* `pc-resilience::RateLimiter`, `pc-log::KeyedLimiter`: wrappers of governor.
* Of modelled crates: payload builders of `pc-audit`; metadata propagation, the
  deadline helpers and the warnings about inert settings of `pc-grpc`; metric helpers and
  header propagation of `pc-trace`; formatting and timers of `pc-log`; `flush` and the
  texts of `pc-sentry`; `ttl`, `delete` and the pool statistics of `pc-redis`; the
  layers of `pc-http`'s base router.
* rslock gives the retries of one `lock()` call one token, the model one per attempt.  They
  differ if Redis executes a command of a failed attempt after the next attempt of the
  same call has begun; an unlock that late would delete the key of the later attempt.
* Whether a routing key given to `publish_to` names a queue: the broker confirms and drops a
  message that it cannot route, and the client has no way to know.
* A wall clock that steps back (`pc-audit` uses `SystemTime` for its breaker):
  the models' clocks only move forward.
* A `.env` file that itself sets `ENV_FILE` or `DOTENV_PATH`.
