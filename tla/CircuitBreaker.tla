--------------------------- MODULE CircuitBreaker ---------------------------
(***************************************************************************)
(* The consecutive-failure circuit breaker of pc-resilience (breaker.rs).   *)
(*                                                                         *)
(* Every method of the breaker runs under one Mutex, so each is one action.  *)
(* What is not atomic is CircuitBreaker::call: it takes the lock to be       *)
(* admitted, awaits the guarded future without it, and takes it again to     *)
(* record the outcome.  A caller therefore reports on a breaker that may     *)
(* have changed state since it admitted the caller.                          *)
(*                                                                         *)
(* Time.  The code only ever asks whether an Instant is at least `cooldown`  *)
(* old, so opened_at and probe_started_at are kept as the time elapsed since *)
(* then, saturating at Cooldown, with None for Option::None.                 *)
(***************************************************************************)
EXTENDS Integers

CONSTANTS Callers,       \* the tasks that share the breaker
          ThresholdArg,  \* the `threshold` argument of CircuitBreaker::new
          Cooldown,      \* the `cooldown` argument, in clock ticks
          CounterMax     \* the largest value of consecutive_failures (u32::MAX)

ASSUME BreakerAssumption ==
    /\ Cooldown \in Nat
    /\ CounterMax \in Nat \ {0}
    /\ ThresholdArg \in 0..CounterMax

VARIABLES state,                 \* Inner::state
          consecutive_failures,  \* Inner::consecutive_failures
          opened_at,             \* time since Inner::opened_at, or None
          probe_started_at,      \* time since Inner::probe_started_at, or None
          call,                  \* what each caller has in flight
          age,                   \* time since a probe in flight was admitted
          healthy                \* the dependency has recovered for good

vars == <<state, consecutive_failures, opened_at, probe_started_at,
          call, age, healthy>>

None == -1
Elapsed == 0..Cooldown

TypeOK ==
    /\ state \in {"Closed", "Open", "HalfOpen"}
    /\ consecutive_failures \in 0..CounterMax
    /\ opened_at \in Elapsed \union {None}
    /\ probe_started_at \in Elapsed \union {None}
    /\ call \in [Callers -> {"idle", "call", "probe"}]
    /\ age \in [Callers -> Elapsed]
    /\ healthy \in BOOLEAN

-----------------------------------------------------------------------------
(* CircuitBreaker::new clamps a threshold of 0 to 1. *)
Threshold == IF ThresholdArg >= 1 THEN ThresholdArg ELSE 1

(* t.is_none_or(|t| t.elapsed() >= self.cooldown) *)
CooledDown(t) == t = None \/ t >= Cooldown

Older(t) == IF t \in 0..(Cooldown - 1) THEN t + 1 ELSE t

Init ==
    /\ state = "Closed"
    /\ consecutive_failures = 0
    /\ opened_at = None
    /\ probe_started_at = None
    /\ call = [c \in Callers |-> "idle"]
    /\ age = [c \in Callers |-> 0]
    /\ healthy = FALSE

-----------------------------------------------------------------------------
(* try_acquire.  A refusal changes nothing and is a stuttering step.        *)

AdmitClosed(c) ==
    /\ state = "Closed"
    /\ call' = [call EXCEPT ![c] = "call"]
    /\ UNCHANGED <<state, probe_started_at, age>>

(* Mutant: every caller in HalfOpen is admitted, as before the one-probe rule. *)
AdmitProbe_AnyInHalfOpen(c) ==
    /\ \/ state = "Open" /\ CooledDown(opened_at)
       \/ state = "HalfOpen"
    /\ state' = "HalfOpen"
    /\ probe_started_at' = 0
    /\ call' = [call EXCEPT ![c] = "probe"]
    /\ age' = [age EXCEPT ![c] = 0]

(* Mutant: a lost probe is never replaced. *)
AdmitProbe_NoReplacement(c) ==
    /\ state = "Open" /\ CooledDown(opened_at)
    /\ state' = "HalfOpen"
    /\ probe_started_at' = 0
    /\ call' = [call EXCEPT ![c] = "probe"]
    /\ age' = [age EXCEPT ![c] = 0]

AdmitProbe(c) ==
    /\ \/ state = "Open" /\ CooledDown(opened_at)
       \/ state = "HalfOpen" /\ CooledDown(probe_started_at)
    /\ state' = "HalfOpen"
    /\ probe_started_at' = 0
    /\ call' = [call EXCEPT ![c] = "probe"]
    /\ age' = [age EXCEPT ![c] = 0]

TryAcquire(c) ==
    /\ call[c] = "idle"
    /\ AdmitClosed(c) \/ AdmitProbe(c)
    /\ UNCHANGED <<consecutive_failures, opened_at, healthy>>

(* The caller's future has ended; nothing of it is left in flight. *)
Leave(c) ==
    /\ call[c] # "idle"
    /\ call' = [call EXCEPT ![c] = "idle"]
    /\ age' = [age EXCEPT ![c] = 0]

(* Mutant: as the Go original, a success only resets the counter. *)
RecordSuccess_CounterOnly(c) ==
    /\ Leave(c)
    /\ consecutive_failures' = 0
    /\ UNCHANGED <<state, opened_at, probe_started_at, healthy>>

(* f().await returned Ok: record_success, whatever the state is by now. *)
RecordSuccess(c) ==
    /\ Leave(c)
    /\ consecutive_failures' = 0
    /\ state' = "Closed"
    /\ opened_at' = None
    /\ probe_started_at' = None
    /\ UNCHANGED healthy

(* consecutive_failures += 1 on a u32, which wraps in a release build. *)
Bump(n) == (n + 1) % (CounterMax + 1)

(* Mutant: trips one failure late. *)
Trips_OffByOne(n) == state = "HalfOpen" \/ n > Threshold

(* A failure that brings the counter to n opens the breaker. *)
Trips(n) == state = "HalfOpen" \/ n >= Threshold

(* f().await returned an error that is no cancellation: record_failure. *)
RecordFailure(c) ==
    /\ ~healthy
    /\ Leave(c)
    /\ consecutive_failures' = Bump(consecutive_failures)
    /\ \/ /\ Trips(consecutive_failures')
          /\ state' = "Open"
          /\ opened_at' = 0
          /\ probe_started_at' = None
       \/ /\ ~Trips(consecutive_failures')
          /\ UNCHANGED <<state, opened_at, probe_started_at>>
    /\ UNCHANGED healthy

(* A cancellation error goes to record_cancel, which does nothing; a future  *)
(* that is dropped or panics never reaches a record_* method.  The breaker   *)
(* cannot tell the two apart.                                                *)
RecordCancel(c) ==
    /\ ~healthy
    /\ Leave(c)
    /\ UNCHANGED <<state, consecutive_failures, opened_at, probe_started_at,
                   healthy>>

(* Environment: one unit of time passes. *)
Tick ==
    /\ opened_at' = Older(opened_at)
    /\ probe_started_at' = Older(probe_started_at)
    /\ age' = [c \in Callers |-> IF call[c] = "probe" THEN Older(age[c])
                                                     ELSE age[c]]
    /\ UNCHANGED <<state, consecutive_failures, call, healthy>>

(* Environment: the dependency recovers for good and no call is cancelled or *)
(* lost any more.  It may happen at any time, or never.                      *)
Heal ==
    /\ ~healthy
    /\ healthy' = TRUE
    /\ UNCHANGED <<state, consecutive_failures, opened_at, probe_started_at,
                   call, age>>

Finish(c) == RecordSuccess(c) \/ RecordFailure(c) \/ RecordCancel(c)

Next ==
    \/ \E c \in Callers : TryAcquire(c)
    \/ \E c \in Callers : RecordSuccess(c)
    \/ \E c \in Callers : RecordFailure(c)
    \/ \E c \in Callers : RecordCancel(c)
    \/ Tick
    \/ Heal

Spec == Init /\ [][Next]_vars

(* Time passes, every call ends one way or another, callers keep calling.  *)
Fairness ==
    /\ WF_vars(Tick)
    /\ \A c \in Callers : WF_vars(TryAcquire(c)) /\ WF_vars(Finish(c))

FairSpec == Spec /\ Fairness

-----------------------------------------------------------------------------
(* The fields of Inner agree.  A closed breaker is below its threshold, so a *)
(* run of failures cannot reach it without tripping; an open one knows since *)
(* when; a half-open one knows when its probe left.  The is_none_or arms of  *)
(* try_acquire, which would admit a call at once, are never taken.           *)
StateCoherent ==
    /\ state = "Closed" => /\ consecutive_failures < Threshold
                           /\ opened_at = None
                           /\ probe_started_at = None
    /\ state = "Open" => opened_at # None /\ probe_started_at = None
    /\ state = "HalfOpen" => opened_at # None /\ probe_started_at # None

(* try_acquire's one-probe rule: of the probes in flight at most one was      *)
(* admitted less than a cooldown ago, whatever stragglers close, trip and     *)
(* re-open the breaker in between.                                            *)
OneYoungProbe ==
    \A c, d \in Callers :
        /\ call[c] = "probe" /\ age[c] < Cooldown
        /\ call[d] = "probe" /\ age[d] < Cooldown
        => c = d

(* A probe that is cancelled, dropped or panics never wedges the breaker:     *)
(* while callers keep calling, calls are let through again and again, because *)
(* a probe older than the cooldown is presumed lost.                          *)
NeverWedged == []<>(\E c \in Callers : call[c] # "idle")

(* Once every call succeeds the breaker closes and stays closed, whatever was *)
(* in flight when the dependency recovered.                                   *)
Recovers == healthy ~> [](state = "Closed")
=============================================================================
