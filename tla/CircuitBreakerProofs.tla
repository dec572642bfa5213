------------------------ MODULE CircuitBreakerProofs ------------------------
(***************************************************************************)
(* StateCoherent is inductive with the types.  OneYoungProbe is not: that a *)
(* new probe is alone follows from how old the previous ones are, so the     *)
(* invariant also ties the age of every probe in flight to the instant that  *)
(* gates the next admission (ProbesOlder).                                   *)
(***************************************************************************)
EXTENDS CircuitBreaker, TLAPS

(* No probe in flight is younger than the instant the next admission waits   *)
(* on: opened_at while Open, probe_started_at while HalfOpen.                *)
ProbesOlder ==
    \A c \in Callers :
        call[c] = "probe" => /\ state = "Open" => opened_at <= age[c]
                             /\ state = "HalfOpen" => probe_started_at <= age[c]

BreakerInv == TypeOK /\ StateCoherent /\ ProbesOlder /\ OneYoungProbe

(* The clamp of CircuitBreaker::new leaves a threshold the counter can reach. *)
LEMMA ThresholdType == Threshold \in 1..CounterMax
BY BreakerAssumption DEF Threshold

(* Saturating time stays an elapsed time and never runs backwards. *)
LEMMA OlderElapsed ==
    ASSUME NEW t \in Elapsed
    PROVE  Older(t) \in Elapsed /\ t <= Older(t)
BY BreakerAssumption DEF Older, Elapsed

LEMMA OlderNone == Older(None) = None
BY BreakerAssumption DEF Older, None

LEMMA OlderMonotone ==
    ASSUME NEW s \in Elapsed, NEW t \in Elapsed, s <= t
    PROVE  Older(s) <= Older(t)
BY BreakerAssumption DEF Older, Elapsed

LEMMA InitInv == Init => BreakerInv
<1> SUFFICES ASSUME Init PROVE BreakerInv
  OBVIOUS
<1> USE BreakerAssumption, ThresholdType DEF Init
<1>1. TypeOK
  <2>1. 0 \in 0..CounterMax /\ 0 \in Elapsed
    BY DEF Elapsed
  <2> QED BY <2>1 DEF TypeOK
<1>2. StateCoherent
  BY DEF StateCoherent
<1>3. ProbesOlder /\ OneYoungProbe
  BY DEF ProbesOlder, OneYoungProbe
<1> QED BY <1>1, <1>2, <1>3 DEF BreakerInv

LEMMA TryAcquireInv ==
    ASSUME BreakerInv, NEW c \in Callers, TryAcquire(c)
    PROVE  BreakerInv'
<1> USE BreakerAssumption, ThresholdType
<1>1. CASE AdmitClosed(c)
  <2>1. TypeOK' /\ StateCoherent'
    BY <1>1 DEF BreakerInv, TypeOK, StateCoherent, TryAcquire, AdmitClosed, None
  <2>2. ProbesOlder' /\ OneYoungProbe'
    BY <1>1 DEF BreakerInv, TypeOK, ProbesOlder, OneYoungProbe, TryAcquire,
                AdmitClosed
  <2> QED BY <2>1, <2>2 DEF BreakerInv
<1>2. CASE AdmitProbe(c)
  <2>1. TypeOK'
    BY <1>2 DEF BreakerInv, TypeOK, TryAcquire, AdmitProbe, Elapsed
  <2>2. StateCoherent'
    BY <1>2 DEF BreakerInv, TypeOK, StateCoherent, TryAcquire, AdmitProbe, None
  <2>3. ProbesOlder'
    BY <1>2 DEF BreakerInv, TypeOK, ProbesOlder, TryAcquire, AdmitProbe, Elapsed
  <2>4. \A d \in Callers : call[d] = "probe" => age[d] >= Cooldown
    BY <1>2 DEF BreakerInv, TypeOK, StateCoherent, ProbesOlder, AdmitProbe,
                CooledDown, Elapsed, None
  <2>5. OneYoungProbe'
    BY <1>2, <2>4 DEF BreakerInv, TypeOK, OneYoungProbe, AdmitProbe, Elapsed
  <2> QED BY <2>1, <2>2, <2>3, <2>5 DEF BreakerInv
<1> QED BY <1>1, <1>2 DEF TryAcquire

LEMMA RecordSuccessInv ==
    ASSUME BreakerInv, NEW c \in Callers, RecordSuccess(c)
    PROVE  BreakerInv'
<1> USE BreakerAssumption, ThresholdType
<1>1. TypeOK' /\ StateCoherent'
  BY DEF BreakerInv, TypeOK, StateCoherent, RecordSuccess, Leave, Elapsed, None
<1>2. ProbesOlder' /\ OneYoungProbe'
  BY DEF BreakerInv, TypeOK, ProbesOlder, OneYoungProbe, RecordSuccess, Leave
<1> QED BY <1>1, <1>2 DEF BreakerInv

LEMMA RecordFailureInv ==
    ASSUME BreakerInv, NEW c \in Callers, RecordFailure(c)
    PROVE  BreakerInv'
<1> USE BreakerAssumption, ThresholdType
<1>1. consecutive_failures' \in 0..CounterMax
  BY DEF BreakerInv, TypeOK, RecordFailure, Bump
<1>2. TypeOK'
  BY <1>1 DEF BreakerInv, TypeOK, RecordFailure, Leave, Elapsed
<1>3. StateCoherent'
  BY <1>1 DEF BreakerInv, TypeOK, StateCoherent, RecordFailure, Leave, Trips, None
<1>4. ProbesOlder'
  BY DEF BreakerInv, TypeOK, ProbesOlder, RecordFailure, Leave, Trips, Elapsed
<1>5. OneYoungProbe'
  BY DEF BreakerInv, TypeOK, OneYoungProbe, RecordFailure, Leave
<1> QED BY <1>2, <1>3, <1>4, <1>5 DEF BreakerInv

LEMMA RecordCancelInv ==
    ASSUME BreakerInv, NEW c \in Callers, RecordCancel(c)
    PROVE  BreakerInv'
<1> USE BreakerAssumption, ThresholdType
<1>1. TypeOK' /\ StateCoherent'
  BY DEF BreakerInv, TypeOK, StateCoherent, RecordCancel, Leave, Elapsed
<1>2. ProbesOlder' /\ OneYoungProbe'
  BY DEF BreakerInv, TypeOK, ProbesOlder, OneYoungProbe, RecordCancel, Leave
<1> QED BY <1>1, <1>2 DEF BreakerInv

LEMMA TickInv ==
    ASSUME BreakerInv, Tick
    PROVE  BreakerInv'
<1> USE BreakerAssumption, ThresholdType
<1>1. TypeOK'
  BY OlderElapsed, OlderNone DEF BreakerInv, TypeOK, Tick
<1>2. StateCoherent'
  BY OlderElapsed, OlderNone DEF BreakerInv, TypeOK, StateCoherent, Tick, Elapsed, None
<1>3. ProbesOlder'
  BY OlderMonotone DEF BreakerInv, TypeOK, StateCoherent, ProbesOlder, Tick
<1>4. OneYoungProbe'
  <2>1. \A d \in Callers : call'[d] = "probe" /\ age'[d] < Cooldown
                             => call[d] = "probe" /\ age[d] < Cooldown
    BY OlderElapsed DEF BreakerInv, TypeOK, Tick, Elapsed
  <2> QED BY <2>1 DEF BreakerInv, OneYoungProbe
<1> QED BY <1>1, <1>2, <1>3, <1>4 DEF BreakerInv

LEMMA NextInv == BreakerInv /\ [Next]_vars => BreakerInv'
<1> SUFFICES ASSUME BreakerInv, [Next]_vars PROVE BreakerInv'
  OBVIOUS
<1>1. CASE Heal
  BY <1>1 DEF Heal, BreakerInv, TypeOK, StateCoherent, ProbesOlder, OneYoungProbe
<1>2. CASE UNCHANGED vars
  BY <1>2 DEF vars, BreakerInv, TypeOK, StateCoherent, ProbesOlder, OneYoungProbe
<1> QED
  BY <1>1, <1>2, TryAcquireInv, RecordSuccessInv, RecordFailureInv,
     RecordCancelInv, TickInv DEF Next

(* The inductive invariant of the breaker holds in every reachable state: the  *)
(* fields of Inner agree and the probes in flight are older than the cooldown  *)
(* except the one probe_started_at stands for.                                *)
THEOREM BreakerInvariant == Spec => []BreakerInv
BY InitInv, NextInv, PTL DEF Spec

(* For every set of callers, threshold, cooldown and counter width the       *)
(* variables of the breaker keep their types; the wrapping counter included.  *)
THEOREM BreakerTypeOK == Spec => []TypeOK
<1>1. BreakerInv => TypeOK
  BY DEF BreakerInv
<1> QED BY <1>1, BreakerInvariant, PTL

(* For every set of callers, threshold, cooldown and counter width the fields *)
(* of Inner agree: a closed breaker is below its threshold.                   *)
THEOREM BreakerCoherent == Spec => []StateCoherent
<1>1. BreakerInv => StateCoherent
  BY DEF BreakerInv
<1> QED BY <1>1, BreakerInvariant, PTL

(* The one-probe rule of try_acquire, for every number of callers: at most    *)
(* one probe younger than the cooldown is in flight.                          *)
THEOREM BreakerOneProbe == Spec => []OneYoungProbe
<1>1. BreakerInv => OneYoungProbe
  BY DEF BreakerInv
<1> QED BY <1>1, BreakerInvariant, PTL
=============================================================================
