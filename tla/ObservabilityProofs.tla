------------------------ MODULE ObservabilityProofs ------------------------
(***************************************************************************)
(* What a service tells about itself: the guards of pc-trace, the gates of       *)
(* pc-log, and the start of the service with pc-sentry, the pools and            *)
(* pc-health, each with its inductive invariant.                              *)
(***************************************************************************)
EXTENDS TraceGuard, LogGate, Startup, SequenceTheorems, WellFoundedInduction, TLAPS

(***************************************************************************)
(* pc-trace: the flag and the providers are in step, for any number of calls     *)
(* and whatever the environment says.                                          *)
(***************************************************************************)


(* Where a call's providers may be running: NothingLeaks is not inductive, since  *)
(* it does not say that they are down when a call reaches its end.               *)
Owned ==
    \A i \in Calls :
        /\ i \in tracers => pc[i] \in {"metric", "set_tracer", "set_meter", "store",
                                       "guard", "tracer_down"}
        /\ i \in meters => pc[i] \in {"set_tracer", "set_meter", "store",
                                      "guard", "tracer_down", "meter_down"}

(* Only a call whose configuration passed ensure_required builds anything. *)
Checked == \A i \in Calls : pc[i] = "span" => EnsureRequired(env[i])

TraceInv == TypeOK /\ FlagFollowsGuards /\ Owned /\ Checked

(* Running providers have somebody who shuts them down. *)
LEMMA OwnedIsEnough == Owned => NothingLeaks
  BY DEF Owned, NothingLeaks

(* The initial state has nothing running and the flag down. *)
LEMMA TraceInit == Init => TraceInv
  <1> SUFFICES ASSUME Init PROVE TraceInv
    OBVIOUS
  <1>1. TypeOK
    <2>1. enabled \in BOOLEAN
      BY DEF Init
    <2>2. pc \in [Calls -> Locations] /\ ratio \in [Calls -> 0..10]
      BY SMT DEF Init, Locations
    <2>3. tracers \in SUBSET Calls /\ meters \in SUBSET Calls
      BY DEF Init
    <2> QED BY <2>1, <2>2, <2>3 DEF Init, TypeOK
  <1>2. FlagFollowsGuards
    BY DEF Init, FlagFollowsGuards
  <1>3. Owned /\ Checked
    BY DEF Init, Owned, Checked
  <1> QED BY <1>1, <1>2, <1>3 DEF TraceInv

(* One step of one call keeps the invariant. *)
LEMMA TraceStep == ASSUME NEW i \in Calls, TraceInv, Step(i) PROVE TraceInv'
  <1> USE TraceAssumption DEF TraceInv, Goto
  <1>1. TypeOK'
    <2>1. RatioUsed(env[i]) \in 0..10 \/ pc[i] # "span"
      BY DEF Checked, EnsureRequired
    <2>2. CASE BuildTracer(i)
      BY <2>1, <2>2 DEF BuildTracer, TypeOK, Locations
    <2>3. CASE Start(i)
      BY <2>3 DEF Start, TypeOK, Locations
    <2>4. CASE SetTracer(i) \/ SetMeter(i) \/ Store(i) \/ Shutdown(i)
      BY <2>4 DEF SetTracer, SetMeter, Store, Shutdown, TypeOK, Locations
    <2>5. CASE SpanFails(i) \/ MetricFails(i) \/ BuildMeter(i)
      BY <2>5 DEF SpanFails, MetricFails, BuildMeter, TypeOK, Locations
    <2>6. CASE TracerDown(i) \/ MeterDown(i) \/ Clear(i) \/ EmptyShutdown(i)
      BY <2>6 DEF TracerDown, MeterDown, Clear, EmptyShutdown, TypeOK, Locations
    <2> QED BY <2>2, <2>3, <2>4, <2>5, <2>6 DEF Step
  <1>2. FlagFollowsGuards'
    <2>1. CASE Clear(i) \/ EmptyShutdown(i)
      BY <2>1 DEF Clear, EmptyShutdown, FlagFollowsGuards
    <2>2. CASE Store(i)
      <3>1. pc'[i] = "guard"
        BY <2>2 DEF Store, TypeOK
      <3> QED BY <3>1 DEF FlagFollowsGuards, Raised
    <2>3. CASE Shutdown(i) \/ TracerDown(i) \/ MeterDown(i)
      <3>1. pc'[i] \in {"tracer_down", "meter_down", "clear"}
        BY <2>3 DEF Shutdown, TracerDown, MeterDown, TypeOK
      <3> QED BY <3>1 DEF FlagFollowsGuards, Raised
    <2>4. CASE Start(i) \/ SpanFails(i) \/ BuildTracer(i) \/ MetricFails(i)
               \/ BuildMeter(i) \/ SetTracer(i) \/ SetMeter(i)
      <3>1. enabled' = enabled /\ i \notin Raised
        BY <2>4 DEF Start, SpanFails, BuildTracer, MetricFails, BuildMeter, SetTracer,
                    SetMeter, Raised
      <3>2. \A j \in Calls : j # i => pc'[j] = pc[j]
        BY <2>4 DEF Start, SpanFails, BuildTracer, MetricFails, BuildMeter, SetTracer,
                    SetMeter, TypeOK
      <3> QED BY <3>1, <3>2 DEF FlagFollowsGuards, Raised
    <2> QED BY <2>1, <2>2, <2>3, <2>4 DEF Step
  <1>3. Owned'
    <2>1. CASE Start(i) \/ SpanFails(i) \/ BuildTracer(i) \/ MetricFails(i)
      BY <2>1 DEF Start, SpanFails, BuildTracer, MetricFails, Owned, TypeOK
    <2>2. CASE BuildMeter(i) \/ SetTracer(i) \/ SetMeter(i) \/ Store(i)
      BY <2>2 DEF BuildMeter, SetTracer, SetMeter, Store, Owned, TypeOK
    <2>3. CASE Shutdown(i) \/ TracerDown(i) \/ MeterDown(i)
      BY <2>3 DEF Shutdown, TracerDown, MeterDown, Owned, TypeOK
    <2>4. CASE Clear(i) \/ EmptyShutdown(i)
      BY <2>4 DEF Clear, EmptyShutdown, Owned, TypeOK
    <2> QED BY <2>1, <2>2, <2>3, <2>4 DEF Step
  <1>4. Checked'
    <2>1. env' = env
      BY DEF Step, Start, SpanFails, BuildTracer, MetricFails, BuildMeter, SetTracer,
             SetMeter, Store, Shutdown, TracerDown, MeterDown, Clear, EmptyShutdown
    <2>2. CASE Start(i)
      BY <2>1, <2>2 DEF Start, Checked, TypeOK, EnsureRequired, RatioUsed
    <2>3. CASE ~Start(i)
      <3>1. \A j \in Calls : pc'[j] = "span" => pc[j] = "span"
        BY <2>3 DEF Step, SpanFails, BuildTracer, MetricFails, BuildMeter, SetTracer,
               SetMeter, Store, Shutdown, TracerDown, MeterDown, Clear, EmptyShutdown,
               TypeOK
      <3> QED BY <2>1, <3>1 DEF Checked, EnsureRequired, RatioUsed
    <2> QED BY <2>2, <2>3
  <1> QED BY <1>1, <1>2, <1>3, <1>4

(* The invariant of pc-trace's life cycle. *)
THEOREM TraceInvariant == Spec => []TraceInv
  <1>1. TraceInv /\ [Next]_vars => TraceInv'
    <2> SUFFICES ASSUME TraceInv, [Next]_vars PROVE TraceInv'
      OBVIOUS
    <2>1. CASE Next
      BY <2>1, TraceStep DEF Next
    <2>2. CASE UNCHANGED vars
      BY <2>2 DEF vars, TraceInv, TypeOK, FlagFollowsGuards, Raised, Owned, Checked,
                  EnsureRequired, RatioUsed
    <2> QED BY <2>1, <2>2
  <1> QED BY <1>1, TraceInit, PTL DEF Spec

(* Types; the ratio of a provider lies in the range ensure_required asks for. *)
THEOREM TraceTypeOK == Spec => []TypeOK
  <1>1. TraceInv => TypeOK BY DEF TraceInv
  <1> QED BY <1>1, TraceInvariant, PTL

(* is_enabled does not stay true after the last guard has lowered it. *)
THEOREM TraceFlag == Spec => []FlagFollowsGuards
  <1>1. TraceInv => FlagFollowsGuards BY DEF TraceInv
  <1> QED BY <1>1, TraceInvariant, PTL

(* No init or shutdown, complete or failed, leaves a provider running behind. *)
THEOREM TraceNothingLeaks == Spec => []NothingLeaks
  <1>1. TraceInv => NothingLeaks BY OwnedIsEnough DEF TraceInv
  <1> QED BY <1>1, TraceInvariant, PTL

-----------------------------------------------------------------------------
(***************************************************************************)
(* pc-log: the gates of the log macros.                                      *)
(***************************************************************************)

(* A sampler that does not exist yet has no entry, and nobody holds it. *)
Unused ==
    \A g \in Samplers : g > gen =>
        \A k \in Keys : /\ entry[g][k] = [count |-> 0, reset |-> NoStamp]
                        /\ lines.sampled[g][k] = NoLines

Held == \A t \in Loggers : call[t].at = "sample" => call[t].sampler <= gen

(* An entry counts from its time stamp on. *)
Counting ==
    \A g \in Samplers, k \in Keys : entry[g][k].reset = NoStamp => entry[g][k].count = 0

GateInv ==
    GateTypeOK /\ Unused /\ Held /\ Counting /\ SampledExactly /\ SuppressedConserved

(* The fates e, d and r of the first n lines of a period: the burst of i lines, then  *)
(* every h-th.                                                                    *)
Fair(i, h, n, e, d, r) ==
    LET over == IF n > i THEN n - i ELSE 0
    IN  /\ e + d = n
        /\ e = (n - over) + (IF h = 0 THEN 0 ELSE over \div h)
        /\ d - r = (IF h = 0 THEN over ELSE over % h)

FairFor(cfg, n, f) ==
    Fair(cfg.initial, cfg.thereafter, n, f.emitted, f.dropped, f.reported)

SamplerConfigs == [initial : Nat, thereafter : Nat, period : Nat \ {0}]

LEMMA SampledIsFair ==
    SampledExactly <=>
        \A g \in Samplers, k \in Keys :
            config[g].initial > 0 => FairFor(config[g], entry[g][k].count, lines.sampled[g][k])
  BY DEF SampledExactly, Fair, FairFor

(* One more divides the next multiple, or leaves one more. *)
LEMMA DivStep ==
    ASSUME NEW x \in Nat, NEW h \in Nat \ {0}
    PROVE  /\ (x + 1) % h = 0 => (x + 1) \div h = (x \div h) + 1 /\ x % h = h - 1
           /\ (x + 1) % h # 0 => (x + 1) \div h = x \div h /\ (x + 1) % h = (x % h) + 1
           /\ x \div h \in Int /\ x % h \in Int
  OBVIOUS

LEMMA DivZero ==
    ASSUME NEW h \in Nat \ {0} PROVE 0 \div h = 0 /\ 0 % h = 0
  OBVIOUS

(* Within the burst nothing is dropped. *)
LEMMA FairBurst ==
    ASSUME NEW i \in Nat, NEW h \in Nat, NEW n \in Nat, NEW e \in Nat, NEW d \in Nat, NEW r \in Nat,
           n <= i
    PROVE  /\ Fair(i, h, n, e, d, r) => e = n /\ d = 0 /\ r = 0
           /\ e = n /\ d = 0 /\ r = 0 => Fair(i, h, n, e, d, r)
<1>1. h # 0 => 0 \div h = 0 /\ 0 % h = 0
  BY DivZero
<1>2. Fair(i, h, n, e, d, r) <=>
        e + d = n /\ e = n + (IF h = 0 THEN 0 ELSE 0 \div h)
        /\ d - r = (IF h = 0 THEN 0 ELSE 0 % h)
  BY DEF Fair
<1> QED BY <1>1, <1>2

(* What Tally makes of a line that is emitted, and of one that is not. *)
LEMMA TallyEmit ==
    ASSUME NEW f \in Fates, NEW s \in Nat
    PROVE  Tally(f, [emit |-> TRUE, suppressed |-> s]) =
             [emitted |-> f.emitted + 1, dropped |-> f.dropped, reported |-> f.reported + s]
  BY DEF Tally, Fates

LEMMA TallyDrop ==
    ASSUME NEW f \in Fates, NEW s \in Nat
    PROVE  Tally(f, [emit |-> FALSE, suppressed |-> s]) =
             [emitted |-> f.emitted, dropped |-> f.dropped + 1, reported |-> f.reported]
  BY DEF Tally, Fates

(* SampleVerdict keeps the account, line by line. *)
LEMMA VerdictIsFair ==
    ASSUME NEW cfg \in SamplerConfigs, NEW n \in Nat, NEW f \in Fates, FairFor(cfg, n, f)
    PROVE  /\ FairFor(cfg, n + 1, Tally(f, SampleVerdict(cfg, n + 1)))
           /\ Tally(f, SampleVerdict(cfg, n + 1)) \in Fates
<1> DEFINE i == cfg.initial
           h == cfg.thereafter
           v == SampleVerdict(cfg, n + 1)
           g == Tally(f, v)
<1>0. i \in Nat /\ h \in Nat /\ f.emitted \in Nat /\ f.dropped \in Nat /\ f.reported \in Nat
  BY DEF SamplerConfigs, Fates
<1>1. SUFFICES ASSUME NEW e \in Nat, NEW d \in Nat, NEW r \in Nat,
                      e = f.emitted, d = f.dropped, r = f.reported, Fair(i, h, n, e, d, r)
               PROVE  g \in Fates /\ Fair(i, h, n + 1, g.emitted, g.dropped, g.reported)
  BY <1>0 DEF FairFor
<1>2. CASE n + 1 <= i
  <2>1. v = [emit |-> TRUE, suppressed |-> 0]
    BY <1>2 DEF SampleVerdict
  <2>2. g = [emitted |-> e + 1, dropped |-> d, reported |-> r + 0]
    BY <1>1, <2>1, TallyEmit
  <2> HIDE DEF i, h, v, g
  <2>3. n <= i /\ n + 1 \in Nat /\ e + 1 \in Nat /\ r + 0 \in Nat
    BY <1>0, <1>1, <1>2
  <2>4. e = n /\ d = 0 /\ r = 0
    BY <1>0, <1>1, <2>3, FairBurst
  <2>5. Fair(i, h, n + 1, e + 1, d, r + 0)
    BY <1>0, <1>1, <1>2, <2>3, <2>4, FairBurst
  <2> QED BY <1>1, <2>2, <2>3, <2>5 DEF Fates
<1>3. CASE n + 1 > i
  <2>0. PICK x \in Nat : n = i + x
    <3>1. n - i \in Nat /\ n = i + (n - i)
      BY <1>0, <1>3
    <3> QED BY <3>1
  <2>1. /\ e + d = n
        /\ e = i + (IF h = 0 THEN 0 ELSE x \div h)
        /\ d - r = (IF h = 0 THEN x ELSE x % h)
    <3>1. (IF n > i THEN n - i ELSE 0) = x /\ n - x = i
      BY <1>0, <2>0
    <3> QED BY <1>1, <3>1 DEF Fair
  <2>2. (n + 1) - i = x + 1 /\ n + 1 = i + (x + 1) /\ ~(n + 1 <= i) /\ x + 1 \in Nat /\ n + 1 \in Nat
    BY <1>0, <2>0
  <2>3. (IF n + 1 > i THEN (n + 1) - i ELSE 0) = x + 1 /\ (n + 1) - (x + 1) = i
    BY <1>0, <2>0
  <2>4. v = IF h # 0 /\ (x + 1) % h = 0 THEN [emit |-> TRUE, suppressed |-> h - 1]
                                        ELSE [emit |-> FALSE, suppressed |-> 0]
    BY <2>2 DEF SampleVerdict
  <2>5. CASE h # 0 /\ (x + 1) % h = 0
    <3>1. h - 1 \in Nat /\ h \in Nat \ {0}
      BY <1>0, <2>5
    <3>2. g = [emitted |-> e + 1, dropped |-> d, reported |-> r + (h - 1)]
      BY <1>1, <2>4, <2>5, <3>1, TallyEmit
    <3>3. (x + 1) \div h = (x \div h) + 1 /\ x % h = h - 1 /\ x \div h \in Int
      BY <2>5, <3>1, DivStep
    <3> HIDE DEF i, h, v, g
    <3>4. e + 1 \in Nat /\ r + (h - 1) \in Nat
      BY <1>1, <3>1
    <3>5. /\ (e + 1) + d = n + 1 /\ e + 1 = i + ((x + 1) \div h)
          /\ d - (r + (h - 1)) = 0
      BY <1>0, <1>1, <2>0, <2>1, <2>5, <3>1, <3>3
    <3>6. Fair(i, h, n + 1, e + 1, d, r + (h - 1))
      BY <2>5, <2>3, <3>5 DEF Fair
    <3> QED BY <1>1, <2>2, <3>2, <3>4, <3>6 DEF Fates
  <2>6. CASE ~(h # 0 /\ (x + 1) % h = 0)
    <3>1. g = [emitted |-> e, dropped |-> d + 1, reported |-> r]
      BY <1>1, <2>4, <2>6, TallyDrop
    <3>2. h # 0 => /\ (x + 1) \div h = x \div h /\ (x + 1) % h = (x % h) + 1
                   /\ x \div h \in Int /\ x % h \in Int
      BY <1>0, <2>6, DivStep
    <3> HIDE DEF i, h, v, g
    <3>3. /\ e + (d + 1) = n + 1
          /\ e = i + (IF h = 0 THEN 0 ELSE (x + 1) \div h)
          /\ (d + 1) - r = (IF h = 0 THEN x + 1 ELSE (x + 1) % h)
      BY <1>0, <1>1, <2>0, <2>1, <3>2
    <3>4. d + 1 \in Nat
      BY <1>1
    <3>5. Fair(i, h, n + 1, e, d + 1, r)
      BY <2>3, <3>3 DEF Fair
    <3> QED BY <1>1, <2>2, <3>1, <3>4, <3>5 DEF Fates
  <2> QED BY <2>5, <2>6
<1> QED BY <1>0, <1>2, <1>3

-----------------------------------------------------------------------------
(* The steps of the gates. *)

LEMMA DisabledIs == Disabled \in SamplerConfigs /\ Disabled.initial = 0
  BY LogGateAssumption DEF Disabled, SamplerConfigs

LEMMA NormalisedIs ==
    ASSUME NEW c \in Configs, Normalised(c).initial # 0
    PROVE  Normalised(c) \in SamplerConfigs
<1>1. c \in [initial : Nat, thereafter : Nat, period : Nat]
  BY LogGateAssumption
<1>2. CASE c.period = 0 /\ c.initial > 0
  BY <1>1, <1>2, LogGateAssumption DEF Normalised, SamplerConfigs
<1>3. CASE ~(c.period = 0 /\ c.initial > 0)
  BY <1>1, <1>3 DEF Normalised, SamplerConfigs
<1> QED BY <1>2, <1>3

(* What a thread is checking, by the kind of its gate. *)
LEMMA CallIs ==
    ASSUME GateTypeOK, NEW t \in Loggers
    PROVE  /\ call[t].at = "sample" =>
                call[t].key \in Keys /\ call[t].now \in 0..MaxClock /\ call[t].sampler \in Samplers
           /\ call[t].at = "window" =>
                call[t].key \in Keys /\ call[t].now \in 0..MaxClock /\ call[t].window \in Windows
<1>1. CASE call[t] = Idle
  BY <1>1 DEF Idle
<1>2. CASE call[t] \in [at : {"sample"}, key : Keys, now : 0..MaxClock, sampler : Samplers]
  BY <1>2
<1>3. CASE call[t] \in [at : {"window"}, key : Keys, now : 0..MaxClock, window : Windows]
  BY <1>3
<1> QED BY <1>1, <1>2, <1>3 DEF GateTypeOK

LEMMA GateInitInv == GateInit => GateInv
<1> SUFFICES ASSUME GateInit PROVE GateInv
  OBVIOUS
<1>0. 0 \in Samplers /\ NoStamp \in -1..MaxClock /\ NoLines \in Fates /\ MaxClock \in Nat
  BY LogGateAssumption DEF Samplers, NoStamp, NoLines, Fates
<1>1. GateTypeOK
  <2>1. entry \in [Samplers -> [Keys -> [count : Nat, reset : -1..MaxClock]]]
    BY <1>0 DEF GateInit
  <2>2. gate \in [Keys -> [last : -1..MaxClock, suppressed : Nat]]
    BY <1>0 DEF GateInit
  <2>3. lines \in [sampled : [Samplers -> [Keys -> Fates]], rated : [Keys -> Fates]]
    BY <1>0 DEF GateInit
  <2>4. clock \in 0..MaxClock /\ calls \in 0..MaxCalls /\ gen \in Samplers
    BY <1>0, LogGateAssumption DEF GateInit
  <2>5. config \in [Samplers -> SamplerConfigs]
    BY DisabledIs DEF GateInit
  <2> QED BY <2>1, <2>2, <2>3, <2>4, <2>5 DEF GateInit, GateTypeOK, SamplerConfigs
<1>2. Unused /\ Held /\ Counting
  BY DEF GateInit, Unused, Held, Counting, Idle
<1>3. SampledExactly
  BY DisabledIs DEF GateInit, SampledExactly
<1>4. SuppressedConserved
  BY DEF GateInit, SuppressedConserved, NoLines
<1> QED BY <1>1, <1>2, <1>3, <1>4 DEF GateInv

LEMMA InitializeInv ==
    ASSUME GateInv, NEW c \in Configs, InitializeSampler(c) PROVE GateInv'
<1> USE DEF GateInv
<1> DEFINE new == IF Normalised(c).initial = 0 THEN Disabled ELSE Normalised(c)
<1>0. /\ gen \in Nat /\ gen + 1 \in Samplers /\ gen' = gen + 1
      /\ config' = [config EXCEPT ![gen + 1] = new]
      /\ UNCHANGED <<clock, entry, gate, call, calls, lines>>
      /\ config \in [Samplers -> SamplerConfigs]
  BY LogGateAssumption DEF InitializeSampler, GateTypeOK, Samplers, SamplerConfigs
<1>1. new \in SamplerConfigs
  BY DisabledIs, NormalisedIs
<1> HIDE DEF new
<1>2. config' \in [Samplers -> SamplerConfigs]
  BY <1>0, <1>1
<1>3. GateTypeOK'
  BY <1>0, <1>2 DEF GateTypeOK, SamplerConfigs
<1>4. Unused' /\ Held' /\ Counting' /\ SuppressedConserved'
  <2>1. \A g \in Samplers : g \in Int
    BY DEF Samplers
  <2>2. Unused'
    BY <1>0, <2>1 DEF Unused
  <2>3. Held'
    <3> SUFFICES ASSUME NEW t \in Loggers, call[t].at = "sample" PROVE call[t].sampler <= gen + 1
      BY <1>0 DEF Held
    <3>1. call[t].sampler \in Samplers /\ call[t].sampler <= gen
      BY CallIs DEF Held
    <3> QED BY <1>0, <2>1, <3>1
  <2> QED BY <1>0, <2>2, <2>3 DEF Counting, SuppressedConserved
<1>5. SampledExactly'
  <2>1. SUFFICES ASSUME NEW g \in Samplers, NEW k \in Keys, config'[g].initial > 0
                 PROVE  FairFor(config'[g], entry[g][k].count, lines.sampled[g][k])
    <3>1. \A g \in Samplers, k \in Keys : config'[g].initial > 0 =>
            FairFor(config'[g], entry'[g][k].count, lines'.sampled[g][k])
      BY <1>0, <2>1
    <3> QED BY <3>1 DEF SampledExactly, FairFor, Fair
  <2>2. CASE g # gen + 1
    BY <1>0, <2>1, <2>2, SampledIsFair
  <2>3. CASE g = gen + 1
    <3>1. entry[g][k] = [count |-> 0, reset |-> NoStamp] /\ lines.sampled[g][k] = NoLines
      BY <1>0, <2>3 DEF Unused
    <3>2. config'[g].initial \in Nat /\ config'[g].thereafter \in Nat
      BY <1>2 DEF SamplerConfigs
    <3>3. Fair(config'[g].initial, config'[g].thereafter, 0, 0, 0, 0)
      BY <3>2, FairBurst
    <3> QED BY <3>1, <3>3 DEF FairFor, NoLines
  <2> QED BY <2>2, <2>3
<1> QED BY <1>3, <1>4, <1>5

(* A line is on its way: only the calls change. *)
LEMMA EnterInv ==
    ASSUME GateInv, NEW t \in Loggers, NEW k \in Keys,
           EnterSample(t, k) \/ \E w \in Windows : EnterWindow(t, k, w)
    PROVE  GateInv'
<1> USE DEF GateInv
<1>0. PICK c : /\ call' = [call EXCEPT ![t] = c]
               /\ UNCHANGED <<clock, config, gen, entry, gate, lines>>
               /\ calls' = calls + 1 /\ calls < MaxCalls
               /\ \/ c = [at |-> "sample", key |-> k, now |-> clock, sampler |-> gen]
                  \/ \E w \in Windows : c = [at |-> "window", key |-> k, now |-> clock, window |-> w]
  BY DEF EnterSample, EnterWindow, CurrentSampler
<1>1. GateTypeOK'
  <2>1. calls' \in 0..MaxCalls
    BY <1>0, LogGateAssumption DEF GateTypeOK
  <2>2. c \in {Idle}
            \union [at : {"sample"}, key : Keys, now : 0..MaxClock, sampler : Samplers]
            \union [at : {"window"}, key : Keys, now : 0..MaxClock, window : Windows]
    BY <1>0 DEF GateTypeOK
  <2> QED BY <1>0, <2>1, <2>2 DEF GateTypeOK
<1>2. Held'
  <2>1. c.at = "sample" => c.sampler <= gen
    <3>1. gen \in Int
      BY DEF GateTypeOK, Samplers
    <3>2. CASE c = [at |-> "sample", key |-> k, now |-> clock, sampler |-> gen]
      BY <3>1, <3>2
    <3>3. CASE \E w \in Windows : c = [at |-> "window", key |-> k, now |-> clock, window |-> w]
      BY <3>3
    <3> QED BY <1>0, <3>2, <3>3
  <2> QED BY <1>0, <2>1 DEF Held, GateTypeOK
<1>3. Unused' /\ Counting' /\ SampledExactly' /\ SuppressedConserved'
  BY <1>0 DEF Unused, Counting, SampledExactly, SuppressedConserved
<1> QED BY <1>1, <1>2, <1>3

LEMMA TimePassesInv == GateInv /\ TimePasses => GateInv'
<1> SUFFICES ASSUME GateInv, TimePasses PROVE GateInv'
  OBVIOUS
<1> USE DEF GateInv
<1>1. GateTypeOK'
  BY LogGateAssumption DEF GateTypeOK, TimePasses
<1>2. Unused' /\ Held'
  BY DEF TimePasses, Unused, Held
<1>3. Counting' /\ SampledExactly'
  BY DEF TimePasses, Counting, SampledExactly
<1>4. SuppressedConserved'
  BY Zenon DEF TimePasses, SuppressedConserved
<1> QED BY <1>1, <1>2, <1>3, <1>4

(* A line under the lock of its sampler entry. *)
LEMMA CheckSampleInv ==
    ASSUME GateInv, NEW t \in Loggers, CheckSample(t)
    PROVE  /\ GateInv'
           /\ \A g \in Samplers, k \in Keys :
                \/ entry'[g][k].reset > entry[g][k].reset
                \/ /\ entry'[g][k].reset = entry[g][k].reset
                   /\ entry'[g][k].count >= entry[g][k].count
<1> USE DEF GateInv
<1> DEFINE c == call[t]
           G == c.sampler
           K == c.key
           cfg == config[G]
           old == entry[G][K]
           e == IF old.reset = NoStamp THEN [count |-> 0, reset |-> c.now] ELSE old
           f == lines.sampled[G][K]
           Sampled(en, fa) ==
             /\ entry' = [entry EXCEPT ![G][K] = en]
             /\ lines' = [lines EXCEPT !.sampled[G][K] = fa]
<1>0. /\ call' = [call EXCEPT ![t] = Idle] /\ UNCHANGED <<clock, config, gen, gate, calls>>
      /\ G \in Samplers /\ K \in Keys /\ c.now \in 0..MaxClock /\ c.now \in Nat
      /\ G \in Int /\ gen \in Int /\ G <= gen /\ NoStamp = -1
  <2>1. /\ call' = [call EXCEPT ![t] = Idle] /\ UNCHANGED <<clock, config, gen, gate, calls>>
        /\ c.at = "sample"
    BY DEF CheckSample
  <2>2. G \in Samplers /\ K \in Keys /\ c.now \in 0..MaxClock /\ G <= gen
    BY <2>1, CallIs DEF Held
  <2>3. G \in Int /\ gen \in Int /\ c.now \in Nat
    BY <2>2, LogGateAssumption DEF GateTypeOK, Samplers
  <2> QED BY <2>1, <2>2, <2>3 DEF NoStamp
<1>1. /\ old \in [count : Nat, reset : -1..MaxClock] /\ f \in Fates
      /\ cfg \in SamplerConfigs /\ lines.rated \in [Keys -> Fates]
      /\ entry \in [Samplers -> [Keys -> [count : Nat, reset : -1..MaxClock]]]
      /\ lines \in [sampled : [Samplers -> [Keys -> Fates]], rated : [Keys -> Fates]]
  BY <1>0 DEF GateTypeOK, SamplerConfigs
<1>2. /\ e \in [count : Nat, reset : 0..MaxClock] /\ e.count = old.count
      /\ old.reset = NoStamp \/ e.reset = old.reset
      /\ e.reset >= old.reset
  <2>1. old.reset = NoStamp => old.count = 0
    BY <1>0 DEF Counting
  <2>2. CASE old.reset = NoStamp
    BY <1>0, <1>1, <2>1, <2>2
  <2>3. CASE old.reset # NoStamp
    BY <1>0, <1>1, <2>3, LogGateAssumption
  <2> QED BY <2>2, <2>3
<1>3. cfg.initial > 0 => FairFor(cfg, old.count, f)
  BY <1>0, SampledIsFair
<1>4. \/ UNCHANGED <<entry, lines>>
      \/ /\ cfg.initial > 0 /\ Elapsed(c.now, e.reset) >= cfg.period
         /\ Sampled([count |-> 1, reset |-> c.now], [NoLines EXCEPT !.emitted = 1])
      \/ /\ cfg.initial > 0
         /\ Sampled([e EXCEPT !.count = @ + 1], Tally(f, SampleVerdict(cfg, e.count + 1)))
  BY DEF CheckSample
<1>5. ASSUME UNCHANGED <<entry, lines>> PROVE
        /\ GateInv'
        /\ \A g \in Samplers, k \in Keys :
             entry'[g][k].reset = entry[g][k].reset /\ entry'[g][k].count >= entry[g][k].count
  <2>1. GateTypeOK'
    BY <1>0, <1>5 DEF GateTypeOK
  <2>2. Held'
    BY <1>0 DEF Held, GateTypeOK, Idle
  <2>3. Unused' /\ Counting' /\ SampledExactly' /\ SuppressedConserved'
    BY <1>0, <1>5 DEF Unused, Counting, SampledExactly, SuppressedConserved
  <2>4. \A g \in Samplers, k \in Keys : entry[g][k].count \in Nat
    BY <1>1
  <2> QED BY <1>5, <2>1, <2>2, <2>3, <2>4
<1>6. ASSUME NEW en \in [count : Nat, reset : 0..MaxClock], NEW fa \in Fates, Sampled(en, fa),
             cfg.initial > 0 => FairFor(cfg, en.count, fa),
             en.reset > old.reset \/ (en.reset = old.reset /\ en.count >= old.count)
      PROVE  /\ GateInv'
             /\ \A g \in Samplers, k \in Keys :
                  \/ entry'[g][k].reset > entry[g][k].reset
                  \/ /\ entry'[g][k].reset = entry[g][k].reset
                     /\ entry'[g][k].count >= entry[g][k].count
  <2> HIDE DEF cfg, e, old, f
  <2>0. /\ en \in [count : Nat, reset : -1..MaxClock] /\ en.reset # NoStamp
    BY <1>0, LogGateAssumption
  <2>1. \A g \in Samplers, k \in Keys :
           entry'[g][k] = IF g = G /\ k = K THEN en ELSE entry[g][k]
    BY <1>0, <1>1, <1>6
  <2>2. /\ entry' \in [Samplers -> [Keys -> [count : Nat, reset : -1..MaxClock]]]
    BY <1>0, <1>1, <1>6, <2>0
  <2>3. /\ lines' \in [sampled : [Samplers -> [Keys -> Fates]], rated : [Keys -> Fates]]
        /\ lines'.rated = lines.rated
    BY <1>0, <1>1, <1>6
  <2>4. \A g \in Samplers, k \in Keys :
           lines'.sampled[g][k] = IF g = G /\ k = K THEN fa ELSE lines.sampled[g][k]
    BY <1>0, <1>1, <1>6
  <2>5. GateTypeOK'
    BY <1>0, <2>2, <2>3 DEF GateTypeOK
  <2>6. Held'
    BY <1>0 DEF Held, GateTypeOK, Idle
  <2>7. Unused'
    BY <1>0, <2>1, <2>4 DEF Unused
  <2>8. Counting'
    BY <2>0, <2>1 DEF Counting
  <2>9. SuppressedConserved'
    BY <1>0, <2>3 DEF SuppressedConserved
  <2>10. SampledExactly'
    <3>1. SUFFICES ASSUME NEW g \in Samplers, NEW k \in Keys, config[g].initial > 0
                   PROVE  FairFor(config[g], entry'[g][k].count, lines'.sampled[g][k])
      BY <1>0 DEF SampledExactly, FairFor, Fair
    <3>2. CASE g = G /\ k = K
      BY <1>6, <2>1, <2>4, <3>1, <3>2 DEF cfg
    <3>3. CASE ~(g = G /\ k = K)
      BY <2>1, <2>4, <3>1, <3>3, SampledIsFair
    <3> QED BY <3>2, <3>3
  <2>11. \A g \in Samplers, k \in Keys : entry[g][k].count \in Nat
    BY <1>1
  <2>12. \A g \in Samplers, k \in Keys :
                  \/ entry'[g][k].reset > entry[g][k].reset
                  \/ /\ entry'[g][k].reset = entry[g][k].reset
                     /\ entry'[g][k].count >= entry[g][k].count
    BY <1>6, <2>1, <2>11 DEF old
  <2> QED BY <2>5, <2>6, <2>7, <2>8, <2>9, <2>10, <2>12
<1>7. CASE /\ cfg.initial > 0 /\ Elapsed(c.now, e.reset) >= cfg.period
           /\ Sampled([count |-> 1, reset |-> c.now], [NoLines EXCEPT !.emitted = 1])
  <2>1. c.now > old.reset
    <3>1. cfg.period \in Nat \ {0} /\ e.reset \in Nat /\ old.reset \in Int
      BY <1>1, <1>2 DEF SamplerConfigs
    <3>2. c.now > e.reset
      BY <1>0, <1>7, <3>1 DEF Elapsed
    <3> QED BY <1>0, <1>2, <3>1, <3>2
  <2>2. [NoLines EXCEPT !.emitted = 1] = [emitted |-> 1, dropped |-> 0, reported |-> 0]
    BY DEF NoLines
  <2>3. FairFor(cfg, 1, [NoLines EXCEPT !.emitted = 1])
    <3>1. cfg.initial \in Nat /\ cfg.thereafter \in Nat /\ 1 <= cfg.initial
      BY <1>1, <1>7 DEF SamplerConfigs
    <3>2. Fair(cfg.initial, cfg.thereafter, 1, 1, 0, 0)
      BY <3>1, FairBurst
    <3> QED BY <2>2, <3>2 DEF FairFor
  <2>4. [NoLines EXCEPT !.emitted = 1] \in Fates
    BY <2>2 DEF Fates
  <2> QED BY <1>0, <1>6, <1>7, <2>1, <2>3, <2>4
<1>8. CASE /\ cfg.initial > 0
           /\ Sampled([e EXCEPT !.count = @ + 1], Tally(f, SampleVerdict(cfg, e.count + 1)))
  <2>1. /\ FairFor(cfg, e.count + 1, Tally(f, SampleVerdict(cfg, e.count + 1)))
        /\ Tally(f, SampleVerdict(cfg, e.count + 1)) \in Fates
    BY <1>1, <1>2, <1>3, <1>8, VerdictIsFair
  <2> DEFINE en == [e EXCEPT !.count = @ + 1]
  <2>2. en \in [count : Nat, reset : 0..MaxClock] /\ en.count = e.count + 1 /\ en.reset = e.reset
    <3> HIDE DEF e
    <3> QED BY <1>2
  <2>3. en.reset > old.reset \/ (en.reset = old.reset /\ en.count >= old.count)
    <3> HIDE DEF en, e, old
    <3>1. old.count \in Nat /\ old.reset \in Int /\ e.reset \in Nat
      BY <1>1, <1>2
    <3> QED BY <1>0, <1>2, <2>2, <3>1
  <2> QED BY <1>6, <1>8, <2>1, <2>2, <2>3
<1> QED BY <1>4, <1>5, <1>7, <1>8

(* A line under the lock of its window entry. *)
LEMMA CheckWindowInv ==
    ASSUME GateInv, NEW t \in Loggers, CheckWindow(t)
    PROVE  GateInv' /\ \A k \in Keys : gate'[k].last >= gate[k].last
<1> USE DEF GateInv
<1> DEFINE c == call[t]
           K == c.key
           g == gate[K]
           f == lines.rated[K]
           Rated(ga, fa) == /\ gate' = [gate EXCEPT ![K] = ga]
                            /\ lines' = [lines EXCEPT !.rated[K] = fa]
<1>0. /\ call' = [call EXCEPT ![t] = Idle] /\ UNCHANGED <<clock, config, gen, entry, calls>>
      /\ K \in Keys /\ c.now \in 0..MaxClock /\ c.window \in Nat /\ NoStamp = -1
  BY CallIs, LogGateAssumption DEF CheckWindow, NoStamp
<1>1. /\ g \in [last : -1..MaxClock, suppressed : Nat] /\ f \in Fates
      /\ gate \in [Keys -> [last : -1..MaxClock, suppressed : Nat]]
      /\ lines \in [sampled : [Samplers -> [Keys -> Fates]], rated : [Keys -> Fates]]
      /\ f.dropped = f.reported + g.suppressed
  BY <1>0 DEF GateTypeOK, SuppressedConserved
<1>2. Held'
  BY <1>0 DEF Held, GateTypeOK, Idle
<1>3. CASE UNCHANGED <<gate, lines>>
  <2>1. GateTypeOK'
    BY <1>0, <1>3 DEF GateTypeOK
  <2>2. Unused' /\ Counting' /\ SampledExactly' /\ SuppressedConserved'
    BY <1>0, <1>3 DEF Unused, Counting, SampledExactly, SuppressedConserved
  <2>3. \A k \in Keys : gate[k].last \in Int
    BY <1>1
  <2> QED BY <1>2, <1>3, <2>1, <2>2, <2>3
<1>4. ASSUME NEW ga \in [last : -1..MaxClock, suppressed : Nat], NEW fa \in Fates, Rated(ga, fa),
             fa.dropped = fa.reported + ga.suppressed, ga.last >= g.last
      PROVE  GateInv' /\ \A k \in Keys : gate'[k].last >= gate[k].last
  <2>1. /\ gate' \in [Keys -> [last : -1..MaxClock, suppressed : Nat]]
        /\ \A k \in Keys : gate'[k] = IF k = K THEN ga ELSE gate[k]
    BY <1>0, <1>1, <1>4
  <2>2. /\ lines' \in [sampled : [Samplers -> [Keys -> Fates]], rated : [Keys -> Fates]]
        /\ lines'.sampled = lines.sampled
        /\ \A k \in Keys : lines'.rated[k] = IF k = K THEN fa ELSE lines.rated[k]
    BY <1>0, <1>1, <1>4
  <2>3. GateTypeOK'
    BY <1>0, <2>1, <2>2 DEF GateTypeOK
  <2>4. Unused' /\ Counting' /\ SampledExactly'
    BY <1>0, <2>2 DEF Unused, Counting, SampledExactly
  <2>5. SuppressedConserved'
    BY <1>4, <2>1, <2>2 DEF SuppressedConserved
  <2>6. \A k \in Keys : gate[k].last \in Int
    BY <1>1
  <2> QED BY <1>2, <1>4, <2>1, <2>3, <2>4, <2>5, <2>6
<1>5. CASE Rated([g EXCEPT !.suppressed = @ + 1], Tally(f, [emit |-> FALSE, suppressed |-> 0]))
  <2>1. Tally(f, [emit |-> FALSE, suppressed |-> 0]) =
          [emitted |-> f.emitted, dropped |-> f.dropped + 1, reported |-> f.reported]
    BY <1>1, TallyDrop
  <2>2. [g EXCEPT !.suppressed = @ + 1] = [last |-> g.last, suppressed |-> g.suppressed + 1]
    BY <1>1
  <2>3. /\ f.emitted \in Nat /\ f.dropped \in Nat /\ f.reported \in Nat
        /\ g.suppressed \in Nat /\ g.last \in -1..MaxClock
    BY <1>1 DEF Fates
  <2> HIDE DEF g, f
  <2>4. f.dropped + 1 = f.reported + (g.suppressed + 1) /\ g.last >= g.last
    BY <1>1, <2>3
  <2>5. [last |-> g.last, suppressed |-> g.suppressed + 1] \in [last : -1..MaxClock, suppressed : Nat]
    BY <2>3
  <2>6. [emitted |-> f.emitted, dropped |-> f.dropped + 1, reported |-> f.reported] \in Fates
    BY <2>3 DEF Fates
  <2> QED BY <1>4, <1>5, <2>1, <2>2, <2>4, <2>5, <2>6
<1>6. CASE /\ Rated(Drained(g, c.now), Tally(f, [emit |-> TRUE, suppressed |-> g.suppressed]))
           /\ g.last = NoStamp \/ Elapsed(c.now, g.last) >= c.window
           /\ c.window > 0
  <2>3. /\ f.emitted \in Nat /\ f.dropped \in Nat /\ f.reported \in Nat
        /\ g.suppressed \in Nat /\ g.last \in -1..MaxClock /\ g.last \in Int
    BY <1>1 DEF Fates
  <2>1. Tally(f, [emit |-> TRUE, suppressed |-> g.suppressed]) =
          [emitted |-> f.emitted + 1, dropped |-> f.dropped, reported |-> f.reported + g.suppressed]
    BY <1>1, <2>3, TallyEmit
  <2>2. Drained(g, c.now) = [last |-> c.now, suppressed |-> 0]
    BY DEF Drained
  <2>4. c.now >= g.last
    BY <1>0, <1>6, <2>3 DEF Elapsed
  <2> HIDE DEF g, f
  <2>5. [last |-> c.now, suppressed |-> 0] \in [last : -1..MaxClock, suppressed : Nat]
    BY <1>0, LogGateAssumption
  <2>6. [emitted |-> f.emitted + 1, dropped |-> f.dropped, reported |-> f.reported + g.suppressed]
          \in Fates
    BY <2>3 DEF Fates
  <2>7. f.dropped = (f.reported + g.suppressed) + 0
    BY <1>1, <2>3
  <2> QED BY <1>4, <1>6, <2>1, <2>2, <2>4, <2>5, <2>6, <2>7
<1>7. g.last \in Int
  BY <1>1
<1>8. \/ UNCHANGED <<gate, lines>>
      \/ Rated([g EXCEPT !.suppressed = @ + 1], Tally(f, [emit |-> FALSE, suppressed |-> 0]))
      \/ /\ Rated(Drained(g, c.now), Tally(f, [emit |-> TRUE, suppressed |-> g.suppressed]))
         /\ g.last = NoStamp \/ ~(Elapsed(c.now, g.last) < c.window)
         /\ c.window > 0
  BY DEF CheckWindow
<1>9. ~(Elapsed(c.now, g.last) < c.window) => Elapsed(c.now, g.last) >= c.window
  BY <1>0, <1>7 DEF Elapsed
<1> QED BY <1>3, <1>5, <1>6, <1>8, <1>9

LEMMA GateStep == GateInv /\ [GateNext]_gateVars => GateInv'
<1> SUFFICES ASSUME GateInv, [GateNext]_gateVars PROVE GateInv'
  OBVIOUS
<1>1. CASE UNCHANGED gateVars
  <2>1. GateTypeOK'
    BY <1>1 DEF GateInv, GateTypeOK, gateVars
  <2>2. Unused' /\ Held' /\ Counting' /\ SampledExactly' /\ SuppressedConserved'
    BY <1>1 DEF GateInv, Unused, Held, Counting, SampledExactly, SuppressedConserved, gateVars
  <2> QED BY <2>1, <2>2 DEF GateInv
<1> QED BY <1>1, InitializeInv, EnterInv, CheckSampleInv, CheckWindowInv, TimePassesInv DEF GateNext

THEOREM GateInvariant == GateSpec => []GateInv
<1>1. GateInit => GateInv
  BY GateInitInv
<1> QED BY <1>1, GateStep, PTL DEF GateSpec

-----------------------------------------------------------------------------
(* Type correctness of the gates: in particular a sampler in use has a period.  *)
THEOREM GateTypes == GateSpec => []GateTypeOK
<1>1. GateInv => GateTypeOK
  BY DEF GateInv
<1> QED BY <1>1, GateInvariant, PTL

(* Sampler::check: in every period a key gets its burst and then every             *)
(* thereafter-th line, and the suffixes account for the dropped lines, for every    *)
(* configuration, any number of threads and whatever initialize_sampler replaces.   *)
THEOREM GateSampledExactly == GateSpec => []SampledExactly
<1>1. GateInv => SampledExactly
  BY DEF GateInv
<1> QED BY <1>1, GateInvariant, PTL

(* RateLimiter::check forgets no suppressed line and reports none twice. *)
THEOREM GateSuppressedConserved == GateSpec => []SuppressedConserved
<1>1. GateInv => SuppressedConserved
  BY DEF GateInv
<1> QED BY <1>1, GateInvariant, PTL

(* Clocks read before the lock do not take a time stamp back: Elapsed saturates,     *)
(* and a window or a period that has passed is longer than zero.                     *)
THEOREM GateStampsAdvance == GateSpec => StampsAdvance
<1> DEFINE Advance ==
        /\ \A g \in Samplers, k \in Keys :
             \/ entry'[g][k].reset > entry[g][k].reset
             \/ /\ entry'[g][k].reset = entry[g][k].reset
                /\ entry'[g][k].count >= entry[g][k].count
        /\ \A k \in Keys : gate'[k].last >= gate[k].last
<1>1. ASSUME GateInv, [GateNext]_gateVars PROVE [Advance]_gateVars
  <2> SUFFICES ASSUME GateNext PROVE Advance
    BY <1>1
  <2>0. /\ \A g \in Samplers, k \in Keys : entry[g][k].count \in Nat
        /\ \A k \in Keys : gate[k].last \in Int
    BY <1>1 DEF GateInv, GateTypeOK
  <2>1. CASE UNCHANGED <<entry, gate>>
    BY <2>0, <2>1
  <2>2. ASSUME NEW t \in Loggers, CheckSample(t) PROVE Advance
    <3>1. UNCHANGED gate
      BY <2>2 DEF CheckSample
    <3> QED BY <1>1, <2>0, <2>2, <3>1, CheckSampleInv
  <2>3. ASSUME NEW t \in Loggers, CheckWindow(t) PROVE Advance
    <3>1. UNCHANGED entry
      BY <2>3 DEF CheckWindow
    <3> QED BY <1>1, <2>0, <2>3, <3>1, CheckWindowInv
  <2> HIDE DEF Advance
  <2>4. GateNext => \/ UNCHANGED <<entry, gate>>
                    \/ \E t \in Loggers : CheckSample(t) \/ CheckWindow(t)
    BY DEF GateNext, InitializeSampler, EnterSample, EnterWindow, TimePasses
  <2> QED BY <2>1, <2>2, <2>3, <2>4
<1> QED BY <1>1, GateInvariant, PTL DEF GateSpec, StampsAdvance

-----------------------------------------------------------------------------
(***************************************************************************)
(* pc-health: the health check.                                              *)
(***************************************************************************)

(* What check_health has found, by where it is. *)
Probing ==
    /\ probe = "idle" => elapsed = 0
    /\ probe \in {"idle", "ping"} => checks = << >>
    /\ probe = "rest" => \E x \in Statuses : checks = <<x>>
    /\ probe = "done" => \E x, y, z \in Statuses : checks = <<x, y, z>>

HealthInv == HealthTypeOK /\ Probing /\ OverallIsWorst /\ FastIsUp

(* worst_status of three statuses, the loop unrolled. *)
LEMMA WorstOfThree ==
    ASSUME NEW x \in Statuses, NEW y \in Statuses, NEW z \in Statuses
    PROVE  WorstStatus(<<x, y, z>>) = IF "unhealthy" \in {x, y, z} THEN "unhealthy"
                                     ELSE IF "degraded" \in {x, y, z} THEN "degraded" ELSE "healthy"
<1> DEFINE s == <<x, y, z>>
           Worse(w, t) == IF w = "unhealthy" \/ t = "unhealthy" THEN "unhealthy"
                          ELSE IF t = "degraded" THEN "degraded" ELSE w
           Loop(w) == [i \in 0..Len(s) |->
                         IF i = 0 THEN "healthy"
                         ELSE IF w[i - 1] = "unhealthy" \/ s[i] = "unhealthy" THEN "unhealthy"
                         ELSE IF s[i] = "degraded" THEN "degraded" ELSE w[i - 1]]
           f == [i \in 0..3 |-> IF i = 0 THEN "healthy" ELSE IF i = 1 THEN Worse("healthy", x)
                                ELSE IF i = 2 THEN Worse(Worse("healthy", x), y)
                                ELSE Worse(Worse(Worse("healthy", x), y), z)]
<1>1. Len(s) = 3 /\ s[1] = x /\ s[2] = y /\ s[3] = z
  OBVIOUS
<1>2. f = Loop(f)
  BY <1>1
<1>3. WorstStatus(s) = (CHOOSE w : w = Loop(w))[Len(s)]
  BY DEF WorstStatus
<1>4. \E w : w = Loop(w)
  BY <1>2
<1>5. ASSUME NEW w, w = Loop(w) PROVE w[3] = Worse(Worse(Worse("healthy", x), y), z)
  <2>1. w[0] = "healthy"
    BY <1>5, <1>1
  <2>2. w[1] = Worse("healthy", x)
    BY <1>5, <1>1, <2>1
  <2>3. w[2] = Worse(w[1], y)
    BY <1>5, <1>1, <2>1
  <2>4. w[3] = Worse(w[2], z)
    BY <1>5, <1>1, <2>1
  <2> QED BY <2>2, <2>3, <2>4
<1> QED BY <1>1, <1>3, <1>4, <1>5 DEF Statuses

(* ... is one of them, and none is worse. *)
LEMMA WorstIsWorst ==
    ASSUME NEW x \in Statuses, NEW y \in Statuses, NEW z \in Statuses,
           checks' = <<x, y, z>>, overall' = WorstStatus(checks')
    PROVE  OverallIsWorst' /\ overall' \in Statuses
<1>1. overall' = IF "unhealthy" \in {x, y, z} THEN "unhealthy"
                 ELSE IF "degraded" \in {x, y, z} THEN "degraded" ELSE "healthy"
  BY WorstOfThree
<1>2. checks'[1] = x /\ checks'[2] = y /\ checks'[3] = z
  OBVIOUS
<1>3. overall' \in {x, y, z} /\ overall' \in Statuses
  BY <1>1 DEF Statuses
<1>4. \E i \in 1..3 : checks'[i] = overall'
  BY <1>2, <1>3
<1>5. ASSUME NEW rank, rank = [healthy |-> 0, degraded |-> 1, unhealthy |-> 2]
      PROVE  rank[x] <= rank[overall'] /\ rank[y] <= rank[overall'] /\ rank[z] <= rank[overall']
  BY <1>1, <1>5 DEF Statuses
<1>6. \A i \in 1..3 : i = 1 \/ i = 2 \/ i = 3
  OBVIOUS
<1> QED BY <1>2, <1>3, <1>4, <1>5, <1>6 DEF OverallIsWorst

(* The deadlines are positive numbers. *)
LEMMA CutoffIs ==
    ASSUME NEW s \in Settings \union {Unset} PROVE OpTimeout(s) \in Nat \ {0}
<1>1. s = Unset \/ s \in Int
  BY HealthAssumption
<1> QED BY <1>1, HealthAssumption DEF OpTimeout

LEMMA CutoffRange ==
    ASSUME setting \in Settings \union {Unset} PROVE Cutoff \in 1..Deadline /\ Cutoff \in Nat
<1>1. OpTimeout(setting) \in Nat \ {0}
  BY CutoffIs
<1> QED BY <1>1, HealthAssumption DEF Cutoff

LEMMA HealthInitInv == HealthInit => HealthInv
<1> SUFFICES ASSUME HealthInit PROVE HealthInv
  OBVIOUS
<1>1. Cutoff \in 1..Deadline /\ Cutoff \in Nat
  BY CutoffRange DEF HealthInit
<1>2. HealthTypeOK
  <2>1. elapsed \in 0..Cutoff + Lag
    BY <1>1, HealthAssumption DEF HealthInit
  <2>2. checks \in Seq(Statuses) /\ Len(checks) <= 3
    BY DEF HealthInit
  <2> QED BY <1>1, <2>1, <2>2 DEF HealthTypeOK, HealthInit
<1> QED BY <1>2 DEF HealthInv, Probing, OverallIsWorst, FastIsUp, HealthInit

LEMMA CheckRedisInv ==
    ASSUME HealthInv, NEW pool \in BOOLEAN, CheckRedis(pool) PROVE HealthInv'
<1> USE DEF HealthInv
<1>0. probe = "idle" /\ elapsed' = 0 /\ checks = << >> /\ UNCHANGED <<elapsed, failed, overall>>
      /\ redis' = pool /\ rabbit' \in {"none", "ready", "unready"}
  BY DEF CheckRedis, Probing
<1>1. latency' \in Latencies \union {Never} /\ setting' \in Settings \union {Unset}
  BY DEF CheckRedis, HealthTypeOK
<1>2. Cutoff' \in 1..Deadline /\ Cutoff' \in Nat
  <2>1. OpTimeout(setting)' = OpTimeout(setting') /\ OpTimeout(setting') \in Nat \ {0}
    BY <1>1, CutoffIs DEF OpTimeout
  <2> QED BY <2>1, HealthAssumption DEF Cutoff
<1>3. \/ ~pool /\ probe' = "rest" /\ checks' = <<"unhealthy">>
      \/ probe' = "ping" /\ checks' = << >>
  BY <1>0 DEF CheckRedis
<1>4. elapsed' \in 0..Cutoff' + Lag
  <2>1. Lag \in Nat
    BY HealthAssumption
  <2>2. PICK cutoff \in Nat : cutoff = Cutoff'
    BY <1>2
  <2>3. 0 \in 0..cutoff + Lag
    BY <2>1
  <2> QED BY <1>0, <2>2, <2>3
<1>5. checks' \in Seq(Statuses) /\ Len(checks') <= 3
  <2>1. "unhealthy" \in Statuses
    BY DEF Statuses
  <2>2. CASE checks' = << >>
    BY <2>2
  <2>3. CASE checks' = <<"unhealthy">>
    BY <2>1, <2>3
  <2> QED BY <1>3, <2>2, <2>3
<1>6. HealthTypeOK'
  BY <1>0, <1>1, <1>2, <1>3, <1>4, <1>5 DEF HealthTypeOK
<1>7. Probing' /\ OverallIsWorst'
  BY <1>0, <1>3 DEF Probing, OverallIsWorst, Statuses
<1>8. FastIsUp'
  BY <1>0, <1>3 DEF FastIsUp
<1> QED BY <1>6, <1>7, <1>8

LEMMA PollInv ==
    ASSUME HealthInv, Poll PROVE HealthInv'
<1> USE DEF HealthInv
<1>0. /\ probe = "ping" /\ probe' = "rest" /\ Verdict # "pending" /\ checks' = <<Verdict>>
      /\ UNCHANGED <<elapsed, redis, latency, setting, failed, rabbit, overall>>
  BY DEF Poll
<1>1. Verdict \in Statuses
  BY <1>0 DEF Verdict, Statuses
<1>2. Cutoff' = Cutoff
  BY <1>0 DEF Cutoff, OpTimeout
<1>3. checks' \in Seq(Statuses) /\ Len(checks') <= 3 /\ checks'[1] = Verdict
  BY <1>0, <1>1
<1>4. HealthTypeOK'
  BY <1>0, <1>2, <1>3 DEF HealthTypeOK
<1>5. Probing' /\ OverallIsWorst'
  BY <1>0, <1>1 DEF Probing, OverallIsWorst
<1>6. FastIsUp'
  <2> SUFFICES ASSUME ~failed, latency # Never, latency < Cutoff PROVE Verdict # "unhealthy"
    BY <1>0, <1>2, <1>3 DEF FastIsUp
  <2>1. latency \in Nat /\ Cutoff \in Nat /\ elapsed \in Nat
    BY HealthAssumption DEF HealthTypeOK
  <2> QED BY <1>0, <2>1 DEF Verdict, Answered
<1> QED BY <1>4, <1>5, <1>6

LEMMA Join ==
    ASSUME NEW S, NEW s \in Seq(S), NEW u \in Seq(S), NEW v \in Seq(S),
           Len(s) = 1, Len(u) = 2, Len(v) = 3, v[1] = s[1], v[2] = u[1], v[3] = u[2]
    PROVE  s \o u = v
<1>1. s \o u \in Seq(S) /\ Len(s \o u) = Len(s) + Len(u)
  BY ConcatProperties
<1>2. \A i \in 1..Len(s) + Len(u) : (s \o u)[i] = IF i <= Len(s) THEN s[i] ELSE u[i - Len(s)]
  BY ConcatProperties
<1>3. Len(s \o u) = 3
  BY <1>1
<1>4. /\ 1 \in 1..Len(s) + Len(u) /\ 1 <= Len(s)
      /\ 2 \in 1..Len(s) + Len(u) /\ ~(2 <= Len(s)) /\ 2 - Len(s) = 1
      /\ 3 \in 1..Len(s) + Len(u) /\ ~(3 <= Len(s)) /\ 3 - Len(s) = 2
  OBVIOUS
<1>5. (s \o u)[1] = v[1] /\ (s \o u)[2] = v[2] /\ (s \o u)[3] = v[3]
  BY <1>2, <1>4
<1>6. \A i \in 1..3 : i = 1 \/ i = 2 \/ i = 3
  OBVIOUS
<1>7. \A i \in 1..3 : (s \o u)[i] = v[i]
  BY <1>5, <1>6
<1> QED BY <1>1, <1>3, <1>7, SeqEqual

LEMMA ThreeChecks ==
    ASSUME NEW x \in Statuses, NEW y \in Statuses, NEW z \in Statuses
    PROVE  <<x>> \o <<y, z>> = <<x, y, z>>
<1>1. /\ <<x>> \in Seq(Statuses) /\ Len(<<x>>) = 1 /\ <<x>>[1] = x
      /\ <<y, z>> \in Seq(Statuses) /\ Len(<<y, z>>) = 2 /\ <<y, z>>[1] = y /\ <<y, z>>[2] = z
      /\ <<x, y, z>> \in Seq(Statuses) /\ Len(<<x, y, z>>) = 3
      /\ <<x, y, z>>[1] = x /\ <<x, y, z>>[2] = y /\ <<x, y, z>>[3] = z
  OBVIOUS
<1> QED BY <1>1, Join

LEMMA CheckRestInv ==
    ASSUME HealthInv, NEW enabled1, CheckRest(enabled1) PROVE HealthInv'
<1> USE DEF HealthInv
<1>0. /\ probe = "rest" /\ probe' = "done" /\ overall' = WorstStatus(checks')
      /\ checks' = checks \o <<CheckRabbit, CheckSentry(enabled1)>>
      /\ UNCHANGED <<elapsed, redis, latency, setting, failed, rabbit>>
  BY DEF CheckRest
<1>1. PICK x \in Statuses : checks = <<x>>
  BY <1>0 DEF Probing
<1>2. CheckRabbit \in Statuses /\ CheckSentry(enabled1) \in Statuses
  BY DEF CheckRabbit, CheckSentry, Statuses
<1>3. checks' = <<x, CheckRabbit, CheckSentry(enabled1)>>
  BY <1>0, <1>1, <1>2, ThreeChecks
<1>4. OverallIsWorst' /\ overall' \in Statuses
  BY <1>0, <1>2, <1>3, WorstIsWorst
<1>5. checks' \in Seq(Statuses) /\ Len(checks') <= 3 /\ checks'[1] = checks[1] /\ checks # << >>
  BY <1>1, <1>2, <1>3
<1>6. Cutoff' = Cutoff
  BY <1>0 DEF Cutoff, OpTimeout
<1>7. HealthTypeOK'
  BY <1>0, <1>4, <1>5, <1>6 DEF HealthTypeOK
<1>8. Probing'
  BY <1>0, <1>2, <1>3 DEF Probing
<1>9. FastIsUp'
  BY <1>0, <1>5, <1>6 DEF FastIsUp
<1> QED BY <1>4, <1>7, <1>8, <1>9

(* External steps while the PING is awaited; RabbitMQ is looked at later. *)
LEMMA HealthWorldInv ==
    ASSUME HealthInv, Breaks \/ RabbitChanges \/ Tick PROVE HealthInv'
<1> USE DEF HealthInv
<1>0. UNCHANGED <<probe, redis, latency, setting, checks, overall>> /\ probe \in {"ping", "rest"}
  BY DEF Breaks, RabbitChanges, Tick
<1>1. Cutoff' = Cutoff /\ Cutoff \in 1..Deadline
  BY <1>0 DEF Cutoff, OpTimeout, HealthTypeOK
<1>2. elapsed' \in 0..Cutoff + Lag
  BY <1>1, HealthAssumption DEF Breaks, RabbitChanges, Tick, HealthTypeOK
<1>3. failed' \in BOOLEAN /\ rabbit' \in {"none", "ready", "unready"}
  BY DEF Breaks, RabbitChanges, Tick, HealthTypeOK
<1>4. HealthTypeOK'
  BY <1>0, <1>1, <1>2, <1>3 DEF HealthTypeOK
<1>5. Probing' /\ OverallIsWorst'
  BY <1>0 DEF Probing, OverallIsWorst
<1>6. FastIsUp'
  <2>1. CASE probe = "ping"
    BY <1>0, <2>1 DEF FastIsUp, Probing
  <2>2. CASE probe = "rest"
    <3>1. UNCHANGED failed
      BY <2>2 DEF Breaks, RabbitChanges, Tick
    <3> QED BY <1>0, <1>1, <3>1 DEF FastIsUp
  <2> QED BY <1>0, <2>1, <2>2
<1> QED BY <1>4, <1>5, <1>6

-----------------------------------------------------------------------------
(***************************************************************************)
(* pc-sentry: the lines that are forwarded.                                   *)
(***************************************************************************)

(* pc_sentry::init is over. *)
Past == {"redis", "db", "up", "failed"}

LineRecords ==
    [at : {"receive", "capture"}, level : {"fatal", "error", "warn", "info", "debug"},
     prefix : {"fn", "none"}, late : BOOLEAN]

SentryTypes ==
    /\ hub \in [Threads -> {None, "unbound", "bound"}]
    /\ owner \in Threads \union {None}
    /\ line \in [Threads -> LineRecords \union {None}]
    /\ missed \in SUBSET Threads /\ early \in SUBSET Threads

(* The client is bound to the hub of Main, and its data follows. *)
Bound ==
    /\ client # None => main \in Past \union {"seed"} /\ hub[Main] = "bound" /\ owner # None
    /\ main \in Past /\ client # None => data # None
    /\ \A t \in Threads : hub[t] = "bound" => client # None

(* A hub made before the client was bound stays without it; one copied from Main's later *)
(* has it.                                                                          *)
Hubs ==
    /\ client = None => \A t \in Threads : hub[t] # None => t \in early
    /\ client # None /\ owner = Main =>
         \A t \in Threads : hub[t] # None /\ t \notin early => hub[t] = "bound"

(* A line is late only after init, and is captured only with a client. *)
Lates ==
    /\ \A t \in Threads : line[t] # None =>
         /\ line[t].late => main \in Past
         /\ line[t].at = "capture" => client # None
    /\ missed # {} => main \in Past

SentryInv == SentryTypes /\ Bound /\ Hubs /\ Lates /\ HeardWithContext

(* None is no value that is stored. *)
LEMMA NoneIsNothing ==
    /\ Main \in Threads /\ None \notin Threads
    /\ None # "bound" /\ None # "unbound" /\ "" \in STRING /\ \A s \in STRING : s # None
<1>1. None \notin STRING
  BY SentryAssumption
<1>2. "bound" \in STRING /\ "unbound" \in STRING /\ "" \in STRING
  BY SentryAssumption
<1>3. Main \in Threads
  BY SentryAssumption
<1>4. None \notin Threads
  BY SentryAssumption
<1> QED BY <1>1, <1>2, <1>3, <1>4

LEMMA SentryInitInv == StartupInit => SentryInv
<1> SUFFICES ASSUME SentryInit PROVE SentryInv
  BY DEF StartupInit
<1>1. SentryTypes
  BY DEF SentryInit, SentryTypes
<1>2. \A t \in Threads : hub[t] = None /\ line[t] = None
  BY DEF SentryInit
<1>3. client = None /\ missed = {} /\ events = {}
  BY DEF SentryInit
<1> QED BY <1>1, <1>2, <1>3, NoneIsNothing DEF SentryInv, Bound, Hubs, Lates, HeardWithContext

(* Hub::current: the thread gets its hub, and so it does with the client bound. *)
LEMMA AskHub ==
    ASSUME SentryInv, NEW t \in Threads, Ask(t), hub' = [hub EXCEPT ![t] = HubOf(t)],
           client' = client, main' = main, data' = data
    PROVE  /\ hub' \in [Threads -> {None, "unbound", "bound"}]
           /\ owner' \in Threads \union {None} /\ early' \in SUBSET Threads
           /\ early \subseteq early' /\ (client # None => owner' = owner /\ early' = early)
           /\ Bound' /\ Hubs'
<1> USE DEF SentryInv
<1>1. /\ HubOf(t) \in {None, "unbound", "bound"}
      /\ HubOf(t) = "bound" => client # None
      /\ hub[t] # None => HubOf(t) = hub[t]
      /\ client # None /\ owner = Main /\ hub[t] = None => HubOf(t) = "bound"
  BY DEF HubOf, SentryTypes, Bound
<1>2. /\ hub' \in [Threads -> {None, "unbound", "bound"}]
      /\ owner' \in Threads \union {None} /\ early' \in SUBSET Threads
      /\ early \subseteq early' /\ (client = None => t \in early')
      /\ (client # None => owner' = owner /\ early' = early)
  BY <1>1 DEF Ask, SentryTypes, Bound
<1>3. \A u \in Threads : hub'[u] = IF u = t THEN HubOf(t) ELSE hub[u]
  BY DEF SentryTypes
<1>4. hub[Main] = "bound" => hub'[Main] = "bound"
  BY <1>1, <1>3, NoneIsNothing
<1>5. Bound'
  BY <1>1, <1>2, <1>3, <1>4 DEF Bound
<1>6. Hubs'
  BY <1>1, <1>2, <1>3 DEF Hubs
<1> QED BY <1>2, <1>5, <1>6

(* A macro emits a line. *)
LEMMA EmitInv ==
    ASSUME SentryInv, NEW t \in Threads, NEW l \in Lines,
           Emit(t, l, main \in {"redis", "db", "up"}), UNCHANGED main
    PROVE  SentryInv'
<1> USE DEF SentryInv
<1>0. PICK new : /\ line' = [line EXCEPT ![t] = new]
                 /\ \/ new = None
                    \/ new = [at |-> "receive", level |-> l.level, prefix |-> l.prefix,
                              late |-> main \in {"redis", "db", "up"}]
                 /\ UNCHANGED <<forwarding, owner, hub, client, data, events, missed, early>>
  BY DEF Emit
<1>1. \/ new = None
      \/ new \in LineRecords /\ new.at = "receive" /\ (new.late => main \in Past)
  <2>1. l.level \in {"fatal", "error", "warn", "info", "debug"} /\ l.prefix \in {"fn", "none"}
    BY SentryAssumption
  <2> DEFINE up == main \in {"redis", "db", "up"}
  <2>2. up \in BOOLEAN /\ (up => main \in Past)
    BY DEF Past
  <2>3. new = None \/ new = [at |-> "receive", level |-> l.level, prefix |-> l.prefix, late |-> up]
    BY <1>0
  <2> HIDE DEF up
  <2>4. [at |-> "receive", level |-> l.level, prefix |-> l.prefix, late |-> up] \in LineRecords
    BY <2>1, <2>2 DEF LineRecords
  <2> QED BY <2>2, <2>3, <2>4
<1>2. SentryTypes'
  BY <1>0, <1>1 DEF SentryTypes
<1>3. Lates'
  <2>1. \A u \in Threads : line'[u] = IF u = t THEN new ELSE line[u]
    BY <1>0 DEF SentryTypes
  <2> QED BY <1>0, <1>1, <2>1 DEF Lates
<1>4. Bound' /\ Hubs' /\ HeardWithContext'
  BY <1>0 DEF Bound, Hubs, HeardWithContext
<1> QED BY <1>2, <1>3, <1>4

(* receive_log: which lines are missed. *)
LEMMA ReceiveInv ==
    ASSUME SentryInv, NEW t \in Threads, Receive(t), UNCHANGED main
    PROVE  SentryInv'
<1> USE DEF SentryInv
<1>0. /\ line[t] # None /\ line[t].at = "receive" /\ Ask(t)
      /\ hub' = [hub EXCEPT ![t] = HubOf(t)]
      /\ line' = [line EXCEPT ![t] =
                    IF SentryEnabled(t) THEN [line[t] EXCEPT !.at = "capture"] ELSE None]
      /\ missed' = IF line[t].late /\ ~SentryEnabled(t) THEN missed \union {t} ELSE missed
      /\ UNCHANGED <<forwarding, client, data, logged, events>>
  BY DEF Receive
<1>1. /\ hub' \in [Threads -> {None, "unbound", "bound"}]
      /\ owner' \in Threads \union {None} /\ early' \in SUBSET Threads
      /\ early \subseteq early' /\ (client # None => owner' = owner /\ early' = early)
      /\ Bound' /\ Hubs'
  BY <1>0, AskHub
<1>2. SentryEnabled(t) => client # None
  BY SentryAssumption DEF SentryEnabled, HubOf, SentryTypes, Bound
<1>3. line[t] \in LineRecords
  BY <1>0 DEF SentryTypes
<1> DEFINE new == IF SentryEnabled(t) THEN [line[t] EXCEPT !.at = "capture"] ELSE None
<1>4. /\ new = None \/ (new \in LineRecords /\ new.late = line[t].late)
      /\ new # None => client # None
  BY <1>2, <1>3 DEF LineRecords
<1> HIDE DEF new
<1>5. line' = [line EXCEPT ![t] = new]
  BY <1>0 DEF new
<1>6. SentryTypes'
  BY <1>0, <1>1, <1>4, <1>5 DEF SentryTypes
<1>7. Lates'
  <2>1. \A u \in Threads : line'[u] = IF u = t THEN new ELSE line[u]
    BY <1>5 DEF SentryTypes
  <2>2. line[t].late => main \in Past
    BY <1>0 DEF Lates
  <2>3. missed' # {} => main \in Past
    BY <1>0, <2>2 DEF Lates
  <2> QED BY <1>0, <1>4, <2>1, <2>2, <2>3 DEF Lates
<1>8. HeardWithContext'
  <2>1. ASSUME client # None, ~SentryEnabled(t)
        PROVE  t # Main /\ (owner = Main => t \in early)
    <3>1. hub[Main] = "bound" /\ "bound" # None
      BY <2>1, NoneIsNothing DEF Bound
    <3>2. t # Main
      BY <2>1, <3>1 DEF SentryEnabled, HubOf
    <3>3. ASSUME owner = Main, t \notin early PROVE FALSE
      <4>1. CASE hub[t] # None
        BY <2>1, <3>3, <4>1 DEF Hubs, SentryEnabled, HubOf
      <4>2. CASE hub[t] = None
        BY <2>1, <3>1, <3>3, <4>2, SentryAssumption DEF SentryEnabled, HubOf
      <4> QED BY <4>1, <4>2
    <3> QED BY <3>2, <3>3
  <2>2. client # None => missed' \subseteq IF owner = Main THEN early \ {Main} ELSE Threads \ {Main}
    BY <1>0, <2>1 DEF HeardWithContext
  <2> QED BY <1>0, <1>1, <2>2 DEF HeardWithContext
<1> QED BY <1>1, <1>6, <1>7, <1>8

(* receive_log: what is sent has its data if init was over. *)
LEMMA CaptureInv ==
    ASSUME SentryInv, NEW t \in Threads, Capture(t, envRaw), UNCHANGED main
    PROVE  SentryInv'
<1> USE DEF SentryInv
<1>0. PICK title : /\ line[t] # None /\ line[t].at = "capture"
                   /\ events' = events \union
                        {[title |-> title, crumb |-> data, late |-> line[t].late]}
                   /\ line' = [line EXCEPT ![t] = None]
                   /\ UNCHANGED <<forwarding, owner, hub, client, data, logged, missed, early>>
  BY DEF Capture
<1>1. SentryTypes'
  BY <1>0 DEF SentryTypes
<1>2. Lates'
  BY <1>0 DEF Lates, SentryTypes
<1>3. Bound' /\ Hubs'
  BY <1>0 DEF Bound, Hubs
<1>4. HeardWithContext'
  <2>1. line[t].late => data # None
    BY <1>0 DEF Lates, Bound
  <2>2. \A e \in events' : e.late => e.crumb # None
    BY <1>0, <2>1 DEF HeardWithContext
  <2> QED BY <1>0, <2>2 DEF HeardWithContext
<1> QED BY <1>1, <1>2, <1>3, <1>4

(* check_sentry asks for a hub too. *)
LEMMA RestOfCheckSentry ==
    ASSUME SentryInv, NEW t \in Threads, RestOfCheck(t), UNCHANGED main
    PROVE  SentryInv'
<1> USE DEF SentryInv
<1>0. /\ Ask(t) /\ hub' = [hub EXCEPT ![t] = HubOf(t)]
      /\ UNCHANGED <<forwarding, client, data, line, logged, events, missed>>
  BY DEF RestOfCheck
<1>1. /\ hub' \in [Threads -> {None, "unbound", "bound"}]
      /\ owner' \in Threads \union {None} /\ early' \in SUBSET Threads
      /\ early \subseteq early' /\ (client # None => owner' = owner /\ early' = early)
      /\ Bound' /\ Hubs'
  BY <1>0, AskHub
<1>2. SentryTypes' /\ Lates'
  BY <1>0, <1>1 DEF SentryTypes, Lates
<1>3. HeardWithContext'
  BY <1>0, <1>1 DEF HeardWithContext
<1> QED BY <1>1, <1>2, <1>3

(* Steps that leave Sentry alone: Main does not go back behind its init. *)
LEMMA SentryAlone ==
    ASSUME SentryInv, UNCHANGED sentryVars,
           main \in Past => main' \in Past, main' \in Past => main \in Past \/ client = None,
           main = "seed" => main' = "seed"
    PROVE  SentryInv'
<1> USE DEF SentryInv, sentryVars
<1>1. SentryTypes' /\ Hubs' /\ HeardWithContext'
  BY DEF SentryTypes, Hubs, HeardWithContext
<1>2. Bound' /\ Lates'
  BY DEF Bound, Lates
<1> QED BY <1>1, <1>2

(* pc_sentry::init, step by step. *)
LEMMA SentryForwardInv ==
    ASSUME SentryInv, SentryForward PROVE SentryInv'
<1> USE DEF SentryInv
<1>0. /\ main = "forward" /\ main' \in {"bind", "redis"}
      /\ UNCHANGED <<owner, hub, client, data, line, logged, events, missed, early>>
  BY DEF SentryForward, Configure, Proceed
<1>1. client = None
  BY <1>0 DEF Bound, Past
<1>2. SentryTypes' /\ Hubs' /\ HeardWithContext'
  BY <1>0 DEF SentryTypes, Hubs, HeardWithContext
<1>3. Bound' /\ Lates'
  BY <1>0, <1>1 DEF Bound, Lates, Past
<1> QED BY <1>2, <1>3

LEMMA SentryBindInv ==
    ASSUME SentryInv, SentryBind, SentryEnvironment # None PROVE SentryInv'
<1> USE DEF SentryInv
<1>0. /\ main = "bind" /\ main' = "seed" /\ Ask(Main) /\ client' = SentryEnvironment
      /\ hub' = [hub EXCEPT ![Main] = "bound"]
      /\ UNCHANGED <<forwarding, data, line, logged, events, missed>>
  BY DEF SentryBind, Bind, Proceed
<1>1. client = None /\ client' # None /\ missed = {} /\ \A t \in Threads : line[t] # None => ~line[t].late
  BY <1>0 DEF Bound, Lates, Past
<1>2. owner' \in Threads /\ early' \in SUBSET Threads /\ early \subseteq early' /\ Main \in early'
  BY <1>0, <1>1, SentryAssumption DEF Ask, SentryTypes
<1>3. SentryTypes'
  BY <1>0, <1>2, SentryAssumption DEF SentryTypes
<1>4. \A u \in Threads : hub'[u] = IF u = Main THEN "bound" ELSE hub[u]
  BY <1>0 DEF SentryTypes
<1>5. Bound'
  BY <1>0, <1>1, <1>2, <1>4, SentryAssumption DEF Bound, Past
<1>6. Hubs'
  BY <1>1, <1>2, <1>4, SentryAssumption DEF Hubs
<1>7. Lates' /\ HeardWithContext'
  BY <1>0, <1>1 DEF Lates, HeardWithContext
<1> QED BY <1>3, <1>5, <1>6, <1>7

LEMMA SentrySeedInv ==
    ASSUME SentryInv, SentrySeed, name \in STRING, envRaw \in STRING PROVE SentryInv'
<1> USE DEF SentryInv
<1>0. /\ main = "seed" /\ main' = "redis" /\ data' = [service |-> name, module |-> envRaw]
      /\ UNCHANGED <<forwarding, owner, hub, client, line, logged, events, missed, early>>
  BY DEF SentrySeed, Seed, Proceed
<1>1. data' # None
  <2>1. None \notin [service : STRING, module : STRING]
    BY SentryAssumption
  <2> QED BY <1>0, <2>1
<1>2. SentryTypes' /\ Hubs' /\ HeardWithContext'
  BY <1>0 DEF SentryTypes, Hubs, HeardWithContext
<1>3. Bound' /\ Lates'
  BY <1>0, <1>1 DEF Bound, Lates, Past
<1> QED BY <1>2, <1>3

-----------------------------------------------------------------------------
(***************************************************************************)
(* paycloudhelper::init: what the process runs with.                          *)
(***************************************************************************)

LEMMA Least ==
    ASSUME NEW S \in SUBSET Nat, S # {}
    PROVE  \E n \in S : \A m \in S : n <= m
<1> DEFINE R == {ss \in Nat \X Nat : ss[1] < ss[2]}
<1>0. IsWellFoundedOn(R, Nat)
  BY NatLessThanWellFounded DEF OpToRel
<1> HIDE DEF R
<1>1. PICK n \in S : \A m \in S : ~(<<m, n>> \in R)
  BY <1>0, WFMin
<1>2. \A m \in S : ~(m < n)
  BY <1>1 DEF R
<1> QED BY <1>2

(* load_dotenv keeps every variable that is set, and what it adds are strings. *)
LEMMA LoadKeepsSet ==
    ASSUME NEW file \in Seq((STRING \X STRING) \union {Bad}), NEW before,
           \A k \in DOMAIN before : before[k] \in STRING \union {None}
    PROVE  /\ DOMAIN LoadDotenv(file, before) = DOMAIN before
           /\ \A k \in DOMAIN before :
                /\ before[k] # None => LoadDotenv(file, before)[k] = before[k]
                /\ LoadDotenv(file, before)[k] \in STRING \union {None}
<1> DEFINE read == {i \in DOMAIN file : \A j \in 1..i : file[j] # Bad}
           at(k) == {i \in read : file[i][1] = k}
           first(k) == CHOOSE i \in at(k) : \A j \in at(k) : i <= j
<1>1. LoadDotenv(file, before) =
        [k \in DOMAIN before |-> IF before[k] # None \/ at(k) = {} THEN before[k] ELSE file[first(k)][2]]
  BY DEF LoadDotenv
<1>2. ASSUME NEW k, at(k) # {} PROVE file[first(k)][2] \in STRING
  <2>1. at(k) \in SUBSET Nat
    OBVIOUS
  <2>2. \E i \in at(k) : \A j \in at(k) : i <= j
    BY <1>2, <2>1, Least
  <2>3. first(k) \in at(k)
    BY <2>2
  <2> HIDE DEF first
  <2>4. first(k) \in DOMAIN file /\ first(k) \in 1..first(k) /\ file[first(k)] # Bad
    BY <2>3
  <2>5. file[first(k)] \in STRING \X STRING
    BY <2>4
  <2> QED BY <2>5
<1> HIDE DEF at, first, read
<1> QED BY <1>1, <1>2

(* The file that is loaded is one of the files there are, or is empty. *)
LEMMA EnvFileIsFile ==
    ASSUME NEW disk \in Disks
    PROVE  EnvFile(disk) \in Seq((STRING \X STRING) \union {Bad})
<1> DEFINE File == Seq((STRING \X STRING) \union {Bad})
           here == {i \in DOMAIN SearchOrder : disk[SearchOrder[i]] # NoFile}
           first == CHOOSE i \in here : \A j \in here : i <= j
<1>1. /\ \A i \in DOMAIN SearchOrder : disk[SearchOrder[i]] \in File \union {NoFile}
      /\ disk["ancestors"] \in File \union {NoFile}
  BY StartupAssumption
<1>2. CASE here = {}
  <2>1. FindEnvPath(disk) = None
    BY <1>2 DEF FindEnvPath
  <2>2. << >> \in File
    OBVIOUS
  <2> HIDE DEF File
  <2> QED BY <1>1, <2>1, <2>2 DEF EnvFile, File
<1>3. CASE here # {}
  <2>0. DOMAIN SearchOrder = 1..7
    BY DEF SearchOrder
  <2>1. here \in SUBSET Nat
    BY <2>0
  <2>2. \E i \in here : \A j \in here : i <= j
    BY <1>3, <2>1, Least
  <2>3. first \in here
    BY <2>2
  <2>4. FindEnvPath(disk) = SearchOrder[first]
    BY <1>3 DEF FindEnvPath
  <2> HIDE DEF first
  <2>5. first \in 1..7 /\ disk[SearchOrder[first]] \in File
    BY <1>1, <2>0, <2>3
  <2>6. SearchOrder[first] \in STRING
    BY <2>0, <2>5, StartupAssumption
  <2>7. FindEnvPath(disk) # None
    BY <2>4, <2>6, NoneIsNothing
  <2> QED BY <2>4, <2>5, <2>7 DEF EnvFile
<1> QED BY <1>2, <1>3

(***************************************************************************)
(* The invariant of the start.  A second call of init may find other files     *)
(* than the first, but what is set is never set anew, so the identity, what    *)
(* was found and the sampler stay in step with the environment.                *)
(***************************************************************************)

(* The environment that Main has made. *)
Configured ==
    /\ main \in {"dotenv", "name", "appenv", "validate", "sampler", "forward",
                 "bind", "seed"} \union Past
    /\ given \in Environs
    /\ DOMAIN environ = DOMAIN given
    /\ \A k \in DOMAIN environ : environ[k] \in STRING \union {None}
    /\ \A k \in DOMAIN given : given[k] # None => environ[k] = given[k]
    /\ name \in STRING /\ envRaw \in STRING

(* What follows from it, once Main has come so far. *)
Identified ==
    /\ main \notin {"dotenv", "name"} =>
         (NonEmpty("APP_NAME") => name = environ["APP_NAME"])
    /\ main \notin {"dotenv", "name", "appenv"} =>
         (NonEmpty("APP_ENV") => envRaw = environ["APP_ENV"])
    /\ main \notin {"dotenv", "name", "appenv", "validate"} => findings = ValidateConfiguration
    /\ main \in {"forward", "bind", "seed"} \union Past => sampler = AppEnv(envRaw)
    /\ findings \subseteq {"APP_NAME", "APP_ENV", "SENTRY_DSN", "RabbitMQ"}

(* There is a Sentry client if there is a DSN. *)
Reported ==
    /\ main \in {"bind", "seed"} => NonEmpty("SENTRY_DSN")
    /\ main \notin {"seed"} \union Past => client = None
    /\ main = "seed" => client # None
    /\ main \in Past => (client # None <=> NonEmpty("SENTRY_DSN"))

(* The pools are opened late, the one of Redis exactly if its settings are good, *)
(* and within the bounds the settings allow.                                   *)
RedisSettings == NonEmpty("REDIS_HOST") /\ RedisPort(Value("REDIS_PORT")) \in U16

Closed ==
    /\ main \notin {"db", "up", "failed"} => redisPool = NoPool
    /\ main \notin {"up", "failed"} => dbPool = NoPool

RedisPooled ==
    /\ redisPool = NoPool \/ redisPool.open = TRUE
    /\ main \in {"db", "up"} /\ redisPool = NoPool => ~RedisSettings
    /\ main \in {"db", "up"} /\ redisPool # NoPool => RedisSettings

DbBounded(pool) ==
    /\ pool.max_connections \in 1..U32Max
    /\ pool.max_lifetime \in DbConfig.conn_max_lifetime..SecondsMax

DbPooled == main = "up" /\ dbPool # NoPool => DbBounded(dbPool)

Pooled == Closed /\ RedisPooled /\ DbPooled

BootInv == Configured /\ Identified /\ Reported /\ Pooled

LEMMA BootInitInv == StartupInit => BootInv
<1> SUFFICES ASSUME StartupInit PROVE BootInv
  OBVIOUS
<1>1. main = "dotenv" /\ client = None /\ redisPool = NoPool /\ dbPool = NoPool /\ findings = {}
  BY DEF StartupInit, SentryInit, ResourcesInit
<1>2. Configured
  <2>1. given \in Environs /\ environ = given
    BY DEF StartupInit
  <2>2. \A k \in DOMAIN environ : environ[k] \in STRING \union {None}
    BY <2>1, StartupAssumption
  <2>3. name \in STRING /\ envRaw \in STRING
    BY NoneIsNothing DEF StartupInit
  <2> QED BY <1>1, <2>1, <2>2, <2>3 DEF Configured
<1>3. Identified /\ Reported /\ Pooled
  BY <1>1 DEF Identified, Reported, Pooled, Closed, RedisPooled, DbPooled, Past
<1> QED BY <1>2, <1>3 DEF BootInv

(* The variables init reads. *)
LEMMA Known ==
    ASSUME Configured
    PROVE  {"APP_NAME", "APP_ENV", "APP_MODE", "SENTRY_DSN", "SENTRY_ENVIRONMENT"}
              \subseteq DOMAIN environ /\ DOMAIN environ = DOMAIN given
  BY StartupAssumption DEF Configured

LEMMA EnvironmentIsSome ==
    ASSUME Configured PROVE SentryEnvironment # None
  BY Known, NoneIsNothing DEF Configured, SentryEnvironment, NonEmpty

(* load_dotenv changes no variable that was set. *)
LEMMA DotenvInv ==
    ASSUME BootInv, Dotenv, UNCHANGED <<sentryVars, resourceVars>>
    PROVE  BootInv'
<1>0. /\ main = "dotenv" /\ main' = "name"
      /\ UNCHANGED <<given, name, envRaw, findings, sampler>>
  BY DEF Dotenv
<1>1. Configured'
  <2>1. PICK disk \in Disks : environ' = LoadDotenv(EnvFile(disk), environ)
    BY DEF Dotenv
  <2>2. EnvFile(disk) \in Seq((STRING \X STRING) \union {Bad})
    BY EnvFileIsFile
  <2>3. /\ DOMAIN environ' = DOMAIN environ
        /\ \A k \in DOMAIN environ :
             /\ environ[k] # None => environ'[k] = environ[k]
             /\ environ'[k] \in STRING \union {None}
    BY <2>1, <2>2, LoadKeepsSet DEF BootInv, Configured
  <2>4. \A k \in DOMAIN given : given[k] # None => environ'[k] = given[k]
    BY <2>3 DEF BootInv, Configured
  <2> QED BY <1>0, <2>3, <2>4 DEF BootInv, Configured
<1>2. Identified' /\ Reported' /\ Pooled'
  BY <1>0 DEF BootInv, Identified, Reported, Pooled, Closed, RedisPooled, DbPooled, Past,
     sentryVars, resourceVars
<1> QED BY <1>1, <1>2 DEF BootInv

(* initialize_app and pc_log::init: the identity, the findings and the sampler follow the *)
(* environment.                                                                       *)
LEMMA IdentityInv ==
    ASSUME BootInv, SetName \/ SetEnv \/ Validate \/ InitSampler,
           UNCHANGED <<sentryVars, resourceVars>>
    PROVE  BootInv'
<1>0. /\ UNCHANGED <<given, environ, client, redisPool, dbPool>>
      /\ main \in {"name", "appenv", "validate", "sampler"}
      /\ main' \in {"appenv", "validate", "sampler", "dotenv", "forward"}
  BY DEF SetName, SetEnv, Validate, InitSampler, sentryVars, resourceVars
<1>1. Configured'
  <2>1. name' \in STRING /\ envRaw' \in STRING
    BY Known DEF BootInv, Configured, SetName, SetEnv, Validate, InitSampler, NonEmpty
  <2> QED BY <1>0, <2>1 DEF BootInv, Configured
<1>2. Reported' /\ Pooled'
  BY <1>0 DEF BootInv, Reported, Pooled, Closed, RedisPooled, DbPooled, Past
<1>3. Identified'
  <2>1. CASE SetName
    BY <2>1 DEF SetName, BootInv, Identified, Past, NonEmpty
  <2>2. CASE SetEnv
    BY <2>2 DEF SetEnv, BootInv, Identified, Past, NonEmpty
  <2>3. CASE Validate
    <3>1. ValidateConfiguration' = ValidateConfiguration
      BY <2>3 DEF Validate, ValidateConfiguration, CountConfigured, NonEmpty
    <3>2. findings' \subseteq {"APP_NAME", "APP_ENV", "SENTRY_DSN", "RabbitMQ"}
      BY <2>3 DEF Validate, ValidateConfiguration
    <3> HIDE DEF ValidateConfiguration
    <3> QED BY <2>3, <3>1, <3>2 DEF Validate, BootInv, Identified, Past, NonEmpty
  <2>4. CASE InitSampler
    <3>1. ValidateConfiguration' = ValidateConfiguration
      BY <2>4 DEF InitSampler, ValidateConfiguration, CountConfigured, NonEmpty
    <3>2. AppEnv(envRaw)' = AppEnv(envRaw)
      BY <2>4 DEF InitSampler, AppEnv
    <3> QED BY <2>4, <3>1, <3>2 DEF InitSampler, BootInv, Identified, Past, NonEmpty
  <2> QED BY <2>1, <2>2, <2>3, <2>4
<1> QED BY <1>1, <1>2, <1>3 DEF BootInv

(* Everything but main stays: what init has made so far is kept. *)
LEMMA IdentifiedStays ==
    ASSUME Configured, Identified, NEW where, Proceed(where),
           main \in {"forward", "bind", "seed"} \union Past,
           where \in {"bind", "seed"} \union Past
    PROVE  Configured' /\ Identified'
<1>0. main' = where /\ UNCHANGED <<given, environ, name, envRaw, findings, sampler>>
  BY DEF Proceed
<1>1. Configured'
  BY <1>0 DEF Configured
<1>2. ValidateConfiguration' = ValidateConfiguration
  BY <1>0 DEF ValidateConfiguration, CountConfigured, NonEmpty
<1>3. AppEnv(envRaw)' = AppEnv(envRaw) /\ NonEmpty("APP_NAME")' = NonEmpty("APP_NAME")
      /\ NonEmpty("APP_ENV")' = NonEmpty("APP_ENV")
  BY <1>0 DEF AppEnv, NonEmpty
<1>4. Identified'
  BY <1>0, <1>2, <1>3 DEF Identified, Past
<1> QED BY <1>1, <1>4

(* The same environment, the same settings. *)
LEMMA SettingsStay ==
    ASSUME UNCHANGED environ
    PROVE  /\ NonEmpty("SENTRY_DSN")' = NonEmpty("SENTRY_DSN")
           /\ RedisSettings' = RedisSettings
           /\ DbConfig' = DbConfig
<1>1. NonEmpty("SENTRY_DSN")' = NonEmpty("SENTRY_DSN")
  BY DEF NonEmpty
<1>2. RedisSettings' = RedisSettings
  BY DEF RedisSettings, NonEmpty, Value, RedisPort, Parses
<1>3. DbConfig' = DbConfig
  BY DEF DbConfig, NonEmpty, Value, PoolConfig, EnvIntPositive, Minutes, Parses
<1> QED BY <1>1, <1>2, <1>3

LEMMA ReportInv ==
    ASSUME BootInv, SentryForward \/ SentryBind \/ SentrySeed, UNCHANGED resourceVars
    PROVE  BootInv'
<1>0. UNCHANGED environ /\ redisPool' = redisPool /\ dbPool' = dbPool
  BY DEF SentryForward, SentryBind, SentrySeed, Proceed, resourceVars
<1>1. main \in {"forward", "bind", "seed"} /\ main' \in {"bind", "seed", "redis"}
  BY DEF SentryForward, SentryBind, SentrySeed, Proceed
<1>2. Configured' /\ Identified'
  <2>1. PICK where \in {"bind", "seed", "redis"} : Proceed(where)
    BY DEF SentryForward, SentryBind, SentrySeed
  <2> QED BY <1>1, <2>1, IdentifiedStays DEF BootInv, Past
<1>3. Pooled'
  BY <1>0, <1>1 DEF BootInv, Pooled, Closed, RedisPooled, DbPooled
<1>4. NonEmpty("SENTRY_DSN")' = NonEmpty("SENTRY_DSN")
  BY <1>0, SettingsStay
<1>5. Reported'
  <2>1. CASE SentryForward
    <3>1. client = None /\ client' = client
      BY <2>1 DEF SentryForward, Configure, BootInv, Reported, Past
    <3>2. main' = IF NonEmpty("SENTRY_DSN") THEN "bind" ELSE "redis"
      BY <2>1 DEF SentryForward, Proceed
    <3> QED BY <1>4, <3>1, <3>2 DEF Reported, Past
  <2>2. CASE SentryBind
    <3>1. client' # None /\ main' = "seed" /\ NonEmpty("SENTRY_DSN")
      BY <2>2, EnvironmentIsSome DEF SentryBind, Bind, Proceed, BootInv, Reported
    <3> QED BY <1>4, <3>1 DEF Reported, Past
  <2>3. CASE SentrySeed
    <3>1. client' # None /\ main' = "redis" /\ NonEmpty("SENTRY_DSN")
      BY <2>3 DEF SentrySeed, Seed, Proceed, BootInv, Reported
    <3> QED BY <1>4, <3>1 DEF Reported, Past
  <2> QED BY <2>1, <2>2, <2>3
<1> QED BY <1>2, <1>3, <1>5 DEF BootInv

(* init_from_env of pc-redis. *)
LEMMA OpenRedisInv ==
    ASSUME BootInv, OpenRedis, UNCHANGED sentryVars
    PROVE  BootInv'
<1> DEFINE host == Value("REDIS_HOST")
           port == Value("REDIS_PORT")
<1>0. PICK where \in {"db", "failed"} :
        /\ main = "redis" /\ Proceed(where)
        /\ \/ InitRedis(host, port, Value("REDIS_DB"))
           \/ InitRedisFails(host, port) /\ UNCHANGED resourceVars
  BY DEF OpenRedis, Aborts
<1>1. main = "redis" /\ main' = where /\ UNCHANGED environ /\ client' = client
  BY <1>0 DEF Proceed, sentryVars
<1>2. Configured' /\ Identified'
  BY <1>0, IdentifiedStays DEF BootInv, Past
<1>3. Reported'
  <2>1. NonEmpty("SENTRY_DSN")' = NonEmpty("SENTRY_DSN")
    BY <1>1, SettingsStay
  <2> QED BY <1>1, <2>1 DEF BootInv, Reported, Past
<1>4. /\ host # "" => NonEmpty("REDIS_HOST")
      /\ NonEmpty("REDIS_HOST") => host # ""
  BY DEF Value, NonEmpty
<1>5. RedisSettings' = RedisSettings
  BY <1>1, SettingsStay
<1>6. redisPool = NoPool /\ dbPool = NoPool
  BY <1>1 DEF BootInv, Pooled, Closed
<1> HIDE DEF host, port
<1>7. /\ redisPool' = NoPool \/ redisPool'.open = TRUE
      /\ redisPool' = NoPool => host = "" \/ RedisPort(port) \notin U16
      /\ redisPool' # NoPool => host # "" /\ RedisPort(port) \in U16
      /\ dbPool' = NoPool
  <2>1. CASE InitRedis(host, port, Value("REDIS_DB"))
    <3>1. CASE host = "" /\ redisPool' = NoPool /\ UNCHANGED dbPool
      BY <1>6, <3>1
    <3>2. CASE /\ host # "" /\ RedisPort(port) \in U16 /\ UNCHANGED dbPool
               /\ redisPool' = [open |-> TRUE, port |-> RedisPort(port),
                                db |-> RedisDb(Value("REDIS_DB"))]
      <4>1. redisPool'.open = TRUE /\ NoPool.open = FALSE
        BY <3>2 DEF NoPool
      <4> QED BY <1>6, <3>2, <4>1
    <3> QED BY <2>1, <3>1, <3>2 DEF InitRedis
  <2>2. CASE InitRedisFails(host, port) /\ UNCHANGED resourceVars
    BY <2>2, <1>6 DEF InitRedisFails, resourceVars
  <2> QED BY <1>0, <2>1, <2>2
<1>8. /\ redisPool' = NoPool => ~RedisSettings
      /\ redisPool' # NoPool => RedisSettings
  BY <1>4, <1>7 DEF RedisSettings, host, port
<1>9. Pooled'
  BY <1>1, <1>5, <1>7, <1>8 DEF Pooled, Closed, RedisPooled, DbPooled
<1> QED BY <1>2, <1>3, <1>9 DEF BootInv

(* The jitter never makes a lifetime shorter. *)
LEMMA JitterAdds ==
    ASSUME NEW base \in Nat, NEW percent \in Nat
    PROVE  ApplyLifetimeJitter(base, percent) \in Nat /\ base <= ApplyLifetimeJitter(base, percent)
<1>1. base * percent \in Nat
  OBVIOUS
<1>2. ASSUME NEW n \in Nat PROVE n \div 1000 \in Nat
  OBVIOUS
<1>3. (base * percent) \div 1000 \in Nat
  BY <1>1, <1>2
<1> QED BY <1>3 DEF ApplyLifetimeJitter

(* env_int_positive and minutes: no setting is zero or unlimited. *)
LEMMA SettingsPositive ==
    /\ DbConfig.max_open_conns \in Nat \ {0}
    /\ DbConfig.conn_max_lifetime \in 1..SecondsMax
<1>1. \A s : \A d \in Nat \ {0} : EnvIntPositive(s, d) \in Nat \ {0}
  BY ResourcesAssumption DEF EnvIntPositive, Parses
<1>2. \A n \in Nat \ {0} : Minutes(n) \in 1..SecondsMax
  BY ResourcesAssumption DEF Minutes
<1>3. /\ DbConfig.max_open_conns = EnvIntPositive(Value("DB_MAX_OPEN_CONN"), 15)
      /\ DbConfig.conn_max_lifetime = Minutes(EnvIntPositive(Value("DB_CONN_MAX_LIFETIME"), 30))
  BY DEF DbConfig, PoolConfig
<1>4. 15 \in Nat \ {0} /\ 30 \in Nat \ {0}
  OBVIOUS
<1> QED BY <1>1, <1>2, <1>3, <1>4

(* connect_pg: a pool that opens is bounded. *)
LEMMA ConnectBounded ==
    ASSUME NEW percent \in Draws, ~JitterPanics(Value("DB_DSN"), DbConfig, percent),
           ConnectDb(Value("DB_DSN"), DbConfig, percent)
    PROVE  /\ dbPool'.max_connections \in 1..U32Max
           /\ dbPool'.max_lifetime \in DbConfig.conn_max_lifetime..SecondsMax
<1> DEFINE max == MaxConnections(DbConfig.max_open_conns)
           base == DbConfig.conn_max_lifetime
           life == ApplyLifetimeJitter(base, percent)
<1>1. base \in Nat /\ percent \in Nat /\ SecondsMax \in Nat
  BY SettingsPositive, ResourcesAssumption
<1>2. life \in Nat /\ base <= life
  BY <1>1, JitterAdds
<1>3. ~(life > SecondsMax) /\ max # 0
  BY DEF JitterPanics, ConnectDb
<1>4. dbPool'.max_connections = max /\ dbPool'.max_lifetime = life
  BY DEF ConnectDb
<1>5. max \in 1..U32Max
  BY <1>3, SettingsPositive, ResourcesAssumption DEF MaxConnections
<1> HIDE DEF base, life, max
<1>6. life \in base..SecondsMax
  BY <1>1, <1>2, <1>3
<1> QED BY <1>4, <1>5, <1>6 DEF base

LEMMA OpenDbInv ==
    ASSUME BootInv, OpenDb, UNCHANGED sentryVars
    PROVE  BootInv'
<1>0. PICK percent \in Draws, where \in {"up", "failed"} :
        /\ main = "db" /\ Proceed(where)
        /\ \/ where = "failed" /\ UNCHANGED resourceVars
           \/ ConnectDbFails
           \/ /\ ~JitterPanics(Value("DB_DSN"), DbConfig, percent)
              /\ ConnectDb(Value("DB_DSN"), DbConfig, percent)
  BY DEF OpenDb, Aborts
<1>1. main = "db" /\ main' = where /\ UNCHANGED environ /\ client' = client
  BY <1>0 DEF Proceed, sentryVars
<1>2. Configured' /\ Identified'
  BY <1>0, IdentifiedStays DEF BootInv, Past
<1>3. Reported'
  <2>1. NonEmpty("SENTRY_DSN")' = NonEmpty("SENTRY_DSN")
    BY <1>1, SettingsStay
  <2> QED BY <1>1, <2>1 DEF BootInv, Reported, Past
<1>4. RedisSettings' = RedisSettings /\ DbConfig' = DbConfig
  BY <1>1, SettingsStay
<1>5. redisPool' = redisPool
  BY <1>0 DEF ConnectDb, ConnectDbFails, resourceVars
<1>6. DbPooled'
  <2>1. CASE where = "failed"
    BY <1>1, <2>1 DEF DbPooled
  <2>2. CASE ConnectDbFails
    BY <2>2 DEF ConnectDbFails, DbPooled, NoPool
  <2>3. CASE /\ ~JitterPanics(Value("DB_DSN"), DbConfig, percent)
             /\ ConnectDb(Value("DB_DSN"), DbConfig, percent)
    <3>1. /\ dbPool'.max_connections \in 1..U32Max
          /\ dbPool'.max_lifetime \in DbConfig.conn_max_lifetime..SecondsMax
      BY <2>3, ConnectBounded
    <3> QED BY <1>4, <3>1 DEF DbPooled, DbBounded
  <2> QED BY <1>0, <2>1, <2>2, <2>3
<1>7. Closed' /\ RedisPooled'
  BY <1>1, <1>4, <1>5 DEF BootInv, Pooled, Closed, RedisPooled
<1> QED BY <1>2, <1>3, <1>6, <1>7 DEF BootInv, Pooled

(* Steps of the others leave the start alone. *)
LEMMA BootAlone ==
    ASSUME BootInv, UNCHANGED <<bootVars, resourceVars, client>>
    PROVE  BootInv'
<1>0. /\ UNCHANGED <<main, given, environ, name, envRaw, findings, sampler>>
      /\ UNCHANGED <<redisPool, dbPool, client>>
  BY DEF bootVars, resourceVars
<1>1. Configured'
  BY <1>0 DEF BootInv, Configured
<1>2. /\ NonEmpty("SENTRY_DSN")' = NonEmpty("SENTRY_DSN")
      /\ RedisSettings' = RedisSettings /\ DbConfig' = DbConfig
  BY <1>0, SettingsStay
<1>3. /\ ValidateConfiguration' = ValidateConfiguration
      /\ AppEnv(envRaw)' = AppEnv(envRaw)
      /\ NonEmpty("APP_NAME")' = NonEmpty("APP_NAME") /\ NonEmpty("APP_ENV")' = NonEmpty("APP_ENV")
  BY <1>0 DEF ValidateConfiguration, CountConfigured, NonEmpty, AppEnv
<1>4. Identified' /\ Reported'
  BY <1>0, <1>2, <1>3 DEF BootInv, Identified, Reported
<1>5. Closed' /\ RedisPooled'
  BY <1>0, <1>2 DEF BootInv, Pooled, Closed, RedisPooled
<1>6. DbPooled'
  BY <1>0, <1>2 DEF BootInv, Pooled, DbPooled, DbBounded
<1> QED BY <1>1, <1>4, <1>5, <1>6 DEF BootInv, Pooled

(* The invariant of the whole: the three parts need each other only at the seams. *)
StartInv == HealthInv /\ SentryInv /\ BootInv

LEMMA HealthAlone == ASSUME HealthInv, UNCHANGED healthVars PROVE HealthInv'
<1>0. UNCHANGED <<probe, elapsed, redis, latency, setting, failed, rabbit, checks, overall>>
  BY DEF healthVars
<1>1. HealthTypeOK'
  BY <1>0 DEF HealthInv, HealthTypeOK, Cutoff, OpTimeout
<1>2. Probing' /\ OverallIsWorst' /\ FastIsUp'
  BY <1>0 DEF HealthInv, Probing, OverallIsWorst, FastIsUp, Cutoff, OpTimeout
<1> QED BY <1>1, <1>2 DEF HealthInv

LEMMA BootStep ==
    ASSUME StartInv, Boot, UNCHANGED healthVars PROVE StartInv'
<1>1. HealthInv'
  BY HealthAlone DEF StartInv
<1>2. ASSUME Dotenv \/ SetName \/ SetEnv \/ Validate \/ InitSampler,
             UNCHANGED <<sentryVars, resourceVars>>
      PROVE  BootInv' /\ SentryInv'
  <2>1. BootInv'
    BY <1>2, DotenvInv, IdentityInv DEF StartInv
  <2>2. main \notin Past \union {"seed"} /\ main' \notin Past
    BY <1>2 DEF Dotenv, SetName, SetEnv, Validate, InitSampler, Past
  <2>3. SentryInv'
    BY <1>2, <2>2, SentryAlone DEF StartInv
  <2> QED BY <2>1, <2>3
<1>3. ASSUME SentryForward \/ SentryBind \/ SentrySeed, UNCHANGED resourceVars
      PROVE  BootInv' /\ SentryInv'
  <2>1. BootInv'
    BY <1>3, ReportInv DEF StartInv
  <2>2. SentryEnvironment # None /\ name \in STRING /\ envRaw \in STRING
    BY EnvironmentIsSome DEF StartInv, BootInv, Configured
  <2>3. SentryInv'
    BY <1>3, <2>2, SentryForwardInv, SentryBindInv, SentrySeedInv DEF StartInv
  <2> QED BY <2>1, <2>3
<1>4. ASSUME OpenRedis \/ OpenDb, UNCHANGED sentryVars
      PROVE  BootInv' /\ SentryInv'
  <2>1. BootInv'
    BY <1>4, OpenRedisInv, OpenDbInv DEF StartInv
  <2>2. main \in {"redis", "db"} /\ main' \in {"db", "up", "failed"}
    BY <1>4 DEF OpenRedis, OpenDb, Aborts, Proceed
  <2>3. SentryInv'
    BY <1>4, <2>2, SentryAlone DEF StartInv, Past
  <2> QED BY <2>1, <2>3
<1> QED BY <1>1, <1>2, <1>3, <1>4 DEF Boot, StartInv

LEMMA LogStep ==
    ASSUME StartInv, NEW t \in Threads, Log(t), UNCHANGED <<bootVars, resourceVars, healthVars>>
    PROVE  StartInv'
<1>0. UNCHANGED main
  BY DEF bootVars
<1>1. HealthInv'
  BY HealthAlone DEF StartInv
<1>2. client' = client
  BY DEF Log, Emit, Receive, Capture
<1>3. BootInv'
  BY <1>2, BootAlone DEF StartInv
<1>4. SentryInv'
  BY <1>0, EmitInv, ReceiveInv, CaptureInv DEF Log, StartInv
<1> QED BY <1>1, <1>3, <1>4 DEF StartInv

LEMMA CheckStep ==
    ASSUME StartInv, PollCheck, UNCHANGED <<bootVars, resourceVars>>
    PROVE  StartInv'
<1>0. UNCHANGED main
  BY DEF bootVars
<1>1. CASE ((main = "up" /\ CheckRedis(redisPool.open)) \/ Poll) /\ UNCHANGED sentryVars
  <2>1. redisPool.open \in BOOLEAN
    <3>1. redisPool = NoPool \/ redisPool.open = TRUE
      BY DEF StartInv, BootInv, Pooled, RedisPooled
    <3>2. NoPool.open = FALSE
      BY DEF NoPool
    <3> QED BY <3>1, <3>2, Zenon
  <2>2. HealthInv'
    BY <1>1, <2>1, CheckRedisInv, PollInv DEF StartInv
  <2>3. SentryInv'
    BY <1>0, <1>1, SentryAlone DEF StartInv
  <2>4. BootInv'
    BY <1>1, BootAlone DEF StartInv, sentryVars
  <2> QED BY <2>2, <2>3, <2>4 DEF StartInv
<1>2. CASE \E t \in Threads : RestOfCheck(t)
  <2>1. PICK t \in Threads : RestOfCheck(t)
    BY <1>2
  <2>2. HealthInv'
    BY <2>1, CheckRestInv DEF StartInv, RestOfCheck
  <2>3. SentryInv'
    BY <1>0, <2>1, RestOfCheckSentry DEF StartInv
  <2>4. BootInv'
    BY <2>1, BootAlone DEF StartInv, RestOfCheck
  <2> QED BY <2>2, <2>3, <2>4 DEF StartInv
<1> QED BY <1>1, <1>2 DEF PollCheck

LEMMA WorldStep ==
    ASSUME StartInv, Breaks \/ RabbitChanges \/ Tick,
           UNCHANGED <<bootVars, resourceVars, sentryVars>>
    PROVE  StartInv'
<1>1. HealthInv'
  BY HealthWorldInv DEF StartInv
<1>2. SentryInv'
  BY SentryAlone DEF StartInv, bootVars
<1>3. BootInv'
  BY BootAlone DEF StartInv, sentryVars
<1> QED BY <1>1, <1>2, <1>3 DEF StartInv

(* StartInv is an inductive invariant of the start, of whatever threads, lines,     *)
(* environments and files.                                                       *)
THEOREM StartupInvariant == StartupSpec => []StartInv
<1>1. StartupInit => StartInv
  BY HealthInitInv, SentryInitInv, BootInitInv DEF StartInv, StartupInit
<1>2. StartInv /\ [StartupNext]_allVars => StartInv'
  <2> SUFFICES ASSUME StartInv, [StartupNext]_allVars PROVE StartInv'
    OBVIOUS
  <2>1. CASE StartupNext
    BY <2>1, BootStep, LogStep, CheckStep, WorldStep DEF StartupNext
  <2>2. CASE UNCHANGED allVars
    <3>1. UNCHANGED <<bootVars, resourceVars, client>> /\ UNCHANGED healthVars
          /\ UNCHANGED sentryVars /\ UNCHANGED main
      BY <2>2 DEF allVars, sentryVars, bootVars
    <3> QED BY <3>1, HealthAlone, SentryAlone, BootAlone DEF StartInv
  <2> QED BY <2>1, <2>2
<1> QED BY <1>1, <1>2, PTL DEF StartupSpec

(* The variables of a starting service stay within their types; the environment     *)
(* never gains or loses a variable it did not start with.                          *)
THEOREM StartupTypes == StartupSpec => []StartupTypeOK
<1>1. StartInv => StartupTypeOK
  BY DEF StartInv, HealthInv, BootInv, Configured, Identified, Past, StartupTypeOK
<1> QED BY <1>1, StartupInvariant, PTL

(* receive_log after init: for every number of threads and lines, a forwarded line is *)
(* heard, with the breadcrumb data, unless its thread had a hub too early.            *)
THEOREM StartupHeardWithContext == StartupSpec => []HeardWithContext
<1>1. StartInv => HeardWithContext
  BY DEF StartInv, SentryInv
<1> QED BY <1>1, StartupInvariant, PTL

(* check_health: for every deadline, latency and lag, the overall status is the worst  *)
(* of the three and a Redis that answered in time is not called unhealthy.            *)
THEOREM StartupVerdictSound == StartupSpec => []VerdictSound
<1>1. StartInv => VerdictSound
  BY DEF StartInv, HealthInv, VerdictSound
<1> QED BY <1>1, StartupInvariant, PTL

(* What was set is kept, the identity follows it, and the findings tell the truth. *)
LEMMA UpAsConfigured ==
    ASSUME BootInv, main = "up"
    PROVE  RunsAsConfigured
<1>0. main \in Past
  BY DEF Past
<1>1. /\ {"APP_NAME", "APP_ENV", "APP_MODE", "SENTRY_DSN"} \subseteq DOMAIN given
      /\ \A k \in DOMAIN given : given[k] # None => environ[k] = given[k]
      /\ name \in STRING /\ envRaw \in STRING
  BY Known DEF BootInv, Configured
<1>2. /\ NonEmpty("APP_NAME") => name = environ["APP_NAME"]
      /\ NonEmpty("APP_ENV") => envRaw = environ["APP_ENV"]
      /\ findings = ValidateConfiguration
      /\ sampler = AppEnv(envRaw)
  BY <1>0 DEF BootInv, Identified
<1>3. /\ client # None => NonEmpty("SENTRY_DSN")
      /\ NonEmpty("SENTRY_DSN") => client # None
  BY <1>0 DEF BootInv, Reported
<1>4. /\ given["APP_NAME"] \notin {None, ""} => name = given["APP_NAME"]
      /\ given["APP_ENV"] \notin {None, ""} => envRaw = given["APP_ENV"]
  BY <1>1, <1>2 DEF NonEmpty
<1>5. /\ "APP_NAME" \notin findings => NonEmpty("APP_NAME")
      /\ "SENTRY_DSN" \notin findings => NonEmpty("SENTRY_DSN")
      /\ NonEmpty("SENTRY_DSN") => "SENTRY_DSN" \notin findings
      /\ "APP_ENV" \notin findings =>
           (IF NonEmpty("APP_ENV") THEN environ["APP_ENV"] ELSE envRaw)
              \in {"develop", "staging", "production"}
  BY <1>2 DEF ValidateConfiguration
<1>6. "APP_ENV" \notin findings => sampler # None
  <2>1. "APP_ENV" \notin findings => envRaw \in {"develop", "staging", "production"}
    BY <1>2, <1>5
  <2>2. \A raw \in {"develop", "staging", "production"} : AppEnv(raw) = raw
    BY DEF AppEnv
  <2>3. \A raw \in {"develop", "staging", "production"} : raw # None
    BY StartupAssumption, NoneIsNothing
  <2> QED BY <1>2, <2>1, <2>2, <2>3
<1>7. ConfigurationStatus = "healthy" => name # "" /\ sampler # None /\ client # None
  <2>1. ConfigurationStatus = "healthy" => findings = {}
    BY <1>2 DEF ConfigurationStatus
  <2>2. NonEmpty("APP_NAME") => name # ""
    BY <1>2 DEF NonEmpty
  <2> QED BY <2>1, <2>2, <1>3, <1>5, <1>6
<1>8. client = None <=> "SENTRY_DSN" \in findings
  BY <1>3, <1>5
<1>9. redisPool.open <=> RedisSettings
  <2>1. CASE redisPool = NoPool
    BY <2>1 DEF BootInv, Pooled, RedisPooled, NoPool
  <2>2. CASE redisPool # NoPool
    BY <2>2 DEF BootInv, Pooled, RedisPooled
  <2> QED BY <2>1, <2>2
<1>10. dbPool.open =>
         /\ dbPool.max_connections \in 1..U32Max
         /\ dbPool.max_lifetime \in DbConfig.conn_max_lifetime..SecondsMax
  <2>1. dbPool.open => dbPool # NoPool
    BY DEF NoPool
  <2> QED BY <2>1 DEF BootInv, Pooled, DbPooled, DbBounded
<1> QED BY <1>1, <1>4, <1>6, <1>7, <1>8, <1>9, <1>10 DEF RunsAsConfigured, RedisSettings

(* paycloudhelper::init and the pools, for every environment and every set of files:  *)
(* what the operator set is what the service runs with, however often init is called.  *)
THEOREM StartupRunsAsConfigured == StartupSpec => []RunsAsConfigured
<1>1. StartInv => RunsAsConfigured
  <2>1. CASE main = "up"
    BY <2>1, UpAsConfigured DEF StartInv
  <2>2. CASE main # "up"
    BY <2>2 DEF RunsAsConfigured
  <2> QED BY <2>1, <2>2
<1> QED BY <1>1, StartupInvariant, PTL
=============================================================================
