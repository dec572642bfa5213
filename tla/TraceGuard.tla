---------------------------- MODULE TraceGuard ----------------------------
(***************************************************************************)
(* The life cycle of pc-trace: init_from_env builds a tracer and a meter        *)
(* provider, installs them as the global ones and raises ENABLED; the guard it  *)
(* returns shuts both down and lowers ENABLED, when shutdown is called and      *)
(* again when the guard is dropped.                                            *)
(*                                                                         *)
(* The process may call init_from_env more than once and from several threads.  *)
(* Each call is known by its number i, so are its providers and its guard; the  *)
(* steps of different calls interleave.  The sampling ratio is in tenths.        *)
(***************************************************************************)
EXTENDS Integers

CONSTANTS Calls,  \* calls of init_from_env
          Envs,   \* what the OTEL_* variables can say at a call
          Noop    \* the provider that is global before any is installed

ASSUME TraceAssumption ==
    /\ Envs \subseteq [flag : {"unset", "on", "off"}, endpoint : BOOLEAN,
                       service : BOOLEAN, ratio : Int]
    /\ Noop \notin Calls

VARIABLES enabled,  \* ENABLED
          tracer,   \* whose providers are the global ones
          meter,
          tracers,  \* providers that have not been shut down
          meters,
          pc,       \* where each call and its guard are
          env,      \* the environment the call read
          ratio     \* sampling ratio of its tracer provider

vars == <<enabled, tracer, meter, tracers, meters, pc, env, ratio>>

Locations == {"new", "span", "metric", "set_tracer", "set_meter", "store",
              "guard", "tracer_down", "meter_down", "clear", "empty", "gone"}

TypeOK ==
    /\ enabled \in BOOLEAN
    /\ tracer \in Calls \union {Noop} /\ meter \in Calls \union {Noop}
    /\ tracers \in SUBSET Calls /\ meters \in SUBSET Calls
    /\ pc \in [Calls -> Locations]
    /\ env \in [Calls -> Envs]
    /\ ratio \in [Calls -> 0..10]

Init ==
    /\ enabled = FALSE
    /\ tracer = Noop /\ meter = Noop
    /\ tracers = {} /\ meters = {}
    /\ pc = [i \in Calls |-> "new"]
    /\ env \in [Calls -> Envs]
    /\ ratio = [i \in Calls |-> 0]

Goto(i, where) == pc' = [pc EXCEPT ![i] = where]

-----------------------------------------------------------------------------
(* Config::from_env: OTEL_ENABLED decides, or else whether there is an endpoint. *)
ConfigEnabled(e) == IF e.flag = "unset" THEN e.endpoint ELSE e.flag = "on"

(* Config::with_defaults takes a ratio of 0 for one that was not given. *)
RatioUsed(e) == IF e.ratio = 0 THEN 10 ELSE e.ratio

(* ensure_required: with_defaults leaves no zero dial_timeout. *)
EnsureRequired(e) == e.service /\ e.endpoint /\ RatioUsed(e) \in 0..10

(* init: a disabled guard, an error, or the pipeline is built. *)
Start(i) ==
    /\ pc[i] = "new"
    /\ Goto(i, IF ~ConfigEnabled(env[i]) THEN "empty"
               ELSE IF ~EnsureRequired(env[i]) THEN "gone" ELSE "span")
    /\ UNCHANGED <<enabled, tracer, meter, tracers, meters, env, ratio>>

(* build_pipeline: the span exporter cannot be built, ... *)
SpanFails(i) ==
    /\ pc[i] = "span"
    /\ Goto(i, "gone")
    /\ UNCHANGED <<enabled, tracer, meter, tracers, meters, env, ratio>>

(* ... or the tracer provider is. *)
BuildTracer(i) ==
    /\ pc[i] = "span"
    /\ tracers' = tracers \union {i}
    /\ ratio' = [ratio EXCEPT ![i] = RatioUsed(env[i])]
    /\ Goto(i, "metric")
    /\ UNCHANGED <<enabled, tracer, meter, meters, env>>

(* The metric exporter cannot be built: the tracer provider is dropped, and its    *)
(* drop shuts it down.                                                          *)
MetricFails(i) ==
    /\ pc[i] = "metric"
    /\ tracers' = tracers \ {i}
    /\ Goto(i, "gone")
    /\ UNCHANGED <<enabled, tracer, meter, meters, env, ratio>>

BuildMeter(i) ==
    /\ pc[i] = "metric"
    /\ meters' = meters \union {i}
    /\ Goto(i, "set_tracer")
    /\ UNCHANGED <<enabled, tracer, meter, tracers, env, ratio>>

SetTracer(i) ==
    /\ pc[i] = "set_tracer"
    /\ tracer' = i
    /\ Goto(i, "set_meter")
    /\ UNCHANGED <<enabled, meter, tracers, meters, env, ratio>>

SetMeter(i) ==
    /\ pc[i] = "set_meter"
    /\ meter' = i
    /\ Goto(i, "store")
    /\ UNCHANGED <<enabled, tracer, tracers, meters, env, ratio>>

(* init raises ENABLED and returns the guard. *)
Store(i) ==
    /\ pc[i] = "store"
    /\ enabled' = TRUE
    /\ Goto(i, "guard")
    /\ UNCHANGED <<tracer, meter, tracers, meters, env, ratio>>

(* shutdown, called or from drop. *)
Shutdown(i) ==
    /\ pc[i] = "guard"
    /\ Goto(i, "tracer_down")
    /\ UNCHANGED <<enabled, tracer, meter, tracers, meters, env, ratio>>

(* Mutant: an error of the tracer's shutdown ends the function. *)
TracerDown_Early(i) ==
    /\ pc[i] = "tracer_down"
    /\ tracers' = tracers \ {i}
    /\ Goto(i, "meter_down") \/ Goto(i, "empty")
    /\ UNCHANGED <<enabled, tracer, meter, meters, env, ratio>>

(* The tracer provider is shut down; an error is kept for the result. *)
TracerDown(i) ==
    /\ pc[i] = "tracer_down"
    /\ tracers' = tracers \ {i}
    /\ Goto(i, "meter_down")
    /\ UNCHANGED <<enabled, tracer, meter, meters, env, ratio>>

MeterDown(i) ==
    /\ pc[i] = "meter_down"
    /\ meters' = meters \ {i}
    /\ Goto(i, "clear")
    /\ UNCHANGED <<enabled, tracer, meter, tracers, env, ratio>>

(* Mutant: a guard does not lower the flag. *)
Clear_Not(i) ==
    /\ pc[i] = "clear"
    /\ Goto(i, "empty") \/ Goto(i, "gone")
    /\ UNCHANGED <<enabled, tracer, meter, tracers, meters, env, ratio>>

(* ENABLED is lowered; the guard is left without providers, or dropped. *)
Clear(i) ==
    /\ pc[i] = "clear"
    /\ enabled' = FALSE
    /\ Goto(i, "empty") \/ Goto(i, "gone")
    /\ UNCHANGED <<tracer, meter, tracers, meters, env, ratio>>

(* shutdown of a guard without providers lowers ENABLED all the same. *)
EmptyShutdown(i) ==
    /\ pc[i] = "empty"
    /\ enabled' = FALSE
    /\ Goto(i, "empty") \/ Goto(i, "gone")
    /\ UNCHANGED <<tracer, meter, tracers, meters, env, ratio>>

Step(i) ==
    \/ Start(i)
    \/ SpanFails(i) \/ BuildTracer(i) \/ MetricFails(i) \/ BuildMeter(i)
    \/ SetTracer(i) \/ SetMeter(i) \/ Store(i)
    \/ Shutdown(i) \/ TracerDown(i) \/ MeterDown(i) \/ Clear(i)
    \/ EmptyShutdown(i)

Next == \E i \in Calls : Step(i)

Spec == Init /\ [][Next]_vars

-----------------------------------------------------------------------------
(* The calls between raising the flag and lowering it. *)
Raised == {i \in Calls : pc[i] \in {"guard", "tracer_down", "meter_down", "clear"}}

(* ENABLED does not stay up once the last guard has gone, however the inits and     *)
(* shutdowns of several threads interleave and whichever of their steps fail.      *)
FlagFollowsGuards == enabled => Raised # {}

(* No provider is left running that nobody will shut down: an init that fails       *)
(* half way and a shutdown whose first part fails take the rest down too.          *)
NothingLeaks ==
    \A i \in Calls : i \in tracers \union meters => pc[i] \notin {"new", "empty", "gone"}
===========================================================================
