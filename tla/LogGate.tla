------------------------------ MODULE LogGate ------------------------------
(***************************************************************************)
(* What decides whether a log macro of pc-log emits its line: the sampler      *)
(* (sampler.rs) behind log_*! and log_*_rated!, the window limiter             *)
(* (ratelimit.rs) behind log_*_rated_w!, and initialize_sampler, which         *)
(* replaces the sampler while threads hold the old one.                        *)
(*                                                                         *)
(* Both checks read the clock BEFORE they lock the key's entry, so threads     *)
(* reach the entry in another order than they read the clock.  A check is two  *)
(* steps here: Enter reads the clock and clones the sampler, Check works under  *)
(* the lock of the entry.                                                     *)
(***************************************************************************)
EXTENDS Integers

CONSTANTS Loggers, Keys,
          Configs,        \* values of SamplerConfig
          DefaultPeriod,  \* 1s
          Windows,        \* windows the rated macros are called with
          MaxCalls,       \* bound: log calls
          MaxClock,       \* bound: time
          MaxInits        \* bound: calls of initialize_sampler

ASSUME LogGateAssumption ==
    /\ Configs \subseteq [initial : Nat, thereafter : Nat, period : Nat]
    /\ Windows \subseteq Nat
    /\ DefaultPeriod \in Nat \ {0}
    /\ MaxCalls \in Nat /\ MaxClock \in Nat /\ MaxInits \in Nat

Samplers == 0..MaxInits
NoStamp == -1
Disabled == [initial |-> 0, thereafter |-> 0, period |-> DefaultPeriod]

VARIABLES clock,
          config,  \* configuration of each Sampler; 0 is the one before init
          gen,     \* the Sampler GLOBAL_SAMPLER points to
          entry,   \* its SamplerEntry of each key; reset is NoStamp if there is none
          gate,    \* the RateLimitEntry of each key
          call,    \* what each thread is checking, if anything
          calls,   \* number of log calls so far
          lines    \* lines of each entry, by their fate (see below)

gateVars == <<clock, config, gen, entry, gate, call, calls, lines>>

(* lines.sampled counts the lines of the period of an entry: emitted, dropped,  *)
(* and said to be dropped in a suffix; lines.rated the lines of a window key.   *)
Fates == [emitted : Nat, dropped : Nat, reported : Nat]
NoLines == [emitted |-> 0, dropped |-> 0, reported |-> 0]

Idle == [at |-> "idle"]

GateTypeOK ==
    /\ clock \in 0..MaxClock
    /\ gen \in Samplers
    /\ config \in [Samplers -> [initial : Nat, thereafter : Nat, period : Nat \ {0}]]
    /\ entry \in [Samplers -> [Keys -> [count : Nat, reset : -1..MaxClock]]]
    /\ gate \in [Keys -> [last : -1..MaxClock, suppressed : Nat]]
    /\ call \in [Loggers -> {Idle}
            \union [at : {"sample"}, key : Keys, now : 0..MaxClock, sampler : Samplers]
            \union [at : {"window"}, key : Keys, now : 0..MaxClock, window : Windows]]
    /\ calls \in 0..MaxCalls
    /\ lines \in [sampled : [Samplers -> [Keys -> Fates]], rated : [Keys -> Fates]]

GateInit ==
    /\ clock = 0 /\ calls = 0 /\ gen = 0
    /\ config = [g \in Samplers |-> Disabled]
    /\ entry = [g \in Samplers |-> [k \in Keys |-> [count |-> 0, reset |-> NoStamp]]]
    /\ gate = [k \in Keys |-> [last |-> NoStamp, suppressed |-> 0]]
    /\ call = [t \in Loggers |-> Idle]
    /\ lines = [sampled |-> [g \in Samplers |-> [k \in Keys |-> NoLines]],
                rated |-> [k \in Keys |-> NoLines]]

-----------------------------------------------------------------------------
(* initialize_sampler: a period of 0 becomes the default if there is a burst. *)
Normalised(c) ==
    IF c.period = 0 /\ c.initial > 0 THEN [c EXCEPT !.period = DefaultPeriod] ELSE c

(* initialize_sampler, also as the first half of init: a new Sampler without      *)
(* entries; threads that cloned the old one go on with it.                       *)
InitializeSampler(c) ==
    /\ gen < MaxInits
    /\ gen' = gen + 1
    /\ config' = [config EXCEPT ![gen + 1] =
                    IF Normalised(c).initial = 0 THEN Disabled ELSE Normalised(c)]
    /\ UNCHANGED <<clock, entry, gate, call, calls, lines>>

(* sample clones the Arc under the read lock, and works with that clone. *)
CurrentSampler == gen

(* A macro gated by the sampler: clone it, read the clock. *)
EnterSample(t, k) ==
    /\ call[t] = Idle /\ calls < MaxCalls
    /\ calls' = calls + 1
    /\ call' = [call EXCEPT ![t] =
                  [at |-> "sample", key |-> k, now |-> clock, sampler |-> CurrentSampler]]
    /\ UNCHANGED <<clock, config, gen, entry, gate, lines>>

(* A macro gated by a window, sample_window: read the clock. *)
EnterWindow(t, k, w) ==
    /\ call[t] = Idle /\ calls < MaxCalls
    /\ calls' = calls + 1
    /\ call' = [call EXCEPT ![t] =
                  [at |-> "window", key |-> k, now |-> clock, window |-> w]]
    /\ UNCHANGED <<clock, config, gen, entry, gate, lines>>

(* Mutant: the distance, whichever came first. *)
Elapsed_Absolute(now, since) == IF now >= since THEN now - since ELSE since - now

(* External: Instant::duration_since saturates at zero. *)
Elapsed(now, since) == IF now >= since THEN now - since ELSE 0

(* Mutant: one line more than the burst. *)
SampleVerdict_OffByOne(cfg, n) ==
    LET over == n - cfg.initial - 1 IN
    IF n <= cfg.initial + 1 THEN [emit |-> TRUE, suppressed |-> 0]
    ELSE IF cfg.thereafter # 0 /\ over % cfg.thereafter = 0
         THEN [emit |-> TRUE, suppressed |-> cfg.thereafter - 1]
         ELSE [emit |-> FALSE, suppressed |-> 0]

(* What Sampler::check makes of the n-th line of a period. *)
SampleVerdict(cfg, n) ==
    LET over == n - cfg.initial IN
    IF n <= cfg.initial THEN [emit |-> TRUE, suppressed |-> 0]
    ELSE IF cfg.thereafter # 0 /\ over % cfg.thereafter = 0
         THEN [emit |-> TRUE, suppressed |-> cfg.thereafter - 1]
         ELSE [emit |-> FALSE, suppressed |-> 0]

Tally(f, v) ==
    IF v.emit THEN [f EXCEPT !.emitted = @ + 1, !.reported = @ + v.suppressed]
              ELSE [f EXCEPT !.dropped = @ + 1]

(* Sampler::check under the lock of the entry: sampling is off, the period is     *)
(* over, or the line is counted in it.                                          *)
CheckSample(t) ==
    LET c == call[t]
        g == c.sampler
        k == c.key
        cfg == config[g]
        e == IF entry[g][k].reset = NoStamp THEN [count |-> 0, reset |-> c.now]
                                          ELSE entry[g][k]
        v == SampleVerdict(cfg, e.count + 1)
    IN  /\ call[t].at = "sample"
        /\ call' = [call EXCEPT ![t] = Idle]
        /\ \/ cfg.initial = 0 /\ UNCHANGED <<entry, lines>>
           \/ /\ cfg.initial > 0 /\ Elapsed(c.now, e.reset) >= cfg.period
              /\ entry' = [entry EXCEPT ![g][k] = [count |-> 1, reset |-> c.now]]
              /\ lines' = [lines EXCEPT !.sampled[g][k] = [NoLines EXCEPT !.emitted = 1]]
           \/ /\ cfg.initial > 0 /\ Elapsed(c.now, e.reset) < cfg.period
              /\ entry' = [entry EXCEPT ![g][k] = [e EXCEPT !.count = @ + 1]]
              /\ lines' = [lines EXCEPT !.sampled[g][k] = Tally(@, v)]
        /\ UNCHANGED <<clock, config, gen, gate, calls>>

(* Mutant: the count of suppressed lines is not drained. *)
Drained_Kept(g, now) == [g EXCEPT !.last = now]

(* RateLimiter::check lets a line pass: the count of suppressed lines is drained. *)
Drained(g, now) == [last |-> now, suppressed |-> 0]

(* RateLimiter::check under the lock of the entry: no window, within it, or a new  *)
(* one.                                                                         *)
CheckWindow(t) ==
    LET c == call[t]
        k == c.key
        g == gate[k]
        within == g.last # NoStamp /\ Elapsed(c.now, g.last) < c.window
    IN  /\ call[t].at = "window"
        /\ call' = [call EXCEPT ![t] = Idle]
        /\ \/ c.window = 0 /\ UNCHANGED <<gate, lines>>
           \/ /\ c.window > 0 /\ within
              /\ gate' = [gate EXCEPT ![k].suppressed = @ + 1]
              /\ lines' = [lines EXCEPT !.rated[k] =
                              Tally(@, [emit |-> FALSE, suppressed |-> 0])]
           \/ /\ c.window > 0 /\ ~within
              /\ gate' = [gate EXCEPT ![k] = Drained(g, c.now)]
              /\ lines' = [lines EXCEPT !.rated[k] =
                              Tally(@, [emit |-> TRUE, suppressed |-> g.suppressed])]
        /\ UNCHANGED <<clock, config, gen, entry, calls>>

(* External: time passes. *)
TimePasses ==
    /\ clock < MaxClock
    /\ clock' = clock + 1
    /\ UNCHANGED <<config, gen, entry, gate, call, calls, lines>>

GateNext ==
    \/ \E c \in Configs : InitializeSampler(c)
    \/ \E t \in Loggers :
        \/ \E k \in Keys : EnterSample(t, k)
        \/ \E k \in Keys, w \in Windows : EnterWindow(t, k, w)
        \/ CheckSample(t)
        \/ CheckWindow(t)
    \/ TimePasses

GateSpec == GateInit /\ [][GateNext]_gateVars

-----------------------------------------------------------------------------
(* In every period and whatever the interleaving, a key gets its burst of         *)
(* `initial` lines and then every `thereafter`-th, and the suffixes account for   *)
(* every line dropped before the last one emitted.                               *)
SampledExactly ==
    \A g \in Samplers, k \in Keys :
        LET cfg == config[g]
            n == entry[g][k].count
            f == lines.sampled[g][k]
            over == IF n > cfg.initial THEN n - cfg.initial ELSE 0
        IN  cfg.initial > 0 =>
            /\ f.emitted + f.dropped = n
            /\ f.emitted = (n - over) + (IF cfg.thereafter = 0 THEN 0
                                         ELSE over \div cfg.thereafter)
            /\ f.dropped - f.reported = (IF cfg.thereafter = 0 THEN over
                                         ELSE over % cfg.thereafter)

(* No dropped line of a rated key is forgotten or reported twice: it is in one     *)
(* suffix, or still in the count.                                                *)
SuppressedConserved ==
    \A k \in Keys :
        lines.rated[k].dropped = lines.rated[k].reported + gate[k].suppressed

(* The time stamp of an entry never goes back, and the count of a period never     *)
(* decreases within it, although threads lock the entry in another order than     *)
(* they read the clock.                                                          *)
StampsAdvance ==
    [][/\ \A g \in Samplers, k \in Keys :
            \/ entry'[g][k].reset > entry[g][k].reset
            \/ /\ entry'[g][k].reset = entry[g][k].reset
               /\ entry'[g][k].count >= entry[g][k].count
       /\ \A k \in Keys : gate'[k].last >= gate[k].last]_gateVars
=============================================================================
