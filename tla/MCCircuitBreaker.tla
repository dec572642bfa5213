-------------------------- MODULE MCCircuitBreaker --------------------------
(* Three callers: one to trip, one to probe and one straggler that reports   *)
(* on the breaker after both.  No symmetry, since liveness is checked.       *)
EXTENDS CircuitBreaker

MCThreshold == 2   \* one failure must not trip, two must
MCCooldown == 2    \* an instant strictly inside the cooldown exists
MCCounterMax == 4  \* u32::MAX, small enough for the counter to wrap
=============================================================================
