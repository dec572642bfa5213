---------------------------- MODULE MCRedisLock ----------------------------
(* RedisLock for TLC.  One TTL is below the deadline, which the environment      *)
(* variables allow: keys expire while their client still waits for the answer.    *)
(* The other is above it, as by default: keys outlive a release that times out.   *)
EXTENDS RedisLock

(* Too low, and the lowest that counts; the default is above the deadline, as in the *)
(* code.                                                                            *)
MCSettings == {0, 2}
=============================================================================
