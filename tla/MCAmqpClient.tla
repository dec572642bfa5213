---------------------------- MODULE MCAmqpClient ----------------------------
(* Two tasks: one can fail on an old connection while the other makes a new   *)
(* one.  One name per task, one for the shared slot and one for the reply       *)
(* queue of the task that makes requests are enough.                          *)
EXTENDS AmqpClient, TLC

CONSTANTS p1, p2

MCCalls == p1 :> {"push", "ttl", "close"} @@ p2 :> {"wait", "consume", "await"}

MCMaxRetries == 2   \* a first attempt, a retry and the end of the retries
=============================================================================
