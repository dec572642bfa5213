---------------------------- MODULE MCTraceGuard ----------------------------
(* TraceGuard for TLC. *)
EXTENDS TraceGuard, TLC

(* Exporting at half the traces, switched off, without a service name, and a     *)
(* ratio out of range.                                                         *)
MCEnvs ==
    {[flag |-> "unset", endpoint |-> TRUE, service |-> TRUE, ratio |-> 5],
     [flag |-> "off", endpoint |-> TRUE, service |-> TRUE, ratio |-> 5],
     [flag |-> "on", endpoint |-> TRUE, service |-> FALSE, ratio |-> 5],
     [flag |-> "unset", endpoint |-> TRUE, service |-> TRUE, ratio |-> 20]}

MCSymmetry == Permutations(Calls)
=============================================================================
