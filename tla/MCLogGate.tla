----------------------------- MODULE MCLogGate -----------------------------
(* LogGate for TLC. *)
EXTENDS LogGate, TLC

(* A burst of 1 with every 2nd line after it, a burst of 2 with none after it and  *)
(* no period, and no sampling.                                                  *)
MCConfigs ==
    {[initial |-> 1, thereafter |-> 2, period |-> 2],
     [initial |-> 2, thereafter |-> 0, period |-> 0],
     [initial |-> 0, thereafter |-> 0, period |-> 0]}

MCWindows == {0, 1, 2}

MCSymmetry == Permutations(Loggers)
=============================================================================
