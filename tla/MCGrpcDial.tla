----------------------------- MODULE MCGrpcDial -----------------------------
(* The queue holds two batches and a half, so that it can be full with room for *)
(* one change left, and an answer of three addresses is too large for it.  One   *)
(* IPv4 address with an IPv6 one beside it, and IPv6 addresses to swap.          *)
EXTENDS GrpcDial

CONSTANTS a1, a2, a3, a4

MCAnswers == {{}, {a1, a2}, {a2, a3}, {a2, a3, a4}}
MCPool == 2
MCBuffer == 5
MCRetriesRaw == {Unset, 0}
MCRefreshRaw == {Invalid, 0, 1}
MCPoolRaw == {Unset, 6}
MCInitialBackoff == 1
MCMaxBackoff == 9
MCU32Max == 3      \* the square of the second attempt saturates
=============================================================================
