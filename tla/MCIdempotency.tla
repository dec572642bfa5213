--------------------------- MODULE MCIdempotency ---------------------------
(* Three requests of one body: two that race and one that comes later.  The     *)
(* headers are absent (0), below the minimum, at the minimum, above the ceiling. *)
EXTENDS Idempotency

MCHeaders == {0, 1, 2, 5}
MCMinSession == 2
MCDefaultSession == 3
MCMaxTtl == 4
=============================================================================
