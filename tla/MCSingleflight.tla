--------------------------- MODULE MCSingleflight ---------------------------
(* Three callers: two that share a flight and one that comes late.  As many   *)
(* ids as callers are enough, since an entry always has a caller.             *)
EXTENDS Singleflight
=============================================================================
