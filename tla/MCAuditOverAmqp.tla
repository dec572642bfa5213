-------------------------- MODULE MCAuditOverAmqp --------------------------
(* Two workers, so that one can break the connection under the other and count  *)
(* a failure while the other succeeds; two messages and one place in the queue,  *)
(* so that submit finds it full.                                              *)
EXTENDS AuditOverAmqp

MCBufferSize == 1
MCThreshold == 2
MCCooldown == 1
MCMaxRetries == 1   \* push_with_ttl never retries
=============================================================================
