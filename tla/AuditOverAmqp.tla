--------------------------- MODULE AuditOverAmqp ---------------------------
(***************************************************************************)
(* AuditPublisher (pc-audit) with AmqpClient (pc-amqp) as its Publisher, the   *)
(* set-up the README shows.  The worker tasks are the tasks of the client:     *)
(* publish is push_with_ttl, ready is is_ready.  Nobody else uses the client.  *)
(***************************************************************************)
EXTENDS AuditPublisher

CONSTANTS Conns, MaxRetries, NoConn, Nobody

ASSUME OverAmqpAssumption ==
    /\ Conns # {} /\ NoConn \notin Conns /\ Nobody \notin Workers
    /\ MaxRetries \in Nat \ {0}

VARIABLES state, alive, mutex, pc, op, cur, tries, copies, result, reply, settled,
          stored   \* copies of each message in the broker's queue

C == INSTANCE AmqpClient WITH Procs <- Workers, Calls <- [w \in Workers |-> {"ttl"}]

amqpVars == <<state, alive, mutex, pc, op, cur, tries, copies, result, reply, settled>>
vars == <<amqpVars, auditVars, stored>>

Init == C!AmqpInit /\ AuditInit /\ stored = [m \in Msgs |-> 0]

-----------------------------------------------------------------------------
(* What the publisher does without the client. *)
Quiet == UNCHANGED <<amqpVars, stored>>

Callers(m) == Submit(m) /\ Quiet

NextRecord(m) ==
    /\ Renew(m)
    /\ stored' = [stored EXCEPT ![m] = 0]
    /\ UNCHANGED amqpVars

Local(w) ==
    /\ Recv(w) \/ Exit(w) \/ CheckBreaker(w) \/ CountFailure(w) \/ Trip(w)
    /\ Quiet

(* ready() is false. *)
Discard(w) == C!SaysNotReady /\ NotReady(w) /\ Quiet

(* ready() is true: publish is called, if the payload can be marshalled. *)
CallPublish(w) == C!IsReady /\ Ready(w) /\ C!Call(w, "ttl") /\ UNCHANGED stored

Unmarshalled(w) == C!IsReady /\ MarshalFails(w) /\ Quiet

(* The client works on a publish. *)
Transport(w) == C!Step(w) /\ UNCHANGED <<auditVars, stored>>

(* publish returns to the worker. *)
PublishReturns(w) ==
    /\ C!Return(w)
    /\ \/ result[w] = "ok" /\ PublishOk(w)
       \/ result[w] = "err" /\ PublishErr(w)
    /\ stored' = [stored EXCEPT ![job[w]] = @ + copies[w]]

Environment == (C!ConnDies \/ C!Settle) /\ UNCHANGED <<auditVars, stored>>

WorkerStep(w) ==
    \/ Local(w) \/ Discard(w) \/ Unmarshalled(w)
    \/ CallPublish(w) \/ Transport(w) \/ PublishReturns(w)

(* stop() has returned: the system may come to rest. *)
Stopped == (\A w \in Workers : worker[w] = "exited") /\ UNCHANGED vars

Next ==
    \/ \E m \in Msgs : Callers(m) \/ NextRecord(m)
    \/ (Stop \/ Tick) /\ Quiet
    \/ \E w \in Workers : WorkerStep(w)
    \/ Environment
    \/ Stopped

Spec == Init /\ [][Next]_vars

(* Workers run and what they await answers (as in AmqpClient), time passes,     *)
(* the mutex is FIFO, and there is always something to record.                  *)
FairSpec ==
    /\ Spec
    /\ \A w \in Workers : /\ WF_vars(WorkerStep(w))
                          /\ SF_vars(C!Reconnect(w) /\ UNCHANGED <<auditVars, stored>>)
    /\ \A m \in Msgs : WF_vars(Callers(m)) /\ WF_vars(NextRecord(m))
    /\ WF_vars(Tick /\ Quiet)

-----------------------------------------------------------------------------
(* A message reported as published is in the broker's queue, and no message    *)
(* is ever there twice: an audit record is published at most once.             *)
PublishedOnce ==
    \A m \in Msgs : /\ stored[m] <= 1
                    /\ fate[m] = "published" => stored[m] = 1

Published == \E m \in Msgs : fate[m] = "published"

(* If broker and connection stay well, the breaker lets records through again and    *)
(* again until the publisher is stopped, whatever its two atomics held before:  *)
(* they are published, unless again and again one cannot be marshalled.         *)
Resumes ==
    <>[](settled /\ C!IsReady) =>
        \/ <>stopped
        \/ []<>Published
        \/ []<><<\E w \in Workers : Unmarshalled(w)>>_vars

(* README: AmqpClient "reconnects on demand after a broken connection".  Once   *)
(* the broker is well, records get through again.  Not so: a worker that finds  *)
(* the connection not ready drops the record without calling publish, and       *)
(* publish is the only call that reconnects.                                   *)
ResumesAfterBreak ==
    <>settled => \/ <>stopped
                 \/ []<>Published
                 \/ []<><<\E w \in Workers : Unmarshalled(w)>>_vars
=============================================================================
