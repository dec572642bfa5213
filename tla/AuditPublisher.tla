--------------------------- MODULE AuditPublisher ---------------------------
(***************************************************************************)
(* AuditPublisher of pc-audit: a bounded queue, a pool of worker tasks and a  *)
(* two-state breaker made of two independent atomics.                        *)
(*                                                                         *)
(* The transport is any implementation of the Publisher trait: ready() may say   *)
(* yes or no and publish may return Ok or Err at any time.  A module that         *)
(* supplies a real transport strengthens NotReady, Ready, PublishOk and           *)
(* PublishErr, so what holds here holds there.                                   *)
(*                                                                         *)
(* Data.  open_until_ms is kept as the time left until then.  The counter       *)
(* `failures` is compared with the threshold only, so it saturates there.  A   *)
(* message is a token whose fate is tracked; Renew reuses a settled token.     *)
(***************************************************************************)
EXTENDS Integers, Sequences, FiniteSets

CONSTANTS Msgs,              \* messages
          Workers,           \* the spawned tasks (worker_count.max(1))
          BufferSize,        \* capacity of the mpsc channel
          Threshold,         \* circuit_breaker_threshold.max(1)
          Cooldown,          \* circuit_breaker_cooldown, in clock ticks
          NoMsg

ASSUME AuditAssumption ==
    /\ Workers # {} /\ IsFiniteSet(Workers)
    /\ NoMsg \notin Msgs
    /\ BufferSize \in Nat \ {0}
    /\ Threshold \in Nat \ {0}
    /\ Cooldown \in Nat

VARIABLES queue,      \* the channel between submit and the workers
          worker,     \* where each worker task is in its loop
          job,        \* the payload each worker holds
          failures,   \* AuditPublisher::failures, saturating at Threshold
          open_left,  \* time left until open_until_ms
          stopped,    \* stop() was called: `stopped` is set and tx dropped
          fate        \* what became of each message

auditVars == <<queue, worker, job, failures, open_left, stopped, fate>>

Fates == {"new", "refused", "queued", "held", "published", "dropped"}
Settled == {"refused", "published", "dropped"}

TypeOK ==
    /\ queue \in Seq(Msgs) /\ Len(queue) <= BufferSize
    /\ worker \in [Workers -> {"recv", "breaker", "ready", "publish", "count",
                               "trip", "exited"}]
    /\ job \in [Workers -> Msgs \union {NoMsg}]
    /\ failures \in 0..Threshold
    /\ open_left \in 0..Cooldown
    /\ stopped \in BOOLEAN
    /\ fate \in [Msgs -> Fates]

AuditInit ==
    /\ queue = <<>>
    /\ worker = [w \in Workers |-> "recv"]
    /\ job = [w \in Workers |-> NoMsg]
    /\ failures = 0
    /\ open_left = 0
    /\ stopped = FALSE
    /\ fate = [m \in Msgs |-> "new"]

-----------------------------------------------------------------------------
(* Mutant: open as long as the failure counter is at its threshold. *)
CircuitOpen_ByCounter == failures >= Threshold

(* now_millis() < open_until_ms: the test of circuit_open and of the workers. *)
CircuitOpen == open_left > 0

Full == Len(queue) >= BufferSize

(* submit: refused while the breaker is open or when the queue is full.  The  *)
(* `stopped` test cannot fire, since stop() consumes the publisher.           *)
Submit(m) ==
    /\ ~stopped
    /\ fate[m] = "new"
    /\ \/ /\ CircuitOpen \/ Full
          /\ fate' = [fate EXCEPT ![m] = "refused"]
          /\ UNCHANGED queue
       \/ /\ ~CircuitOpen /\ ~Full
          /\ fate' = [fate EXCEPT ![m] = "queued"]
          /\ queue' = Append(queue, m)
    /\ UNCHANGED <<worker, job, failures, open_left, stopped>>

(* The callers of submit have a new message of the kind m stands for. *)
Renew(m) ==
    /\ fate[m] \in Settled
    /\ fate' = [fate EXCEPT ![m] = "new"]
    /\ UNCHANGED <<queue, worker, job, failures, open_left, stopped>>

(* stop(): closes the input; the caller then joins the workers. *)
Stop ==
    /\ ~stopped
    /\ stopped' = TRUE
    /\ UNCHANGED <<queue, worker, job, failures, open_left, fate>>

-----------------------------------------------------------------------------
(* Mutant: the message is read but stays in the queue. *)
Recv_Peek(w) ==
    /\ worker[w] = "recv" /\ queue # <<>>
    /\ job' = [job EXCEPT ![w] = Head(queue)]
    /\ fate' = [fate EXCEPT ![Head(queue)] = "held"]
    /\ worker' = [worker EXCEPT ![w] = "breaker"]
    /\ UNCHANGED <<queue, failures, open_left, stopped>>

(* rx.lock().await.recv().await returned a payload. *)
Recv(w) ==
    /\ worker[w] = "recv" /\ queue # <<>>
    /\ job' = [job EXCEPT ![w] = Head(queue)]
    /\ fate' = [fate EXCEPT ![Head(queue)] = "held"]
    /\ queue' = Tail(queue)
    /\ worker' = [worker EXCEPT ![w] = "breaker"]
    /\ UNCHANGED <<failures, open_left, stopped>>

(* Mutant: stop() forgets to drop the sender, so recv never returns None. *)
Exit_Never(w) == FALSE /\ UNCHANGED auditVars

(* recv returned None: every sender is gone and the queue is empty. *)
Exit(w) ==
    /\ worker[w] = "recv" /\ stopped /\ queue = <<>>
    /\ worker' = [worker EXCEPT ![w] = "exited"]
    /\ UNCHANGED <<queue, job, failures, open_left, stopped, fate>>

(* The payload is done with, one way or the other. *)
Finish(w, how, next) ==
    /\ fate' = [fate EXCEPT ![job[w]] = how]
    /\ job' = [job EXCEPT ![w] = NoMsg]
    /\ worker' = [worker EXCEPT ![w] = next]

(* A dequeued message is discarded while the breaker is open. *)
CheckBreaker(w) ==
    /\ worker[w] = "breaker"
    /\ \/ CircuitOpen /\ Finish(w, "dropped", "recv")
       \/ /\ ~CircuitOpen
          /\ worker' = [worker EXCEPT ![w] = "ready"]
          /\ UNCHANGED <<job, fate>>
    /\ UNCHANGED <<queue, failures, open_left, stopped>>

(* !client.ready(): the message is discarded and a failure counted, without   *)
(* publish having been called.                                               *)
NotReady(w) ==
    /\ worker[w] = "ready"
    /\ Finish(w, "dropped", "count")
    /\ UNCHANGED <<queue, failures, open_left, stopped>>

(* client.ready(), but marshal_audit fails: the message is lost, no failure    *)
(* counted.                                                                  *)
MarshalFails(w) ==
    /\ worker[w] = "ready"
    /\ Finish(w, "dropped", "recv")
    /\ UNCHANGED <<queue, failures, open_left, stopped>>

(* client.ready(), and the message is marshalled: publish is called. *)
Ready(w) ==
    /\ worker[w] = "ready"
    /\ worker' = [worker EXCEPT ![w] = "publish"]
    /\ UNCHANGED <<queue, job, failures, open_left, stopped, fate>>

(* publish returned Ok: failures.store(0). *)
PublishOk(w) ==
    /\ worker[w] = "publish"
    /\ Finish(w, "published", "recv")
    /\ failures' = 0
    /\ UNCHANGED <<queue, open_left, stopped>>

(* Mutant: the worker task ends on a publish error. *)
PublishErr_WorkerDies(w) ==
    /\ worker[w] = "publish"
    /\ Finish(w, "dropped", "exited")
    /\ UNCHANGED <<queue, failures, open_left, stopped>>

(* publish returned Err: the message is lost and a failure counted. *)
PublishErr(w) ==
    /\ worker[w] = "publish"
    /\ Finish(w, "dropped", "count")
    /\ UNCHANGED <<queue, failures, open_left, stopped>>

(* record_failure, first half: fetch_add and the comparison with its result. *)
CountFailure(w) ==
    /\ worker[w] = "count"
    /\ failures' = IF failures < Threshold THEN failures + 1 ELSE failures
    /\ worker' = [worker EXCEPT ![w] = IF failures' >= Threshold THEN "trip"
                                                                ELSE "recv"]
    /\ UNCHANGED <<queue, job, open_left, stopped, fate>>

(* record_failure, second half: open_until_ms.store(now + cooldown). *)
Trip(w) ==
    /\ worker[w] = "trip"
    /\ open_left' = Cooldown
    /\ worker' = [worker EXCEPT ![w] = "recv"]
    /\ UNCHANGED <<queue, job, failures, stopped, fate>>

(* Environment: time passes. *)
Tick ==
    /\ open_left > 0
    /\ open_left' = open_left - 1
    /\ UNCHANGED <<queue, worker, job, failures, stopped, fate>>

-----------------------------------------------------------------------------
AuditNext ==
    \/ \E m \in Msgs : Submit(m) \/ Renew(m)
    \/ Stop \/ Tick
    \/ \E w \in Workers :
        \/ Recv(w) \/ Exit(w) \/ CheckBreaker(w)
        \/ NotReady(w) \/ MarshalFails(w) \/ Ready(w) \/ PublishOk(w) \/ PublishErr(w)
        \/ CountFailure(w) \/ Trip(w)

AuditSpec == AuditInit /\ [][AuditNext]_auditVars

-----------------------------------------------------------------------------
(* A message submit accepted is in exactly one place: once in the queue or in *)
(* the hands of one worker.  None is handed to two workers, and none leaves    *)
(* the queue without a worker.                                               *)
Accounting ==
    /\ \A m \in Msgs :
        /\ fate[m] = "queued" <=> \E i \in DOMAIN queue : queue[i] = m
        /\ fate[m] = "held" <=> \E w \in Workers : job[w] = m
    /\ \A i, j \in DOMAIN queue : queue[i] = queue[j] => i = j
    /\ \A v, w \in Workers : job[v] = job[w] /\ job[v] # NoMsg => v = w
    /\ \A w \in Workers :
        job[w] # NoMsg <=> worker[w] \in {"breaker", "ready", "publish"}

(* A message submit accepted is published or dropped in the end, whether the  *)
(* transport is up and whether the publisher is stopped meanwhile.             *)
AcceptedSettles ==
    \A m \in Msgs : fate[m] = "queued" ~> fate[m] \in {"published", "dropped"}

(* stop() returns, and not before every message submit accepted went through a    *)
(* worker.                                                                       *)
StopReturns ==
    stopped ~> /\ \A w \in Workers : worker[w] = "exited"
               /\ queue = <<>> /\ \A m \in Msgs : fate[m] \notin {"queued", "held"}
=============================================================================
