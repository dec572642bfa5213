---------------------------- MODULE AuditProofs ----------------------------
(***************************************************************************)
(* For any number of messages and workers, any capacity of the queue, any        *)
(* settings of the breaker and any transport: a message submit accepted is in    *)
(* exactly one place until it is settled.  The composition with AmqpClient       *)
(* implements this publisher, so it holds there too.  It implements AmqpClient    *)
(* as well, and so has the theorems of AmqpClientProofs: from both it follows     *)
(* that a message reported as published is in the broker's queue exactly once.    *)
(***************************************************************************)
EXTENDS AuditOverAmqp, TLAPS

(* The conjuncts of Accounting. *)
QueuedAre == \A m \in Msgs : fate[m] = "queued" <=> \E i \in DOMAIN queue : queue[i] = m
HeldAre == \A m \in Msgs : fate[m] = "held" <=> \E w \in Workers : job[w] = m
OncePlaced == \A i, j \in DOMAIN queue : queue[i] = queue[j] => i = j
OneHolder == \A v, w \in Workers : job[v] = job[w] /\ job[v] # NoMsg => v = w
BusyHolds == \A w \in Workers : job[w] # NoMsg <=> worker[w] \in {"breaker", "ready", "publish"}

(* A worker that has exited was the last to look at the queue. *)
ExitedLast ==
    \A w \in Workers : worker[w] = "exited" => stopped /\ queue = <<>>

Places == QueuedAre /\ HeldAre /\ OncePlaced /\ OneHolder /\ BusyHolds
AuditInv == TypeOK /\ Places /\ ExitedLast

LEMMA AccountingIsPlaces == Places <=> Accounting
  BY DEF Places, QueuedAre, HeldAre, OncePlaced, OneHolder, BusyHolds, Accounting

LEMMA AuditInitInv == AuditInit => AuditInv
<1> SUFFICES ASSUME AuditInit PROVE AuditInv
  OBVIOUS
<1>0. queue = <<>> /\ queue \in Seq(Msgs) /\ Len(queue) = 0 /\ DOMAIN queue = {}
  BY DEF AuditInit
<1>1. TypeOK
  <2>1. 0 <= BufferSize /\ 0 \in 0..Threshold /\ 0 \in 0..Cooldown
    BY AuditAssumption
  <2>2. /\ worker \in [Workers -> {"recv", "breaker", "ready", "publish", "count", "trip",
                                   "exited"}]
        /\ job \in [Workers -> Msgs \union {NoMsg}]
        /\ fate \in [Msgs -> Fates] /\ stopped \in BOOLEAN
    BY DEF AuditInit, Fates
  <2>3. failures \in 0..Threshold /\ open_left \in 0..Cooldown
    BY <2>1 DEF AuditInit
  <2> QED BY <1>0, <2>1, <2>2, <2>3 DEF TypeOK
<1>2. Places /\ ExitedLast
  BY <1>0, AuditAssumption DEF AuditInit, Places, QueuedAre, HeldAre, OncePlaced, OneHolder,
     BusyHolds, ExitedLast
<1> QED BY <1>1, <1>2 DEF AuditInv

-----------------------------------------------------------------------------
(* submit, and a caller's next message. *)
LEMMA SubmitInv ==
    ASSUME AuditInv, NEW m \in Msgs, Submit(m) PROVE AuditInv'
<1> USE DEF AuditInv, Places
<1>0. m \in Msgs /\ fate[m] = "new" /\ ~stopped
  BY DEF Submit
<1>1. CASE fate' = [fate EXCEPT ![m] = "refused"] /\ UNCHANGED queue
  <2>1. TypeOK' /\ ExitedLast'
    BY <1>1 DEF Submit, TypeOK, ExitedLast, Fates
  <2>2. QueuedAre' /\ OncePlaced'
    BY <1>0, <1>1 DEF TypeOK, QueuedAre, OncePlaced
  <2>3. HeldAre' /\ OneHolder' /\ BusyHolds'
    BY <1>0, <1>1 DEF Submit, TypeOK, HeldAre, OneHolder, BusyHolds
  <2> QED BY <2>1, <2>2, <2>3
<1>2. CASE ~Full /\ fate' = [fate EXCEPT ![m] = "queued"] /\ queue' = Append(queue, m)
  <2>1. /\ queue \in Seq(Msgs) /\ queue' \in Seq(Msgs) /\ Len(queue) \in Nat
        /\ DOMAIN queue = 1..Len(queue)
        /\ DOMAIN queue' = 1..(Len(queue) + 1) /\ Len(queue') = Len(queue) + 1
        /\ queue'[Len(queue) + 1] = m
        /\ \A i \in DOMAIN queue : queue'[i] = queue[i]
    <3>1. queue \in Seq(Msgs)
      BY Zenon DEF TypeOK
    <3> QED BY <1>0, <1>2, <3>1
  <2>2. TypeOK'
    <3>1. Len(queue') <= BufferSize
      BY <1>2, <2>1, AuditAssumption DEF Full
    <3> QED BY <1>2, <2>1, <3>1 DEF Submit, TypeOK, Fates
  <2>3. ~\E i \in DOMAIN queue : queue[i] = m
    BY <1>0 DEF QueuedAre
  <2>4. QueuedAre'
    BY <1>2, <2>1, <2>3 DEF TypeOK, QueuedAre
  <2>5. OncePlaced'
    BY <2>1, <2>3 DEF OncePlaced
  <2>6. HeldAre' /\ OneHolder' /\ BusyHolds'
    BY <1>0, <1>2 DEF Submit, TypeOK, HeldAre, OneHolder, BusyHolds
  <2>7. ExitedLast'
    BY <1>0 DEF Submit, ExitedLast
  <2> QED BY <2>2, <2>4, <2>5, <2>6, <2>7
<1> QED BY <1>1, <1>2 DEF Submit

LEMMA RenewInv ==
    ASSUME AuditInv, NEW m \in Msgs, Renew(m) PROVE AuditInv'
<1> USE DEF AuditInv, Places
<1>1. TypeOK' /\ ExitedLast'
  BY DEF Renew, TypeOK, ExitedLast, Fates
<1>2. QueuedAre' /\ OncePlaced'
  BY DEF Renew, TypeOK, QueuedAre, OncePlaced, Settled
<1>3. HeldAre' /\ OneHolder' /\ BusyHolds'
  BY DEF Renew, TypeOK, HeldAre, OneHolder, BusyHolds, Settled
<1> QED BY <1>1, <1>2, <1>3

(* stop(), time, and the steps of a worker that move no message. *)
LEMMA UnmovedInv ==
    ASSUME AuditInv, UNCHANGED <<queue, job, fate>>, TypeOK', ExitedLast',
           \A w \in Workers : worker'[w] \in {"breaker", "ready", "publish"}
                              <=> worker[w] \in {"breaker", "ready", "publish"}
    PROVE  AuditInv'
  BY DEF AuditInv, Places, QueuedAre, HeldAre, OncePlaced, OneHolder, BusyHolds

(* A worker takes the head of the queue. *)
LEMMA RecvInv ==
    ASSUME AuditInv, NEW w \in Workers, Recv(w) PROVE AuditInv'
<1> USE DEF AuditInv, Places
<1> DEFINE h == Head(queue)
<1>1. /\ queue \in Seq(Msgs) /\ Len(queue) \in Nat \ {0}
      /\ DOMAIN queue = 1..Len(queue)
      /\ h = queue[1] /\ h \in Msgs
      /\ queue' \in Seq(Msgs) /\ Len(queue') = Len(queue) - 1
      /\ DOMAIN queue' = 1..(Len(queue) - 1)
      /\ \A i \in DOMAIN queue' : queue'[i] = queue[i + 1]
  BY DEF Recv, TypeOK
<1>2. fate[h] = "queued" /\ job[w] = NoMsg
  BY <1>1 DEF QueuedAre, BusyHolds, Recv
<1>3. \A v \in Workers : job[v] # h
  BY <1>1, <1>2 DEF HeldAre
<1>4. h # NoMsg
  BY <1>1, AuditAssumption
<1>5. /\ job' = [job EXCEPT ![w] = h] /\ job \in [Workers -> Msgs \union {NoMsg}]
      /\ fate' = [fate EXCEPT ![h] = "held"] /\ fate \in [Msgs -> Fates]
      /\ worker' = [worker EXCEPT ![w] = "breaker"]
  BY DEF Recv, TypeOK
<1>6. TypeOK'
  <2>1. Len(queue') <= BufferSize
    BY <1>1, AuditAssumption DEF TypeOK
  <2> QED BY <1>1, <1>5, <2>1 DEF Recv, TypeOK, Fates
<1>7. \A i \in DOMAIN queue' : queue'[i] # h
  BY <1>1 DEF OncePlaced
<1>8. QueuedAre'
  <2> SUFFICES ASSUME NEW m \in Msgs
               PROVE  fate'[m] = "queued" <=> \E i \in DOMAIN queue' : queue'[i] = m
    BY DEF QueuedAre
  <2>1. CASE m = h
    BY <1>1, <1>5, <1>7, <2>1
  <2>2. CASE m # h
    <3>1. (\E i \in DOMAIN queue : queue[i] = m) => \E i \in DOMAIN queue' : queue'[i] = m
      <4> SUFFICES ASSUME NEW i \in DOMAIN queue, queue[i] = m
                   PROVE  \E k \in DOMAIN queue' : queue'[k] = m
        OBVIOUS
      <4>1. i - 1 \in DOMAIN queue' /\ queue'[i - 1] = m
        BY <1>1, <2>2
      <4> QED BY <4>1
    <3>2. (\E i \in DOMAIN queue' : queue'[i] = m) => \E i \in DOMAIN queue : queue[i] = m
      BY <1>1
    <3> QED BY <1>5, <2>2, <3>1, <3>2 DEF QueuedAre
  <2> QED BY <2>1, <2>2
<1>9. OncePlaced'
  <2> SUFFICES ASSUME NEW i \in DOMAIN queue', NEW j \in DOMAIN queue', queue'[i] = queue'[j]
               PROVE  i = j
    BY DEF OncePlaced
  <2>1. i + 1 \in DOMAIN queue /\ j + 1 \in DOMAIN queue /\ queue[i + 1] = queue[j + 1]
    BY <1>1
  <2>2. i + 1 = j + 1
    BY <2>1 DEF OncePlaced
  <2> QED BY <1>1, <2>2
<1>10. HeldAre'
  <2> SUFFICES ASSUME NEW m \in Msgs
               PROVE  fate'[m] = "held" <=> \E v \in Workers : job'[v] = m
    BY DEF HeldAre
  <2>1. CASE m = h
    BY <1>1, <1>5, <2>1
  <2>2. CASE m # h
    <3>1. \A v \in Workers : job'[v] = m <=> job[v] = m
      BY <1>2, <1>5, <2>2, AuditAssumption
    <3> QED BY <1>5, <2>2, <3>1 DEF HeldAre
  <2> QED BY <2>1, <2>2
<1>11. OneHolder' /\ BusyHolds'
  BY <1>3, <1>4, <1>5 DEF OneHolder, BusyHolds, TypeOK
<1>12. ExitedLast'
  BY <1>1, <1>5 DEF ExitedLast, Recv, TypeOK
<1> QED BY <1>6, <1>8, <1>9, <1>10, <1>11, <1>12

(* A worker is done with the message it holds. *)
LEMMA FinishInv ==
    ASSUME AuditInv, NEW w \in Workers, NEW how \in {"published", "dropped"},
           NEW next \in {"recv", "count"}, Finish(w, how, next),
           worker[w] \in {"breaker", "ready", "publish"},
           failures' \in 0..Threshold,
           UNCHANGED <<queue, open_left, stopped>>
    PROVE  AuditInv'
<1> USE DEF AuditInv, Places
<1> DEFINE m == job[w]
<1>1. m \in Msgs /\ m # NoMsg /\ fate[m] = "held"
  BY AuditAssumption DEF BusyHolds, HeldAre, TypeOK
<1>2. /\ job' = [job EXCEPT ![w] = NoMsg] /\ job \in [Workers -> Msgs \union {NoMsg}]
      /\ fate' = [fate EXCEPT ![m] = how] /\ fate \in [Msgs -> Fates]
      /\ worker' = [worker EXCEPT ![w] = next]
  BY DEF Finish, TypeOK
<1>3. TypeOK'
  BY <1>1, <1>2 DEF TypeOK, Fates
<1>4. QueuedAre' /\ OncePlaced'
  BY <1>1, <1>2 DEF QueuedAre, OncePlaced
<1>5. \A v \in Workers : v # w => job[v] # m
  BY <1>1 DEF OneHolder
<1>6. HeldAre'
  BY <1>1, <1>2, <1>5, AuditAssumption DEF HeldAre
<1>7. OneHolder' /\ BusyHolds'
  BY <1>2 DEF OneHolder, BusyHolds, TypeOK
<1>8. ExitedLast'
  BY <1>2 DEF ExitedLast, TypeOK
<1> QED BY <1>3, <1>4, <1>6, <1>7, <1>8

-----------------------------------------------------------------------------
LEMMA AuditNextInv == AuditInv /\ [AuditNext]_auditVars => AuditInv'
<1> SUFFICES ASSUME AuditInv, [AuditNext]_auditVars PROVE AuditInv'
  OBVIOUS
<1>0. TypeOK /\ ExitedLast /\ Threshold \in Nat \ {0} /\ Cooldown \in Nat
  BY AuditAssumption DEF AuditInv
<1>1. CASE UNCHANGED auditVars
  BY <1>0, <1>1, UnmovedInv DEF auditVars, TypeOK, ExitedLast
<1>2. ASSUME NEW m \in Msgs, Submit(m) PROVE AuditInv'
  BY <1>2, SubmitInv
<1>3. ASSUME NEW m \in Msgs, Renew(m) PROVE AuditInv'
  BY <1>3, RenewInv
<1>4. CASE Stop
  BY <1>0, <1>4, UnmovedInv DEF Stop, TypeOK, ExitedLast
<1>5. CASE Tick
  BY <1>0, <1>5, UnmovedInv DEF Tick, TypeOK, ExitedLast
<1>6. ASSUME NEW w \in Workers, Recv(w) PROVE AuditInv'
  BY <1>6, RecvInv
<1>7. ASSUME NEW w \in Workers, Exit(w) PROVE AuditInv'
  BY <1>0, <1>7, UnmovedInv DEF Exit, TypeOK, ExitedLast
<1>8. ASSUME NEW w \in Workers, CheckBreaker(w) PROVE AuditInv'
  <2>1. CASE Finish(w, "dropped", "recv")
    BY <1>0, <1>8, <2>1, FinishInv DEF CheckBreaker, TypeOK
  <2>2. CASE worker' = [worker EXCEPT ![w] = "ready"] /\ UNCHANGED <<job, fate>>
    BY <1>0, <1>8, <2>2, UnmovedInv DEF CheckBreaker, TypeOK, ExitedLast
  <2> QED BY <1>8, <2>1, <2>2 DEF CheckBreaker
<1>9. ASSUME NEW w \in Workers, NotReady(w) \/ MarshalFails(w) \/ PublishErr(w)
      PROVE  AuditInv'
  BY <1>0, <1>9, FinishInv DEF NotReady, MarshalFails, PublishErr, TypeOK
<1>10. ASSUME NEW w \in Workers, PublishOk(w) PROVE AuditInv'
  BY <1>0, <1>10, FinishInv DEF PublishOk
<1>11. ASSUME NEW w \in Workers, Ready(w) PROVE AuditInv'
  BY <1>0, <1>11, UnmovedInv DEF Ready, TypeOK, ExitedLast
<1>12. ASSUME NEW w \in Workers, CountFailure(w) PROVE AuditInv'
  <2>1. failures' \in 0..Threshold
    BY <1>0, <1>12 DEF CountFailure, TypeOK
  <2> QED BY <1>0, <1>12, <2>1, UnmovedInv DEF CountFailure, TypeOK, ExitedLast
<1>13. ASSUME NEW w \in Workers, Trip(w) PROVE AuditInv'
  BY <1>0, <1>13, UnmovedInv DEF Trip, TypeOK, ExitedLast
<1> QED BY <1>1, <1>2, <1>3, <1>4, <1>5, <1>6, <1>7, <1>8, <1>9, <1>10, <1>11, <1>12, <1>13
        DEF AuditNext

LEMMA AuditInvariant == AuditSpec => []AuditInv
  BY AuditInitInv, AuditNextInv, PTL DEF AuditSpec

(* Over any transport, a message submit accepted is once in the queue or in the hands    *)
(* of one worker until it is published or dropped.                                    *)
THEOREM AuditAccounting == AuditSpec => []Accounting
<1>1. AuditInv => Accounting
  BY AccountingIsPlaces DEF AuditInv
<1> QED BY <1>1, AuditInvariant, PTL

(* When stop() returns (all workers have ended), every message submit accepted has been   *)
(* through a worker: none is queued or held.                                          *)
THEOREM AuditStopsDrained ==
    AuditSpec => []((\A w \in Workers : worker[w] = "exited")
                      => queue = <<>> /\ \A m \in Msgs : fate[m] \notin {"queued", "held"})
<1>1. AuditInv => ((\A w \in Workers : worker[w] = "exited")
                     => queue = <<>> /\ \A m \in Msgs : fate[m] \notin {"queued", "held"})
  <2> SUFFICES ASSUME AuditInv, \A w \in Workers : worker[w] = "exited"
               PROVE  queue = <<>> /\ \A m \in Msgs : fate[m] \notin {"queued", "held"}
    OBVIOUS
  <2>1. queue = <<>>
    BY AuditAssumption DEF AuditInv, ExitedLast
  <2>2. \A w \in Workers : job[w] = NoMsg
    BY DEF AuditInv, Places, BusyHolds
  <2> QED BY <2>1, <2>2, AuditAssumption DEF AuditInv, Places, QueuedAre, HeldAre
<1> QED BY <1>1, AuditInvariant, PTL

-----------------------------------------------------------------------------
(* Every step of the publisher over AmqpClient is a step of the publisher over an         *)
(* arbitrary transport, or leaves it alone: what ready() and publish answer there is one   *)
(* of the answers AuditPublisher allows.                                             *)
THEOREM OverAmqpImplements == Spec => AuditSpec
<1>1. Init => AuditInit
  BY DEF Init
<1>2. [Next]_vars => [AuditNext]_auditVars
  <2> SUFFICES ASSUME [Next]_vars PROVE [AuditNext]_auditVars
    OBVIOUS
  <2>1. ASSUME NEW m \in Msgs, Callers(m) \/ NextRecord(m) PROVE AuditNext
    BY <2>1 DEF Callers, NextRecord, AuditNext
  <2>2. CASE (Stop \/ Tick) /\ Quiet
    BY <2>2 DEF AuditNext
  <2>3. ASSUME NEW w \in Workers, WorkerStep(w) PROVE AuditNext \/ UNCHANGED auditVars
    <3>1. CASE Local(w)
      BY <3>1 DEF Local, AuditNext
    <3>2. CASE Discard(w) \/ Unmarshalled(w) \/ CallPublish(w)
      BY <3>2 DEF Discard, Unmarshalled, CallPublish, AuditNext
    <3>3. CASE Transport(w)
      BY <3>3 DEF Transport
    <3>4. CASE PublishReturns(w)
      BY <3>4 DEF PublishReturns, AuditNext
    <3> QED BY <2>3, <3>1, <3>2, <3>3, <3>4 DEF WorkerStep
  <2>4. CASE Environment \/ Stopped \/ UNCHANGED vars
    BY <2>4 DEF Environment, Stopped, vars
  <2> QED BY <2>1, <2>2, <2>3, <2>4 DEF Next
<1> QED BY <1>1, <1>2, PTL DEF Spec, AuditSpec

(* The accounting of the run over AmqpClient. *)
THEOREM OverAmqpAccounting == Spec => []Accounting
  BY OverAmqpImplements, AuditAccounting

-----------------------------------------------------------------------------
(* The theorems of AmqpClient, for a client whose tasks are the workers and which is only  *)
(* asked to publish once.                                                            *)
P == INSTANCE AmqpClientProofs WITH Procs <- Workers, Calls <- [w \in Workers |-> {"ttl"}]

LEMMA ClientAssumption == P!AmqpAssumption
  BY OverAmqpAssumption DEF P!AmqpAssumption

LEMMA SameInit == C!AmqpInit => P!AmqpInit
  BY DEF C!AmqpInit, P!AmqpInit, C!NoReply, P!NoReply

LEMMA SameNext == C!Next => P!Next
  BY DEF C!NoReply, P!NoReply, C!Goto, P!Goto, C!IsReady, P!IsReady, C!Held, P!Held,
     C!Referenced, P!Referenced, C!Nameable, P!Nameable, C!Fresh, P!Fresh, C!Call,
     P!Call, C!Misused, P!Misused, C!Use, P!Use, C!EnsureState, P!EnsureState, C!Reconnect, P!Reconnect,
     C!Connect, P!Connect, C!Store, P!Store, C!Publish, P!Publish, C!Confirm, P!Confirm,
     C!Again, P!Again, C!Failed, P!Failed, C!Declare, P!Declare, C!TakeReply,
     P!TakeReply, C!Subscribe, P!Subscribe, C!SaysNotReady, P!SaysNotReady, C!Poll,
     P!Poll, C!InPush, P!InPush, C!Timed, P!Timed, C!Timeout, P!Timeout, C!Close,
     P!Close, C!CloseConn, P!CloseConn, C!Return, P!Return, C!Reply, P!Reply, C!Stray,
     P!Stray, C!ConnDies, P!ConnDies, C!Settle, P!Settle, C!Step, P!Step, C!Next, P!Next

(* Every step of the publisher over AmqpClient is a step the client may take on its own,   *)
(* or leaves it alone: a worker calls the client as the client expects to be called.      *)
THEOREM OverAmqpUsesClient == Spec => C!Spec
<1>1. Init => C!AmqpInit
  BY DEF Init
<1>2. [Next]_vars => [C!Next]_(C!amqpVars)
  <2> SUFFICES ASSUME [Next]_vars PROVE C!Next \/ UNCHANGED C!amqpVars
    OBVIOUS
  <2> USE DEF C!amqpVars, amqpVars
  <2>1. ASSUME NEW m \in Msgs, Callers(m) \/ NextRecord(m) PROVE UNCHANGED C!amqpVars
    BY <2>1 DEF Callers, NextRecord, Quiet
  <2>2. CASE (Stop \/ Tick) /\ Quiet
    BY <2>2 DEF Quiet
  <2>3. ASSUME NEW w \in Workers, WorkerStep(w) PROVE C!Next \/ UNCHANGED C!amqpVars
    <3>1. CASE Local(w) \/ Discard(w) \/ Unmarshalled(w)
      BY <3>1 DEF Local, Discard, Unmarshalled, Quiet
    <3>2. CASE CallPublish(w)
      <4>1. "ttl" \in [v \in Workers |-> {"ttl"}][w] \ {"close"} /\ C!Call(w, "ttl")
        BY <3>2 DEF CallPublish
      <4> QED BY <4>1 DEF C!Next
    <3>3. CASE Transport(w) \/ PublishReturns(w)
      BY <3>3 DEF Transport, PublishReturns, C!Next
    <3> QED BY <2>3, <3>1, <3>2, <3>3 DEF WorkerStep
  <2>4. CASE Environment
    BY <2>4 DEF Environment, C!Next
  <2>5. CASE Stopped \/ UNCHANGED vars
    BY <2>5 DEF Stopped, vars
  <2> QED BY <2>1, <2>2, <2>3, <2>4, <2>5 DEF Next
<1> QED BY <1>1, <1>2, PTL DEF Spec, C!Spec

LEMMA OverAmqpClientInv == Spec => []P!AmqpInv
<1>1. [C!Next]_(C!amqpVars) => [P!Next]_(P!amqpVars)
  BY SameNext DEF C!amqpVars, P!amqpVars
<1>2. C!Spec => P!Spec
  BY <1>1, SameInit, PTL DEF C!Spec, P!Spec
<1>3. P!Spec => []P!AmqpInv
  BY ClientAssumption, P!AmqpInvariant
<1> QED BY <1>2, <1>3, OverAmqpUsesClient, PTL

-----------------------------------------------------------------------------
(* A worker is in publish exactly while it is inside the client, with a call that publishes *)
(* once; and nothing of a message is in the broker's queue before publish has returned.    *)
InPublish(w) == op[w] = "ttl" /\ (pc[w] # "idle" <=> worker[w] = "publish")

StoredLater ==
    /\ stored \in [Msgs -> Nat]
    /\ \A m \in Msgs : fate[m] \notin {"published", "dropped"} => stored[m] = 0

OnceInv == (\A w \in Workers : InPublish(w)) /\ StoredLater /\ PublishedOnce

(* The client, as far as its own steps let the publisher see it. *)
LEMMA ClientStays ==
    ASSUME P!AmqpInv, NEW w \in Workers, C!Step(w), op[w] = "ttl"
    PROVE  /\ pc[w] # "idle" /\ pc'[w] # "idle" /\ op' = op
           /\ \A v \in Workers \ {w} : pc'[v] = pc[v]
<1>1. pc \in [Workers -> P!Places] /\ C!Use(w) # "idle"
  BY DEF P!AmqpInv, P!TypeOK, P!Places, C!Use
<1> QED BY <1>1 DEF C!Step, C!EnsureState, C!Reconnect, C!Connect, C!Store, C!Publish,
     C!Confirm, C!Failed, C!CloseConn, C!Declare, C!TakeReply, C!Subscribe, C!Poll, C!Goto

LEMMA OnceInit == Init => OnceInv
<1> SUFFICES ASSUME Init PROVE OnceInv
  OBVIOUS
<1>1. \A w \in Workers : InPublish(w)
  BY DEF Init, AuditInit, C!AmqpInit, InPublish
<1>2. StoredLater /\ PublishedOnce
  BY DEF Init, AuditInit, StoredLater, PublishedOnce
<1> QED BY <1>1, <1>2 DEF OnceInv

(* A step outside the client that reports nothing as published. *)
LEMMA QuietOnce ==
    ASSUME AuditInv, OnceInv, Quiet,
           worker' \in [Workers -> {"recv", "breaker", "ready", "publish", "count", "trip",
                                    "exited"}],
           \A w \in Workers : worker'[w] = "publish" <=> worker[w] = "publish",
           \A m \in Msgs : \/ fate'[m] = fate[m]
                           \/ fate'[m] # "published" /\ fate[m] \notin {"published", "dropped"}
    PROVE  OnceInv'
<1>1. \A w \in Workers : InPublish(w)'
  BY DEF OnceInv, InPublish, Quiet, amqpVars
<1>2. StoredLater' /\ PublishedOnce'
  BY DEF OnceInv, StoredLater, PublishedOnce, Quiet
<1> QED BY <1>1, <1>2 DEF OnceInv

(* The worker discards its message, before or instead of publish. *)
LEMMA DropOnce ==
    ASSUME AuditInv, OnceInv, Quiet, NEW w \in Workers, NEW next \in {"recv", "count"},
           Finish(w, "dropped", next), worker[w] \in {"breaker", "ready"}
    PROVE  OnceInv'
<1>1. job[w] \in Msgs /\ fate[job[w]] = "held"
  BY DEF AuditInv, Places, BusyHolds, HeldAre, TypeOK
<1> QED BY <1>1, QuietOnce DEF Finish, AuditInv, TypeOK, Fates

LEMMA OnceNext == AuditInv /\ P!AmqpInv /\ OnceInv /\ [Next]_vars => OnceInv'
<1> SUFFICES ASSUME AuditInv, P!AmqpInv, OnceInv, [Next]_vars PROVE OnceInv'
  OBVIOUS
<1>0. /\ worker \in [Workers -> {"recv", "breaker", "ready", "publish", "count", "trip", "exited"}]
      /\ job \in [Workers -> Msgs \union {NoMsg}] /\ fate \in [Msgs -> Fates]
      /\ queue \in Seq(Msgs)
      /\ pc \in [Workers -> P!Places] /\ op \in [Workers -> {"push", "ttl", "wait", "consume", "await", "close"}]
  BY DEF AuditInv, TypeOK, P!AmqpInv, P!TypeOK, P!Places
<1>1. ASSUME NEW m \in Msgs, Callers(m) PROVE OnceInv'
  BY <1>0, <1>1, QuietOnce DEF Callers, Submit
<1>2. ASSUME NEW m \in Msgs, NextRecord(m) PROVE OnceInv'
  <2>1. \A w \in Workers : InPublish(w)'
    BY <1>2 DEF NextRecord, Renew, OnceInv, InPublish, amqpVars
  <2>2. StoredLater' /\ PublishedOnce'
    BY <1>0, <1>2 DEF NextRecord, Renew, OnceInv, StoredLater, PublishedOnce
  <2> QED BY <2>1, <2>2 DEF OnceInv
<1>3. CASE (Stop \/ Tick) /\ Quiet
  BY <1>0, <1>3, QuietOnce DEF Stop, Tick
<1>4. ASSUME NEW w \in Workers, Local(w) PROVE OnceInv'
  <2>1. CASE Recv(w)
    <3>1. queue # <<>> /\ Head(queue) \in Msgs /\ fate[Head(queue)] = "queued"
      <4>1. queue # <<>> /\ 1 \in DOMAIN queue /\ Head(queue) = queue[1] /\ Head(queue) \in Msgs
        BY <1>0, <2>1 DEF Recv
      <4> QED BY <4>1 DEF AuditInv, Places, QueuedAre
    <3> QED BY <1>0, <1>4, <2>1, <3>1, QuietOnce DEF Recv, Local
  <2>2. CASE Exit(w) \/ CountFailure(w) \/ Trip(w)
    BY <1>0, <1>4, <2>2, QuietOnce DEF Exit, CountFailure, Trip, Local
  <2>3. CASE CheckBreaker(w)
    <3>1. CASE Finish(w, "dropped", "recv")
      BY <1>4, <2>3, <3>1, DropOnce DEF CheckBreaker, Local
    <3>2. CASE worker' = [worker EXCEPT ![w] = "ready"] /\ UNCHANGED <<job, fate>>
      BY <1>0, <1>4, <2>3, <3>2, QuietOnce DEF CheckBreaker, Local
    <3> QED BY <2>3, <3>1, <3>2 DEF CheckBreaker
  <2> QED BY <1>4, <2>1, <2>2, <2>3 DEF Local
<1>5. ASSUME NEW w \in Workers, Discard(w) \/ Unmarshalled(w) PROVE OnceInv'
  BY <1>5, DropOnce DEF Discard, Unmarshalled, NotReady, MarshalFails
<1>6. ASSUME NEW w \in Workers, CallPublish(w) PROVE OnceInv'
  <2>1. \A v \in Workers : InPublish(v)'
    BY <1>0, <1>6 DEF CallPublish, Ready, C!Call, C!Goto, OnceInv, InPublish
  <2>2. StoredLater' /\ PublishedOnce'
    BY <1>6 DEF CallPublish, Ready, OnceInv, StoredLater, PublishedOnce
  <2> QED BY <2>1, <2>2 DEF OnceInv
<1>7. ASSUME NEW w \in Workers, Transport(w) PROVE OnceInv'
  <2>1. /\ pc[w] # "idle" /\ pc'[w] # "idle" /\ op' = op
        /\ \A v \in Workers \ {w} : pc'[v] = pc[v]
    BY <1>7, ClientStays DEF Transport, OnceInv, InPublish
  <2>2. \A v \in Workers : InPublish(v)'
    BY <1>7, <2>1 DEF Transport, auditVars, OnceInv, InPublish
  <2>3. StoredLater' /\ PublishedOnce'
    BY <1>7 DEF Transport, auditVars, OnceInv, StoredLater, PublishedOnce
  <2> QED BY <2>2, <2>3 DEF OnceInv
(* publish returns: Ok with one copy in the queue, Err with one or none. *)
<1>8. ASSUME NEW w \in Workers, PublishReturns(w) PROVE OnceInv'
  <2> DEFINE m == job[w]
  <2>1. /\ worker[w] = "publish" /\ m \in Msgs /\ fate[m] = "held" /\ stored[m] = 0
        /\ stored \in [Msgs -> Nat]
    <3>1. worker[w] = "publish"
      BY <1>8 DEF PublishReturns, PublishOk, PublishErr
    <3>2. m \in Msgs /\ fate[m] = "held"
      BY <1>0, <3>1 DEF AuditInv, Places, BusyHolds, HeldAre
    <3> QED BY <3>1, <3>2 DEF OnceInv, StoredLater
  <2>2. copies[w] \in 0..1 /\ (result[w] = "ok" => copies[w] = 1)
    <3>1. pc[w] = "return" /\ op[w] = "ttl"
      BY <1>8 DEF PublishReturns, C!Return, OnceInv, InPublish
    <3>2. copies[w] \in Nat /\ tries[w] = 0 /\ copies[w] <= tries[w] + 1
      BY <3>1, OverAmqpAssumption DEF P!AmqpInv, P!TypeOK, P!Local, P!CopiesBounded
    <3>3. result[w] = "ok" => copies[w] > 0
      BY <3>1 DEF P!AmqpInv, P!Local, P!Enqueued, P!Publishing
    <3> QED BY <3>2, <3>3
  <2>3. \A v \in Workers : InPublish(v)'
    BY <1>0, <1>8, <2>1 DEF PublishReturns, PublishOk, PublishErr, Finish, C!Return, C!Goto,
       OnceInv, InPublish
  <2>4. /\ stored' = [stored EXCEPT ![m] = copies[w]]
        /\ \/ fate' = [fate EXCEPT ![m] = "published"] /\ copies[w] = 1
           \/ fate' = [fate EXCEPT ![m] = "dropped"]
    <3>1. stored[m] + copies[w] = copies[w]
      BY <2>1, <2>2
    <3>2. stored' = [stored EXCEPT ![m] = stored[m] + copies[w]]
      BY <1>8 DEF PublishReturns
    <3>3. \/ result[w] = "ok" /\ fate' = [fate EXCEPT ![m] = "published"]
          \/ fate' = [fate EXCEPT ![m] = "dropped"]
      BY <1>8 DEF PublishReturns, PublishOk, PublishErr, Finish
    <3> QED BY <2>2, <3>1, <3>2, <3>3
  <2>5. StoredLater' /\ PublishedOnce'
    BY <1>0, <2>1, <2>2, <2>4 DEF OnceInv, StoredLater, PublishedOnce
  <2> QED BY <2>3, <2>5 DEF OnceInv
<1>9. CASE Environment
  <2>1. UNCHANGED <<pc, op, worker, fate, stored>>
    BY <1>9 DEF Environment, auditVars, C!ConnDies, C!Settle
  <2> QED BY <2>1 DEF OnceInv, InPublish, StoredLater, PublishedOnce
<1>10. CASE Stopped \/ UNCHANGED vars
  <2>1. UNCHANGED <<pc, op, worker, fate, stored>>
    BY <1>10 DEF Stopped, vars, amqpVars, auditVars
  <2> QED BY <2>1 DEF OnceInv, InPublish, StoredLater, PublishedOnce
<1> QED BY <1>1, <1>2, <1>3, <1>4, <1>5, <1>6, <1>7, <1>8, <1>9, <1>10 DEF Next, WorkerStep

(* With AmqpClient as its transport, whatever connections die, confirmations get lost and   *)
(* workers interleave: a record reported as published is in the broker's queue, and no       *)
(* record is there twice.                                                            *)
THEOREM OverAmqpPublishedOnce == Spec => []PublishedOnce
<1>1. Spec => []AuditInv
  BY OverAmqpImplements, AuditInvariant, PTL
<1>2. Spec => []OnceInv
  BY <1>1, OverAmqpClientInv, OnceInit, OnceNext, PTL DEF Spec
<1>3. OnceInv => PublishedOnce
  BY DEF OnceInv
<1> QED BY <1>2, <1>3, PTL
=============================================================================
