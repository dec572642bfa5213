-------------------------- MODULE AmqpClientProofs --------------------------
(***************************************************************************)
(* For any number of tasks, connections and attempts: one task at a time          *)
(* replaces the connection, and never a good one; the copies of a message are    *)
(* bounded by the attempts; and what send_wait returns answers its own request.   *)
(***************************************************************************)
EXTENDS AmqpClient, TLAPS

Publishing == {"push", "ttl", "wait"}

(* Copies of the message of a task, by where the task is: one per failed attempt before *)
(* it publishes, at most one more after.  Only push has failed attempts, and calls that *)
(* do not publish have no copies.                                                     *)
CopiesBounded(p) ==
    /\ copies[p] <= tries[p] + 1
    /\ pc[p] \in {"idle", "ensure", "lock", "connect", "store", "publish", "declare", "poll"}
        => copies[p] <= tries[p]
    /\ op[p] # "push" => tries[p] = 0
    /\ op[p] \in {"consume", "await"} => copies[p] = 0
    /\ pc[p] = "idle" => tries[p] = 0

(* The call a task is in, by where it is. *)
CallFits(p) ==
    /\ pc[p] \in {"publish", "confirm"} => op[p] \notin {"consume", "await"}
    /\ pc[p] = "reply" => op[p] = "wait"
    /\ pc[p] = "subscribe" => op[p] = "consume"
    /\ pc[p] = "poll" => op[p] = "await"
    /\ pc[p] = "closing" => op[p] = "close"

(* A task whose message was confirmed, or will be, has handed it to the broker. *)
Enqueued(p) ==
    /\ pc[p] \in {"confirm", "reply"} => copies[p] > 0
    /\ pc[p] = "return" /\ result[p] = "ok" /\ op[p] \in Publishing => copies[p] > 0

(* A send_wait about to return Ok has its answer. *)
Answered(p) ==
    pc[p] = "return" /\ op[p] = "wait" /\ result[p] = "ok" => "mine" \in reply[p].inbox

Local(p) == CopiesBounded(p) /\ CallFits(p) /\ Enqueued(p) /\ Answered(p)

AmqpInv == TypeOK /\ ReconnectExclusive /\ \A p \in Procs : Local(p)

-----------------------------------------------------------------------------
(* The places a task may be at. *)
Places == {"idle", "ensure", "lock", "connect", "store", "publish", "confirm", "failed",
           "closing", "return", "declare", "reply", "subscribe", "poll"}

LEMMA InitInv == AmqpInit => AmqpInv
<1> SUFFICES ASSUME AmqpInit PROVE AmqpInv
  OBVIOUS
<1>1. state \in Conns
  BY AmqpAssumption DEF AmqpInit
<1>2. TypeOK
  <2>1. 0 \in 0..(MaxRetries - 1) /\ 0 \in 0..MaxRetries
    BY AmqpAssumption
  <2> QED BY <1>1, <2>1 DEF AmqpInit, TypeOK, NoReply
<1>3. ReconnectExclusive
  BY AmqpAssumption DEF AmqpInit, ReconnectExclusive
<1>4. \A p \in Procs : Local(p)
  BY DEF AmqpInit, Local, CopiesBounded, CallFits, Enqueued, Answered
<1> QED BY <1>2, <1>3, <1>4 DEF AmqpInv

(* What a task's place, call and counters say does not change with the steps of others. *)
LEMMA OthersKeep ==
    ASSUME NEW q \in Procs, Local(q),
           pc'[q] = pc[q], op'[q] = op[q], tries'[q] = tries[q], copies'[q] = copies[q],
           result'[q] = result[q], reply[q].inbox \subseteq reply'[q].inbox
    PROVE  Local(q)'
  BY DEF Local, CopiesBounded, CallFits, Enqueued, Answered

(* The places a call goes to with the state it was given. *)
LEMMA UseFits ==
    ASSUME NEW p \in Procs
    PROVE  /\ Use(p) \in {"publish", "subscribe", "poll", "declare"}
           /\ Use(p) = "publish" => op[p] \notin {"consume", "await"}
           /\ Use(p) = "subscribe" => op[p] = "consume"
           /\ Use(p) = "poll" => op[p] = "await"
  BY DEF Use

LEMMA CallInv ==
    ASSUME AmqpInv, NEW p \in Procs, NEW o \in Calls[p] \ {"close"}, Call(p, o)
    PROVE  AmqpInv'
<1> USE DEF AmqpInv
<1>0. o \in {"push", "ttl", "wait", "consume", "await"}
  BY AmqpAssumption
<1>1. TypeOK'
  BY <1>0 DEF Call, Goto, TypeOK
<1>2. ReconnectExclusive'
  BY DEF Call, Goto, TypeOK, ReconnectExclusive, IsReady
<1>3. Local(p)'
  BY <1>0 DEF Call, Goto, TypeOK, Local, CopiesBounded, CallFits, Enqueued, Answered
<1>4. \A q \in Procs \ {p} : Local(q)'
  BY OthersKeep DEF Call, Goto, TypeOK
<1> QED BY <1>1, <1>2, <1>3, <1>4

LEMMA MisusedInv ==
    ASSUME AmqpInv, NEW p \in Procs, Misused(p) PROVE AmqpInv'
<1> USE DEF AmqpInv
<1>1. TypeOK'
  BY DEF Misused, Goto, TypeOK
<1>2. ReconnectExclusive'
  BY DEF Misused, Goto, TypeOK, ReconnectExclusive, IsReady
<1>3. Local(p)'
  BY DEF Misused, Goto, TypeOK, Local, CopiesBounded, CallFits, Enqueued, Answered
<1>4. \A q \in Procs \ {p} : Local(q)'
  BY OthersKeep DEF Misused, Goto, TypeOK
<1> QED BY <1>1, <1>2, <1>3, <1>4

LEMMA EnsureInv ==
    ASSUME AmqpInv, NEW p \in Procs, EnsureState(p) PROVE AmqpInv'
<1> USE DEF AmqpInv
<1>1. TypeOK'
  <2>1. pc' \in [Procs -> Places]
    BY UseFits DEF EnsureState, Goto, TypeOK, Places
  <2>2. cur' \in [Procs -> Conns \union {NoConn}]
    BY UseFits DEF EnsureState, TypeOK
  <2> QED BY <2>1, <2>2 DEF EnsureState, TypeOK, Places
<1>2. ReconnectExclusive'
  BY UseFits DEF EnsureState, Goto, TypeOK, ReconnectExclusive, IsReady
<1>3. Local(p)'
  BY UseFits DEF EnsureState, Goto, TypeOK, Local, CopiesBounded, CallFits, Enqueued, Answered
<1>4. \A q \in Procs \ {p} : Local(q)'
  BY OthersKeep DEF EnsureState, Goto, TypeOK
<1> QED BY <1>1, <1>2, <1>3, <1>4

LEMMA ReconnectInv ==
    ASSUME AmqpInv, NEW p \in Procs, Reconnect(p) PROVE AmqpInv'
<1> USE DEF AmqpInv
<1>1. TypeOK'
  <2>1. pc' \in [Procs -> Places]
    BY UseFits DEF Reconnect, Goto, TypeOK, Places
  <2>2. cur' \in [Procs -> Conns \union {NoConn}]
    BY UseFits DEF Reconnect, TypeOK
  <2>3. mutex' \in Procs \union {Nobody}
    BY UseFits DEF Reconnect, TypeOK
  <2> QED BY <2>1, <2>2, <2>3 DEF Reconnect, TypeOK, Places
<1>2. ReconnectExclusive'
  BY UseFits, AmqpAssumption DEF Reconnect, Goto, TypeOK, ReconnectExclusive, IsReady
<1>3. Local(p)'
  BY UseFits DEF Reconnect, Goto, TypeOK, Local, CopiesBounded, CallFits, Enqueued, Answered
<1>4. \A q \in Procs \ {p} : Local(q)'
  BY OthersKeep DEF Reconnect, Goto, TypeOK
<1> QED BY <1>1, <1>2, <1>3, <1>4

(* A new connection is not the one in the shared slot. *)
LEMMA ConnectInv ==
    ASSUME AmqpInv, NEW p \in Procs, Connect(p) PROVE AmqpInv'
<1> USE DEF AmqpInv
<1>0. Nameable => Fresh \in Conns /\ Fresh # state
  BY DEF Nameable, Fresh, Referenced, Held
<1>1. TypeOK'
  <2>1. pc' \in [Procs -> Places]
    BY <1>0 DEF Connect, Goto, TypeOK, Places
  <2>2. cur' \in [Procs -> Conns \union {NoConn}]
    BY <1>0 DEF Connect, TypeOK
  <2>3. alive' \in SUBSET Conns /\ mutex' \in Procs \union {Nobody}
    BY <1>0 DEF Connect, TypeOK
  <2> QED BY <2>1, <2>2, <2>3 DEF Connect, TypeOK, Places
<1>2. ReconnectExclusive'
  BY <1>0, AmqpAssumption DEF Connect, Goto, TypeOK, ReconnectExclusive, IsReady
<1>3. Local(p)'
  BY DEF Connect, Goto, TypeOK, Local, CopiesBounded, CallFits, Enqueued, Answered
<1>4. \A q \in Procs \ {p} : Local(q)'
  BY OthersKeep DEF Connect, Goto, TypeOK
<1> QED BY <1>1, <1>2, <1>3, <1>4

LEMMA StoreInv ==
    ASSUME AmqpInv, NEW p \in Procs, Store(p) PROVE AmqpInv'
<1> USE DEF AmqpInv
<1>1. TypeOK'
  BY UseFits DEF Store, Goto, TypeOK
<1>2. ReconnectExclusive'
  BY UseFits, AmqpAssumption DEF Store, Goto, TypeOK, ReconnectExclusive, IsReady
<1>3. Local(p)'
  BY UseFits DEF Store, Goto, TypeOK, Local, CopiesBounded, CallFits, Enqueued, Answered
<1>4. \A q \in Procs \ {p} : Local(q)'
  BY OthersKeep DEF Store, Goto, TypeOK
<1> QED BY <1>1, <1>2, <1>3, <1>4

LEMMA PublishInv ==
    ASSUME AmqpInv, NEW p \in Procs, Publish(p) PROVE AmqpInv'
<1> USE DEF AmqpInv
<1>0. copies[p] \in Nat /\ tries[p] \in Nat /\ copies[p] <= tries[p] /\ copies[p] + 1 \in 0..MaxRetries
  BY AmqpAssumption DEF Publish, TypeOK, Local, CopiesBounded
<1>1. TypeOK'
  <2>1. copies' \in [Procs -> 0..MaxRetries]
    BY <1>0 DEF Publish, TypeOK
  <2>2. pc' \in [Procs -> Places]
    BY DEF Publish, Goto, TypeOK, Places
  <2> QED BY <2>1, <2>2 DEF Publish, TypeOK, Places
<1>2. ReconnectExclusive'
  BY DEF Publish, Goto, TypeOK, ReconnectExclusive, IsReady
<1>3. Local(p)'
  BY <1>0 DEF Publish, Goto, TypeOK, Local, CopiesBounded, CallFits, Enqueued, Answered
<1>4. \A q \in Procs \ {p} : Local(q)'
  BY OthersKeep DEF Publish, Goto, TypeOK
<1> QED BY <1>1, <1>2, <1>3, <1>4

LEMMA ConfirmInv ==
    ASSUME AmqpInv, NEW p \in Procs, Confirm(p) PROVE AmqpInv'
<1> USE DEF AmqpInv
<1>1. TypeOK'
  BY DEF Confirm, Goto, TypeOK
<1>2. ReconnectExclusive'
  BY DEF Confirm, Goto, TypeOK, ReconnectExclusive, IsReady
<1>3. Local(p)'
  BY DEF Confirm, Goto, TypeOK, Local, CopiesBounded, CallFits, Enqueued, Answered
<1>4. \A q \in Procs \ {p} : Local(q)'
  BY OthersKeep DEF Confirm, Goto, TypeOK
<1> QED BY <1>1, <1>2, <1>3, <1>4

LEMMA FailedInv ==
    ASSUME AmqpInv, NEW p \in Procs, Failed(p) PROVE AmqpInv'
<1> USE DEF AmqpInv
<1>0. /\ tries[p] \in Nat /\ copies[p] \in Nat
      /\ Again(p) => op[p] = "push" /\ tries[p] + 1 \in 0..(MaxRetries - 1)
      /\ alive' \subseteq alive
  BY AmqpAssumption DEF Failed, Again, TypeOK
<1>1. TypeOK'
  <2>0. pc \in [Procs -> Places] /\ {"ensure", "poll", "return"} \subseteq Places
    BY DEF TypeOK, Places
  <2>1. pc' \in [Procs -> Places]
    <3>1. \E w \in {"ensure", "poll", "return"} : pc' = [pc EXCEPT ![p] = w]
      BY DEF Failed, Goto
    <3> QED BY <2>0, <3>1
  <2>2. cur' \in [Procs -> Conns \union {NoConn}]
    BY <1>0 DEF Failed, TypeOK
  <2>3. tries' \in [Procs -> 0..(MaxRetries - 1)]
    BY <1>0 DEF Failed, TypeOK
  <2>4. result' \in [Procs -> {"ok", "err"}]
    BY <1>0 DEF Failed, TypeOK
  <2>5. state' \in Conns \union {NoConn} /\ alive' \in SUBSET Conns
    BY <1>0 DEF Failed, TypeOK
  <2> QED BY <2>1, <2>2, <2>3, <2>4, <2>5 DEF Failed, TypeOK, Places
<1>2. ReconnectExclusive'
  BY <1>0, AmqpAssumption DEF Failed, Goto, TypeOK, ReconnectExclusive, IsReady
<1>3. Local(p)'
  BY <1>0 DEF Failed, Goto, TypeOK, Local, CopiesBounded, CallFits, Enqueued, Answered
<1>4. \A q \in Procs \ {p} : Local(q)'
  BY OthersKeep DEF Failed, Goto, TypeOK
<1> QED BY <1>1, <1>2, <1>3, <1>4

LEMMA DeclareInv ==
    ASSUME AmqpInv, NEW p \in Procs, Declare(p) PROVE AmqpInv'
<1> USE DEF AmqpInv
<1>1. TypeOK'
  <2>1. pc' \in [Procs -> Places]
    BY DEF Declare, Goto, TypeOK, Places
  <2>2. cur' \in [Procs -> Conns \union {NoConn}]
    BY DEF Declare, TypeOK
  <2>3. reply' \in [Procs -> [conn : Conns \union {NoConn}, inbox : SUBSET {"mine", "other"}]]
    BY DEF Declare, TypeOK
  <2> QED BY <2>1, <2>2, <2>3 DEF Declare, TypeOK, Places
<1>2. ReconnectExclusive'
  BY DEF Declare, Goto, TypeOK, ReconnectExclusive, IsReady
<1>3. Local(p)'
  BY DEF Declare, Goto, TypeOK, Local, CopiesBounded, CallFits, Enqueued, Answered
<1>4. \A q \in Procs \ {p} : Local(q)'
  BY OthersKeep DEF Declare, Goto, TypeOK
<1> QED BY <1>1, <1>2, <1>3, <1>4

(* send_wait returns when its own answer is there. *)
LEMMA TakeReplyInv ==
    ASSUME AmqpInv, NEW p \in Procs, TakeReply(p) PROVE AmqpInv'
<1> USE DEF AmqpInv
<1>1. TypeOK'
  <2>1. pc' \in [Procs -> Places]
    BY DEF TakeReply, Goto, TypeOK, Places
  <2>2. reply' \in [Procs -> [conn : Conns \union {NoConn}, inbox : SUBSET {"mine", "other"}]]
    BY DEF TakeReply, TypeOK
  <2> QED BY <2>1, <2>2 DEF TakeReply, TypeOK, Places
<1>2. ReconnectExclusive'
  BY DEF TakeReply, Goto, TypeOK, ReconnectExclusive, IsReady
<1>3. Local(p)'
  BY DEF TakeReply, Goto, TypeOK, Local, CopiesBounded, CallFits, Enqueued, Answered
<1>4. \A q \in Procs \ {p} : Local(q)'
  BY OthersKeep DEF TakeReply, Goto, TypeOK
<1> QED BY <1>1, <1>2, <1>3, <1>4

LEMMA SubscribeInv ==
    ASSUME AmqpInv, NEW p \in Procs, Subscribe(p) PROVE AmqpInv'
<1> USE DEF AmqpInv
<1>1. TypeOK'
  BY DEF Subscribe, Goto, TypeOK
<1>2. ReconnectExclusive'
  BY DEF Subscribe, Goto, TypeOK, ReconnectExclusive, IsReady
<1>3. Local(p)'
  BY DEF Subscribe, Goto, TypeOK, Local, CopiesBounded, CallFits, Enqueued, Answered, Publishing
<1>4. \A q \in Procs \ {p} : Local(q)'
  BY OthersKeep DEF Subscribe, Goto, TypeOK
<1> QED BY <1>1, <1>2, <1>3, <1>4

LEMMA PollInv ==
    ASSUME AmqpInv, NEW p \in Procs, Poll(p) PROVE AmqpInv'
<1> USE DEF AmqpInv
<1>1. TypeOK'
  BY DEF Poll, Goto, TypeOK
<1>2. ReconnectExclusive'
  BY DEF Poll, Goto, TypeOK, ReconnectExclusive, IsReady
<1>3. Local(p)'
  BY DEF Poll, Goto, TypeOK, Local, CopiesBounded, CallFits, Enqueued, Answered, Publishing
<1>4. \A q \in Procs \ {p} : Local(q)'
  BY OthersKeep DEF Poll, Goto, TypeOK
<1> QED BY <1>1, <1>2, <1>3, <1>4

(* A call that is dropped lets go of the mutex. *)
LEMMA TimeoutInv ==
    ASSUME AmqpInv, NEW p \in Procs, Timeout(p) PROVE AmqpInv'
<1> USE DEF AmqpInv
<1>0. alive' \subseteq alive
  BY DEF Timeout
<1>1. TypeOK'
  BY <1>0 DEF Timeout, Goto, TypeOK
<1>2. ReconnectExclusive'
  BY <1>0, AmqpAssumption DEF Timeout, Goto, TypeOK, ReconnectExclusive, IsReady
<1>3. Local(p)'
  BY DEF Timeout, Goto, TypeOK, Local, CopiesBounded, CallFits, Enqueued, Answered
<1>4. \A q \in Procs \ {p} : Local(q)'
  BY OthersKeep DEF Timeout, Goto, TypeOK
<1> QED BY <1>1, <1>2, <1>3, <1>4

LEMMA CloseInv ==
    ASSUME AmqpInv, NEW p \in Procs, Close(p) \/ CloseConn(p) PROVE AmqpInv'
<1> USE DEF AmqpInv
<1>1. TypeOK'
  <2>1. CASE Close(p)
    BY <2>1 DEF Close, Goto, TypeOK
  <2>2. CASE CloseConn(p)
    <3>1. alive' \subseteq alive
      BY <2>2 DEF CloseConn
    <3> QED BY <2>2, <3>1 DEF CloseConn, Goto, TypeOK
  <2> QED BY <2>1, <2>2
<1>2. ReconnectExclusive'
  <2>1. alive' \subseteq alive /\ (state' = state \/ state' = NoConn) /\ mutex' = mutex
    BY DEF Close, CloseConn
  <2>2. NoConn \notin alive
    BY AmqpAssumption DEF TypeOK
  <2>3. \A q \in Procs : pc'[q] \in {"connect", "store"} <=> pc[q] \in {"connect", "store"}
    BY DEF Close, CloseConn, Goto, TypeOK
  <2> QED BY <2>1, <2>2, <2>3 DEF ReconnectExclusive, IsReady
<1>3. Local(p)'
  BY DEF Close, CloseConn, Goto, TypeOK, Local, CopiesBounded, CallFits, Enqueued, Answered,
     Publishing
<1>4. \A q \in Procs \ {p} : Local(q)'
  BY OthersKeep DEF Close, CloseConn, Goto, TypeOK
<1> QED BY <1>1, <1>2, <1>3, <1>4

LEMMA ReturnInv ==
    ASSUME AmqpInv, NEW p \in Procs, Return(p) PROVE AmqpInv'
<1> USE DEF AmqpInv
<1>0. alive' \subseteq alive /\ 0 \in 0..(MaxRetries - 1) /\ 0 \in 0..MaxRetries
  BY AmqpAssumption DEF Return
<1>1. TypeOK'
  BY <1>0 DEF Return, Goto, TypeOK, NoReply
<1>2. ReconnectExclusive'
  BY <1>0 DEF Return, Goto, TypeOK, ReconnectExclusive, IsReady
<1>3. Local(p)'
  BY DEF Return, Goto, TypeOK, Local, CopiesBounded, CallFits, Enqueued, Answered
<1>4. \A q \in Procs \ {p} : Local(q)'
  BY OthersKeep DEF Return, Goto, TypeOK
<1> QED BY <1>1, <1>2, <1>3, <1>4

(* Replies arrive. *)
LEMMA ReplyInv ==
    ASSUME AmqpInv, NEW p \in Procs, Reply(p) \/ Stray(p) PROVE AmqpInv'
<1> USE DEF AmqpInv
<1>1. TypeOK'
  BY DEF Reply, Stray, TypeOK
<1>2. ReconnectExclusive'
  BY DEF Reply, Stray, ReconnectExclusive, IsReady
<1>3. \A q \in Procs : Local(q)'
  BY OthersKeep DEF Reply, Stray, TypeOK
<1> QED BY <1>1, <1>2, <1>3

LEMMA WorldInv ==
    ASSUME AmqpInv, ConnDies \/ Settle \/ UNCHANGED amqpVars PROVE AmqpInv'
<1> USE DEF AmqpInv
<1>0. alive' \subseteq alive
  BY DEF ConnDies, Settle, amqpVars
<1>1. TypeOK'
  BY <1>0 DEF ConnDies, Settle, amqpVars, TypeOK
<1>2. ReconnectExclusive'
  BY <1>0 DEF ConnDies, Settle, amqpVars, ReconnectExclusive, IsReady
<1>3. \A q \in Procs : Local(q)'
  BY OthersKeep DEF ConnDies, Settle, amqpVars
<1> QED BY <1>1, <1>2, <1>3

LEMMA NextInv == AmqpInv /\ [Next]_amqpVars => AmqpInv'
<1> SUFFICES ASSUME AmqpInv, [Next]_amqpVars PROVE AmqpInv'
  OBVIOUS
<1>1. ASSUME NEW p \in Procs, Step(p) PROVE AmqpInv'
  BY <1>1, EnsureInv, ReconnectInv, ConnectInv, StoreInv, PublishInv, ConfirmInv, FailedInv,
     CloseInv, DeclareInv, TakeReplyInv, SubscribeInv, PollInv DEF Step
<1>2. CASE ConnDies \/ Settle \/ UNCHANGED amqpVars
  BY <1>2, WorldInv
<1> QED BY <1>1, <1>2, CallInv, MisusedInv, CloseInv, TimeoutInv, ReturnInv, ReplyInv DEF Next

LEMMA AmqpInvariant == Spec => []AmqpInv
  BY InitInv, NextInv, PTL DEF Spec

(* The reconnect mutex is held exactly by the task that replaces the connection, also       *)
(* after PUSH_TIMEOUT dropped a push in the middle, and no good connection is overwritten.  *)
THEOREM AmqpReconnectExclusive == Spec => []ReconnectExclusive
<1>1. AmqpInv => ReconnectExclusive
  BY DEF AmqpInv
<1> QED BY <1>1, AmqpInvariant, PTL

(* A message reported as sent was taken by the broker, at most once by the calls that       *)
(* publish once and at most once per attempt by push.                                  *)
THEOREM AmqpDeliveryBounds == Spec => []DeliveryBounds
<1>1. AmqpInv => DeliveryBounds
  BY DEF AmqpInv, TypeOK, Local, CopiesBounded, Enqueued, Publishing, DeliveryBounds
<1> QED BY <1>1, AmqpInvariant, PTL

(* send_wait returns the answer to its own request. *)
THEOREM AmqpAnswerIsMine == Spec => []AnswerIsMine
<1>1. AmqpInv => AnswerIsMine
  BY DEF AmqpInv, Local, Answered, AnswerIsMine
<1> QED BY <1>1, AmqpInvariant, PTL
=============================================================================
