----------------------------- MODULE AmqpClient -----------------------------
(***************************************************************************)
(* AmqpClient of pc-amqp: one shared connection, replaced on demand.         *)
(*                                                                         *)
(* `state` is an RwLock<Option<Arc<BrokerState>>> that every call reads, the  *)
(* holder of the `reconnect` mutex replaces, a failing push clears and close  *)
(* takes.  The lock is free again before each await, so a call works on a     *)
(* clone of the Arc (cur) while the shared slot (state) moves on.             *)
(*                                                                         *)
(* The broker and lapin are external: connections die at any time and never   *)
(* come back, a connection attempt may fail, a publish may be refused          *)
(* (nack) or be enqueued with the confirmation lost.                          *)
(***************************************************************************)
EXTENDS Integers, FiniteSets

CONSTANTS Procs,       \* tasks that share the client
          Conns,       \* names for connections; one not in use is fresh
          Calls,       \* the calls each task makes
          MaxRetries,  \* PUSH_MAX_RETRIES
          NoConn, Nobody

ASSUME AmqpAssumption ==
    /\ Conns # {} /\ NoConn \notin Conns /\ Nobody \notin Procs
    /\ MaxRetries \in Nat \ {0}
    /\ Calls \in [Procs -> SUBSET {"push", "ttl", "wait", "consume", "await", "close"}]

VARIABLES state,    \* AmqpClient::state: the current connection or NoConn
          alive,    \* connections whose status is connected
          mutex,    \* AmqpClient::reconnect: its holder or Nobody
          pc,       \* where each task is in its call
          op,       \* the call: push, ttl (push_with_ttl and the others that
                    \* publish once), wait (send_wait), consume, await
                    \* (wait_for_ready) or close
          cur,      \* the BrokerState each task works on
          tries,    \* failed attempts of the current push
          copies,   \* copies of the current message the broker took; it drops
                    \* one whose routing key, given to publish_to, names no queue
          result,   \* outcome of the call that returns
          reply,    \* of a send_wait: the BrokerState of its exclusive reply
                    \* queue and the replies in it, with its correlation id
                    \* ("mine") or another one
          settled   \* broker and network are well for good

amqpVars == <<state, alive, mutex, pc, op, cur, tries, copies, result, reply, settled>>

TypeOK ==
    /\ state \in Conns \union {NoConn}
    /\ alive \in SUBSET Conns
    /\ mutex \in Procs \union {Nobody}
    /\ pc \in [Procs -> {"idle", "ensure", "lock", "connect", "store", "publish",
                         "confirm", "failed", "closing", "return", "declare",
                         "reply", "subscribe", "poll"}]
    /\ op \in [Procs -> {"push", "ttl", "wait", "consume", "await", "close"}]
    /\ cur \in [Procs -> Conns \union {NoConn}]
    /\ tries \in [Procs -> 0..(MaxRetries - 1)]
    /\ copies \in [Procs -> 0..MaxRetries]
    /\ result \in [Procs -> {"ok", "err"}]
    /\ reply \in [Procs -> [conn : Conns \union {NoConn},
                            inbox : SUBSET {"mine", "other"}]]
    /\ settled \in BOOLEAN

NoReply == [conn |-> NoConn, inbox |-> {}]

(* with_connection_name returns a client whose first connection is made. *)
AmqpInit ==
    /\ state = (CHOOSE n \in Conns : TRUE) /\ alive = {state}
    /\ mutex = Nobody
    /\ pc = [p \in Procs |-> "idle"]
    /\ op = [p \in Procs |-> "ttl"]
    /\ cur = [p \in Procs |-> NoConn]
    /\ tries = [p \in Procs |-> 0]
    /\ copies = [p \in Procs |-> 0]
    /\ result = [p \in Procs |-> "ok"]
    /\ reply = [p \in Procs |-> NoReply]
    /\ settled = FALSE

Goto(p, where) == pc' = [pc EXCEPT ![p] = where]

(* Mutant: a connection counts as ready whatever its status. *)
IsReady_AnyStatus == state # NoConn

(* Some state whose connection and channel are connected. *)
IsReady == state \in alive

(* Somebody has an Arc to the connection. *)
Held(n, st, c, r) == n = st \/ \E q \in Procs : n \in {c[q], r[q].conn}
Referenced(n) == Held(n, state, cur, reply)

(* A new connection takes a name nobody holds an Arc to; Conns has enough of them. *)
Nameable == \E n \in Conns : ~Referenced(n)
Fresh == CHOOSE n \in Conns : ~Referenced(n)

-----------------------------------------------------------------------------
(* A task starts a call: wait_for_ready looks first, the others need a state. *)
Call(p, o) ==
    /\ pc[p] = "idle"
    /\ Goto(p, IF o = "await" THEN "poll" ELSE "ensure")
    /\ op' = [op EXCEPT ![p] = o]
    /\ UNCHANGED <<state, alive, mutex, cur, tries, copies, result, reply, settled>>

(* publish_to with an empty routing key, or reply to a delivery without reply_to:  *)
(* the error is returned before anything is asked of the connection.             *)
Misused(p) ==
    /\ pc[p] = "idle" /\ ~settled
    /\ result' = [result EXCEPT ![p] = "err"]
    /\ Goto(p, "return")
    /\ UNCHANGED <<state, alive, mutex, op, cur, tries, copies, reply, settled>>

(* What a call does with the state ensure_state returns.  send_wait asks twice: *)
(* for the connection of its reply queue and, in publish_once, to publish.      *)
Use(p) ==
    CASE op[p] = "consume" -> "subscribe"
      [] op[p] = "await" -> "poll"
      [] op[p] = "wait" /\ reply[p].conn = NoConn -> "declare"
      [] OTHER -> "publish"

(* ensure_state: use the shared connection if it is ready. *)
EnsureState(p) ==
    /\ pc[p] = "ensure"
    /\ \/ IsReady /\ cur' = [cur EXCEPT ![p] = state] /\ Goto(p, Use(p))
       \/ ~IsReady /\ UNCHANGED cur /\ Goto(p, "lock")
    /\ UNCHANGED <<state, alive, mutex, op, tries, copies, result, reply, settled>>

(* Mutant: reconnects without looking again once it has the mutex. *)
Reconnect_NoRecheck(p) ==
    /\ pc[p] = "lock" /\ mutex = Nobody
    /\ mutex' = p
    /\ Goto(p, "connect")
    /\ UNCHANGED <<state, alive, op, cur, tries, copies, result, reply, settled>>

(* reconnect: with the mutex held look again; another task may have           *)
(* reconnected while this one waited.                                        *)
Reconnect(p) ==
    /\ pc[p] = "lock" /\ mutex = Nobody
    /\ \/ /\ IsReady
          /\ cur' = [cur EXCEPT ![p] = state]
          /\ Goto(p, Use(p))
          /\ UNCHANGED mutex
       \/ /\ ~IsReady
          /\ mutex' = p
          /\ Goto(p, "connect")
          /\ UNCHANGED cur
    /\ UNCHANGED <<state, alive, op, tries, copies, result, reply, settled>>

(* Connection::connect, create_channel, confirm_select and the passive, then   *)
(* active declare: all succeed, or one fails and its error is returned.        *)
Connect(p) ==
    /\ pc[p] = "connect"
    /\ \/ /\ Nameable
          /\ alive' = alive \union {Fresh}
          /\ cur' = [cur EXCEPT ![p] = Fresh]
          /\ Goto(p, "store")
          /\ UNCHANGED mutex
       \/ /\ ~settled
          /\ mutex' = Nobody
          /\ Goto(p, "failed")
          /\ UNCHANGED <<alive, cur>>
    /\ UNCHANGED <<state, op, tries, copies, result, reply, settled>>

(* *self.state.write().await = Some(state); the mutex guard is dropped. *)
Store(p) ==
    /\ pc[p] = "store"
    /\ state' = cur[p]
    /\ mutex' = Nobody
    /\ Goto(p, Use(p))
    /\ UNCHANGED <<alive, op, cur, tries, copies, result, reply, settled>>

(* basic_publish: the broker takes the message, or refuses it (nack), or the   *)
(* connection is dead.                                                        *)
Publish(p) ==
    /\ pc[p] = "publish"
    /\ \/ /\ cur[p] \in alive
          /\ copies' = [copies EXCEPT ![p] = @ + 1]
          /\ Goto(p, "confirm")
       \/ /\ ~settled \/ cur[p] \notin alive
          /\ Goto(p, "failed")
          /\ UNCHANGED copies
    /\ UNCHANGED <<state, alive, mutex, op, cur, tries, result, reply, settled>>

(* The confirmation arrives, or the connection died before it did.  send_wait   *)
(* has its reply to wait for.                                                  *)
Confirm(p) ==
    /\ pc[p] = "confirm"
    /\ \/ /\ cur[p] \in alive
          /\ result' = [result EXCEPT ![p] = "ok"]
          /\ Goto(p, IF op[p] = "wait" THEN "reply" ELSE "return")
       \/ /\ cur[p] \notin alive
          /\ Goto(p, "failed")
          /\ UNCHANGED result
    /\ cur' = [cur EXCEPT ![p] = NoConn]
    /\ UNCHANGED <<state, alive, mutex, op, tries, copies, reply, settled>>

(* push tries again; the other calls publish once. *)
Again(p) == op[p] = "push" /\ tries[p] + 1 < MaxRetries

(* Mutant: an error ends the attempt as if it were confirmed. *)
Failed_Ignored(p) ==
    /\ pc[p] = "failed"
    /\ Goto(p, "return")
    /\ result' = [result EXCEPT ![p] = "ok"]
    /\ cur' = [cur EXCEPT ![p] = NoConn]
    /\ UNCHANGED <<state, alive, mutex, op, tries, copies, reply, settled>>

(* An operation returned an error.  A push clears the shared state, whichever  *)
(* connection it failed on, sleeps and tries again; wait_for_ready ignores it;  *)
(* the last error of a push and every error of the others goes to the caller.  *)
Failed(p) ==
    /\ pc[p] = "failed"
    /\ state' = IF op[p] = "push" THEN NoConn ELSE state
    /\ \/ /\ Again(p)
          /\ tries' = [tries EXCEPT ![p] = @ + 1]
          /\ Goto(p, "ensure")
          /\ UNCHANGED result
       \/ /\ op[p] = "await"
          /\ Goto(p, "poll")
          /\ UNCHANGED <<tries, result>>
       \/ /\ ~Again(p) /\ op[p] # "await"
          /\ result' = [result EXCEPT ![p] = "err"]
          /\ Goto(p, "return")
          /\ UNCHANGED tries
    /\ cur' = [cur EXCEPT ![p] = NoConn]
    /\ alive' = {n \in alive : Held(n, state', cur', reply)}
    /\ UNCHANGED <<mutex, op, copies, reply, settled>>

(* send_wait declares its reply queue and consumes it, on the connection it has. *)
Declare(p) ==
    /\ pc[p] = "declare"
    /\ \/ /\ cur[p] \in alive
          /\ reply' = [reply EXCEPT ![p].conn = cur[p]]
          /\ Goto(p, "ensure")
       \/ /\ ~settled \/ cur[p] \notin alive
          /\ Goto(p, "failed")
          /\ UNCHANGED reply
    /\ cur' = [cur EXCEPT ![p] = NoConn]
    /\ UNCHANGED <<state, alive, mutex, op, tries, copies, result, settled>>

(* Mutant: the first delivery is the reply. *)
TakeReply_AnyCorrelation(p) ==
    /\ pc[p] = "reply"
    /\ reply[p].inbox # {}
    /\ Goto(p, "return")
    /\ UNCHANGED <<state, alive, mutex, op, cur, tries, copies, result, reply, settled>>

(* send_wait takes a delivery and acks it; one with another correlation id is   *)
(* passed over.  The consumer ends with its connection.                         *)
TakeReply(p) ==
    /\ pc[p] = "reply"
    /\ \/ /\ "mine" \in reply[p].inbox /\ reply[p].conn \in alive
          /\ Goto(p, "return")
          /\ UNCHANGED reply
       \/ /\ "other" \in reply[p].inbox /\ reply[p].conn \in alive
          /\ reply' = [reply EXCEPT ![p].inbox = @ \ {"other"}]
          /\ UNCHANGED pc
       \/ /\ reply[p].conn \notin alive
          /\ Goto(p, "failed")
          /\ UNCHANGED reply
    /\ UNCHANGED <<state, alive, mutex, op, cur, tries, copies, result, settled>>

(* consume: basic_qos and basic_consume. *)
Subscribe(p) ==
    /\ pc[p] = "subscribe"
    /\ \/ cur[p] \in alive /\ Goto(p, "return")
       \/ (~settled \/ cur[p] \notin alive) /\ Goto(p, "failed")
    /\ cur' = [cur EXCEPT ![p] = NoConn]
    /\ UNCHANGED <<state, alive, mutex, op, tries, copies, result, reply, settled>>

(* is_ready uses try_read: while a task is about to write the state it may also *)
(* answer no although the connection is good.                                  *)
SaysNotReady ==
    \/ ~IsReady
    \/ \E q \in Procs : pc[q] = "store" \/ (pc[q] = "failed" /\ op[q] = "push")

(* wait_for_ready: one round of its loop. *)
Poll(p) ==
    /\ pc[p] = "poll"
    /\ \/ IsReady /\ Goto(p, "return")
       \/ SaysNotReady /\ Goto(p, "ensure")
    /\ cur' = [cur EXCEPT ![p] = NoConn]
    /\ UNCHANGED <<state, alive, mutex, op, tries, copies, result, reply, settled>>

InPush == {"ensure", "lock", "connect", "store", "publish", "confirm", "failed",
           "poll"}

(* The part of a call that a timeout covers: all of push and wait_for_ready, of *)
(* send_wait only the wait for the reply.                                      *)
Timed(p) ==
    \/ op[p] \in {"push", "await"} /\ pc[p] \in InPush
    \/ pc[p] = "reply"

(* Mutant: the mutex is not released when the future is dropped. *)
Timeout_KeepsMutex(p) ==
    /\ Timed(p) /\ ~settled
    /\ result' = [result EXCEPT ![p] = "err"]
    /\ cur' = [cur EXCEPT ![p] = NoConn]
    /\ Goto(p, "return")
    /\ UNCHANGED <<state, alive, mutex, op, tries, copies, reply, settled>>

(* The future of the call is dropped where it stands; the guard of the mutex    *)
(* goes with it, the shared state stays as it is.                              *)
Timeout(p) ==
    /\ Timed(p) /\ ~settled
    /\ mutex' = IF mutex = p THEN Nobody ELSE mutex
    /\ result' = [result EXCEPT ![p] = "err"]
    /\ cur' = [cur EXCEPT ![p] = NoConn]
    /\ alive' = {n \in alive : Held(n, state, cur', reply)}
    /\ Goto(p, "return")
    /\ UNCHANGED <<state, op, tries, copies, reply, settled>>

(* close, first half: take the shared state. *)
Close(p) ==
    /\ pc[p] = "idle" /\ ~settled
    /\ cur' = [cur EXCEPT ![p] = state]
    /\ state' = NoConn
    /\ op' = [op EXCEPT ![p] = "close"]
    /\ Goto(p, "closing")
    /\ UNCHANGED <<alive, mutex, tries, copies, result, reply, settled>>

(* close, second half: close channel and connection if still connected.  If that  *)
(* fails the error is returned, and whoever else has the connection keeps it.     *)
CloseConn(p) ==
    /\ pc[p] = "closing"
    /\ cur' = [cur EXCEPT ![p] = NoConn]
    /\ \/ /\ alive' = alive \ {cur[p]}
          /\ result' = [result EXCEPT ![p] = "ok"]
       \/ /\ cur[p] \in alive /\ ~settled
          /\ alive' = {n \in alive : Held(n, state, cur', reply)}
          /\ result' = [result EXCEPT ![p] = "err"]
    /\ Goto(p, "return")
    /\ UNCHANGED <<state, mutex, op, tries, copies, reply, settled>>

(* The caller has its result; what the call kept is gone.  A connection closes   *)
(* with the last Arc to it.                                                    *)
Return(p) ==
    /\ pc[p] = "return"
    /\ Goto(p, "idle")
    /\ op' = [op EXCEPT ![p] = "ttl"]
    /\ tries' = [tries EXCEPT ![p] = 0]
    /\ copies' = [copies EXCEPT ![p] = 0]
    /\ reply' = [reply EXCEPT ![p] = NoReply]
    /\ alive' = {n \in alive : Held(n, state, cur, reply')}
    /\ result' = [result EXCEPT ![p] = "ok"]
    /\ UNCHANGED <<state, mutex, cur, settled>>

(* The service that consumes the queue answers a request: reply publishes to its *)
(* reply_to queue, with its correlation id, through the service's own client.    *)
Reply(p) ==
    /\ op[p] = "wait" /\ copies[p] > 0 /\ reply[p].conn \in alive
    /\ reply' = [reply EXCEPT ![p].inbox = @ \union {"mine"}]
    /\ UNCHANGED <<state, alive, mutex, pc, op, cur, tries, copies, result, settled>>

(* External: a service that does not use reply publishes there without the       *)
(* correlation id it was given.                                                *)
Stray(p) ==
    /\ op[p] = "wait" /\ copies[p] > 0 /\ reply[p].conn \in alive /\ ~settled
    /\ reply' = [reply EXCEPT ![p].inbox = @ \union {"other"}]
    /\ UNCHANGED <<state, alive, mutex, pc, op, cur, tries, copies, result, settled>>

(* External: a connection somebody holds an Arc to dies. *)
ConnDies ==
    /\ ~settled
    /\ \E n \in alive : Referenced(n) /\ alive' = alive \ {n}
    /\ UNCHANGED <<state, mutex, pc, op, cur, tries, copies, result, reply, settled>>

(* External: from now on connections live, attempts succeed, nothing is        *)
(* refused, misused, times out or is closed.                                  *)
Settle ==
    /\ ~settled
    /\ settled' = TRUE
    /\ UNCHANGED <<state, alive, mutex, pc, op, cur, tries, copies, result, reply>>

Step(p) ==
    \/ EnsureState(p) \/ Reconnect(p) \/ Connect(p) \/ Store(p) \/ Publish(p)
    \/ Confirm(p) \/ Failed(p) \/ CloseConn(p) \/ Declare(p) \/ TakeReply(p)
    \/ Subscribe(p) \/ Poll(p)

Next ==
    \/ \E p \in Procs :
        \/ \E o \in Calls[p] \ {"close"} : Call(p, o)
        \/ "close" \in Calls[p] /\ Close(p)
        \/ "ttl" \in Calls[p] /\ Misused(p)
        \/ Step(p)
        \/ Timeout(p)
        \/ Return(p)
        \/ Reply(p) \/ Stray(p)
    \/ ConnDies \/ Settle

Spec == AmqpInit /\ [][Next]_amqpVars

(* A task runs; what it awaits answers or fails (a dead peer is found by the   *)
(* heartbeat); the tokio mutex is handed over in FIFO order, hence the strong  *)
(* fairness of Reconnect.  wait_for_ready and send_wait take their timeout from *)
(* the caller.  Requests are answered.                                        *)
Fairness ==
    \A p \in Procs : /\ WF_amqpVars(Step(p)) /\ WF_amqpVars(Return(p))
                     /\ SF_amqpVars(Reconnect(p))
                     /\ WF_amqpVars(op[p] \in {"await", "wait"} /\ Timeout(p))
                     /\ WF_amqpVars(Reply(p))

FairSpec == Spec /\ Fairness

-----------------------------------------------------------------------------
(* The mutex is held exactly by the task that is replacing the connection,     *)
(* also after a push was dropped in the middle, and while it does the shared   *)
(* connection is not ready: a good connection is never overwritten.            *)
ReconnectExclusive ==
    \A p \in Procs :
        /\ pc[p] \in {"connect", "store"} <=> mutex = p
        /\ mutex = p => ~IsReady

(* A push or push_with_ttl that returns Ok was taken by the broker; one that     *)
(* publishes once hands over at most one copy, a push at most one per attempt.  *)
DeliveryBounds ==
    \A p \in Procs :
        /\ pc[p] = "return" /\ result[p] = "ok" /\ op[p] \in {"push", "ttl", "wait"}
            => copies[p] > 0
        /\ op[p] = "push" => copies[p] <= tries[p] + 1
        /\ op[p] \in {"ttl", "wait"} => copies[p] <= 1

(* A send_wait that returns Ok returns the answer to its own request, with its   *)
(* reply queue on one connection and the request published on whichever the      *)
(* client had by then, other tasks reconnecting and closing meanwhile.           *)
AnswerIsMine ==
    \A p \in Procs :
        pc[p] = "return" /\ op[p] = "wait" /\ result[p] = "ok" => "mine" \in reply[p].inbox

(* Every call comes back, push, push_with_ttl and consume also if no timeout     *)
(* fires: send_wait before its wait for the reply has none.                      *)
CallsReturn == \A p \in Procs : pc[p] = "ensure" ~> pc[p] = "return"

(* "reconnects on demand": once broker and network are well, calls that are    *)
(* under way on a dead connection may still fail, but in the end every call     *)
(* succeeds, even though a failing push clears a good connection.               *)
StableDelivers ==
    settled ~> [](\A p \in Procs : pc[p] = "return" => result[p] = "ok")
=============================================================================
