-------------------------- MODULE TransportProofs --------------------------
(***************************************************************************)
(* The two ends of a call.                                                   *)
(*                                                                         *)
(* HttpServer, for every chain of the two middlewares, any number of requests   *)
(* and merchants and every behaviour of the server: who is barred throughout     *)
(* never reaches a handler, a refusal has its reason, and a server that has      *)
(* stopped has no request in flight.                                           *)
(*                                                                         *)
(* GrpcDial, for every set of addresses, pool size and capacity of the change    *)
(* queue: what the refresher takes for known is what the balancer will hold, the *)
(* balancer is never emptied, and a channel that is handed out can be used.      *)
(***************************************************************************)
EXTENDS HttpServer, GrpcDial, FiniteSetTheorems, SequenceTheorems, TLAPS

(* The faults the i-th middleware is there for. *)
LayerFaults(i) == IF Chain[i] = "csrf" THEN {"csrf"} ELSE Faults \ {"csrf"}

(* What has spoken against a request all along still does. *)
StillAgainst == \A r \in Reqs : always[r] \subseteq Against(r)

(* What speaks against a request under way has been noted. *)
Noticed == \A r \in UnderWay : Against(r) \subseteq ever[r]

(* A request has nothing against it, of all it had when it came, that a middleware it  *)
(* has left would have seen.                                                       *)
Cleared ==
    \A r \in Reqs, i \in 1..Len(Chain) :
        pc[r] = "run" \/ i < pos[r] => always[r] \intersect LayerFaults(i) = {}

(* revoke_token has looked at the token before it asks Redis. *)
TokenSeen ==
    \A r \in Reqs :
        pc[r] \in {"checkout", "get"} /\ Chain[pos[r]] = "revoke" => "bearer" \notin always[r]

(* A request that is not under way is before the first middleware and has no history,     *)
(* and only one that is over has an answer.                                         *)
Fresh ==
    \A r \in Reqs : /\ pc[r] \in {"idle", "done"} => pos[r] = 1 /\ always[r] = {}
                    /\ pc[r] # "done" => reply[r] = 0

AuthInv ==
    /\ AuthTypeOK
    /\ StillAgainst /\ Noticed /\ Cleared /\ TokenSeen /\ Fresh
    /\ RefusedForAReason

-----------------------------------------------------------------------------
LEMMA ChainFacts ==
    /\ Len(Chain) \in Nat \ {0}
    /\ \A i \in 1..Len(Chain) : Chain[i] \in {"revoke", "csrf"}
  BY AuthAssumption

(* At the start nobody is under way. *)
LEMMA AuthInitInv == AuthInit => AuthInv
  BY ChainFacts DEF AuthInit, AuthInv, AuthTypeOK, StillAgainst, Noticed, Cleared,
     TokenSeen, Fresh, RefusedForAReason, Faults, UnderWay

(* A request that comes starts with all that speaks against it. *)
LEMMA ArriveInv ==
    ASSUME AuthInv, NEW r \in Reqs, Arrive(r) PROVE AuthInv'
<1> USE DEF AuthInv
<1>0. Against(r)' = Against(r) /\ \A q \in Reqs : Against(q)' = Against(q)
  BY DEF Arrive, world, Against
<1>1. AuthTypeOK'
  BY DEF Arrive, world, AuthTypeOK, Against
<1>2. StillAgainst' /\ Noticed'
  BY <1>0 DEF Arrive, world, AuthTypeOK, StillAgainst, Noticed, UnderWay
<1>3. Cleared' /\ TokenSeen' /\ Fresh'
  BY ChainFacts DEF Arrive, world, AuthTypeOK, Cleared, TokenSeen, Fresh, LayerFaults
<1>4. RefusedForAReason'
  <2>1. reply'[r] = 0
    BY DEF Arrive, Fresh
  <2>2. \A q \in Reqs \ {r} : ever'[q] = ever[q]
    BY DEF Arrive, AuthTypeOK
  <2> QED BY <2>1, <2>2 DEF Arrive, RefusedForAReason
<1> QED BY <1>1, <1>2, <1>3, <1>4

(* A request that goes on to its GET. *)
LEMMA AwaitInv ==
    ASSUME AuthInv, NEW r \in Reqs, Await(r),
           pc[r] = "gate",
           Chain[pos[r]] = "revoke" => bearer[r] = "good",
           UNCHANGED <<world, ever, broken>>
    PROVE  AuthInv'
<1> USE DEF AuthInv
<1>0. \A q \in Reqs : Against(q)' = Against(q)
  BY DEF world, Against
<1>1. AuthTypeOK'
  BY DEF Await, world, AuthTypeOK
<1>2. StillAgainst' /\ Noticed'
  BY <1>0 DEF Await, AuthTypeOK, StillAgainst, Noticed, UnderWay
<1>3. Cleared' /\ Fresh' /\ RefusedForAReason'
  BY ChainFacts DEF Await, AuthTypeOK, Cleared, Fresh, LayerFaults, RefusedForAReason
<1>4. TokenSeen'
  <2>1. Chain[pos[r]] = "revoke" => "bearer" \notin always[r]
    BY DEF StillAgainst, Against
  <2> QED BY <2>1 DEF Await, AuthTypeOK, TokenSeen
<1> QED BY <1>1, <1>2, <1>3, <1>4

(* A request that is given a connection to Redis. *)
LEMMA CheckoutInv ==
    ASSUME AuthInv, NEW r \in Reqs, Checkout(r) PROVE AuthInv'
<1> USE DEF AuthInv
<1>0. \A q \in Reqs : Against(q)' = Against(q)
  BY DEF Checkout, world, Against
<1>1. AuthTypeOK'
  BY DEF Checkout, world, AuthTypeOK
<1>2. StillAgainst' /\ Noticed'
  BY <1>0 DEF Checkout, AuthTypeOK, StillAgainst, Noticed, UnderWay
<1>3. Cleared' /\ TokenSeen' /\ Fresh' /\ RefusedForAReason'
  BY DEF Checkout, AuthTypeOK, Cleared, TokenSeen, Fresh, LayerFaults, RefusedForAReason
<1> QED BY <1>1, <1>2, <1>3

(* A request that is refused, for a reason. *)
LEMMA AnswerInv ==
    ASSUME AuthInv, NEW r \in Reqs, NEW how \in {"bad_request", "unauthorized", "internal_error"},
           Answer(r, how), r \in UnderWay,
           how # "internal_error" => Against(r) # {},
           how = "internal_error" => broken'[r] \/ "unreadable" \in Against(r),
           broken' \in [Reqs -> BOOLEAN],
           \A q \in Reqs \ {r} : broken'[q] = broken[q],
           UNCHANGED <<world, ever>>
    PROVE  AuthInv'
<1> USE DEF AuthInv
<1>0. \A q \in Reqs : Against(q)' = Against(q)
  BY DEF world, Against
<1>1. /\ reply'[r] = IF how = "bad_request" THEN 400
                     ELSE IF how = "unauthorized" THEN 401 ELSE 500
      /\ \A q \in Reqs \ {r} : reply'[q] = reply[q]
      /\ reply' \in [Reqs -> {0, 400, 401, 500}]
  BY DEF Answer, ResponseApi, AuthTypeOK
<1>2. AuthTypeOK'
  BY <1>1 DEF Answer, world, AuthTypeOK
<1>3. StillAgainst' /\ Noticed'
  BY <1>0 DEF Answer, AuthTypeOK, StillAgainst, Noticed, UnderWay
<1>4. Cleared' /\ TokenSeen'
  BY ChainFacts DEF Answer, AuthTypeOK, Cleared, TokenSeen, LayerFaults
<1>5. Fresh'
  BY <1>1 DEF Answer, AuthTypeOK, Fresh
<1>6. RefusedForAReason'
  BY <1>1 DEF RefusedForAReason, Noticed
<1> QED BY <1>2, <1>3, <1>4, <1>5, <1>6

(* A request that the middleware it is in has found nothing against. *)
LEMMA PassInv ==
    ASSUME AuthInv, NEW r \in Reqs, Pass(r), pc[r] = "get",
           always[r] \intersect LayerFaults(pos[r]) = {},
           UNCHANGED <<world, ever, broken>>
    PROVE  AuthInv'
<1> USE DEF AuthInv
<1>0. \A q \in Reqs : Against(q)' = Against(q)
  BY DEF world, Against
<1>1. /\ pc' \in [Reqs -> {"idle", "gate", "checkout", "get", "run", "done"}]
      /\ pos' \in [Reqs -> 1..Len(Chain)]
      /\ \A q \in Reqs : pc'[q] \in {"idle", "done"} <=> pc[q] \in {"idle", "done"}
      /\ UNCHANGED <<reply, always>>
  <2>1. /\ pc \in [Reqs -> {"idle", "gate", "checkout", "get", "run", "done"}]
        /\ pos \in [Reqs -> 1..Len(Chain)]
    BY DEF AuthTypeOK
  <2>2. \/ pc' = [pc EXCEPT ![r] = "gate"]
        \/ pc' = [pc EXCEPT ![r] = "run"]
    BY DEF Pass
  <2>3. pos' \in [Reqs -> 1..Len(Chain)]
    BY <2>1, ChainFacts DEF Pass
  <2>4. UNCHANGED <<reply, always>>
    BY DEF Pass
  <2> QED BY <2>1, <2>2, <2>3, <2>4
<1>2. AuthTypeOK' /\ StillAgainst' /\ Noticed'
  BY <1>0, <1>1 DEF world, AuthTypeOK, StillAgainst, Noticed, UnderWay
<1>3. Cleared'
  <2> SUFFICES ASSUME NEW q \in Reqs, NEW i \in 1..Len(Chain),
                      (pc[q] = "run" \/ i < pos[q])'
               PROVE  always[q] \intersect LayerFaults(i) = {}
    BY <1>1 DEF Cleared, LayerFaults
  <2>1. CASE q # r
    BY <2>1 DEF Pass, AuthTypeOK, Cleared
  <2>2. CASE q = r
    <3>1. i < pos[r] \/ i = pos[r]
      BY <2>2, ChainFacts DEF Pass, AuthTypeOK
    <3> QED BY <2>2, <3>1 DEF Cleared
  <2> QED BY <2>1, <2>2
<1>4. TokenSeen' /\ Fresh' /\ RefusedForAReason'
  BY ChainFacts DEF Pass, AuthTypeOK, TokenSeen, Fresh, RefusedForAReason
<1> QED BY <1>1, <1>2, <1>3, <1>4

(* Every step of the middlewares. *)
LEMMA StepInv ==
    ASSUME AuthInv, NEW r \in Reqs, Step(r) PROVE AuthInv'
<1> USE DEF AuthInv
<1>1. CASE RevokeGate(r)
  <2>1. CASE bearer[r] = "good"
    BY <1>1, <2>1, AwaitInv DEF RevokeGate
  <2>2. CASE bearer[r] # "good"
    <3>1. "bearer" \in Against(r)
      BY <2>2 DEF Against, Faults
    <3> QED BY <1>1, <2>2, <3>1, AnswerInv DEF RevokeGate, AuthTypeOK, UnderWay
  <2> QED BY <2>1, <2>2
<1>2. CASE CsrfGate(r)
  <2>1. CASE Await(r)
    BY <1>2, <2>1, AwaitInv DEF CsrfGate
  <2>2. CASE r \notin session /\ Answer(r, "bad_request")
    <3>1. "csrf" \in Against(r)
      BY <2>2 DEF Against, Faults
    <3> QED BY <1>2, <2>2, <3>1, AnswerInv DEF CsrfGate, AuthTypeOK, UnderWay
  <2> QED BY <1>2, <2>1, <2>2 DEF CsrfGate
<1>3. CASE RevokeGet(r)
  <2> DEFINE stored_record == record[merchant[r]]
  <2>1. CASE stored_record \in Revoked /\ Answer(r, "unauthorized")
    <3>1. "revoked" \in Against(r)
      BY <2>1 DEF Against, Faults
    <3> QED BY <1>3, <2>1, <3>1, AnswerInv DEF RevokeGet, AuthTypeOK, UnderWay
  <2>2. CASE stored_record = Unreadable /\ Answer(r, "internal_error")
    <3>1. "unreadable" \in Against(r)
      BY <2>2 DEF Against, Faults
    <3> QED BY <1>3, <2>2, <3>1, AnswerInv DEF RevokeGet, AuthTypeOK, UnderWay
  <2>3. CASE stored_record \notin Revoked \union {Unreadable} /\ Pass(r)
    <3>1. "revoked" \notin always[r] /\ "unreadable" \notin always[r]
      BY <2>3 DEF StillAgainst, Against
    <3>2. "bearer" \notin always[r]
      BY <1>3 DEF TokenSeen, RevokeGet
    <3>3. always[r] \intersect LayerFaults(pos[r]) = {}
      BY <1>3, <3>1, <3>2 DEF LayerFaults, Faults, RevokeGet
    <3> QED BY <1>3, <2>3, <3>3, PassInv DEF RevokeGet
  <2> QED BY <1>3, <2>1, <2>2, <2>3 DEF RevokeGet
<1>4. CASE CsrfGet(r)
  <2>1. CASE r \in session
    <3>1. "csrf" \notin always[r]
      BY <2>1 DEF StillAgainst, Against
    <3>2. always[r] \intersect LayerFaults(pos[r]) = {}
      BY <1>4, <3>1 DEF LayerFaults, CsrfGet
    <3> QED BY <1>4, <2>1, <3>2, PassInv DEF CsrfGet
  <2>2. CASE r \notin session
    <3>1. "csrf" \in Against(r)
      BY <2>2 DEF Against, Faults
    <3> QED BY <1>4, <2>2, <3>1, AnswerInv DEF CsrfGet, AuthTypeOK, UnderWay
  <2> QED BY <2>1, <2>2
<1>5. CASE GetFails(r)
  <2>1. /\ broken' \in [Reqs -> BOOLEAN] /\ broken'[r]
        /\ \A q \in Reqs \ {r} : broken'[q] = broken[q]
    BY <1>5 DEF GetFails, AuthTypeOK
  <2> QED BY <1>5, <2>1, AnswerInv DEF GetFails, UnderWay
<1>6. CASE Checkout(r)
  BY <1>6, CheckoutInv
<1> QED BY <1>1, <1>2, <1>3, <1>4, <1>5, <1>6 DEF Step, Gate

(* A request that is over. *)
LEMMA FinishInv ==
    ASSUME AuthInv, NEW r \in Reqs, Finish(r) PROVE AuthInv'
<1> USE DEF AuthInv
<1>0. \A q \in Reqs : Against(q)' = Against(q)
  BY DEF Finish, world, Against
<1>1. AuthTypeOK'
  BY DEF Finish, world, AuthTypeOK
<1>2. StillAgainst' /\ Noticed'
  BY <1>0 DEF Finish, AuthTypeOK, StillAgainst, Noticed, UnderWay
<1>3. Cleared' /\ TokenSeen' /\ Fresh' /\ RefusedForAReason'
  BY DEF Finish, AuthTypeOK, Cleared, TokenSeen, Fresh, RefusedForAReason, LayerFaults
<1> QED BY <1>1, <1>2, <1>3

(* Whatever changes in the world is noted. *)
LEMMA WorldInv ==
    ASSUME AuthInv, World PROVE AuthInv'
<1> USE DEF AuthInv
<1>1. /\ Noted
      /\ record' \in [Merchants -> Statuses \union {Unreadable, Absent}]
      /\ session' \in SUBSET Reqs
      /\ bearer' \in [Reqs -> Tokens]
      /\ merchant' = merchant
  <2>1. ASSUME NEW r \in Reqs, SessionChanges(r) PROVE <1>1!:
    BY <2>1 DEF SessionChanges, AuthTypeOK
  <2>2. ASSUME NEW r \in Reqs, TokenExpires(r) PROVE <1>1!:
    BY <2>2 DEF TokenExpires, AuthTypeOK, Tokens
  <2>3. ASSUME NEW m \in Merchants, RecordChanges(m) PROVE <1>1!:
    BY <2>3 DEF RecordChanges, AuthTypeOK
  <2> QED BY <2>1, <2>2, <2>3 DEF World, UnderWay
<1>2. \A r \in Reqs : Against(r)' \subseteq Faults
  BY DEF Against
<1>3. AuthTypeOK'
  BY <1>1, <1>2 DEF Noted, AuthTypeOK
<1>4. StillAgainst' /\ Noticed'
  BY <1>1 DEF Noted, AuthTypeOK, StillAgainst, Noticed, UnderWay, Fresh
<1>5. Cleared' /\ TokenSeen' /\ Fresh'
  BY <1>1 DEF Noted, AuthTypeOK, Cleared, TokenSeen, Fresh, LayerFaults
<1>6. RefusedForAReason'
  BY <1>1 DEF Noted, AuthTypeOK, RefusedForAReason, Fresh
<1> QED BY <1>3, <1>4, <1>5, <1>6

LEMMA HttpNextInv == AuthInv /\ [HttpNext]_serverVars => AuthInv'
<1> SUFFICES ASSUME AuthInv, [HttpNext]_serverVars PROVE AuthInv'
  OBVIOUS
<1>1. CASE UNCHANGED authVars
  BY <1>1 DEF authVars, AuthInv, AuthTypeOK, StillAgainst, Noticed, UnderWay, Against,
     Cleared, LayerFaults, TokenSeen, Fresh, RefusedForAReason
<1>2. CASE Bind \/ ShutdownSignal \/ Drained
  BY <1>1, <1>2 DEF Bind, ShutdownSignal, Drained
<1>3. ASSUME NEW r \in Reqs, Accept(r) PROVE AuthInv'
  BY <1>3, ArriveInv DEF Accept
<1>4. ASSUME NEW r \in Reqs, Step(r) \/ Finish(r) PROVE AuthInv'
  BY <1>4, StepInv, FinishInv
<1>5. CASE World
  BY <1>5, WorldInv
<1> QED BY <1>1, <1>2, <1>3, <1>4, <1>5 DEF HttpNext, serverVars

LEMMA HttpInvariant == HttpSpec => []AuthInv
  BY AuthInitInv, HttpNextInv, PTL DEF HttpSpec, HttpInit

(* Whoever was barred when he came and stayed barred reaches no handler behind          *)
(* revoke_token and verify_csrf, whatever the order and number of the layers.            *)
THEOREM HttpBarredNeverPasses == HttpSpec => []BarredNeverPasses
<1>1. AuthInv => BarredNeverPasses
  BY DEF AuthInv, Cleared, BarredNeverPasses, Guarded, LayerFaults
<1> QED BY <1>1, HttpInvariant, PTL

(* Nobody is refused by revoke_token or verify_csrf without a reason that held since he  *)
(* came, and an internal error has one too.                                          *)
THEOREM HttpRefusedForAReason == HttpSpec => []RefusedForAReason
<1>1. AuthInv => RefusedForAReason
  BY DEF AuthInv
<1> QED BY <1>1, HttpInvariant, PTL

-----------------------------------------------------------------------------
(* The client of gRPC.                                                         *)

(* The key is in the balancer when the first n changes of the queue are drained. *)
Present(n, key) ==
    \/ key \in balancer /\ \A i \in 1..n : queue[i].key # key
    \/ \E i \in 1..n : /\ queue[i].key = key /\ queue[i].kind = "Insert"
                       /\ \A j \in 1..n : queue[j].key = key => j <= i

(* What the balancer should hold when the queue is drained, at every stage of the call. *)
Expected(key) ==
    \/ phase # "unborn" /\ (key[1] \in known \/ (key[1] = Seed /\ seed_slots > 0))
    \/ phase = "unborn" /\ at = "insert" /\ ~lazy /\ key[1] \in initial \ todo
    \/ phase = "unborn" /\ at = "fixed" /\ key[1] = Seed

Exact == ~dropped => \A key \in EndpointKeys : Present(Len(queue), key) <=> Expected(key)

(* Whenever a removal is drained, an endpoint under another key is there. *)
NeverBare ==
    \A n \in 1..Len(queue) : queue[n].kind = "Remove" =>
        \E key \in EndpointKeys : key # queue[n].key /\ Present(n, key)

(* The refresher runs from the moment the call has returned; until then its queue holds   *)
(* what the set-up has put there, and the rest of the answer still fits.               *)
Setup ==
    /\ phase = "unborn" <=> at # "discovered"
    /\ phase = "unborn" => known = {} /\ seed_slots = 0
    /\ at \notin {"insert", "discovered"} => queue = <<>> /\ todo = {}
    /\ at = "insert" /\ lazy => queue = <<>> /\ todo = {}
    /\ at = "insert" /\ ~lazy =>
        /\ initial # {} /\ todo \subseteq initial
        /\ Len(queue) + Cardinality(todo) * Pool <= Buffer
    /\ at = "check" => initial # {}
    /\ at \in Waiting \union {"check"} => ~lazy
    /\ at = "failed" => dropped
    /\ dropped => queue = <<>> /\ at \in {"failed", "fixed", "discovered"}

(* An endpoint is always known, and the refresher removes some of them at most. *)
Kept ==
    /\ at = "discovered" => known # {} \/ seed_slots > 0
    /\ phase = "remove" /\ todo # {} => todo \subseteq known /\ known \ todo # {}

(* The last pause, by the attempt it followed or will follow. *)
Paced ==
    /\ at \in {"idle", "build"} => delay = 0
    /\ at \in Waiting \union {"build"} => attempt >= 1 /\ delay <= BackoffCurve(attempt)
    /\ at \in {"lookupSleep", "prewarmSleep"} => attempt < attempts

DialInv == DialTypeOK /\ Setup /\ Kept /\ Exact /\ NeverBare /\ Paced

-----------------------------------------------------------------------------
(* The change queue. *)
LEMMA DialConstants ==
    /\ Pool \in Nat \ {0} /\ Buffer \in Nat /\ Pool <= Buffer
    /\ Slots = 1..Pool /\ 1 \in Slots /\ Seed \notin Addrs
  BY DiscoveryAssumption DEF Slots

LEMMA KeyParts ==
    ASSUME NEW key \in EndpointKeys
    PROVE  /\ key[1] \in Addrs \union {Seed} /\ key[2] \in Slots /\ key = <<key[1], key[2]>>
  BY DEF EndpointKeys

LEMMA DrainedIsPresent ==
    ASSUME TypeOK, NEW key \in EndpointKeys
    PROVE  WhenDrained(key) <=> Present(Len(queue), key)
<1>1. DOMAIN queue = 1..Len(queue)
  BY DEF TypeOK
<1> QED BY <1>1 DEF WhenDrained, Present

(* A batch is a sequence of changes, one per slot. *)
LEMMA BatchIs ==
    ASSUME NEW kind \in {"Insert", "Remove"}, NEW a \in Addrs \union {Seed}
    PROVE  /\ Batch(kind, a) \in Seq(Change) /\ Len(Batch(kind, a)) = Pool
           /\ \A s \in Slots : Batch(kind, a)[s] = [kind |-> kind, key |-> <<a, s>>]
<1>1. \A s \in Slots : [kind |-> kind, key |-> <<a, s>>] \in Change
  BY DEF Change, EndpointKeys
<1>2. Batch(kind, a) \in [1..Pool -> Change]
  BY <1>1, DialConstants DEF Batch
<1> QED BY <1>2, DialConstants DEF Batch

(* The queue after a batch. *)
LEMMA QueueGrows ==
    ASSUME TypeOK, NEW kind \in {"Insert", "Remove"}, NEW a \in Addrs \union {Seed},
           queue' = queue \o Batch(kind, a)
    PROVE  /\ queue' \in Seq(Change) /\ Len(queue) \in Nat /\ Len(queue') = Len(queue) + Pool
           /\ \A i \in 1..Len(queue) : queue'[i] = queue[i]
           /\ \A s \in Slots : queue'[Len(queue) + s] = [kind |-> kind, key |-> <<a, s>>]
           /\ \A i \in 1..Len(queue') : i \notin 1..Len(queue) =>
                queue'[i] = [kind |-> kind, key |-> <<a, i - Len(queue)>>]
<1>1. queue \in Seq(Change) /\ Len(queue) \in Nat
  BY DEF TypeOK
<1>2. /\ Batch(kind, a) \in Seq(Change) /\ Len(Batch(kind, a)) = Pool
      /\ \A s \in Slots : Batch(kind, a)[s] = [kind |-> kind, key |-> <<a, s>>]
  BY BatchIs
<1>3. queue' \in Seq(Change) /\ Len(queue') = Len(queue) + Pool
  BY <1>1, <1>2, ConcatProperties
<1>4. \A i \in 1..Len(queue') :
          queue'[i] = IF i <= Len(queue) THEN queue[i] ELSE Batch(kind, a)[i - Len(queue)]
  BY <1>1, <1>2, <1>3, ConcatProperties
<1>5. \A i \in 1..Len(queue) : i \in 1..Len(queue') /\ i <= Len(queue)
  BY <1>1, <1>3, DialConstants
<1>6. \A s \in Slots : /\ Len(queue) + s \in 1..Len(queue') /\ ~(Len(queue) + s <= Len(queue))
                       /\ (Len(queue) + s) - Len(queue) = s
  BY <1>1, <1>3, DialConstants
<1>7. \A i \in 1..Len(queue') :
          i \notin 1..Len(queue) => i - Len(queue) \in Slots /\ i = Len(queue) + (i - Len(queue))
  BY <1>1, <1>3, DialConstants
<1>8. \A s \in Slots : queue'[Len(queue) + s] = [kind |-> kind, key |-> <<a, s>>]
  BY <1>2, <1>4, <1>6
<1>9. \A i \in 1..Len(queue') :
          i \notin 1..Len(queue) => queue'[i] = [kind |-> kind, key |-> <<a, i - Len(queue)>>]
  BY <1>7, <1>8
<1> QED BY <1>1, <1>3, <1>4, <1>5, <1>8, <1>9

(* A batch changes nothing at the points before it, ... *)
LEMMA BatchKeeps ==
    ASSUME TypeOK, NEW kind \in {"Insert", "Remove"}, NEW a \in Addrs \union {Seed},
           queue' = queue \o Batch(kind, a), UNCHANGED balancer,
           NEW key, NEW n \in 0..Len(queue)
    PROVE  Present(n, key)' <=> Present(n, key)
<1>1. /\ Len(queue) \in Nat
      /\ \A i \in 1..Len(queue) : queue'[i] = queue[i]
  BY QueueGrows
<1>2. \A i \in 1..n : queue'[i] = queue[i]
  BY <1>1
<1> QED BY <1>2 DEF Present

(* ... nothing for the keys of other addresses, ... *)
LEMMA BatchOthers ==
    ASSUME TypeOK, NEW kind \in {"Insert", "Remove"}, NEW a \in Addrs \union {Seed},
           queue' = queue \o Batch(kind, a), UNCHANGED balancer,
           NEW key \in EndpointKeys, key[1] # a, NEW n \in Len(queue)..Len(queue')
    PROVE  Present(n, key)' <=> Present(Len(queue), key)
<1>1. /\ Len(queue) \in Nat /\ Len(queue') = Len(queue) + Pool
      /\ \A i \in 1..Len(queue) : queue'[i] = queue[i]
      /\ \A s \in Slots : queue'[Len(queue) + s] = [kind |-> kind, key |-> <<a, s>>]
      /\ \A i \in 1..Len(queue') : i \notin 1..Len(queue) =>
            queue'[i] = [kind |-> kind, key |-> <<a, i - Len(queue)>>]
  BY QueueGrows
<1>2. n \in Nat /\ 1..n \subseteq 1..Len(queue') /\ 1..Len(queue) \subseteq 1..n
  BY <1>1, DialConstants
<1>3. \A i \in 1..n : i \notin 1..Len(queue) => queue'[i].key # key
  <2> SUFFICES ASSUME NEW i \in 1..n, i \notin 1..Len(queue) PROVE queue'[i].key # key
    OBVIOUS
  <2>1. queue'[i] = [kind |-> kind, key |-> <<a, i - Len(queue)>>]
    BY <1>1, <1>2
  <2> QED BY <2>1, KeyParts
<1> QED BY <1>1, <1>2, <1>3 DEF Present

(* ... and all for its own. *)
LEMMA BatchOwn ==
    ASSUME TypeOK, NEW kind \in {"Insert", "Remove"}, NEW a \in Addrs \union {Seed},
           queue' = queue \o Batch(kind, a), UNCHANGED balancer,
           NEW key \in EndpointKeys, key[1] = a
    PROVE  Present(Len(queue), key)' <=> kind = "Insert"
<1> DEFINE m == Len(queue) + key[2]
<1>1. /\ Len(queue) \in Nat /\ Len(queue') = Len(queue) + Pool
      /\ \A s \in Slots : queue'[Len(queue) + s] = [kind |-> kind, key |-> <<a, s>>]
      /\ \A i \in 1..Len(queue') : i \notin 1..Len(queue) =>
            queue'[i] = [kind |-> kind, key |-> <<a, i - Len(queue)>>]
  BY QueueGrows
<1>2. key[2] \in 1..Pool /\ key = <<a, key[2]>>
  BY KeyParts, DialConstants
<1>3. m \in 1..Len(queue') /\ queue'[m].key = key /\ queue'[m].kind = kind
  <2>1. m \in 1..Len(queue')
    BY <1>1, <1>2, DialConstants
  <2>2. queue'[m] = [kind |-> kind, key |-> <<a, key[2]>>]
    BY <1>1, <1>2, DialConstants
  <2> QED BY <1>2, <2>1, <2>2
<1>4. \A j \in 1..Len(queue') : queue'[j].key = key => j <= m
  <2> SUFFICES ASSUME NEW j \in 1..Len(queue'), queue'[j].key = key, j \notin 1..Len(queue)
               PROVE  j <= m
    BY <1>1, <1>2
  <2>1. queue'[j] = [kind |-> kind, key |-> <<a, j - Len(queue)>>]
    BY <1>1
  <2>2. j - Len(queue) = key[2]
    BY <1>2, <2>1
  <2> QED BY <1>1, <1>2, <2>2
<1>5. ASSUME NEW i \in 1..Len(queue'), queue'[i].key = key,
             \A j \in 1..Len(queue') : queue'[j].key = key => j <= i
      PROVE  i = m
  <2>1. m <= i /\ i <= m
    BY <1>3, <1>4, <1>5
  <2> QED BY <1>1, <1>2, <1>5, <2>1, DialConstants
<1> HIDE DEF m
<1>6. CASE kind = "Insert"
  BY <1>3, <1>4, <1>6 DEF Present
<1>7. CASE kind # "Insert"
  BY <1>3, <1>5, <1>7 DEF Present
<1> QED BY <1>6, <1>7

(* Draining the head moves every point of the queue one nearer. *)
LEMMA DrainShifts ==
    ASSUME TypeOK, Drain, NEW key, NEW n \in 0..Len(queue')
    PROVE  Present(n, key)' <=> Present(n + 1, key)
<1>1. /\ queue # <<>> /\ Len(queue) \in Nat \ {0} /\ Head(queue) = queue[1]
      /\ Len(queue') = Len(queue) - 1
      /\ \A i \in 1..Len(queue') : queue'[i] = queue[i + 1]
  BY DEF TypeOK, Drain
<1>2. queue[1].kind \in {"Insert", "Remove"}
  <2>1. queue \in Seq(Change) /\ 1 \in 1..Len(queue)
    BY <1>1 DEF TypeOK
  <2>2. queue[1] \in Change
    BY <2>1
  <2> QED BY <2>2 DEF Change
<1>3. n \in Nat /\ n + 1 \in Nat /\ \A i \in 1..n : queue'[i] = queue[i + 1]
  BY <1>1
<1>4. key \in balancer' <=> \/ key = queue[1].key /\ queue[1].kind = "Insert"
                            \/ key # queue[1].key /\ key \in balancer
  BY <1>1, <1>2 DEF Drain
<1>5. \A i \in 1..(n + 1) : i = 1 \/ (i - 1 \in 1..n /\ queue'[i - 1] = queue[i])
  BY <1>3
<1>6. \A i \in 1..n : i + 1 \in 1..(n + 1)
  BY <1>3
<1>7. ASSUME Present(n, key)' PROVE Present(n + 1, key)
  <2>1. CASE \E i \in 1..n : /\ queue'[i].key = key /\ queue'[i].kind = "Insert"
                             /\ \A j \in 1..n : queue'[j].key = key => j <= i
    <3>1. PICK i \in 1..n : /\ queue'[i].key = key /\ queue'[i].kind = "Insert"
                            /\ \A j \in 1..n : queue'[j].key = key => j <= i
      BY <2>1
    <3>2. /\ i + 1 \in 1..(n + 1) /\ queue[i + 1].key = key /\ queue[i + 1].kind = "Insert"
      BY <1>3, <3>1
    <3>3. ASSUME NEW j \in 1..(n + 1), queue[j].key = key PROVE j <= i + 1
      <4>1. j = 1 \/ (j - 1 \in 1..n /\ j - 1 <= i)
        BY <1>5, <3>1, <3>3
      <4> QED BY <1>3, <4>1
    <3> QED BY <3>2, <3>3 DEF Present
  <2>2. CASE key \in balancer' /\ \A i \in 1..n : queue'[i].key # key
    <3>1. \A i \in 1..(n + 1) : i # 1 => queue[i].key # key
      BY <1>5, <2>2
    <3>2. 1 \in 1..(n + 1)
      BY <1>3
    <3> QED BY <1>4, <2>2, <3>1, <3>2 DEF Present
  <2> QED BY <1>7, <2>1, <2>2 DEF Present
<1>8. ASSUME Present(n + 1, key) PROVE Present(n, key)'
  <2>1. CASE key \in balancer /\ \A i \in 1..(n + 1) : queue[i].key # key
    <3>1. 1 \in 1..(n + 1) /\ \A i \in 1..n : queue'[i].key # key
      BY <1>3, <2>1
    <3> QED BY <1>4, <2>1, <3>1 DEF Present
  <2>2. ASSUME NEW i \in 1..(n + 1), queue[i].key = key, queue[i].kind = "Insert",
               \A j \in 1..(n + 1) : queue[j].key = key => j <= i
        PROVE  Present(n, key)'
    <3>1. CASE i = 1
      <4>1. \A j \in 1..n : queue'[j].key # key
        BY <1>3, <2>2, <3>1
      <4> QED BY <1>4, <2>2, <3>1, <4>1 DEF Present
    <3>2. CASE i # 1
      <4>1. i - 1 \in 1..n /\ queue'[i - 1] = queue[i]
        BY <1>5, <3>2
      <4>2. \A j \in 1..n : queue'[j].key = key => j <= i - 1
        BY <1>3, <2>2
      <4> QED BY <2>2, <4>1, <4>2 DEF Present
    <3> QED BY <3>1, <3>2
  <2> QED BY <1>8, <2>1, <2>2 DEF Present
<1> QED BY <1>7, <1>8

-----------------------------------------------------------------------------
(* The pauses. *)
LEMMA TimesGrows ==
    ASSUME NEW x \in Nat, NEW y \in Nat, NEW z \in Nat, x <= y
    PROVE  x * z <= y * z /\ z * x <= z * y /\ x * z \in Nat
  OBVIOUS

LEMMA CurveBounds ==
    ASSUME NEW n \in Nat PROVE BackoffCurve(n) \in 0..MaxBackoff
<1>1. n * n \in Nat /\ U32Max \in Nat /\ InitialBackoff \in Nat /\ MaxBackoff \in Nat
  BY TimesGrows, DialAssumption
<1>2. Lesser(n * n, U32Max) \in Nat
  BY <1>1 DEF Lesser
<1>3. InitialBackoff * Lesser(n * n, U32Max) \in Nat
  BY <1>1, <1>2, TimesGrows
<1> QED BY <1>1, <1>3 DEF BackoffCurve, Lesser

(* backoff_curve does not go down, also where the square saturates. *)
LEMMA CurveGrows ==
    ASSUME NEW n \in Nat PROVE BackoffCurve(n) <= BackoffCurve(n + 1)
<1> DEFINE x == Lesser(n * n, U32Max)
<1> DEFINE y == Lesser((n + 1) * (n + 1), U32Max)
<1>1. U32Max \in Nat /\ InitialBackoff \in Nat /\ MaxBackoff \in Nat /\ n + 1 \in Nat
  BY DialAssumption
<1>2. n * n \in Nat /\ (n + 1) * (n + 1) \in Nat /\ n * n <= (n + 1) * (n + 1)
  BY <1>1, TimesGrows
<1>3. x \in Nat /\ y \in Nat /\ x <= y
  BY <1>1, <1>2 DEF Lesser
<1> HIDE DEF x, y
<1>4. InitialBackoff * x \in Nat /\ InitialBackoff * y \in Nat
      /\ InitialBackoff * x <= InitialBackoff * y
  BY <1>1, <1>3, TimesGrows
<1>5. Lesser(InitialBackoff * x, MaxBackoff) <= Lesser(InitialBackoff * y, MaxBackoff)
  BY <1>1, <1>4 DEF Lesser
<1> QED BY <1>5 DEF BackoffCurve, x, y

-----------------------------------------------------------------------------
(* Steps that leave the change queue alone, and the end of a channel. *)
LEMMA QueueAlone ==
    ASSUME Exact, NeverBare, UNCHANGED <<queue, balancer>>, dropped' = dropped,
           \A key \in EndpointKeys : Expected(key)' <=> Expected(key)
    PROVE  Exact' /\ NeverBare'
<1>1. \A n, key : Present(n, key)' <=> Present(n, key)
  BY DEF Present
<1> QED BY <1>1 DEF Exact, NeverBare

LEMMA QueueGone ==
    ASSUME dropped', queue' = <<>> PROVE Exact' /\ NeverBare'
<1>1. 1..Len(queue') = {}
  OBVIOUS
<1> QED BY <1>1 DEF Exact, NeverBare

(* With an empty queue the balancer is what is expected. *)
LEMMA QueueEmpty ==
    ASSUME queue' = <<>>, \A key \in EndpointKeys : key \in balancer' <=> Expected(key)'
    PROVE  Exact' /\ NeverBare'
<1>1. Len(queue') = 0 /\ 1..Len(queue') = {} /\ 1..0 = {}
  OBVIOUS
<1>2. \A key \in EndpointKeys : Present(0, key)' <=> key \in balancer'
  BY <1>1 DEF Present
<1> QED BY <1>1, <1>2 DEF Exact, NeverBare

(* A batch of inserts. *)
LEMMA InsertBatch ==
    ASSUME TypeOK, Exact, NeverBare, NEW a \in Addrs \union {Seed},
           queue' = queue \o Batch("Insert", a), UNCHANGED <<balancer, dropped>>,
           \A key \in EndpointKeys : Expected(key)' <=> Expected(key) \/ key[1] = a
    PROVE  Exact' /\ NeverBare'
<1>1. /\ Len(queue) \in Nat /\ Len(queue') = Len(queue) + Pool
      /\ \A i \in 1..Len(queue) : queue'[i] = queue[i]
      /\ \A s \in Slots : queue'[Len(queue) + s] = [kind |-> "Insert", key |-> <<a, s>>]
      /\ \A i \in 1..Len(queue') : i \notin 1..Len(queue) =>
            queue'[i] = [kind |-> "Insert", key |-> <<a, i - Len(queue)>>]
  BY QueueGrows
<1>2. Len(queue') \in Len(queue)..Len(queue')
  BY <1>1, DialConstants
<1>3. Exact'
  <2> SUFFICES ASSUME ~dropped, NEW key \in EndpointKeys
               PROVE  Present(Len(queue), key)' <=> Expected(key)'
    BY DEF Exact
  <2>1. CASE key[1] = a
    BY <2>1, BatchOwn
  <2>2. CASE key[1] # a
    <3>1. ASSUME NEW n \in Len(queue)..Len(queue'), n = Len(queue')
          PROVE  Present(n, key)' <=> Present(Len(queue), key)
      BY <2>2, BatchOthers
    <3>2. Present(Len(queue), key)' <=> Present(Len(queue), key)
      BY <1>2, <3>1 DEF Present
    <3> QED BY <2>2, <3>2 DEF Exact
  <2> QED BY <2>1, <2>2
<1>4. NeverBare'
  <2> SUFFICES ASSUME NEW n \in 1..Len(queue'), queue'[n].kind = "Remove"
               PROVE  \E key \in EndpointKeys : key # queue'[n].key /\ Present(n, key)'
    BY DEF NeverBare
  <2>1. n \in 1..Len(queue) /\ queue'[n] = queue[n] /\ n \in 0..Len(queue)
    <3>1. ASSUME n \notin 1..Len(queue) PROVE FALSE
      <4>1. queue'[n] = [kind |-> "Insert", key |-> <<a, n - Len(queue)>>]
        BY <1>1, <3>1
      <4> QED BY <4>1
    <3> QED BY <1>1, <3>1
  <2>2. PICK key \in EndpointKeys : key # queue[n].key /\ Present(n, key)
    BY <2>1 DEF NeverBare
  <2>3. Present(n, key)'
    BY <2>1, <2>2, BatchKeeps
  <2> QED BY <2>1, <2>2, <2>3
<1> QED BY <1>3, <1>4

(* A batch of removals, while an endpoint of another address will be there. *)
LEMMA RemoveBatch ==
    ASSUME TypeOK, Exact, NeverBare, ~dropped, NEW a \in Addrs \union {Seed},
           queue' = queue \o Batch("Remove", a), UNCHANGED <<balancer, dropped>>,
           \A key \in EndpointKeys : Expected(key)' <=> Expected(key) /\ key[1] # a,
           NEW b \in Addrs \union {Seed}, b # a, Expected(<<b, 1>>)
    PROVE  Exact' /\ NeverBare'
<1>1. /\ Len(queue) \in Nat /\ Len(queue') = Len(queue) + Pool
      /\ \A i \in 1..Len(queue) : queue'[i] = queue[i]
      /\ \A s \in Slots : queue'[Len(queue) + s] = [kind |-> "Remove", key |-> <<a, s>>]
      /\ \A i \in 1..Len(queue') : i \notin 1..Len(queue) =>
            queue'[i] = [kind |-> "Remove", key |-> <<a, i - Len(queue)>>]
  BY QueueGrows
<1>2. Len(queue') \in Len(queue)..Len(queue')
  BY <1>1, DialConstants
<1>3. Exact'
  <2> SUFFICES ASSUME ~dropped, NEW key \in EndpointKeys
               PROVE  Present(Len(queue), key)' <=> Expected(key)'
    BY DEF Exact
  <2>1. CASE key[1] = a
    BY <2>1, BatchOwn
  <2>2. CASE key[1] # a
    <3>1. ASSUME NEW n \in Len(queue)..Len(queue'), n = Len(queue')
          PROVE  Present(n, key)' <=> Present(Len(queue), key)
      BY <2>2, BatchOthers
    <3>2. Present(Len(queue), key)' <=> Present(Len(queue), key)
      BY <1>2, <3>1 DEF Present
    <3> QED BY <2>2, <3>2 DEF Exact
  <2> QED BY <2>1, <2>2
<1>4. NeverBare'
  <2> SUFFICES ASSUME NEW n \in 1..Len(queue'), queue'[n].kind = "Remove"
               PROVE  \E key \in EndpointKeys : key # queue'[n].key /\ Present(n, key)'
    BY DEF NeverBare
  <2>1. CASE n \in 1..Len(queue)
    <3>1. queue'[n] = queue[n] /\ n \in 0..Len(queue)
      BY <1>1, <2>1
    <3>2. PICK key \in EndpointKeys : key # queue[n].key /\ Present(n, key)
      BY <2>1, <3>1 DEF NeverBare
    <3>3. Present(n, key)'
      BY <3>1, <3>2, BatchKeeps
    <3> QED BY <3>1, <3>2, <3>3
  <2>2. CASE n \notin 1..Len(queue)
    <3>1. /\ queue'[n] = [kind |-> "Remove", key |-> <<a, n - Len(queue)>>]
          /\ n \in Len(queue)..Len(queue')
      BY <1>1, <2>2
    <3>2. <<b, 1>> \in EndpointKeys /\ <<b, 1>>[1] = b
      BY DialConstants DEF EndpointKeys
    <3>3. Present(Len(queue), <<b, 1>>)
      BY <3>2 DEF Exact
    <3>4. Present(n, <<b, 1>>)'
      BY <3>1, <3>2, <3>3, BatchOthers
    <3> QED BY <3>1, <3>2, <3>4
  <2> QED BY <2>1, <2>2
<1> QED BY <1>3, <1>4

(* The balancer takes a change. *)
LEMMA DrainKeeps ==
    ASSUME TypeOK, Exact, NeverBare, Drain, \A key \in EndpointKeys : Expected(key)' <=> Expected(key)
    PROVE  Exact' /\ NeverBare' /\ (balancer # {} => balancer' # {})
<1>1. /\ queue # <<>> /\ Len(queue) \in Nat \ {0} /\ Head(queue) = queue[1]
      /\ Len(queue') = Len(queue) - 1
      /\ \A i \in 1..Len(queue') : queue'[i] = queue[i + 1]
      /\ ~dropped /\ ~dropped'
  BY DEF TypeOK, Drain
<1>2. Exact'
  <2> SUFFICES ASSUME NEW key \in EndpointKeys
               PROVE  Present(Len(queue), key)' <=> Expected(key)'
    BY DEF Exact
  <2>1. ASSUME NEW n \in 0..Len(queue'), n = Len(queue')
        PROVE  Present(n, key)' <=> Present(n + 1, key)
    BY DrainShifts
  <2>2. Len(queue') \in 0..Len(queue') /\ Len(queue') + 1 = Len(queue)
    BY <1>1
  <2>3. Present(Len(queue), key)' <=> Present(Len(queue), key)
    BY <2>1, <2>2 DEF Present
  <2> QED BY <1>1, <2>3 DEF Exact
<1>3. NeverBare'
  <2> SUFFICES ASSUME NEW n \in 1..Len(queue'), queue'[n].kind = "Remove"
               PROVE  \E key \in EndpointKeys : key # queue'[n].key /\ Present(n, key)'
    BY DEF NeverBare
  <2>1. n + 1 \in 1..Len(queue) /\ queue'[n] = queue[n + 1] /\ n \in 0..Len(queue')
    BY <1>1
  <2>2. PICK key \in EndpointKeys : key # queue[n + 1].key /\ Present(n + 1, key)
    BY <2>1 DEF NeverBare
  <2>3. Present(n, key)'
    BY <2>1, <2>2, DrainShifts
  <2> QED BY <2>1, <2>2, <2>3
<1>4. balancer # {} => balancer' # {}
  <2>1. CASE queue[1].kind = "Insert"
    BY <1>1, <2>1 DEF Drain
  <2>2. CASE queue[1].kind # "Insert"
    <3>1. queue[1].kind = "Remove" /\ 1 \in 1..Len(queue)
      <4>1. 1 \in 1..Len(queue) /\ queue \in Seq(Change)
        BY <1>1 DEF TypeOK
      <4>2. queue[1] \in Change
        BY <4>1
      <4> QED BY <2>2, <4>1, <4>2 DEF Change
    <3>2. PICK key \in EndpointKeys : key # queue[1].key /\ Present(1, key)
      BY <3>1 DEF NeverBare
    <3>3. key \in balancer
      BY <3>1, <3>2 DEF Present
    <3> QED BY <1>1, <2>2, <3>2, <3>3 DEF Drain
  <2> QED BY <2>1, <2>2
<1> QED BY <1>2, <1>3, <1>4

-----------------------------------------------------------------------------
(* The call. *)
LEMMA EmptyQueue == <<>> \in Seq(Change) /\ Len(<<>>) = 0
  OBVIOUS

LEMMA DialInitInv == DialInit => DialInv
<1> SUFFICES ASSUME DialInit PROVE DialInv
  OBVIOUS
<1>1. DialTypeOK
  <2>1. TypeOK
    <3>1. queue \in Seq(Change) /\ Len(queue) <= Buffer
      BY EmptyQueue, DialConstants DEF DialInit, DiscoveryInit
    <3> QED BY <3>1 DEF DialInit, DiscoveryInit, TypeOK
  <2>2. delay \in 0..MaxBackoff /\ attempts \in Nat /\ attempt \in 0..attempts
    BY DialAssumption DEF DialInit
  <2> QED BY <2>1, <2>2 DEF DialInit, DialTypeOK
<1>2. Setup /\ Kept /\ Paced
  BY DEF DialInit, DiscoveryInit, Setup, Kept, Paced, Waiting
<1>3. Exact /\ NeverBare
  <2>1. 1..Len(queue) = {} /\ Len(queue) = 0 /\ 1..0 = {}
    BY DEF DialInit, DiscoveryInit
  <2>2. \A key \in EndpointKeys : ~Present(0, key) /\ ~Expected(key)
    BY <2>1 DEF Present, Expected, DialInit, DiscoveryInit
  <2> QED BY <2>1, <2>2 DEF Exact, NeverBare
<1> QED BY <1>1, <1>2, <1>3 DEF DialInv

(* A call that fails leaves nothing behind, at whatever point it does. *)
LEMMA FailInv ==
    ASSUME DialInv, Fail, at # "discovered" PROVE DialInv'
<1>1. DialTypeOK'
  <2>1. TypeOK'
    BY EmptyQueue, DialConstants DEF DialInv, DialTypeOK, TypeOK, Fail
  <2>2. delay' \in 0..MaxBackoff /\ attempts' \in Nat /\ attempt' \in 0..attempts'
    BY DialAssumption DEF Fail
  <2> QED BY <2>1, <2>2 DEF DialTypeOK, Fail
<1>2. Setup' /\ Kept' /\ Paced'
  BY DEF DialInv, Setup, Kept, Paced, Waiting, Fail
<1>3. Exact' /\ NeverBare'
  BY QueueGone DEF Fail
<1> QED BY <1>1, <1>2, <1>3 DEF DialInv

(* The numbers of an environment are numbers. *)
LEMMA AttemptsForIs ==
    ASSUME NEW raw \in RetriesRaw PROVE AttemptsFor(raw) \in Nat \ {0}
<1>1. raw \in Nat \/ raw \in {Unset, Invalid}
  BY DialAssumption
<1>2. EnvParsed(raw, 3) \in Nat
  BY <1>1 DEF EnvParsed
<1> QED BY <1>2 DEF AttemptsFor, AtLeastOne

(* Steps of the call that leave the channel alone. *)
LEMMA CallOnly ==
    ASSUME DialInv, UNCHANGED vars, at \notin {"insert", "discovered", "fixed", "failed"},
           at' \in Waiting \union {"build", "check"} \/ (at' = "insert" /\ lazy'),
           at' \in Waiting \union {"check"} => ~lazy',
           at' = "check" => initial' # {},
           lazy' \in BOOLEAN, attempts' \in Nat, attempt' \in 0..attempts',
           delay' \in 0..MaxBackoff, initial' \in SUBSET Addrs, Paced'
    PROVE  DialInv'
<1> USE DEF DialInv
<1>1. TypeOK' /\ DialTypeOK'
  BY DEF DialTypeOK, TypeOK, vars, Waiting
<1>2. Setup'
  BY DEF Setup, vars, Waiting
<1>3. Kept'
  BY DEF Kept, Setup, vars, Waiting
<1>4. Exact' /\ NeverBare'
  <2>1. \A key \in EndpointKeys : Expected(key)' <=> Expected(key)
    BY DEF Expected, Setup, vars, Waiting
  <2> QED BY <2>1, QueueAlone DEF vars
<1> QED BY <1>1, <1>2, <1>3, <1>4

LEMMA StartInv == DialInv /\ Start => DialInv'
<1> SUFFICES ASSUME DialInv, Start PROVE DialInv'
  OBVIOUS
<1>0. at = "idle" /\ lazy \in BOOLEAN /\ delay = 0 /\ initial \in SUBSET Addrs /\ 0 \in 0..MaxBackoff
  BY DialAssumption DEF Start, DialInv, DialTypeOK, Paced
<1>1. CASE Fail
  BY <1>0, <1>1, FailInv
<1>2. ASSUME NEW isLazy \in BOOLEAN, NEW retries \in RetriesRaw, NEW discover \in BOOLEAN,
             at' = IF discover /\ ~isLazy THEN "lookup" ELSE IF discover THEN "insert" ELSE "build",
             lazy' = isLazy, attempts' = AttemptsFor(retries), attempt' = 1,
             UNCHANGED <<vars, delay, initial>>
      PROVE  DialInv'
  <2>1. attempts' \in Nat \ {0} /\ attempt' \in 0..attempts'
    BY <1>2, AttemptsForIs
  <2>2. BackoffCurve(1) \in 0..MaxBackoff
    BY CurveBounds
  <2>3. Paced'
    <3>1. at' \in {"lookup", "insert", "build"}
      BY <1>2
    <3>2. delay' = 0 /\ attempt' = 1 /\ BackoffCurve(attempt)' = BackoffCurve(1)
      BY <1>0, <1>2 DEF BackoffCurve, Lesser
    <3> QED BY <2>2, <3>1, <3>2, DialAssumption DEF Paced, Waiting
  <2> QED BY <1>0, <1>2, <2>1, <2>3, CallOnly DEF Waiting
<1>3. PICK explicit \in BOOLEAN, isLazy \in BOOLEAN, retries \in RetriesRaw,
           refreshRaw \in RefreshRaw, poolRaw \in PoolRaw,
           target \in {"unset", "malformed", "host:port"} :
        LET refresh  == ParseDnsRefresh(refreshRaw)
            discover == explicit \/ refresh > 0
            pool     == PoolSizeFor(poolRaw)
        IN  \/ Refused(discover, refresh, pool, target) /\ Fail
            \/ /\ ~Refused(discover, refresh, pool, target) /\ pool = Pool
               /\ at' = IF discover /\ ~isLazy THEN "lookup"
                        ELSE IF discover THEN "insert" ELSE "build"
               /\ lazy' = isLazy
               /\ attempts' = AttemptsFor(retries) /\ attempt' = 1
               /\ UNCHANGED <<vars, delay, initial>>
  BY DEF Start
<1> DEFINE discover == explicit \/ ParseDnsRefresh(refreshRaw) > 0
<1>4. discover \in BOOLEAN
  OBVIOUS
<1>5. Fail \/ /\ at' = IF discover /\ ~isLazy THEN "lookup"
                       ELSE IF discover THEN "insert" ELSE "build"
              /\ lazy' = isLazy
              /\ attempts' = AttemptsFor(retries) /\ attempt' = 1
              /\ UNCHANGED <<vars, delay, initial>>
  BY <1>3
<1> HIDE DEF discover
<1> QED BY <1>1, <1>2, <1>4, <1>5

(* One more attempt, or the last error. *)
LEMMA RetryInv ==
    ASSUME DialInv, at \in {"lookup", "prewarm"}, RetryOrFail PROVE DialInv'
<1>0. /\ attempts \in Nat /\ attempt \in 0..attempts /\ attempt \in Nat /\ ~lazy
      /\ lazy \in BOOLEAN /\ initial \in SUBSET Addrs /\ attempt >= 1
  BY DEF DialInv, DialTypeOK, Setup, Paced, Waiting
<1>1. CASE attempt = attempts /\ Fail
  BY <1>1, FailInv
<1>2. CASE /\ attempt < attempts
           /\ at' = IF at = "lookup" THEN "lookupSleep" ELSE "prewarmSleep"
           /\ delay' = BackoffCurve(attempt)
           /\ UNCHANGED <<vars, lazy, attempts, attempt, initial>>
  <2>1. delay' \in 0..MaxBackoff
    BY <1>0, <1>2, CurveBounds
  <2>2. Paced'
    <3>1. BackoffCurve(attempt)' = BackoffCurve(attempt)
      BY <1>2 DEF BackoffCurve, Lesser
    <3>2. delay' <= BackoffCurve(attempt)'
      BY <1>2, <2>1, <3>1, DialAssumption
    <3>3. at' \in {"lookupSleep", "prewarmSleep"} /\ attempt' >= 1 /\ attempt' < attempts'
      BY <1>0, <1>2
    <3> QED BY <3>2, <3>3 DEF Paced
  <2> QED BY <1>0, <1>2, <2>1, <2>2, CallOnly DEF Waiting
<1> QED BY <1>1, <1>2 DEF RetryOrFail

LEMMA SleptInv == DialInv /\ Slept => DialInv'
<1> SUFFICES ASSUME DialInv, Slept PROVE DialInv'
  OBVIOUS
<1>0. /\ attempts \in Nat /\ attempt \in Nat /\ attempt + 1 \in 0..attempts /\ ~lazy
      /\ lazy \in BOOLEAN /\ initial \in SUBSET Addrs /\ delay \in 0..MaxBackoff
      /\ delay <= BackoffCurve(attempt) /\ attempt + 1 \in Nat
      /\ UNCHANGED <<vars, lazy, attempts, delay, initial>> /\ attempt' = attempt + 1
      /\ at \in {"lookupSleep", "prewarmSleep"} /\ at' \in {"lookup", "prewarm"}
  BY DEF Slept, DialInv, DialTypeOK, Setup, Paced, Waiting
<1>1. Paced'
  <2>1. BackoffCurve(attempt)' = BackoffCurve(attempt + 1)
    BY <1>0 DEF BackoffCurve, Lesser
  <2>2. /\ BackoffCurve(attempt) <= BackoffCurve(attempt + 1)
        /\ BackoffCurve(attempt) \in 0..MaxBackoff /\ BackoffCurve(attempt + 1) \in 0..MaxBackoff
    BY <1>0, CurveGrows, CurveBounds
  <2>3. delay' <= BackoffCurve(attempt)'
    BY <1>0, <2>1, <2>2, DialAssumption
  <2>4. attempt' >= 1
    BY <1>0
  <2> QED BY <1>0, <2>3, <2>4 DEF Paced
<1> QED BY <1>0, <1>1, CallOnly DEF Waiting

LEMMA FoundIs ==
    ASSUME NEW S \in SUBSET Addrs
    PROVE  PreferIpv4(S) \in SUBSET Addrs /\ (S # {} => PreferIpv4(S) # {})
  BY DEF PreferIpv4

LEMMA LookupInv == DialInv /\ InitialLookup => DialInv'
<1> SUFFICES ASSUME DialInv, InitialLookup PROVE DialInv'
  OBVIOUS
<1>1. CASE RetryOrFail
  BY <1>1, RetryInv DEF InitialLookup
<1>2. CASE /\ dns # {} /\ initial' = PreferIpv4(dns)
           /\ at' = "build" /\ attempt' = 1 /\ delay' = 0
           /\ UNCHANGED <<vars, lazy, attempts>>
  <2>1. /\ attempts \in Nat /\ 1 \in 0..attempts /\ lazy \in BOOLEAN /\ 0 \in 0..MaxBackoff
        /\ dns \in SUBSET Addrs /\ at = "lookup"
    BY DialAssumption, DiscoveryAssumption
    DEF InitialLookup, DialInv, DialTypeOK, TypeOK, Paced, Waiting
  <2>2. initial' \in SUBSET Addrs
    BY <1>2, <2>1, FoundIs
  <2>3. Paced'
    <3>1. BackoffCurve(attempt)' = BackoffCurve(1) /\ BackoffCurve(1) \in 0..MaxBackoff
      BY <1>2, CurveBounds DEF BackoffCurve, Lesser
    <3> QED BY <1>2, <3>1, DialAssumption DEF Paced, Waiting
  <2> QED BY <1>2, <2>1, <2>2, <2>3, CallOnly DEF Waiting
<1> QED BY <1>1, <1>2 DEF InitialLookup

(* connect and connect_lazy are done: the balancer holds the seeds. *)
LEMMA FixedInv ==
    ASSUME DialInv, at \in {"build", "prewarm"}, at' = "fixed", balancer' = {Seed} \X Slots,
           attempts' = 0, attempt' = 0, delay' \in {0, delay},
           UNCHANGED <<known, seed_slots, phase, found, todo, queue, dropped, dns, settled,
                       lazy, initial>>
    PROVE  DialInv'
<1> USE DEF DialInv
<1>1. DialTypeOK'
  <2>1. balancer' \in SUBSET EndpointKeys
    BY DEF EndpointKeys
  <2>2. delay' \in 0..MaxBackoff /\ attempts' \in Nat /\ attempt' \in 0..attempts'
    BY DialAssumption DEF DialTypeOK
  <2> QED BY <2>1, <2>2 DEF DialTypeOK, TypeOK
<1>2. Setup' /\ Kept' /\ Paced'
  BY DEF Setup, Kept, Paced, Waiting
<1>3. Exact' /\ NeverBare'
  <2>1. queue' = <<>> /\ phase' = "unborn"
    BY DEF Setup
  <2>2. \A key \in EndpointKeys : key \in balancer' <=> key[1] = Seed
    BY KeyParts
  <2>3. \A key \in EndpointKeys : Expected(key)' <=> key[1] = Seed
    BY <2>1 DEF Expected
  <2> QED BY <2>1, <2>2, <2>3, QueueEmpty
<1> QED BY <1>1, <1>2, <1>3

LEMMA BuildInv == DialInv /\ Build => DialInv'
<1> SUFFICES ASSUME DialInv, Build PROVE DialInv'
  OBVIOUS
<1>1. CASE MayNotBuild /\ Fail
  BY <1>1, FailInv DEF Build
<1>2. CASE /\ lazy /\ at' = "fixed" /\ balancer' = {Seed} \X Slots
           /\ attempts' = 0 /\ attempt' = 0
           /\ UNCHANGED <<known, seed_slots, phase, found, todo, queue, dropped, dns,
                          settled, lazy, delay, initial>>
  BY <1>2, FixedInv DEF Build
<1>3. CASE /\ ~lazy /\ at' = "prewarm"
           /\ UNCHANGED <<vars, lazy, attempts, attempt, delay, initial>>
  <2>1. /\ attempts \in Nat /\ attempt \in 0..attempts /\ lazy \in BOOLEAN
        /\ delay \in 0..MaxBackoff /\ initial \in SUBSET Addrs
    BY DEF DialInv, DialTypeOK
  <2>2. Paced'
    <3>1. BackoffCurve(attempt)' = BackoffCurve(attempt)
      BY <1>3 DEF BackoffCurve, Lesser
    <3> QED BY <1>3, <3>1 DEF DialInv, Paced, Waiting, Build
  <2> QED BY <1>3, <2>1, <2>2, CallOnly DEF Waiting, Build
<1> QED BY <1>1, <1>2, <1>3 DEF Build

LEMMA PrewarmInv == DialInv /\ Prewarm => DialInv'
<1> SUFFICES ASSUME DialInv, Prewarm PROVE DialInv'
  OBVIOUS
<1>1. CASE RetryOrFail
  BY <1>1, RetryInv DEF Prewarm
<1>2. CASE /\ initial = {} /\ at' = "fixed" /\ balancer' = {Seed} \X Slots
           /\ attempts' = 0 /\ attempt' = 0 /\ delay' = 0
           /\ UNCHANGED <<known, seed_slots, phase, found, todo, queue, dropped, dns,
                          settled, lazy, initial>>
  BY <1>2, FixedInv DEF Prewarm
<1>3. CASE /\ initial # {} /\ at' = "check" /\ attempts' = 0 /\ attempt' = 0 /\ delay' = 0
           /\ UNCHANGED <<vars, lazy, initial>>
  <2>1. /\ lazy \in BOOLEAN /\ ~lazy /\ initial \in SUBSET Addrs /\ 0 \in 0..MaxBackoff
    BY DialAssumption DEF DialInv, DialTypeOK, Setup, Waiting, Prewarm
  <2>2. Paced'
    BY <1>3 DEF Paced, Waiting
  <2> QED BY <1>3, <2>1, <2>2, CallOnly DEF Waiting, Prewarm
<1> QED BY <1>1, <1>2, <1>3 DEF Prewarm

-----------------------------------------------------------------------------
(* The change queue is filled, and the refresher takes over. *)
LEMMA AnswersAreFinite ==
    ASSUME NEW S \in SUBSET Addrs
    PROVE  /\ IsFiniteSet(S) /\ Cardinality(S) \in Nat
           /\ Cardinality(S) = 0 <=> S = {}
           /\ \A a \in S : Cardinality(S \ {a}) = Cardinality(S) - 1
<1>1. IsFiniteSet(S)
  BY FS_Subset, DiscoveryAssumption
<1> QED BY <1>1, FS_CardinalityType, FS_EmptySet, FS_RemoveElement

LEMMA CheckBufferInv == DialInv /\ CheckBuffer => DialInv'
<1> SUFFICES ASSUME DialInv, CheckBuffer PROVE DialInv'
  OBVIOUS
<1>1. CASE Fail
  BY <1>1, FailInv DEF CheckBuffer
<1>2. CASE /\ Cardinality(initial) * Pool <= Buffer
           /\ at' = "insert" /\ todo' = initial
           /\ UNCHANGED <<known, seed_slots, phase, found, queue, balancer, dropped,
                          dns, settled, lazy, attempts, attempt, delay, initial>>
  <2> USE DEF DialInv
  <2>1. DialTypeOK'
    BY <1>2 DEF DialTypeOK, TypeOK, Waiting
  <2>2. Setup'
    <3>1. at = "check" /\ queue = <<>> /\ initial # {} /\ ~lazy /\ ~dropped
      BY DEF CheckBuffer, Setup, Waiting
    <3>2. Len(queue)' + Cardinality(todo)' * Pool <= Buffer
      <4>1. Cardinality(initial) \in Nat
        BY AnswersAreFinite DEF DialTypeOK
      <4>2. Cardinality(initial) * Pool \in Nat
        BY <4>1, DialConstants, TimesGrows
      <4>3. Len(queue') = 0 /\ Cardinality(todo') = Cardinality(initial)
        BY <1>2, <3>1
      <4> QED BY <1>2, <4>2, <4>3
    <3> QED BY <1>2, <3>1, <3>2 DEF Setup, Waiting
  <2>3. Kept' /\ Paced'
    BY <1>2 DEF Kept, Paced, Setup, Waiting, CheckBuffer
  <2>4. Exact' /\ NeverBare'
    <3>1. \A key \in EndpointKeys : Expected(key)' <=> Expected(key)
      BY <1>2 DEF Expected, Setup, CheckBuffer
    <3> QED BY <1>2, <3>1, QueueAlone
  <2> QED BY <2>1, <2>2, <2>3, <2>4
<1> QED BY <1>1, <1>2 DEF CheckBuffer

LEMMA InsertInitialInv ==
    ASSUME DialInv, NEW a \in Addrs, InsertInitial(a) PROVE DialInv'
<1>1. CASE Fail
  BY <1>1, FailInv DEF InsertInitial
<1>2. CASE /\ queue' = queue \o Batch("Insert", a) /\ todo' = todo \ {a}
           /\ UNCHANGED <<known, seed_slots, phase, found, balancer, dropped, dns,
                          settled, dialVars>>
  <2> USE DEF DialInv
  <2>0. /\ at = "insert" /\ ~lazy /\ a \in todo /\ todo \in SUBSET Addrs /\ TypeOK
        /\ initial # {} /\ todo \subseteq initial /\ phase = "unborn" /\ ~dropped
        /\ Len(queue) + Cardinality(todo) * Pool <= Buffer
    BY DEF InsertInitial, Setup, DialTypeOK, TypeOK
  <2>1. /\ queue' \in Seq(Change) /\ Len(queue) \in Nat /\ Len(queue') = Len(queue) + Pool
    BY <1>2, <2>0, QueueGrows
  <2>2. Len(queue') + Cardinality(todo') * Pool <= Buffer /\ Len(queue') <= Buffer
    <3>1. Cardinality(todo) \in Nat /\ Cardinality(todo') = Cardinality(todo) - 1
      BY <1>2, <2>0, AnswersAreFinite
    <3>2. Cardinality(todo') \in Nat
      BY <1>2, <2>0, AnswersAreFinite
    <3>3. Cardinality(todo) * Pool = Cardinality(todo') * Pool + Pool
      BY <3>1, <3>2, DialConstants
    <3>4. Cardinality(todo') * Pool \in Nat
      BY <3>2, DialConstants, TimesGrows
    <3> QED BY <2>0, <2>1, <3>3, <3>4, DialConstants
  <2>3. DialTypeOK'
    BY <1>2, <2>0, <2>1, <2>2 DEF DialTypeOK, TypeOK, dialVars
  <2>4. Setup'
    BY <1>2, <2>0, <2>2 DEF Setup, dialVars, Waiting
  <2>5. Kept' /\ Paced'
    <3>1. BackoffCurve(attempt)' = BackoffCurve(attempt)
      BY <1>2 DEF BackoffCurve, Lesser, dialVars
    <3> QED BY <1>2, <2>0, <3>1 DEF Kept, Paced, dialVars, Waiting
  <2>6. Exact' /\ NeverBare'
    <3>1. \A key \in EndpointKeys : Expected(key)' <=> Expected(key) \/ key[1] = a
      BY <1>2, <2>0 DEF Expected, dialVars
    <3> QED BY <1>2, <2>0, <3>1, InsertBatch
  <2> QED BY <2>3, <2>4, <2>5, <2>6
<1> QED BY <1>1, <1>2 DEF InsertInitial

LEMMA SpawnInv == DialInv /\ Spawn => DialInv'
<1> SUFFICES ASSUME DialInv, Spawn PROVE DialInv'
  OBVIOUS
<1> USE DEF DialInv
<1>0. /\ at = "insert" /\ ~lazy /\ todo = {} /\ initial # {} /\ initial \in SUBSET Addrs
      /\ phase = "unborn" /\ known = {} /\ seed_slots = 0 /\ ~dropped
  BY DEF Spawn, Setup, DialTypeOK
<1>1. DialTypeOK'
  BY <1>0 DEF DialTypeOK, TypeOK, Spawn
<1>2. Setup' /\ Kept' /\ Paced'
  BY <1>0 DEF Setup, Kept, Paced, Spawn, Waiting
<1>3. Exact' /\ NeverBare'
  <2>1. \A key \in EndpointKeys : Expected(key)' <=> Expected(key)
    BY <1>0 DEF Expected, Spawn
  <2> QED BY <2>1, QueueAlone DEF Spawn
<1> QED BY <1>1, <1>2, <1>3

LEMMA SpawnLazyInv == DialInv /\ SpawnLazy => DialInv'
<1> SUFFICES ASSUME DialInv, SpawnLazy PROVE DialInv'
  OBVIOUS
<1>1. CASE Fail
  BY <1>1, FailInv DEF SpawnLazy
<1>2. CASE /\ queue' = Batch("Insert", Seed) /\ seed_slots' = Pool
           /\ phase' = "sleep" /\ at' = "discovered"
           /\ lazy' = FALSE /\ attempts' = 0 /\ attempt' = 0
           /\ UNCHANGED <<known, found, todo, balancer, dropped, dns, settled, delay,
                          initial>>
  <2> USE DEF DialInv
  <2>0. /\ at = "insert" /\ lazy /\ todo = {} /\ queue = <<>> /\ phase = "unborn"
        /\ known = {} /\ seed_slots = 0 /\ ~dropped /\ TypeOK
    BY DEF SpawnLazy, Setup, DialTypeOK
  <2>1. queue' \in Seq(Change) /\ Len(queue') <= Buffer
    BY <1>2, BatchIs, DialConstants
  <2>2. DialTypeOK'
    <3>1. TypeOK'
      BY <1>2, <2>0, <2>1 DEF TypeOK
    <3>2. attempts' \in Nat /\ attempt' \in 0..attempts'
      BY <1>2
    <3> QED BY <1>2, <3>1, <3>2 DEF DialTypeOK
  <2>3. Setup' /\ Kept' /\ Paced'
    BY <1>2, <2>0, DialConstants DEF Setup, Kept, Paced, Waiting
  <2>4. Exact' /\ NeverBare'
    <3>1. queue' = queue \o Batch("Insert", Seed)
      BY <1>2, <2>0, BatchIs, ConcatEmptySeq
    <3>2. \A key \in EndpointKeys : Expected(key)' <=> Expected(key) \/ key[1] = Seed
      BY <1>2, <2>0, DialConstants DEF Expected
    <3> QED BY <1>2, <2>0, <3>1, <3>2, InsertBatch
  <2> QED BY <2>2, <2>3, <2>4
<1> QED BY <1>1, <1>2 DEF SpawnLazy

-----------------------------------------------------------------------------
(* The refresher. *)

(* It runs on a channel that was handed out; the call is over then. *)
LEMMA RefresherOnly ==
    ASSUME DialInv, phase # "unborn", phase' # "unborn", UNCHANGED dialVars,
           TypeOK', Kept', Exact', NeverBare', dropped' => queue' = <<>>
    PROVE  DialInv'
<1> USE DEF DialInv
<1>1. at = "discovered"
  BY DEF Setup
<1>2. DialTypeOK'
  BY DEF DialTypeOK, dialVars
<1>3. Setup' /\ Paced'
  BY <1>1 DEF Setup, Paced, dialVars, Waiting
<1> QED BY <1>2, <1>3

(* Steps that leave the queue and what it was filled from alone. *)
LEMMA QuietRefresh ==
    ASSUME DialInv, phase # "unborn", UNCHANGED dialVars,
           UNCHANGED <<known, seed_slots, queue, balancer, dropped, dns, settled>>,
           phase' \in {"sleep", "lookup", "insert", "remove", "seeds", "returned"},
           found' \in SUBSET Addrs, todo' \in SUBSET Addrs,
           phase' = "remove" /\ todo' # {} => todo' \subseteq known /\ known \ todo' # {}
    PROVE  DialInv'
<1> USE DEF DialInv
<1>1. TypeOK'
  BY DEF DialTypeOK, TypeOK
<1>2. Kept'
  BY DEF Kept, Setup, dialVars
<1>3. Exact' /\ NeverBare'
  <2>1. \A key \in EndpointKeys : Expected(key)' <=> Expected(key)
    BY DEF Expected, dialVars
  <2> QED BY <2>1, QueueAlone
<1>4. dropped' => queue' = <<>>
  BY DEF Setup
<1> QED BY <1>1, <1>2, <1>3, <1>4, RefresherOnly

(* A full queue ends the tick, a closed one the task. *)
LEMMA SendFailsInv ==
    ASSUME DialInv, phase # "unborn", UNCHANGED dialVars, SendFails,
           UNCHANGED <<known, balancer, dropped, dns, settled>>
    PROVE  DialInv'
  BY QuietRefresh DEF SendFails

(* The guard of the removals leaves an address. *)
LEMMA RemovableLeaves ==
    ASSUME known \in SUBSET Addrs
    PROVE  Removable \in SUBSET known /\ (Removable # {} => known \ Removable # {})
<1>1. Gone(known, found) \in SUBSET known
  BY DEF Gone
<1>2. ASSUME Cardinality(known) > Cardinality(Gone(known, found)), known \ Gone(known, found) = {}
      PROVE FALSE
  <2>1. known = Gone(known, found)
    BY <1>1, <1>2
  <2>2. Cardinality(known) \in Nat
    BY AnswersAreFinite
  <2> QED BY <1>2, <2>1, <2>2
<1> QED BY <1>1, <1>2 DEF Removable

LEMMA InsertInv ==
    ASSUME DialInv, UNCHANGED dialVars, NEW a \in Addrs, Insert(a) PROVE DialInv'
<1> USE DEF DialInv
<1>0. phase = "insert" /\ a \in todo
  BY DEF Insert
<1>1. CASE SendFails /\ UNCHANGED known
  BY <1>0, <1>1, SendFailsInv DEF Insert
<1>2. CASE /\ Send("Insert", a) /\ known' = known \union {a} /\ todo' = todo \ {a}
           /\ UNCHANGED <<seed_slots, phase, found>>
  <2>0. /\ TypeOK /\ queue' = queue \o Batch("Insert", a) /\ Room /\ ~dropped
        /\ UNCHANGED <<balancer, dropped, dns, settled>>
    BY <1>2 DEF Insert, Send, DialTypeOK
  <2>1. queue' \in Seq(Change) /\ Len(queue') <= Buffer
    BY <2>0, QueueGrows DEF Room
  <2>2. TypeOK'
    BY <1>2, <2>0, <2>1 DEF TypeOK
  <2>3. Kept'
    BY <1>0, <1>2, <2>0 DEF Kept, dialVars
  <2>4. Exact' /\ NeverBare'
    <3>1. \A key \in EndpointKeys : Expected(key)' <=> Expected(key) \/ key[1] = a
      BY <1>0, <1>2 DEF Expected, dialVars
    <3> QED BY <2>0, <3>1, InsertBatch
  <2> QED BY <1>0, <1>2, <2>0, <2>2, <2>3, <2>4, RefresherOnly
<1> QED BY <1>1, <1>2 DEF Insert

LEMMA RemoveInv ==
    ASSUME DialInv, UNCHANGED dialVars, NEW a \in Addrs, Remove(a) PROVE DialInv'
<1> USE DEF DialInv
<1>0. phase = "remove" /\ a \in todo /\ todo \subseteq known /\ known \ todo # {}
  BY DEF Remove, Kept
<1>1. CASE SendFails /\ UNCHANGED known
  BY <1>0, <1>1, SendFailsInv DEF Remove
<1>2. CASE /\ Send("Remove", a) /\ known' = known \ {a} /\ todo' = todo \ {a}
           /\ UNCHANGED <<seed_slots, phase, found>>
  <2>0. /\ TypeOK /\ queue' = queue \o Batch("Remove", a) /\ Room /\ ~dropped
        /\ UNCHANGED <<balancer, dropped, dns, settled>>
    BY <1>2 DEF Remove, Send, DialTypeOK
  <2>1. queue' \in Seq(Change) /\ Len(queue') <= Buffer
    BY <2>0, QueueGrows DEF Room
  <2>2. TypeOK'
    BY <1>2, <2>0, <2>1 DEF TypeOK
  <2>3. PICK b \in known : b \notin todo
    BY <1>0
  <2>4. b \in Addrs /\ b # a /\ b \in known'
    BY <1>0, <1>2, <2>0, <2>3 DEF TypeOK
  <2>5. Kept'
    BY <1>0, <1>2, <2>0, <2>3, <2>4 DEF Kept, dialVars
  <2>6. Exact' /\ NeverBare'
    <3>1. \A key \in EndpointKeys : Expected(key)' <=> Expected(key) /\ key[1] # a
      BY <1>0, <1>2, DialConstants DEF Expected, dialVars
    <3>2. Expected(<<b, 1>>)
      BY <1>0, <2>3 DEF Expected
    <3> QED BY <2>0, <2>4, <3>1, <3>2, RemoveBatch
  <2> QED BY <1>0, <1>2, <2>0, <2>2, <2>5, <2>6, RefresherOnly
<1> QED BY <1>1, <1>2 DEF Remove

LEMMA RemoveSeedsInv ==
    ASSUME DialInv, UNCHANGED dialVars, RemoveSeeds PROVE DialInv'
<1> USE DEF DialInv
<1>0. /\ phase = "seeds" /\ TypeOK
      /\ UNCHANGED <<known, balancer, dropped, dns, settled>>
  BY DEF RemoveSeeds, DialTypeOK
<1>1. CASE SendFails
  BY <1>0, <1>1, SendFailsInv
<1>2. CASE phase' = "sleep" /\ found' = {} /\ UNCHANGED <<seed_slots, todo, queue>>
  BY <1>0, <1>2, QuietRefresh DEF TypeOK
<1>3. CASE /\ seed_slots > 0 /\ known # {} /\ Send("Remove", Seed)
           /\ seed_slots' = 0 /\ phase' = "sleep" /\ found' = {} /\ UNCHANGED todo
  <2>0. queue' = queue \o Batch("Remove", Seed) /\ Room /\ ~dropped
    BY <1>3 DEF Send
  <2>1. queue' \in Seq(Change) /\ Len(queue') <= Buffer
    BY <1>0, <2>0, QueueGrows DEF Room
  <2>2. TypeOK'
    BY <1>0, <1>3, <2>0, <2>1 DEF TypeOK
  <2>3. PICK b \in known : TRUE
    BY <1>3
  <2>4. b \in Addrs /\ b # Seed
    BY <1>0, <2>3, DialConstants DEF TypeOK
  <2>5. Kept'
    BY <1>0, <1>3 DEF Kept
  <2>6. Exact' /\ NeverBare'
    <3>1. \A key \in EndpointKeys : Expected(key)' <=> Expected(key) /\ key[1] # Seed
      BY <1>0, <1>3, DialConstants DEF Expected, dialVars, TypeOK
    <3>2. Expected(<<b, 1>>)
      BY <1>0, <2>3 DEF Expected
    <3> QED BY <1>0, <2>0, <2>4, <3>1, <3>2, RemoveBatch
  <2> QED BY <1>0, <1>3, <2>0, <2>2, <2>5, <2>6, RefresherOnly
<1> QED BY <1>1, <1>2, <1>3 DEF RemoveSeeds

LEMMA RefreshInv ==
    ASSUME DialInv, UNCHANGED dialVars, Refresh \/ Quit PROVE DialInv'
<1>0. TypeOK /\ Kept
  BY DEF DialInv, DialTypeOK
<1>1. CASE Wake \/ Quit \/ LookupFails \/ RemovesDone
  BY <1>0, <1>1, QuietRefresh DEF Wake, Quit, LookupFails, RemovesDone, TypeOK
<1>2. CASE Lookup
  <2>1. dns \in SUBSET Addrs
    BY <1>0, DiscoveryAssumption DEF TypeOK
  <2>2. found' \in SUBSET Addrs
    BY <1>2, <2>1, FoundIs DEF Lookup
  <2>3. todo' \in SUBSET Addrs
    BY <1>2, <2>2 DEF Lookup, Added
  <2> QED BY <1>2, <2>2, <2>3, QuietRefresh DEF Lookup
<1>3. CASE \E a \in Addrs : BuildFails(a)
  <2>1. PICK a \in Addrs : BuildFails(a)
    BY <1>3
  <2> QED BY <1>0, <2>1, QuietRefresh DEF BuildFails, TypeOK
<1>4. CASE \E a \in Addrs : Insert(a)
  BY <1>4, InsertInv
<1>5. CASE \E a \in Addrs : Remove(a)
  BY <1>5, RemoveInv
<1>6. CASE InsertsDone
  <2>1. todo' \in SUBSET known /\ (todo' # {} => known \ todo' # {})
    BY <1>0, <1>6, RemovableLeaves DEF InsertsDone, TypeOK
  <2> QED BY <1>0, <1>6, <2>1, QuietRefresh DEF InsertsDone, TypeOK
<1>7. CASE RemoveSeeds
  BY <1>7, RemoveSeedsInv
<1> QED BY <1>1, <1>2, <1>3, <1>4, <1>5, <1>6, <1>7 DEF Refresh

-----------------------------------------------------------------------------
(* The balancer, DNS and the caller. *)

LEMMA DrainInv ==
    ASSUME DialInv, UNCHANGED dialVars, Drain PROVE DialInv'
<1> USE DEF DialInv
<1>0. /\ TypeOK /\ ~dropped /\ queue # <<>> /\ queue \in Seq(Change)
      /\ UNCHANGED <<known, seed_slots, phase, found, todo, dropped, dns, settled>>
      /\ queue' = Tail(queue)
  BY DEF Drain, DialTypeOK, TypeOK
<1>1. queue' \in Seq(Change) /\ Len(queue') = Len(queue) - 1 /\ Len(queue) \in Nat
  BY <1>0
<1>2. TypeOK'
  <2>1. balancer' \in SUBSET EndpointKeys
    <3>1. Head(queue) \in Change
      BY <1>0
    <3>2. Head(queue).key \in EndpointKeys
      BY <3>1 DEF Change
    <3> QED BY <1>0, <3>2 DEF Drain, TypeOK
  <2>2. Len(queue') <= Buffer
    BY <1>0, <1>1, DialConstants DEF TypeOK
  <2> QED BY <1>0, <1>1, <2>1, <2>2 DEF TypeOK
<1>3. DialTypeOK'
  BY <1>2 DEF DialTypeOK, dialVars
<1>4. Setup'
  <2>1. Cardinality(todo') = Cardinality(todo)
    BY <1>0
  <2>2. Cardinality(todo) * Pool \in Nat
    BY <1>0, AnswersAreFinite, DialConstants, TimesGrows DEF TypeOK
  <2>3. Len(queue) + Cardinality(todo) * Pool <= Buffer =>
            Len(queue') + Cardinality(todo') * Pool <= Buffer
    BY <1>1, <2>1, <2>2, DialConstants
  <2> QED BY <1>0, <2>3 DEF Setup, dialVars
<1>5. Kept' /\ Paced'
  BY <1>0 DEF Kept, Paced, BackoffCurve, Lesser, dialVars
<1>6. Exact' /\ NeverBare'
  <2>1. \A key \in EndpointKeys : Expected(key)' <=> Expected(key)
    BY <1>0 DEF Expected, dialVars
  <2> QED BY <1>0, <2>1, DrainKeeps
<1> QED BY <1>3, <1>4, <1>5, <1>6

(* Everything but the answer of DNS stays. *)
LEMMA WorldOnly ==
    ASSUME DialInv, UNCHANGED <<known, seed_slots, phase, found, todo, queue, balancer,
                                dropped, dialVars>>,
           dns' \in Answers, settled' \in BOOLEAN
    PROVE  DialInv'
<1> USE DEF DialInv
<1>1. DialTypeOK'
  BY DEF DialTypeOK, TypeOK, dialVars
<1>2. Setup'
  BY DEF Setup, dialVars
<1>3. Kept' /\ Paced'
  BY DEF Kept, Paced, BackoffCurve, Lesser, dialVars
<1>4. Exact' /\ NeverBare'
  <2>1. \A key \in EndpointKeys : Expected(key)' <=> Expected(key)
    BY DEF Expected, dialVars
  <2> QED BY <2>1, QueueAlone
<1> QED BY <1>1, <1>2, <1>3, <1>4

LEMMA DropChannelInv ==
    ASSUME DialInv, InUse, DropChannel, UNCHANGED dialVars PROVE DialInv'
<1> USE DEF DialInv
<1>1. DialTypeOK'
  <2>1. queue' \in Seq(Change) /\ Len(queue') <= Buffer
    BY EmptyQueue, DialConstants DEF DropChannel
  <2> QED BY <2>1 DEF DialTypeOK, TypeOK, DropChannel, dialVars
<1>2. Setup'
  BY DEF Setup, DropChannel, InUse, dialVars
<1>3. Kept' /\ Paced'
  BY DEF Kept, Paced, Waiting, InUse, DropChannel, dialVars
<1>4. Exact' /\ NeverBare'
  BY QueueGone DEF DropChannel
<1> QED BY <1>1, <1>2, <1>3, <1>4

LEMMA DialStep == DialInv /\ [DialNext]_allVars => DialInv'
<1> SUFFICES ASSUME DialInv, [DialNext]_allVars PROVE DialInv'
  OBVIOUS
<1>1. CASE Start
  BY <1>1, StartInv
<1>2. CASE Abandon
  BY <1>2, FailInv DEF Abandon, Waiting
<1>3. CASE Dial
  <2>1. CASE \E a \in Addrs : InsertInitial(a)
    BY <2>1, InsertInitialInv
  <2> QED BY <1>3, <2>1, LookupInv, SleptInv, BuildInv, PrewarmInv, CheckBufferInv,
             SpawnInv, SpawnLazyInv DEF Dial, Polled
<1>4. CASE (Refresh \/ Quit) /\ UNCHANGED dialVars
  BY <1>4, RefreshInv
<1>5. CASE Drain /\ UNCHANGED dialVars
  BY <1>5, DrainInv
<1>6. CASE (DnsChanges \/ Settle) /\ UNCHANGED dialVars
  BY <1>6, WorldOnly DEF DnsChanges, Settle, DialInv, DialTypeOK, TypeOK
<1>7. CASE InUse /\ DropChannel /\ UNCHANGED dialVars
  BY <1>7, DropChannelInv
<1>8. CASE UNCHANGED allVars
  BY <1>8, WorldOnly DEF allVars, vars, DialInv, DialTypeOK, TypeOK
<1> QED BY <1>1, <1>2, <1>3, <1>4, <1>5, <1>6, <1>7, <1>8 DEF DialNext, Over

THEOREM DialInvariant == DialSpec => []DialInv
<1>1. DialInit => DialInv
  BY DialInitInv
<1>2. DialInv /\ [DialNext]_allVars => DialInv'
  BY DialStep
<1> QED BY <1>1, <1>2, PTL DEF DialSpec

-----------------------------------------------------------------------------
(* Type correctness of GrpcClientFactory and the refresher: the change queue is  *)
(* never longer than DISCOVERY_BUFFER and no pause exceeds the maximal backoff.  *)
THEOREM DialTypes == DialSpec => []DialTypeOK
<1>1. DialInv => DialTypeOK
  BY DEF DialInv
<1> QED BY <1>1, DialInvariant, PTL

(* Refresher::known is what was queued, in whole pools: the drained balancer     *)
(* holds exactly the slots of the known addresses and, while they are counted,   *)
(* the seeds, whatever the lookups, full queues and failed builds were.          *)
THEOREM DialQueuedIsKnown == DialSpec => []QueuedIsKnown
<1>1. DialInv => QueuedIsKnown
  BY DrainedIsPresent DEF DialInv, DialTypeOK, Exact, Expected, QueuedIsKnown
<1> QED BY <1>1, DialInvariant, PTL

(* A channel that connect, connect_lazy or the connect_discovered pair hands out  *)
(* has or will have an endpoint, setting it up never meets a full queue, and a    *)
(* call that failed or was dropped leaves neither a task nor a queue.             *)
THEOREM DialHandedOutUsable == DialSpec => []HandedOutUsable
<1>1. DialInv => HandedOutUsable
  <2> SUFFICES ASSUME DialInv PROVE HandedOutUsable
    OBVIOUS
  <2> USE DEF DialInv
  <2>1. ASSUME InUse, ~dropped PROVE \E key \in EndpointKeys : WhenDrained(key)
    <3>1. PICK a \in Addrs \union {Seed} : Expected(<<a, 1>>)
      <4>1. CASE at = "fixed"
        BY <4>1 DEF Expected, Setup
      <4>2. CASE at = "discovered"
        BY <4>2 DEF Expected, Setup, Kept, DialTypeOK, TypeOK
      <4> QED BY <2>1, <4>1, <4>2 DEF InUse
    <3>2. <<a, 1>> \in EndpointKeys
      BY DialConstants DEF EndpointKeys
    <3> QED BY <2>1, <3>1, <3>2, DrainedIsPresent DEF Exact, DialTypeOK
  <2>2. ASSUME at = "insert", todo # {} PROVE Room
    <3>1. Len(queue) + Cardinality(todo) * Pool <= Buffer /\ todo \in SUBSET Addrs
      BY <2>2 DEF Setup, DialTypeOK, TypeOK
    <3>2. Cardinality(todo) \in Nat /\ Cardinality(todo) >= 1
      BY <2>2, <3>1, AnswersAreFinite
    <3>3. 1 * Pool <= Cardinality(todo) * Pool
      BY <3>2, DialConstants, TimesGrows
    <3>4. Len(queue) \in Nat /\ Cardinality(todo) * Pool \in Nat
      BY <3>2, TimesGrows, DialConstants DEF DialTypeOK, TypeOK
    <3> QED BY <3>1, <3>3, <3>4, DialConstants DEF Room
  <2>3. at = "failed" => phase = "unborn" /\ queue = <<>>
    BY DEF Setup
  <2> QED BY <2>1, <2>2, <2>3 DEF HandedOutUsable
<1> QED BY <1>1, DialInvariant, PTL

(* Once the balancer has an endpoint it always has one, at every point the queue   *)
(* can be drained to: Refresher::apply queues no removal that would empty it.      *)
THEOREM DialNeverEmptied == DialSpec => NeverEmptied
<1>1. ASSUME DialInv, [DialNext]_allVars PROVE [balancer # {} => balancer' # {}]_vars
  <2>1. CASE UNCHANGED balancer
    BY <2>1
  <2>2. CASE balancer' = {Seed} \X Slots
    <3>1. <<Seed, 1>> \in balancer'
      BY <2>2, DialConstants
    <3> QED BY <3>1
  <2>3. CASE Drain /\ UNCHANGED dialVars
    <3>1. \A key \in EndpointKeys : Expected(key)' <=> Expected(key)
      BY <2>3 DEF Drain, dialVars, Expected
    <3> QED BY <1>1, <2>3, <3>1, DrainKeeps DEF DialInv, DialTypeOK
  <2>4. ASSUME Start \/ Abandon PROVE UNCHANGED balancer
    BY <2>4 DEF Start, Abandon, Fail, vars
  <2>5. ASSUME Dial PROVE UNCHANGED balancer \/ balancer' = {Seed} \X Slots
    BY <2>5 DEF Dial, Polled, InitialLookup, Slept, Build, Prewarm, CheckBuffer, InsertInitial,
                Spawn, SpawnLazy, RetryOrFail, Fail, vars
  <2>6. ASSUME Refresh \/ Quit \/ DnsChanges \/ Settle \/ DropChannel PROVE UNCHANGED balancer
    BY <2>6 DEF Refresh, Quit, DnsChanges, Settle, DropChannel, Wake, Lookup, LookupFails,
                BuildFails, Insert, Remove, InsertsDone, RemovesDone, RemoveSeeds
  <2>7. ASSUME UNCHANGED allVars PROVE UNCHANGED balancer
    BY <2>7 DEF allVars, vars
  <2> QED BY <1>1, <2>1, <2>2, <2>3, <2>4, <2>5, <2>6, <2>7 DEF DialNext, Over
<1> QED BY <1>1, DialInvariant, PTL DEF DialSpec, NeverEmptied

(* backoff_curve never makes a later pause of initial_lookup or prewarm shorter,    *)
(* also where the square of the attempt or the product saturates.                  *)
THEOREM DialBackoffGrows == DialSpec => BackoffGrows
<1>1. ASSUME DialInv, [DialNext]_allVars
      PROVE  [at' \in {"lookupSleep", "prewarmSleep"} => delay' >= delay]_allVars
  <2> SUFFICES ASSUME at' \in {"lookupSleep", "prewarmSleep"}, DialNext PROVE delay' >= delay
    BY <1>1
  <2>0. delay \in Nat
    BY <1>1, DialAssumption DEF DialInv, DialTypeOK
  <2>1. CASE UNCHANGED delay
    BY <2>0, <2>1
  <2>2. CASE RetryOrFail /\ at \in {"lookup", "prewarm"}
    <3>1. attempt \in Nat /\ delay <= BackoffCurve(attempt)
      BY <1>1, <2>2 DEF DialInv, DialTypeOK, Paced, Waiting
    <3>2. BackoffCurve(attempt) \in Nat
      BY <3>1, CurveBounds, DialAssumption
    <3>3. delay' = BackoffCurve(attempt)
      BY <2>2 DEF RetryOrFail, Fail
    <3> QED BY <2>0, <3>1, <3>2, <3>3
  <2>3. ASSUME Start \/ Abandon PROVE UNCHANGED delay
    BY <2>3 DEF Start, Abandon, Fail
  <2>4. ASSUME Dial PROVE UNCHANGED delay \/ (RetryOrFail /\ at \in {"lookup", "prewarm"})
    BY <2>4 DEF Dial, Polled, InitialLookup, Slept, Build, Prewarm, CheckBuffer, InsertInitial,
                Spawn, SpawnLazy, Fail, dialVars
  <2>5. ASSUME UNCHANGED dialVars PROVE UNCHANGED delay
    BY <2>5 DEF dialVars
  <2> QED BY <2>1, <2>2, <2>3, <2>4, <2>5 DEF DialNext, Over, allVars
<1> QED BY <1>1, DialInvariant, PTL DEF DialSpec, BackoffGrows
=============================================================================
