------------------------------ MODULE AuthGate ------------------------------
(***************************************************************************)
(* The middlewares revoke_token and verify_csrf of pc-auth, in the order in     *)
(* which a service layers them.  Each looks at the headers, awaits one GET on   *)
(* Redis (RedisPool::get of pc-redis) and passes the request on or answers it.   *)
(*                                                                         *)
(* While a request waits, sessions end, tokens expire, merchants are revoked    *)
(* and reinstated, and Redis fails.  The server the requests come to is in       *)
(* HttpServer.                                                                *)
(***************************************************************************)
EXTENDS Integers, Sequences, FiniteSets

CONSTANTS Reqs,
          Merchants,
          Statuses,   \* what a revoke record can hold
          Unreadable, \* a record that is no JSON of the right shape
          Absent,     \* no record
          Chain,      \* the middlewares, outermost first
          Connections \* the pool of connections to Redis holds that many

(* The constructors of ResponseApi (pc-http): the code in the body, which            *)
(* into_response makes the status of the response too.                            *)
ResponseApi ==
    [success |-> 200, accepted |-> 202, bad_request |-> 400, unauthorized |-> 401,
     internal_error |-> 500]

(* REVOKED_STATUSES *)
Revoked == {3, 4, 7}

ASSUME AuthAssumption ==
    /\ Statuses \subseteq Int
    /\ Unreadable \notin Int /\ Absent \notin Int /\ Unreadable # Absent
    /\ Chain \in Seq({"revoke", "csrf"}) /\ Len(Chain) > 0
    /\ Connections \in Nat \ {0}

VARIABLES record,    \* the revoke record of each merchant in Redis
          session,   \* requests whose CSRF token is in Redis
          bearer,    \* their bearer tokens: "good", or expired or otherwise "bad"
          merchant,  \* and the merchant those name
          pc,        \* "idle", "gate", "checkout", "get", "run" or "done"
          pos,       \* the middleware the request is in
          reply,     \* the status answered by a middleware, 0 if none
          always,    \* what has spoken against a request under way since it came
          ever,      \* what has spoken against it at some time since it came; this is
                     \* kept with its answer
          broken     \* Redis failed it

authVars == <<record, session, bearer, merchant, pc, pos, reply, always, ever, broken>>
world == <<record, session, bearer, merchant>>

Faults == {"csrf", "bearer", "revoked", "unreadable"}
Tokens == {"good", "bad"}

AuthTypeOK ==
    /\ record \in [Merchants -> Statuses \union {Unreadable, Absent}]
    /\ session \in SUBSET Reqs
    /\ bearer \in [Reqs -> Tokens]
    /\ merchant \in [Reqs -> Merchants]
    /\ pc \in [Reqs -> {"idle", "gate", "checkout", "get", "run", "done"}]
    /\ pos \in [Reqs -> 1..Len(Chain)]
    /\ reply \in [Reqs -> {0, 400, 401, 500}]
    /\ always \in [Reqs -> SUBSET Faults]
    /\ ever \in [Reqs -> SUBSET Faults]
    /\ broken \in [Reqs -> BOOLEAN]

(* What speaks against a request at this moment. *)
Against(r) ==
    {f \in Faults :
        \/ f = "csrf" /\ r \notin session
        \/ f = "bearer" /\ bearer[r] # "good"
        \/ f = "revoked" /\ record[merchant[r]] \in Revoked
        \/ f = "unreadable" /\ record[merchant[r]] = Unreadable}

AuthInit ==
    /\ record = [m \in Merchants |-> Absent]
    /\ session \in SUBSET Reqs
    /\ bearer \in [Reqs -> Tokens]
    /\ merchant \in [Reqs -> Merchants]
    /\ pc = [r \in Reqs |-> "idle"]
    /\ pos = [r \in Reqs |-> 1]
    /\ reply = [r \in Reqs |-> 0]
    /\ always = [r \in Reqs |-> {}]
    /\ ever = [r \in Reqs |-> {}]
    /\ broken = [r \in Reqs |-> FALSE]

-----------------------------------------------------------------------------
(* The middleware answers: the request is over. *)
Answer(r, how) ==
    /\ pc' = [pc EXCEPT ![r] = "done"]
    /\ reply' = [reply EXCEPT ![r] = ResponseApi[how]]
    /\ pos' = [pos EXCEPT ![r] = 1]
    /\ always' = [always EXCEPT ![r] = {}]

(* next.run: the next middleware, or the handler. *)
Pass(r) ==
    \/ /\ pos[r] < Len(Chain)
       /\ pos' = [pos EXCEPT ![r] = @ + 1]
       /\ pc' = [pc EXCEPT ![r] = "gate"]
       /\ UNCHANGED <<reply, always>>
    \/ /\ pos[r] = Len(Chain)
       /\ pc' = [pc EXCEPT ![r] = "run"]
       /\ UNCHANGED <<pos, reply, always>>

Await(r) == pc' = [pc EXCEPT ![r] = "checkout"] /\ UNCHANGED <<pos, reply, always>>

(* A request reaches the first middleware. *)
Arrive(r) ==
    /\ pc[r] = "idle"
    /\ pc' = [pc EXCEPT ![r] = "gate"]
    /\ always' = [always EXCEPT ![r] = Against(r)]
    /\ ever' = [ever EXCEPT ![r] = Against(r)]
    /\ UNCHANGED <<world, pos, reply, broken>>

(* revoke_token up to its await: the type of the token, its signature, its expiry   *)
(* and its merchant.                                                             *)
RevokeGate(r) ==
    /\ pc[r] = "gate" /\ Chain[pos[r]] = "revoke"
    /\ IF bearer[r] = "good" THEN Await(r) ELSE Answer(r, "unauthorized")
    /\ UNCHANGED <<world, ever, broken>>

(* verify_csrf up to its await: a malformed header is refused with 400. *)
CsrfGate(r) ==
    /\ pc[r] = "gate" /\ Chain[pos[r]] = "csrf"
    /\ Await(r) \/ (r \notin session /\ Answer(r, "bad_request"))
    /\ UNCHANGED <<world, ever, broken>>

(* RedisPool::get: the pool has a connection to spare and hands it out; whoever    *)
(* waits for an answer holds one.                                                *)
Checkout(r) ==
    /\ pc[r] = "checkout" /\ Cardinality({q \in Reqs : pc[q] = "get"}) < Connections
    /\ pc' = [pc EXCEPT ![r] = "get"]
    /\ UNCHANGED <<world, pos, reply, always, ever, broken>>

(* revoke_token: the GET answers. *)
RevokeGet(r) ==
    LET found == record[merchant[r]] IN
    /\ pc[r] = "get" /\ Chain[pos[r]] = "revoke"
    /\ \/ found \in Revoked /\ Answer(r, "unauthorized")
       \/ found = Unreadable /\ Answer(r, "internal_error")
       \/ found \notin Revoked \union {Unreadable} /\ Pass(r)
    /\ UNCHANGED <<world, ever, broken>>

(* verify_csrf: the GET answers. *)
CsrfGet(r) ==
    /\ pc[r] = "get" /\ Chain[pos[r]] = "csrf"
    /\ IF r \in session THEN Pass(r) ELSE Answer(r, "unauthorized")
    /\ UNCHANGED <<world, ever, broken>>

(* Mutant: an error of Redis lets the request pass. *)
GetFails_Open(r) ==
    /\ pc[r] \in {"checkout", "get"}
    /\ Pass(r)
    /\ broken' = [broken EXCEPT ![r] = TRUE]
    /\ UNCHANGED <<world, ever>>

(* Mutant: an error of Redis refuses the token. *)
GetFails_Unauthorized(r) ==
    /\ pc[r] \in {"checkout", "get"}
    /\ Answer(r, "unauthorized")
    /\ broken' = [broken EXCEPT ![r] = TRUE]
    /\ UNCHANGED <<world, ever>>

(* Mutant: the deadline is set when the connection is there. *)
GetFails_QueryOnly(r) ==
    /\ pc[r] = "get"
    /\ Answer(r, "internal_error")
    /\ broken' = [broken EXCEPT ![r] = TRUE]
    /\ UNCHANGED <<world, ever>>

(* The GET of either fails, or op_timeout has passed since it began: the wait for a   *)
(* connection counts.  A connection it held is free again.                         *)
GetFails(r) ==
    /\ pc[r] \in {"checkout", "get"}
    /\ Answer(r, "internal_error")
    /\ broken' = [broken EXCEPT ![r] = TRUE]
    /\ UNCHANGED <<world, ever>>

(* The handler is done, or the client goes away. *)
Finish(r) ==
    /\ pc[r] \in {"gate", "checkout", "get", "run"}
    /\ pc' = [pc EXCEPT ![r] = "done"]
    /\ pos' = [pos EXCEPT ![r] = 1]
    /\ always' = [always EXCEPT ![r] = {}]
    /\ ever' = [ever EXCEPT ![r] = {}]
    /\ UNCHANGED <<world, reply, broken>>

UnderWay == {r \in Reqs : pc[r] \notin {"idle", "done"}}

(* External: the world changes, and with it what speaks against the requests under  *)
(* way.  AuthInit has every session and token a request can come with.             *)
Noted ==
    /\ always' = [r \in Reqs |-> IF r \in UnderWay THEN always[r] \intersect Against(r)'
                                 ELSE always[r]]
    /\ ever' = [r \in Reqs |-> IF r \in UnderWay THEN ever[r] \union Against(r)'
                               ELSE ever[r]]
    /\ UNCHANGED <<pc, pos, reply, broken>>

RecordChanges(m) ==
    /\ record' \in [Merchants -> Statuses \union {Unreadable, Absent}]
    /\ record' # record /\ \A n \in Merchants \ {m} : record'[n] = record[n]
    /\ UNCHANGED <<session, bearer, merchant>>
    /\ Noted

SessionChanges(r) ==
    /\ session' \in {session \union {r}, session \ {r}} \ {session}
    /\ UNCHANGED <<record, bearer, merchant>>
    /\ Noted

TokenExpires(r) ==
    /\ bearer[r] = "good"
    /\ bearer' = [bearer EXCEPT ![r] = "bad"]
    /\ UNCHANGED <<record, session, merchant>>
    /\ Noted

Gate(r) == RevokeGate(r) \/ CsrfGate(r)

Step(r) == Gate(r) \/ Checkout(r) \/ RevokeGet(r) \/ CsrfGet(r) \/ GetFails(r)

World ==
    \/ \E r \in UnderWay : SessionChanges(r) \/ TokenExpires(r)
    \/ \E m \in Merchants : RecordChanges(m)

-----------------------------------------------------------------------------
(* The faults the middlewares of the chain are there for. *)
Guarded ==
    UNION {IF Chain[i] = "csrf" THEN {"csrf"} ELSE Faults \ {"csrf"} : i \in 1..Len(Chain)}

(* What was wrong with a request when it came and stayed wrong keeps it from the    *)
(* handler, whatever changes in between and whatever Redis fails to answer.        *)
BarredNeverPasses ==
    \A r \in Reqs : pc[r] = "run" => always[r] \intersect Guarded = {}

(* Nobody is told that his token is bad unless it was at some time between his       *)
(* request and the answer: an outage of Redis does not log anybody out.             *)
RefusedForAReason ==
    \A r \in Reqs :
        /\ reply[r] \in {400, 401} => ever[r] # {}
        /\ reply[r] = 500 => broken[r] \/ "unreadable" \in ever[r]
=============================================================================
