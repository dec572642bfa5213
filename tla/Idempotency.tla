---------------------------- MODULE Idempotency ----------------------------
(***************************************************************************)
(* verify_idempotency of pc-auth over the GET and SET of pc-redis: requests    *)
(* that carry the same body have the same idempotency key, since a key that is *)
(* not the MD5 of the body is refused.                                        *)
(*                                                                         *)
(* The middleware is suspended at the GET and at the SET, so requests of the   *)
(* same body interleave there.  Either command fails or times out; a SET that  *)
(* timed out may still be applied by the server, at once or later.  A client   *)
(* that goes away drops the request at any await.                              *)
(*                                                                         *)
(* Time is in units of the session header (seconds in the code).  A key keeps   *)
(* the time it has left to live.                                              *)
(***************************************************************************)
EXTENDS Integers

CONSTANTS Reqs,            \* requests
          Keys,            \* request bodies, hence idempotency keys
          Headers,         \* values of the session header that parse; 0 if absent
          MinSession,      \* 4
          DefaultSession,  \* 9
          MaxTtl           \* the ceiling of clamp_ttl

ASSUME IdempotencyAssumption ==
    /\ Headers \subseteq Int
    /\ MinSession \in Nat \ {0} /\ DefaultSession \in Nat \ {0}
    /\ MinSession <= DefaultSession
    /\ MaxTtl \in Nat \ {0}

VARIABLES cache,    \* time each key has left in Redis; 0 if absent, or Forever
          pc,       \* where each request is in the middleware
          key,      \* its idempotency key
          session,  \* its session, the TTL asked for
          reply,    \* what the client was told
          late,     \* requests whose SET is still on its way after they gave up
          covered   \* the key has been in Redis ever since the request came in

vars == <<cache, pc, key, session, reply, late, covered>>

Forever == -1
Sessions == {DefaultSession} \union {s \in Headers : s >= MinSession}

TypeOK ==
    /\ cache \in [Keys -> 0..MaxTtl]
    /\ pc \in [Reqs -> {"idle", "get", "set", "run", "done"}]
    /\ key \in [Reqs -> Keys]
    /\ session \in [Reqs -> Sessions]
    /\ reply \in [Reqs -> {"none", "400", "500", "202", "next"}]
    /\ late \in SUBSET Reqs
    /\ covered \in [Reqs -> BOOLEAN]

Init ==
    /\ cache = [k \in Keys |-> 0]
    /\ pc = [r \in Reqs |-> "idle"]
    /\ key \in [Reqs -> Keys]
    /\ session = [r \in Reqs |-> DefaultSession]
    /\ reply = [r \in Reqs |-> "none"]
    /\ late = {}
    /\ covered = [r \in Reqs |-> FALSE]

-----------------------------------------------------------------------------
(* Mutant: a session of 0 is taken as it is. *)
Session_Zero(header) ==
    IF header = 0 \/ header >= MinSession THEN header ELSE DefaultSession

(* The session of a header that parses; below the minimum the default holds. *)
Session(header) == IF header >= MinSession THEN header ELSE DefaultSession

(* clamp_ttl: a Duration is never negative. *)
ClampTtl(ttl) == IF ttl > MaxTtl THEN MaxTtl ELSE ttl

(* RedisPool::store: SET without expiry if the clamped TTL is 0, else PSETEX. *)
Store(k, ttl) ==
    cache' = [cache EXCEPT ![k] = IF ClampTtl(ttl) = 0 THEN Forever
                                                       ELSE ClampTtl(ttl)]

Answer(r, code) ==
    /\ pc' = [pc EXCEPT ![r] = "done"]
    /\ reply' = [reply EXCEPT ![r] = code]

(* A request comes in.  Headers that are malformed, a body that is no JSON or   *)
(* does not match the key end it with 400, one that cannot be read with 500.   *)
Receive(r, k, header) ==
    /\ pc[r] = "idle"
    /\ key' = [key EXCEPT ![r] = k]
    /\ session' = [session EXCEPT ![r] = Session(header)]
    /\ covered' = [covered EXCEPT ![r] = cache[k] # 0]
    /\ \/ Answer(r, "400")
       \/ Answer(r, "500")
       \/ pc' = [pc EXCEPT ![r] = "get"] /\ UNCHANGED reply
    /\ UNCHANGED <<cache, late>>

(* redis.get answers: a key that is there means 202, a miss goes on. *)
Get(r) ==
    /\ pc[r] = "get"
    /\ \/ cache[key[r]] # 0 /\ Answer(r, "202")
       \/ /\ cache[key[r]] = 0
          /\ pc' = [pc EXCEPT ![r] = "set"]
          /\ UNCHANGED reply
    /\ UNCHANGED <<cache, key, session, late, covered>>

(* Mutant: an error of Redis counts as a miss. *)
GetFails_Open(r) ==
    /\ pc[r] = "get"
    /\ pc' = [pc EXCEPT ![r] = "set"]
    /\ UNCHANGED <<cache, key, session, reply, late, covered>>

(* redis.get fails or exceeds op_timeout. *)
GetFails(r) ==
    /\ pc[r] = "get"
    /\ Answer(r, "500")
    /\ UNCHANGED <<cache, key, session, late, covered>>

(* redis.store succeeds and next.run is called without an await in between. *)
Set(r) ==
    /\ pc[r] = "set"
    /\ Store(key[r], session[r])
    /\ pc' = [pc EXCEPT ![r] = "run"]
    /\ reply' = [reply EXCEPT ![r] = "next"]
    /\ UNCHANGED <<key, session, late, covered>>

(* redis.store fails or exceeds op_timeout; the command may be on its way. *)
SetFails(r) ==
    /\ pc[r] = "set"
    /\ Answer(r, "500")
    /\ late' \in {late, late \union {r}}
    /\ UNCHANGED <<cache, key, session, covered>>

(* The inner service answers. *)
RunEnds(r) ==
    /\ pc[r] = "run"
    /\ pc' = [pc EXCEPT ![r] = "done"]
    /\ UNCHANGED <<cache, key, session, reply, late, covered>>

(* The client is gone: the request is dropped at its await. *)
Cancel(r) ==
    /\ pc[r] \in {"get", "set", "run"}
    /\ pc' = [pc EXCEPT ![r] = "done"]
    /\ late' \in {late, late \union (IF pc[r] = "set" THEN {r} ELSE {})}
    /\ UNCHANGED <<cache, key, session, reply, covered>>

(* External: the server applies a SET nobody waits for any more, or never does. *)
LateSet(r) ==
    /\ r \in late
    /\ late' = late \ {r}
    /\ Store(key[r], session[r]) \/ UNCHANGED cache
    /\ UNCHANGED <<pc, key, session, reply, covered>>

(* External: the next request of the client. *)
Again(r) ==
    /\ pc[r] = "done" /\ r \notin late
    /\ pc' = [pc EXCEPT ![r] = "idle"]
    /\ session' = [session EXCEPT ![r] = DefaultSession]
    /\ reply' = [reply EXCEPT ![r] = "none"]
    /\ covered' = [covered EXCEPT ![r] = FALSE]
    /\ UNCHANGED <<cache, key, late>>

(* External: time passes and Redis expires keys. *)
Tick ==
    /\ \E k \in Keys : cache[k] > 0
    /\ cache' = [k \in Keys |-> IF cache[k] > 0 THEN cache[k] - 1 ELSE cache[k]]
    /\ covered' = [r \in Reqs |-> covered[r] /\ cache'[key[r]] # 0]
    /\ UNCHANGED <<pc, key, session, reply, late>>

Next ==
    \/ \E r \in Reqs :
        \/ \E k \in Keys, h \in Headers : Receive(r, k, h)
        \/ Get(r) \/ GetFails(r)
        \/ Set(r) \/ SetFails(r)
        \/ RunEnds(r) \/ Cancel(r)
        \/ LateSet(r) \/ Again(r)
    \/ Tick

Spec == Init /\ [][Next]_vars

(* Time passes; a command on its way is applied or lost in the end. *)
FairSpec == Spec /\ WF_vars(Tick) /\ \A r \in Reqs : WF_vars(LateSet(r))

-----------------------------------------------------------------------------
(* A duplicate that comes in after its key was stored, and whose key has not    *)
(* expired since, is never passed on, whatever fails in between: an error of    *)
(* Redis refuses the request.                                                 *)
NoSequentialDuplicate == \A r \in Reqs : pc[r] \in {"set", "run"} => ~covered[r]

(* No request is locked out for good: every key expires, whatever the session   *)
(* header says, although a TTL of 0 would make it permanent.                    *)
KeysExpire == \A k \in Keys : cache[k] # 0 ~> cache[k] = 0
=============================================================================
