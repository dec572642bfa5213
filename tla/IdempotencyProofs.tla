-------------------------- MODULE IdempotencyProofs --------------------------
(***************************************************************************)
(* Proofs for Idempotency: types, and that a duplicate which arrives after its  *)
(* key was stored is not passed on while the key lives.                        *)
(***************************************************************************)
EXTENDS Idempotency, TLAPS

(* A request counted as covered really has its key in Redis: a GET can only     *)
(* find it.  This is what makes NoSequentialDuplicate inductive.                *)
CoveredCached == \A r \in Reqs : covered[r] => cache[key[r]] # 0

IdemInv == TypeOK /\ CoveredCached /\ NoSequentialDuplicate

(* A session is a positive number of seconds, whatever the header. *)
LEMMA SessionType ==
  ASSUME NEW h \in Headers
  PROVE  Session(h) \in Sessions
  BY IdempotencyAssumption DEF Session, Sessions

(* A stored key has a finite life: the TTL handed to store is never 0. *)
LEMMA StoredLife ==
  ASSUME NEW s \in Sessions
  PROVE  ClampTtl(s) \in 1..MaxTtl
  BY IdempotencyAssumption DEF Sessions, ClampTtl

LEMMA StoreType ==
  ASSUME TypeOK, NEW k \in Keys, NEW s \in Sessions, Store(k, s)
  PROVE  /\ cache' \in [Keys -> 0..MaxTtl]
         /\ cache'[k] # 0
         /\ \A j \in Keys : cache[j] # 0 => cache'[j] # 0
<1>1. ClampTtl(s) \in 1..MaxTtl
  BY StoredLife
<1>2. ClampTtl(s) # 0 /\ ClampTtl(s) \in 0..MaxTtl
  BY <1>1, IdempotencyAssumption
<1>3. cache' = [cache EXCEPT ![k] = ClampTtl(s)]
  BY <1>2 DEF Store
<1> QED
  BY <1>2, <1>3 DEF TypeOK

LEMMA InitInv == Init => IdemInv
<1> SUFFICES ASSUME Init PROVE IdemInv
  OBVIOUS
<1> USE DEF Init
<1>1. TypeOK
  BY IdempotencyAssumption DEF TypeOK, Sessions
<1>2. CoveredCached
  BY DEF CoveredCached
<1>3. NoSequentialDuplicate
  BY DEF NoSequentialDuplicate
<1> QED BY <1>1, <1>2, <1>3 DEF IdemInv

LEMMA ReceiveInv ==
  ASSUME IdemInv, NEW r \in Reqs, NEW k \in Keys, NEW h \in Headers,
         Receive(r, k, h)
  PROVE  IdemInv'
<1> USE DEF IdemInv, Receive, Answer
<1>1. Session(h) \in Sessions
  BY SessionType
<1>2. TypeOK'
  BY <1>1 DEF TypeOK
<1>3. CoveredCached'
  BY DEF CoveredCached, TypeOK
<1>4. NoSequentialDuplicate'
  BY DEF NoSequentialDuplicate, TypeOK
<1> QED BY <1>2, <1>3, <1>4

LEMMA GetInv ==
  ASSUME IdemInv, NEW r \in Reqs, Get(r) \/ GetFails(r)
  PROVE  IdemInv'
<1> USE DEF IdemInv, Get, GetFails, Answer
<1>1. TypeOK'
  BY DEF TypeOK
<1>2. CoveredCached'
  BY DEF CoveredCached, TypeOK
<1>3. NoSequentialDuplicate'
  BY DEF NoSequentialDuplicate, CoveredCached, TypeOK
<1> QED BY <1>1, <1>2, <1>3

LEMMA SetInv ==
  ASSUME IdemInv, NEW r \in Reqs, Set(r)
  PROVE  IdemInv'
<1>1. key[r] \in Keys /\ session[r] \in Sessions
  BY DEF IdemInv, TypeOK
<1>2. Store(key[r], session[r])
  BY DEF Set
<1>3. /\ cache' \in [Keys -> 0..MaxTtl]
      /\ \A j \in Keys : cache[j] # 0 => cache'[j] # 0
  BY <1>1, <1>2, StoreType DEF IdemInv
<1>4. TypeOK'
  <2>1. pc' \in [Reqs -> {"idle", "get", "set", "run", "done"}]
    BY DEF IdemInv, TypeOK, Set
  <2>2. reply' \in [Reqs -> {"none", "400", "500", "202", "next"}]
    BY DEF IdemInv, TypeOK, Set
  <2> QED BY <1>3, <2>1, <2>2 DEF IdemInv, TypeOK, Set
<1>5. CoveredCached'
  BY <1>3 DEF IdemInv, CoveredCached, TypeOK, Set
<1>6. NoSequentialDuplicate'
  BY DEF IdemInv, NoSequentialDuplicate, TypeOK, Set
<1> QED BY <1>4, <1>5, <1>6 DEF IdemInv

LEMMA LateSetInv ==
  ASSUME IdemInv, NEW r \in Reqs, LateSet(r)
  PROVE  IdemInv'
<1>1. key[r] \in Keys /\ session[r] \in Sessions
  BY DEF IdemInv, TypeOK
<1>2. /\ cache' \in [Keys -> 0..MaxTtl]
      /\ \A j \in Keys : cache[j] # 0 => cache'[j] # 0
  <2>1. CASE Store(key[r], session[r])
    BY <1>1, <2>1, StoreType DEF IdemInv
  <2>2. CASE UNCHANGED cache
    BY <2>2 DEF IdemInv, TypeOK
  <2> QED BY <2>1, <2>2 DEF LateSet
<1>3. TypeOK'
  BY <1>2 DEF IdemInv, TypeOK, LateSet
<1>4. CoveredCached'
  BY <1>2 DEF IdemInv, CoveredCached, TypeOK, LateSet
<1>5. NoSequentialDuplicate'
  BY DEF IdemInv, NoSequentialDuplicate, LateSet
<1> QED BY <1>3, <1>4, <1>5 DEF IdemInv

LEMMA TickInv ==
  ASSUME IdemInv, Tick
  PROVE  IdemInv'
<1>1. TypeOK'
  <2>1. \A k \in Keys : (IF cache[k] > 0 THEN cache[k] - 1 ELSE cache[k]) \in 0..MaxTtl
    BY IdempotencyAssumption DEF IdemInv, TypeOK
  <2>2. cache' \in [Keys -> 0..MaxTtl]
    BY <2>1 DEF Tick
  <2>3. covered' \in [Reqs -> BOOLEAN]
    BY DEF Tick, IdemInv, TypeOK
  <2> QED BY <2>2, <2>3 DEF Tick, IdemInv, TypeOK
<1>2. CoveredCached'
  BY DEF Tick, CoveredCached
<1>3. NoSequentialDuplicate'
  BY DEF Tick, IdemInv, NoSequentialDuplicate
<1> QED BY <1>1, <1>2, <1>3 DEF IdemInv

(* The steps of a request that leave cache alone and pass nothing on. *)
LEMMA QuietInv ==
  ASSUME IdemInv, NEW r \in Reqs,
         SetFails(r) \/ RunEnds(r) \/ Cancel(r) \/ Again(r)
  PROVE  IdemInv'
<1> USE DEF IdemInv, SetFails, RunEnds, Cancel, Again, Answer
<1>1. TypeOK'
  BY IdempotencyAssumption DEF TypeOK, Sessions
<1>2. CoveredCached'
  BY DEF CoveredCached, TypeOK
<1>3. NoSequentialDuplicate'
  BY DEF NoSequentialDuplicate, TypeOK
<1> QED BY <1>1, <1>2, <1>3

LEMMA NextInv == IdemInv /\ [Next]_vars => IdemInv'
<1> SUFFICES ASSUME IdemInv, [Next]_vars PROVE IdemInv'
  OBVIOUS
<1>1. CASE UNCHANGED vars
  BY <1>1 DEF vars, IdemInv, TypeOK, CoveredCached, NoSequentialDuplicate
<1> QED
  BY <1>1, ReceiveInv, GetInv, SetInv, LateSetInv, TickInv, QuietInv DEF Next

(* The inductive invariant of verify_idempotency holds in every reachable state. *)
THEOREM IdempotencyInvariant == Spec => []IdemInv
  BY InitInv, NextInv, PTL DEF Spec

(* Every key in Redis has a TTL between 1 and the ceiling: the session header    *)
(* can neither make a key permanent nor exceed clamp_ttl.                       *)
THEOREM IdempotencyTypeOK == Spec => []TypeOK
<1>1. IdemInv => TypeOK
  BY DEF IdemInv
<1> QED BY <1>1, IdempotencyInvariant, PTL

(* For any number of requests: a duplicate that arrives while its key is stored  *)
(* never reaches next.run as long as the key has not expired.                   *)
THEOREM IdempotencyNoDuplicate == Spec => []NoSequentialDuplicate
<1>1. IdemInv => NoSequentialDuplicate
  BY DEF IdemInv
<1> QED BY <1>1, IdempotencyInvariant, PTL
==============================================================================
