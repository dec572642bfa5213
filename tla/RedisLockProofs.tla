-------------------------- MODULE RedisLockProofs --------------------------
(***************************************************************************)
(* A Lock that is still valid is really held, for any clients, TTLs, deadline   *)
(* and drift; and the key of a client leaves Redis only by its own doing or in    *)
(* its time.                                                                 *)
(***************************************************************************)
EXTENDS RedisLock, TLAPS

(* Until the answer arrives the key lasts at least as long as the TTL counted     *)
(* from the start of the attempt: what makes rslock's validity sound.            *)
WonIsOwned ==
    \A c \in Clients :
        pc[c] = "won" /\ attempt[c] < ttl[c] => owner = c /\ left >= ttl[c] - attempt[c]

(* Only a client that was handed a Lock counts its validity. *)
ValidIsHeld == \A c \in Clients : valid[c] > 0 => pc[c] = "held"

(* The types the argument needs. *)
Types ==
    /\ owner \in Clients \union {Nobody, Stray}
    /\ left \in Nat
    /\ pc \in [Clients -> {"idle", "trying", "won", "held", "releasing"}]
    /\ ttl \in [Clients -> Ttls]
    /\ attempt \in [Clients -> Nat]
    /\ valid \in [Clients -> Nat]

LockInv == Types /\ ValidIsHeld /\ WonIsOwned /\ HeldIsOwned

(* Every TTL is positive, whatever the environment says: trx_lock_timeout falls     *)
(* back on a default.                                                            *)
LEMMA TtlsPositive == Ttls \subseteq Nat \ {0}
  <1>1. ASSUME NEW s \in LockSettings PROVE TrxLockTimeout(s) \in Nat \ {0}
    <2>1. s \in Int /\ MinLockTimeout \in Nat \ {0} /\ DefaultLockTimeout \in Nat \ {0}
      BY LockAssumption
    <2> QED BY <2>1 DEF TrxLockTimeout
  <1> QED BY <1>1, LockAssumption DEF Ttls

(* A validity is a number, negative when the attempt took too long. *)
LEMMA ValidityNumber ==
    ASSUME NEW c \in Clients, Types
    PROVE  /\ ttl[c] \in Nat /\ attempt[c] \in Nat
           /\ Validity(c) = ttl[c] - Drift - attempt[c] /\ Validity(c) \in Int
  <1>1. ttl[c] \in Ttls /\ attempt[c] \in Nat
    BY DEF Types
  <1>2. ttl[c] \in Nat /\ Drift \in Nat
    BY <1>1, TtlsPositive, LockAssumption
  <1>3. Validity(c) = ttl[c] - Drift - attempt[c]
    BY DEF Validity
  <1> QED BY <1>1, <1>2, <1>3

(* At first nobody holds or waits for anything. *)
LEMMA LockInit == Init => LockInv
  BY DEF Init, LockInv, Types, ValidIsHeld, WonIsOwned, HeldIsOwned

(* A step of one client leaves what the others hold alone: no step of c changes    *)
(* a key that belongs to another client.                                        *)
LEMMA OthersKeys ==
    ASSUME NEW c \in Clients, Step(c) \/ Release(c) \/ \E t \in Ttls : Acquire(c, t),
           NEW d \in Clients, d # c, owner = d
    PROVE  owner' = d /\ left' = left
  BY LockAssumption
  DEF Step, SetNx, Contended, Answered, AttemptFails, AcquireTimeout, Released,
      ReleaseTimeout, Release, Acquire, Unlock, Abandon

(* Nor does it change anything else of theirs. *)
LEMMA OthersState ==
    ASSUME NEW c \in Clients, Types,
           Step(c) \/ Release(c) \/ \E t \in Ttls : Acquire(c, t),
           NEW d \in Clients, d # c
    PROVE  /\ pc'[d] = pc[d] /\ ttl'[d] = ttl[d]
           /\ attempt'[d] = attempt[d] /\ valid'[d] = valid[d]
  BY DEF Types, Step, SetNx, Contended, Answered, AttemptFails, AcquireTimeout, Released,
         ReleaseTimeout, Release, Acquire, Unlock, Abandon, Goto

(* Every client's call keeps the types. *)
LEMMA ClientTypes ==
    ASSUME NEW c \in Clients, LockInv,
           Step(c) \/ Release(c) \/ \E t \in Ttls : Acquire(c, t)
    PROVE  Types'
  <1> USE TtlsPositive, LockAssumption DEF LockInv, Types, Goto
  <1>1. CASE SetNx(c) BY <1>1 DEF SetNx, SetKey
  <1>2. CASE Contended(c) BY <1>2 DEF Contended
  <1>3. CASE Answered(c)
    <2>1. Validity(c) \in Int
      BY ValidityNumber
    <2>2. CASE Validity(c) > 0
      BY <1>3, <2>1, <2>2 DEF Answered
    <2>3. CASE Validity(c) <= 0
      <3>1. owner' \in Clients \union {Nobody, Stray} /\ left' \in Nat
        BY <1>3, <2>1, <2>3 DEF Answered, Unlock
      <3>2. /\ ttl' = ttl /\ valid' = valid
            /\ pc' = [pc EXCEPT ![c] = "idle"] \/ pc' = [pc EXCEPT ![c] = "trying"]
            /\ attempt' = attempt \/ attempt' = [attempt EXCEPT ![c] = 0]
        BY <1>3, <2>1, <2>3 DEF Answered
      <3> QED BY <3>1, <3>2
    <2> QED BY <2>1, <2>2, <2>3
  <1>4. CASE AttemptFails(c) BY <1>4 DEF AttemptFails, Unlock, Abandon
  <1>5. CASE AcquireTimeout(c) BY <1>5 DEF AcquireTimeout, Abandon
  <1>6. CASE Released(c) BY <1>6 DEF Released, Unlock
  <1>7. CASE ReleaseTimeout(c) BY <1>7 DEF ReleaseTimeout, Abandon
  <1>8. CASE Release(c) BY <1>8 DEF Release
  <1>9. CASE \E t \in Ttls : Acquire(c, t) BY <1>9 DEF Acquire
  <1> QED BY <1>1, <1>2, <1>3, <1>4, <1>5, <1>6, <1>7, <1>8, <1>9 DEF Step

(* What the client that takes the step knows of itself afterwards. *)
LEMMA OwnState ==
    ASSUME NEW c \in Clients, LockInv,
           Step(c) \/ Release(c) \/ \E t \in Ttls : Acquire(c, t)
    PROVE  /\ valid'[c] > 0 => pc'[c] = "held"
           /\ pc'[c] = "won" /\ attempt'[c] < ttl'[c]
                => owner' = c /\ left' >= ttl'[c] - attempt'[c]
           /\ valid'[c] > 0 => owner' = c /\ left' >= valid'[c]
  <1> USE TtlsPositive, LockAssumption DEF LockInv, Types, Goto
  <1>1. CASE SetNx(c)
    BY <1>1 DEF SetNx, SetKey, ValidIsHeld
  <1>2. CASE Contended(c)
    BY <1>2 DEF Contended, ValidIsHeld
  <1>3. CASE Answered(c)
    <2>0. /\ ttl[c] \in Nat /\ attempt[c] \in Nat /\ left \in Nat
          /\ Validity(c) = ttl[c] - Drift - attempt[c] /\ Validity(c) \in Int
      BY ValidityNumber
    <2>1. CASE Validity(c) > 0
      <3>1. /\ pc[c] = "won" /\ pc'[c] = "held" /\ valid'[c] = Validity(c)
            /\ owner' = owner /\ left' = left
        BY <1>3, <2>0, <2>1 DEF Answered
      <3>2. owner = c /\ left >= ttl[c] - attempt[c]
        BY <2>0, <2>1, <3>1 DEF WonIsOwned
      <3> QED BY <2>0, <3>1, <3>2
    <2>2. CASE Validity(c) <= 0
      <3>1. pc[c] = "won" /\ pc'[c] \in {"idle", "trying"} /\ valid'[c] = valid[c]
        BY <1>3, <2>0, <2>2 DEF Answered
      <3>2. ~(valid[c] > 0)
        BY <3>1 DEF ValidIsHeld
      <3> QED BY <3>1, <3>2
    <2> QED BY <2>0, <2>1, <2>2
  <1>4. CASE AttemptFails(c)
    BY <1>4 DEF AttemptFails, ValidIsHeld
  <1>5. CASE AcquireTimeout(c) \/ Released(c) \/ ReleaseTimeout(c)
    BY <1>5 DEF AcquireTimeout, Released, ReleaseTimeout, ValidIsHeld
  <1>6. CASE Release(c)
    BY <1>6 DEF Release
  <1>7. CASE \E t \in Ttls : Acquire(c, t)
    BY <1>7 DEF Acquire, ValidIsHeld
  <1> QED BY <1>1, <1>2, <1>3, <1>4, <1>5, <1>6, <1>7 DEF Step

(* A call of a client keeps the invariant. *)
LEMMA ClientStep ==
    ASSUME NEW c \in Clients, LockInv,
           Step(c) \/ Release(c) \/ \E t \in Ttls : Acquire(c, t)
    PROVE  LockInv'
  <1>1. Types'
    BY ClientTypes
  <1>2. ASSUME NEW d \in Clients
        PROVE  /\ valid'[d] > 0 => pc'[d] = "held"
               /\ pc'[d] = "won" /\ attempt'[d] < ttl'[d]
                    => owner' = d /\ left' >= ttl'[d] - attempt'[d]
               /\ valid'[d] > 0 => owner' = d /\ left' >= valid'[d]
    <2>1. CASE d = c
      BY <2>1, OwnState
    <2>2. CASE d # c
      <3>1. /\ pc'[d] = pc[d] /\ ttl'[d] = ttl[d]
            /\ attempt'[d] = attempt[d] /\ valid'[d] = valid[d]
        BY <2>2, OthersState DEF LockInv
      <3>2. owner = d => owner' = d /\ left' = left
        BY <2>2, OthersKeys
      <3> QED BY <3>1, <3>2 DEF LockInv, ValidIsHeld, WonIsOwned, HeldIsOwned
    <2> QED BY <2>1, <2>2
  <1> QED BY <1>1, <1>2 DEF LockInv, ValidIsHeld, WonIsOwned, HeldIsOwned

(* Time takes as much from the key as from those who count on it. *)
LEMMA TickStep == LockInv /\ Tick => LockInv'
  <1> SUFFICES ASSUME LockInv, Tick PROVE LockInv'
    OBVIOUS
  <1> USE TtlsPositive, LockAssumption DEF LockInv, Types, Tick
  <1>1. Types'
    OBVIOUS
  <1>2. ValidIsHeld'
    BY DEF ValidIsHeld
  <1>3. WonIsOwned'
    <2> SUFFICES ASSUME NEW c \in Clients, pc'[c] = "won", attempt'[c] < ttl'[c]
                 PROVE  owner' = c /\ left' >= ttl'[c] - attempt'[c]
      BY DEF WonIsOwned
    <2>1. pc[c] = "won" /\ attempt'[c] = attempt[c] + 1 /\ ttl'[c] = ttl[c]
      OBVIOUS
    <2>2. ttl[c] \in Nat /\ attempt[c] \in Nat /\ attempt[c] + 1 < ttl[c]
      BY <2>1
    <2>3. owner = c /\ left >= ttl[c] - attempt[c]
      BY <2>1, <2>2 DEF WonIsOwned
    <2>4. left > 1
      BY <2>2, <2>3
    <2> QED BY <2>1, <2>2, <2>3, <2>4
  <1>4. HeldIsOwned'
    BY DEF HeldIsOwned
  <1> QED BY <1>1, <1>2, <1>3, <1>4

(* Late commands touch only a key that is free or stray. *)
LEMMA LateStep ==
    ASSUME LockInv, LateUnlock \/ \E c \in Clients, t \in Ttls : LateSet(c, t)
    PROVE  LockInv'
  <1> USE TtlsPositive, LockAssumption DEF LockInv, Types, LateUnlock, LateSet, SetKey
  <1>1. Types'
    <2>1. CASE LateUnlock
      BY <2>1
    <2>2. CASE \E c \in Clients, t \in Ttls : LateSet(c, t)
      <3>1. PICK c \in Clients, t \in Ttls : LateSet(c, t)
        BY <2>2
      <3>2. owner' \in Clients \union {Nobody, Stray} /\ left' \in Nat
        BY <3>1
      <3> QED BY <3>1, <3>2
    <2> QED BY <2>1, <2>2
  <1>2. /\ UNCHANGED <<pc, ttl, attempt, valid>>
        /\ owner \in Clients => UNCHANGED <<owner, left>>
    OBVIOUS
  <1>3. ValidIsHeld' /\ WonIsOwned' /\ HeldIsOwned'
    BY <1>2 DEF ValidIsHeld, WonIsOwned, HeldIsOwned
  <1> QED BY <1>1, <1>3

(* The invariant of the lock. *)
THEOREM LockInvariant == Spec => []LockInv
  <1>1. LockInv /\ [Next]_vars => LockInv'
    <2> SUFFICES ASSUME LockInv, [Next]_vars PROVE LockInv'
      OBVIOUS
    <2>1. CASE UNCHANGED vars
      BY <2>1 DEF vars, LockInv, Types, ValidIsHeld, WonIsOwned, HeldIsOwned
    <2>2. CASE Next
      BY <2>2, ClientStep, TickStep, LateStep DEF Next
    <2> QED BY <2>1, <2>2
  <1> QED BY <1>1, LockInit, PTL DEF Spec

(* Whoever has a Lock with validity left owns the key in Redis for at least that     *)
(* long, so two clients never hold the lock at once.                              *)
THEOREM LockHeldIsOwned == Spec => []HeldIsOwned
  <1>1. LockInv => HeldIsOwned BY DEF LockInv
  <1> QED BY <1>1, LockInvariant, PTL

(* The key of a client that is not waiting for Redis stays until its last tick. *)
LEMMA KeyStays ==
    ASSUME Types, Next, NEW c \in Clients, owner = c, ~Waiting(c), left > 1
    PROVE  owner' = c
  <1>1. ASSUME NEW d \in Clients, Step(d) \/ Release(d) \/ \E t \in Ttls : Acquire(d, t)
        PROVE  owner' = c
    <2>1. CASE d # c
      BY <1>1, <2>1, OthersKeys
    <2>2. CASE d = c
      BY <1>1, <2>2 DEF Waiting, Step, SetNx, Contended, Answered, AttemptFails, AcquireTimeout,
         Released, ReleaseTimeout, Release, Acquire
    <2> QED BY <2>1, <2>2
  <1>2. ASSUME NEW d \in Clients, NEW t \in Ttls, LateSet(d, t) PROVE owner' = c
    BY <1>2, LockAssumption DEF LateSet
  <1>3. CASE LateUnlock
    BY <1>3, LockAssumption DEF LateUnlock
  <1>4. CASE Tick
    BY <1>4 DEF Tick, Types
  <1> QED BY <1>1, <1>2, <1>3, <1>4 DEF Next

(* release, a failed attempt, a deadline, a late SET or a late unlock of one client never   *)
(* frees the key of another.                                                          *)
THEOREM LockReleaseOwnOnly == Spec => ReleaseOwnOnly
  <1>1. LockInv /\ [Next]_vars
          => [\A c \in Clients : owner = c /\ owner' # c => Waiting(c) \/ left <= 1]_vars
    <2> SUFFICES ASSUME LockInv, Next, NEW c \in Clients, owner = c, owner' # c, ~Waiting(c)
                 PROVE  left <= 1
      OBVIOUS
    <2>1. left \in Nat /\ ~(left > 1)
      BY KeyStays DEF LockInv, Types
    <2> QED BY <2>1
  <1> QED BY <1>1, LockInvariant, PTL DEF Spec, ReleaseOwnOnly
=============================================================================
