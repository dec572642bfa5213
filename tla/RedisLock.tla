----------------------------- MODULE RedisLock -----------------------------
(***************************************************************************)
(* The distributed lock of pc-redis: acquire_lock, acquire_lock_with_retry     *)
(* and release, each cut off by op_timeout, over rslock and one Redis server.  *)
(*                                                                         *)
(* A lock attempt is SET NX PX with a token of its own.  Only the client that   *)
(* is handed the Lock knows the token, so a key set by an attempt that was cut  *)
(* off belongs to Stray.  rslock hands a Lock out only with validity left,      *)
(* counted from the start of the attempt.  release compares and deletes.        *)
(* (rslock gives the retries of one lock() call one token; the difference shows  *)
(* only if Redis executes a command of a failed attempt after the next attempt   *)
(* has begun, and that is left out.)                                            *)
(*                                                                         *)
(* Time is discrete, and a deadline is kept: no tick passes it.                 *)
(***************************************************************************)
EXTENDS Integers

CONSTANTS Clients,
          Asked,      \* TTLs callers ask for themselves
          LockSettings,      \* TRANSACTION_REDIS_LOCK_TIMEOUT; 0 if it is no number
          MinLockTimeout,    \* MIN_LOCK_TIMEOUT_MS
          DefaultLockTimeout, \* DEFAULT_LOCK_TIMEOUT_MS
          OpTimeout,  \* op_timeout
          Drift,      \* clock drift rslock deducts from the validity
          Nobody, Stray

ASSUME LockAssumption ==
    /\ Asked \subseteq Nat \ {0} /\ LockSettings \subseteq Int
    /\ MinLockTimeout \in Nat \ {0} /\ DefaultLockTimeout \in Nat \ {0}
    /\ OpTimeout \in Nat \ {0} /\ Drift \in Nat
    /\ Nobody \notin Clients /\ Stray \notin Clients /\ Nobody # Stray

(* trx_lock_timeout: a setting below the minimum gives the default. *)
TrxLockTimeout(setting) ==
    IF setting >= MinLockTimeout THEN setting ELSE DefaultLockTimeout

(* The TTLs a lock is acquired with. *)
Ttls == Asked \union {TrxLockTimeout(s) : s \in LockSettings}

VARIABLES owner,    \* whose token the key holds; Nobody if there is no key
          left,     \* time until the key expires
          pc,       \* where each client is
          ttl,      \* the TTL it asked for
          waited,   \* time since it called acquire_lock or release
          attempt,  \* time since the current attempt of rslock began
          valid,    \* validity left of the Lock it holds
          late,     \* SETs still on their way after the deadline: client and TTL
          dying     \* the unlock of a Stray key is still on its way

vars == <<owner, left, pc, ttl, waited, attempt, valid, late, dying>>

TypeOK ==
    /\ owner \in Clients \union {Nobody, Stray}
    /\ left \in Nat /\ \E t \in Ttls : left <= t
    /\ pc \in [Clients -> {"idle", "trying", "won", "held", "releasing"}]
    /\ waited \in [Clients -> 0..OpTimeout]
    /\ attempt \in [Clients -> 0..OpTimeout]
    /\ ttl \in [Clients -> Ttls]
    /\ valid \in [Clients -> Nat] /\ \A c \in Clients : valid[c] <= ttl[c]
    /\ late \in SUBSET (Clients \X Ttls)
    /\ dying \in BOOLEAN

Init ==
    /\ owner = Nobody /\ left = 0
    /\ pc = [c \in Clients |-> "idle"]
    /\ ttl \in [Clients -> Ttls]
    /\ waited = [c \in Clients |-> 0]
    /\ attempt = [c \in Clients |-> 0]
    /\ valid = [c \in Clients |-> 0]
    /\ late = {}
    /\ dying = FALSE

Goto(c, where) == pc' = [pc EXCEPT ![c] = where]

(* A client that waits for Redis. *)
Waiting(c) == pc[c] \in {"trying", "won", "releasing"}

-----------------------------------------------------------------------------
(* acquire_lock: lock_bounded starts the clock and the first attempt. *)
Acquire(c, t) ==
    /\ pc[c] = "idle"
    /\ Goto(c, "trying")
    /\ ttl' = [ttl EXCEPT ![c] = t]
    /\ waited' = [waited EXCEPT ![c] = 0]
    /\ attempt' = [attempt EXCEPT ![c] = 0]
    /\ UNCHANGED <<owner, left, valid, late, dying>>

(* Mutant: the key is set without an expiry (0 never runs out). *)
SetKey_NoExpiry(who, t) == owner' = who /\ left' = 0

(* SET NX PX on a key that is not there. *)
SetKey(who, t) == owner' = who /\ left' = t

(* The server executes the SET of the attempt: the key is free, ... *)
SetNx(c) ==
    /\ pc[c] = "trying" /\ owner = Nobody
    /\ SetKey(c, ttl[c])
    /\ Goto(c, "won")
    /\ UNCHANGED <<ttl, waited, attempt, valid, late, dying>>

(* ... or it is not: rslock tries again, or its tries are used up (Unavailable). *)
Contended(c) ==
    /\ pc[c] = "trying" /\ owner # Nobody
    /\ \/ Goto(c, "idle") /\ UNCHANGED attempt
       \/ attempt' = [attempt EXCEPT ![c] = 0] /\ UNCHANGED pc
    /\ UNCHANGED <<ttl, owner, left, waited, valid, late, dying>>

(* Mutant: validity counted from the answer. *)
Validity_FromAnswer(c) == ttl[c] - Drift

(* rslock: TTL minus drift minus the time the attempt took. *)
Validity(c) == ttl[c] - Drift - attempt[c]

(* Mutant: deletes the key whatever token it holds. *)
Unlock_AnyToken(c) ==
    IF owner # Nobody THEN owner' = Nobody /\ left' = 0 ELSE UNCHANGED <<owner, left>>

(* The compare-and-delete script. *)
Unlock(c) ==
    IF owner = c THEN owner' = Nobody /\ left' = 0 ELSE UNCHANGED <<owner, left>>

(* The answer arrives: Some(lock), or with no validity left the key is deleted   *)
(* and the attempt has failed.                                                 *)
Answered(c) ==
    /\ pc[c] = "won"
    /\ \/ /\ Validity(c) > 0
          /\ Goto(c, "held")
          /\ valid' = [valid EXCEPT ![c] = Validity(c)]
          /\ UNCHANGED <<owner, left, attempt>>
       \/ /\ Validity(c) <= 0
          /\ Unlock(c)
          /\ \/ Goto(c, "idle") /\ UNCHANGED attempt
             \/ Goto(c, "trying") /\ attempt' = [attempt EXCEPT ![c] = 0]
          /\ UNCHANGED valid
    /\ UNCHANGED <<ttl, waited, late, dying>>

(* The key of an attempt nobody waits for belongs to nobody who knows. *)
Abandon(c) == owner' = IF owner = c THEN Stray ELSE owner

(* Redis fails the attempt, whose SET may have been executed: rslock takes it for    *)
(* contention, tries to unlock and goes on or gives up.                           *)
AttemptFails(c) ==
    /\ pc[c] \in {"trying", "won"}
    /\ Unlock(c) \/ (Abandon(c) /\ UNCHANGED left)
    /\ \/ Goto(c, "idle") /\ UNCHANGED attempt
       \/ Goto(c, "trying") /\ attempt' = [attempt EXCEPT ![c] = 0]
    /\ UNCHANGED <<ttl, waited, valid, late, dying>>

(* tokio::time::timeout(op_timeout()) *)
Overdue(c) == waited[c] >= OpTimeout

(* lock_bounded gives up: None.  The SET may have been executed, or may still be. *)
AcquireTimeout(c) ==
    /\ pc[c] \in {"trying", "won"} /\ Overdue(c)
    /\ Abandon(c)
    /\ late' \in {late, late \union (IF pc[c] = "trying" THEN {<<c, ttl[c]>>} ELSE {})}
    /\ Goto(c, "idle")
    /\ UNCHANGED <<ttl, left, waited, attempt, valid, dying>>

(* The caller is done, in time or not, and calls release. *)
Release(c) ==
    /\ pc[c] = "held"
    /\ Goto(c, "releasing")
    /\ waited' = [waited EXCEPT ![c] = 0]
    /\ valid' = [valid EXCEPT ![c] = 0]
    /\ UNCHANGED <<ttl, owner, left, attempt, late, dying>>

Released(c) ==
    /\ pc[c] = "releasing"
    /\ Unlock(c)
    /\ Goto(c, "idle")
    /\ UNCHANGED <<ttl, waited, attempt, valid, late, dying>>

(* release gives up: the key is left to its TTL, unless the unlock still arrives. *)
ReleaseTimeout(c) ==
    /\ pc[c] = "releasing" /\ Overdue(c)
    /\ Abandon(c)
    /\ dying' \in {dying, dying \/ owner = c}
    /\ Goto(c, "idle")
    /\ UNCHANGED <<ttl, left, waited, attempt, valid, late>>

(* External: a SET that was cut off reaches the server, or is lost. *)
LateSet(c, t) ==
    /\ <<c, t>> \in late
    /\ late' = late \ {<<c, t>>}
    /\ \/ owner = Nobody /\ SetKey(Stray, t)
       \/ UNCHANGED <<owner, left>>
    /\ UNCHANGED <<pc, ttl, waited, attempt, valid, dying>>

(* External: an unlock that was cut off reaches the server. *)
LateUnlock ==
    /\ dying /\ owner = Stray
    /\ owner' = Nobody /\ left' = 0
    /\ dying' = FALSE
    /\ UNCHANGED <<ttl, pc, waited, attempt, valid, late>>

(* External: time passes; the key expires when its time is up. *)
Tick ==
    /\ \A c \in Clients : Waiting(c) => ~Overdue(c)
    /\ left' = IF left > 0 THEN left - 1 ELSE 0
    /\ owner' = IF left = 1 THEN Nobody ELSE owner
    /\ dying' = (dying /\ left # 1)
    /\ waited' = [c \in Clients |-> IF Waiting(c) THEN waited[c] + 1 ELSE waited[c]]
    /\ attempt' = [c \in Clients |-> IF pc[c] \in {"trying", "won"}
                                     THEN attempt[c] + 1 ELSE attempt[c]]
    /\ valid' = [c \in Clients |-> IF valid[c] > 0 THEN valid[c] - 1 ELSE 0]
    /\ UNCHANGED <<ttl, pc, late>>

Step(c) ==
    \/ SetNx(c) \/ Contended(c) \/ Answered(c) \/ AttemptFails(c)
    \/ AcquireTimeout(c) \/ Released(c) \/ ReleaseTimeout(c)

Next ==
    \/ \E c \in Clients :
        \/ Step(c) \/ Release(c)
        \/ \E t \in Ttls : Acquire(c, t) \/ LateSet(c, t)
    \/ LateUnlock
    \/ Tick

Spec == Init /\ [][Next]_vars

(* Timers fire and time passes.  Redis need not answer, nobody need release. *)
FairSpec ==
    /\ Spec
    /\ WF_vars(Tick)
    /\ \A c \in Clients : WF_vars(AcquireTimeout(c) \/ ReleaseTimeout(c))

-----------------------------------------------------------------------------
(* A Lock that is still valid is really held: Redis has its token for at least   *)
(* as long, so no two clients have one, even when TTL < op_timeout and answers   *)
(* come after the key has expired and was taken by another.                     *)
HeldIsOwned ==
    \A c \in Clients : valid[c] > 0 => owner = c /\ left >= valid[c]

(* release "can never free somebody else's lock": the key of a client leaves     *)
(* Redis before its time only while that client itself waits for Redis.          *)
ReleaseOwnOnly ==
    [][\A c \in Clients : owner = c /\ owner' # c => Waiting(c) \/ left <= 1]_vars

(* "the lock's TTL still expires it": holders that never release, releases and    *)
(* acquisitions that time out leave no key for good.                            *)
FreeAgain == []<>(owner = Nobody)
=============================================================================
