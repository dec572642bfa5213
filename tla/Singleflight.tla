---------------------------- MODULE Singleflight ----------------------------
(***************************************************************************)
(* Singleflight::do_call of pc-resilience (singleflight.rs): concurrent      *)
(* callers of a key share one execution of the work.                         *)
(*                                                                         *)
(* A call takes the shard lock twice: to register or join a flight, and in    *)
(* FlightGuard::drop to leave it.  Between the two it awaits a shared future  *)
(* that any of its waiters may drive.  Joining and the first poll belong to   *)
(* one poll of the caller's task: it can be cancelled only after a poll that  *)
(* found the work pending.  Between a poll that ends the work and the drop of *)
(* the guard other threads may run.                                          *)
(*                                                                         *)
(* Ids.  next_id is a u64 that never repeats in practice.  Only equality of   *)
(* ids matters, so a new flight takes any id no caller and no entry holds.    *)
(***************************************************************************)
EXTENDS Integers, FiniteSets

CONSTANTS Callers, Keys, Ids,
          NoFlight   \* no entry for a key

ASSUME SingleflightAssumption ==
    /\ IsFiniteSet(Callers)
    /\ NoFlight \notin Ids

VARIABLES flight,   \* calls: the id of each key's entry, or NoFlight
          waiters,  \* Flight::waiters of each key's entry
          fut,      \* the shared future of each id
          pc,       \* where each caller is in do_call
          key,      \* FlightGuard::key of each caller
          id,       \* FlightGuard::id of each caller, NoFlight outside do_call
          served    \* ids whose result some caller has returned with

vars == <<flight, waiters, fut, pc, key, id, served>>

TypeOK ==
    /\ flight \in [Keys -> Ids \union {NoFlight}]
    /\ waiters \in [Keys -> 0..Cardinality(Callers)]
    /\ fut \in [Ids -> {"pending", "done", "panicked"}]
    /\ pc \in [Callers -> {"idle", "entered", "waiting", "finished", "panicking"}]
    /\ key \in [Callers -> Keys]
    /\ id \in [Callers -> Ids \union {NoFlight}]
    /\ served \in SUBSET Ids

(* The callers that hold a FlightGuard for flight i. *)
Attached(i) == {c \in Callers : id[c] = i}

InUse(i) == Attached(i) # {} \/ \E k \in Keys : flight[k] = i

Init ==
    /\ flight = [k \in Keys |-> NoFlight]
    /\ waiters = [k \in Keys |-> 0]
    /\ fut = [i \in Ids |-> "done"]
    /\ pc = [c \in Callers |-> "idle"]
    /\ key \in [Callers -> Keys]
    /\ id = [c \in Callers |-> NoFlight]
    /\ served = {}

-----------------------------------------------------------------------------
(* Entry::Occupied: one more waiter on the flight in the map. *)
Join(c, k) ==
    /\ flight[k] # NoFlight
    /\ waiters' = [waiters EXCEPT ![k] = @ + 1]
    /\ id' = [id EXCEPT ![c] = flight[k]]
    /\ UNCHANGED <<flight, fut, served>>

(* Entry::Vacant: a new flight with one waiter. *)
Start(c, k) ==
    /\ flight[k] = NoFlight
    /\ \E i \in Ids :
        /\ ~InUse(i)
        /\ flight' = [flight EXCEPT ![k] = i]
        /\ fut' = [fut EXCEPT ![i] = "pending"]
        /\ id' = [id EXCEPT ![c] = i]
        /\ served' = served \ {i}
    /\ waiters' = [waiters EXCEPT ![k] = 1]

(* do_call up to the await: the entry API holds the shard lock throughout. *)
Enter(c, k) ==
    /\ pc[c] = "idle"
    /\ Join(c, k) \/ Start(c, k)
    /\ pc' = [pc EXCEPT ![c] = "entered"]
    /\ key' = [key EXCEPT ![c] = k]

(* A poll of the shared future by one of its waiters: still pending, ready,   *)
(* or a panic.  What an earlier poll found is found again by every clone.     *)
PollPending(c) ==
    /\ pc[c] = "entered"
    /\ fut[id[c]] = "pending"
    /\ pc' = [pc EXCEPT ![c] = "waiting"]
    /\ UNCHANGED fut

PollReady(c) ==
    /\ fut[id[c]] \in {"pending", "done"}
    /\ fut' = [fut EXCEPT ![id[c]] = "done"]
    /\ pc' = [pc EXCEPT ![c] = "finished"]

PollPanic(c) ==
    /\ fut[id[c]] \in {"pending", "panicked"}
    /\ fut' = [fut EXCEPT ![id[c]] = "panicked"]
    /\ pc' = [pc EXCEPT ![c] = "panicking"]

Poll(c) ==
    /\ pc[c] \in {"entered", "waiting"}
    /\ PollPending(c) \/ PollReady(c) \/ PollPanic(c)
    /\ UNCHANGED <<flight, waiters, key, id, served>>

(* Mutant: the entry is removed only by its last waiter, finished or not. *)
Removes_LastOnly(finished, left) == left = 0

(* Mutant: a caller that leaves removes the entry though others await it. *)
Removes_Always(finished, left) == TRUE

(* Does the caller that leaves take the entry with it? *)
Removes(finished, left) == finished \/ left = 0

(* Mutant: leaves without comparing ids. *)
Mine_AnyId(c) == flight[key[c]] # NoFlight

(* The entry is still this caller's flight and no newer one. *)
Mine(c) == flight[key[c]] = id[c]

(* flight.waiters.saturating_sub(1) *)
Decrement(n) == IF n > 0 THEN n - 1 ELSE 0

(* FlightGuard::drop: remove_if_mut under the shard lock. *)
DropGuard(c, finished) ==
    LET k == key[c]
        left == Decrement(waiters[k])
    IN  /\ pc' = [pc EXCEPT ![c] = "idle"]
        /\ flight' = IF Mine(c) /\ Removes(finished, left)
                     THEN [flight EXCEPT ![k] = NoFlight] ELSE flight
        /\ waiters' = IF Mine(c) THEN [waiters EXCEPT ![k] = left] ELSE waiters
        /\ id' = [id EXCEPT ![c] = NoFlight]
        /\ UNCHANGED <<fut, key>>

(* The caller returns the result; finished is set. *)
Return(c) ==
    /\ pc[c] = "finished"
    /\ DropGuard(c, TRUE)
    /\ served' = served \union {id[c]}

(* The poll panicked: the guard is dropped while unwinding. *)
Unwind(c) ==
    /\ pc[c] = "panicking"
    /\ DropGuard(c, FALSE)
    /\ UNCHANGED served

(* The caller's future is dropped at the await. *)
Cancel(c) ==
    /\ pc[c] = "waiting"
    /\ DropGuard(c, FALSE)
    /\ UNCHANGED served

Next ==
    \E c \in Callers :
        \/ \E k \in Keys : Enter(c, k)
        \/ Poll(c)
        \/ Return(c)
        \/ Unwind(c)
        \/ Cancel(c)

Spec == Init /\ [][Next]_vars

-----------------------------------------------------------------------------
(* An entry counts exactly the callers that will still leave it, so it is     *)
(* never leaked (there is one) and never dropped under a caller that awaits.  *)
WaitersExact ==
    \A k \in Keys :
        flight[k] # NoFlight => /\ waiters[k] = Cardinality(Attached(flight[k]))
                                /\ waiters[k] > 0

(* "the guarded future runs exactly once while it is in flight": two callers  *)
(* of a key whose work is still pending share one flight, whoever started it  *)
(* and whoever was cancelled.                                                 *)
OneExecution ==
    \A c, d \in Callers :
        /\ pc[c] # "idle" /\ fut[id[c]] = "pending"
        /\ pc[d] # "idle" /\ fut[id[d]] = "pending"
        /\ key[c] = key[d]
        => id[c] = id[d]

(* "it is not a result cache": once a caller has returned with the result of  *)
(* a flight no later call can join it.                                        *)
NotACache == \A k \in Keys : flight[k] \notin served
=============================================================================
