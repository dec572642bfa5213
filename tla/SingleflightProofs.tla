-------------------------- MODULE SingleflightProofs --------------------------
(***************************************************************************)
(* None of the safety properties is inductive alone.  An entry must not be   *)
(* removed under a caller whose work is pending (PendingMapped), for which   *)
(* the count must be exact (WaitersExact), for which a leaving caller must   *)
(* not touch another flight (KeyOfFlight, DistinctFlights).                  *)
(***************************************************************************)
EXTENDS Singleflight, FiniteSetTheorems, TLAPS

(* A caller holds an id exactly while it is in do_call. *)
IdleFree == \A c \in Callers : pc[c] = "idle" <=> id[c] = NoFlight

(* Only the end of the work lets a caller finish. *)
OutcomeKnown == \A c \in Callers : pc[c] = "finished" => fut[id[c]] = "done"

(* The flight of a caller whose work is pending is still in the map. *)
PendingMapped ==
    \A c \in Callers :
        id[c] # NoFlight /\ fut[id[c]] = "pending" => flight[key[c]] = id[c]

(* An entry is the flight only of callers of its own key. *)
KeyOfFlight ==
    \A c \in Callers, k \in Keys :
        id[c] # NoFlight /\ flight[k] = id[c] => key[c] = k

(* No flight is the entry of two keys. *)
DistinctFlights ==
    \A j, k \in Keys : flight[j] # NoFlight /\ flight[j] = flight[k] => j = k

SFInv ==
    /\ TypeOK /\ WaitersExact /\ IdleFree /\ OutcomeKnown /\ PendingMapped
    /\ KeyOfFlight /\ DistinctFlights /\ NotACache

(* At most all callers hold a guard of one flight. *)
LEMMA AttachedFinite ==
    ASSUME NEW i
    PROVE  /\ IsFiniteSet(Attached(i))
           /\ Cardinality(Attached(i)) \in 0..Cardinality(Callers)
<1>1. IsFiniteSet(Callers)
  BY SingleflightAssumption
<1>2. Attached(i) \in SUBSET Callers
  BY DEF Attached
<1> QED BY <1>1, <1>2, FS_Subset, FS_CardinalityType

LEMMA InitInv == Init => SFInv
<1> SUFFICES ASSUME Init PROVE SFInv
  OBVIOUS
<1>1. 0 \in 0..Cardinality(Callers)
  BY SingleflightAssumption, FS_CardinalityType
<1>2. TypeOK
  BY <1>1 DEF Init, TypeOK
<1> QED
  BY <1>2, SingleflightAssumption
     DEF Init, SFInv, WaitersExact, IdleFree, OutcomeKnown, PendingMapped,
         KeyOfFlight, DistinctFlights, NotACache

(* Joining: the caller becomes one more of the entry's waiters. *)
LEMMA JoinInv ==
    ASSUME SFInv, NEW c \in Callers, NEW k \in Keys, Enter(c, k), Join(c, k)
    PROVE  SFInv'
<1> USE SingleflightAssumption DEF SFInv
<1> DEFINE After(i) == {d \in Callers : id'[d] = i}
<1>0. id[c] = NoFlight /\ flight[k] \in Ids
  BY DEF Enter, Join, IdleFree, TypeOK
<1>1. \A i : i # NoFlight /\ i # flight[k] => After(i) = Attached(i)
  BY <1>0 DEF Attached, Join, TypeOK
<1>2. After(flight[k]) = Attached(flight[k]) \union {c} /\ c \notin Attached(flight[k])
  BY <1>0 DEF Attached, Join, TypeOK
<1>3. Cardinality(After(flight[k])) = Cardinality(Attached(flight[k])) + 1
  BY <1>2, AttachedFinite, FS_AddElement
<1>4. waiters'[k] = Cardinality(After(flight[k])) /\ waiters'[k] > 0
  <2>1. waiters[k] = Cardinality(Attached(flight[k])) /\ waiters[k] > 0
    BY <1>0 DEF WaitersExact
  <2>2. waiters'[k] = waiters[k] + 1 /\ waiters[k] \in Nat
    BY FS_CardinalityType DEF Join, TypeOK
  <2> QED BY <1>3, <2>1, <2>2
<1>5. waiters'[k] \in 0..Cardinality(Callers)
  <2>1. After(flight[k]) \subseteq Callers
    OBVIOUS
  <2> QED BY <2>1, <1>4, FS_Subset, FS_CardinalityType
<1>6. TypeOK'
  BY <1>0, <1>5 DEF TypeOK, Enter, Join
<1>7. WaitersExact'
  <2>1. ASSUME NEW j \in Keys, flight'[j] # NoFlight
        PROVE  waiters'[j] = Cardinality(After(flight'[j])) /\ waiters'[j] > 0
    <3>1. CASE j = k
      BY <3>1, <1>4 DEF Join
    <3>2. CASE j # k
      <4>1. flight[j] # flight[k] /\ flight[j] # NoFlight /\ flight'[j] = flight[j]
        BY <2>1, <3>2, <1>0 DEF DistinctFlights, Join
      <4>2. waiters'[j] = waiters[j] /\ After(flight'[j]) = Attached(flight[j])
        BY <3>2, <4>1, <1>1 DEF Join, TypeOK
      <4> QED BY <4>1, <4>2 DEF WaitersExact
    <3> QED BY <3>1, <3>2
  <2> QED BY <2>1 DEF WaitersExact, Attached
<1>8. IdleFree' /\ OutcomeKnown'
  BY <1>0 DEF IdleFree, OutcomeKnown, Enter, Join, TypeOK
<1>9. PendingMapped' /\ KeyOfFlight' /\ DistinctFlights' /\ NotACache'
  BY <1>0 DEF PendingMapped, KeyOfFlight, DistinctFlights, NotACache, Enter, Join, TypeOK
<1> QED BY <1>6, <1>7, <1>8, <1>9

(* Registering: the id is fresh, so the new flight has this one waiter. *)
LEMMA StartInv ==
    ASSUME SFInv, NEW c \in Callers, NEW k \in Keys, Enter(c, k), Start(c, k)
    PROVE  SFInv'
<1> USE SingleflightAssumption DEF SFInv
<1> DEFINE After(i) == {d \in Callers : id'[d] = i}
<1>0. PICK i \in Ids :
         /\ ~InUse(i)
         /\ flight' = [flight EXCEPT ![k] = i]
         /\ fut' = [fut EXCEPT ![i] = "pending"]
         /\ id' = [id EXCEPT ![c] = i]
         /\ served' = served \ {i}
  BY DEF Start
<1>1. /\ id[c] = NoFlight
      /\ \A d \in Callers : id[d] # i
      /\ \A j \in Keys : flight[j] # i
  BY <1>0 DEF Enter, IdleFree, InUse, Attached
<1>2. waiters' = [waiters EXCEPT ![k] = 1] /\ flight[k] = NoFlight
  BY DEF Start
<1>3. After(i) = {c}
  BY <1>0, <1>1 DEF TypeOK
<1>4. Cardinality(After(i)) = 1 /\ 1 \in 0..Cardinality(Callers)
  <2>1. Cardinality({c}) = 1 /\ {c} \subseteq Callers
    BY FS_Singleton
  <2> QED BY <1>3, <2>1, FS_Subset, FS_CardinalityType
<1>5. TypeOK'
  BY <1>0, <1>2, <1>4 DEF TypeOK, Enter
<1>6. WaitersExact'
  <2>1. ASSUME NEW j \in Keys, flight'[j] # NoFlight
        PROVE  waiters'[j] = Cardinality(After(flight'[j])) /\ waiters'[j] > 0
    <3>1. CASE j = k
      BY <3>1, <1>0, <1>2, <1>4 DEF TypeOK
    <3>2. CASE j # k
      <4>1. flight'[j] = flight[j] /\ waiters'[j] = waiters[j]
        BY <3>2, <1>0, <1>2 DEF TypeOK
      <4>2. After(flight'[j]) = Attached(flight[j])
        BY <2>1, <4>1, <1>0, <1>1 DEF Attached, TypeOK
      <4> QED BY <2>1, <4>1, <4>2 DEF WaitersExact
    <3> QED BY <3>1, <3>2
  <2> QED BY <2>1 DEF WaitersExact, Attached
<1>7. IdleFree' /\ OutcomeKnown'
  BY <1>0, <1>1 DEF IdleFree, OutcomeKnown, Enter, TypeOK
<1>8. PendingMapped'
  BY <1>0, <1>1, <1>2 DEF PendingMapped, Enter, TypeOK
<1>9. KeyOfFlight' /\ DistinctFlights' /\ NotACache'
  BY <1>0, <1>1 DEF KeyOfFlight, DistinctFlights, NotACache, Enter, TypeOK
<1> QED BY <1>5, <1>6, <1>7, <1>8, <1>9

LEMMA PollInv ==
    ASSUME SFInv, NEW c \in Callers, Poll(c)
    PROVE  SFInv'
<1> USE SingleflightAssumption DEF SFInv
<1>1. id[c] \in Ids
  BY DEF Poll, IdleFree, TypeOK
<1>2. TypeOK'
  BY <1>1 DEF Poll, PollPending, PollReady, PollPanic, TypeOK
<1>3. WaitersExact'
  BY DEF Poll, WaitersExact, Attached
<1>4. IdleFree'
  BY DEF Poll, PollPending, PollReady, PollPanic, IdleFree, TypeOK
<1>5. OutcomeKnown'
  <2>1. CASE PollPending(c)
    BY <1>1, <2>1 DEF Poll, PollPending, OutcomeKnown, TypeOK
  <2>2. CASE PollReady(c)
    BY <1>1, <2>2 DEF Poll, PollReady, OutcomeKnown, TypeOK
  <2>3. CASE PollPanic(c)
    BY <1>1, <2>3 DEF Poll, PollPanic, OutcomeKnown, TypeOK
  <2> QED BY <2>1, <2>2, <2>3 DEF Poll
<1>6. PendingMapped'
  BY <1>1 DEF Poll, PollPending, PollReady, PollPanic, PendingMapped, TypeOK
<1>7. KeyOfFlight' /\ DistinctFlights' /\ NotACache'
  BY DEF Poll, KeyOfFlight, DistinctFlights, NotACache
<1> QED BY <1>2, <1>3, <1>4, <1>5, <1>6, <1>7

(* Leaving, on whichever path: the entry goes with the first caller that     *)
(* finished or with the last one, and another flight is not touched.         *)
LEMMA DropGuardInv ==
    ASSUME SFInv, NEW c \in Callers, pc[c] # "idle",
           NEW finished \in BOOLEAN, DropGuard(c, finished),
           finished => fut[id[c]] = "done",
           served' \in SUBSET Ids,
           served' = served \/ (finished /\ served' = served \union {id[c]})
    PROVE  SFInv'
<1> USE SingleflightAssumption DEF SFInv
<1> DEFINE After(i) == {d \in Callers : id'[d] = i}
<1> DEFINE k == key[c]
<1> DEFINE left == Decrement(waiters[k])
<1>0. /\ id[c] \in Ids /\ k \in Keys
      /\ id' = [id EXCEPT ![c] = NoFlight]
      /\ pc' = [pc EXCEPT ![c] = "idle"]
      /\ fut' = fut /\ key' = key
      /\ flight' = IF Mine(c) /\ Removes(finished, left)
                   THEN [flight EXCEPT ![k] = NoFlight] ELSE flight
      /\ waiters' = IF Mine(c) THEN [waiters EXCEPT ![k] = left] ELSE waiters
  BY DEF DropGuard, IdleFree, TypeOK
<1> HIDE DEF k, left
<1>1. ASSUME Mine(c)
      PROVE  /\ After(id[c]) = Attached(id[c]) \ {c}
             /\ left = Cardinality(After(id[c]))
             /\ left \in 0..Cardinality(Callers)
  <2>1. After(id[c]) = Attached(id[c]) \ {c} /\ c \in Attached(id[c])
    BY <1>0 DEF Attached, TypeOK
  <2>2. Cardinality(After(id[c])) = Cardinality(Attached(id[c])) - 1
    <3>1. IsFiniteSet(Attached(id[c]))
      BY AttachedFinite
    <3>2. Cardinality(Attached(id[c]) \ {c}) = Cardinality(Attached(id[c])) - 1
      BY <2>1, <3>1, FS_RemoveElement
    <3> QED BY <2>1, <3>2
  <2>3. waiters[k] = Cardinality(Attached(id[c])) /\ waiters[k] > 0
    BY <1>0, <1>1 DEF Mine, WaitersExact, k
  <2>4. waiters[k] \in 0..Cardinality(Callers)
    BY <1>0 DEF TypeOK
  <2>5. Cardinality(Callers) \in Nat
    BY FS_CardinalityType
  <2> QED BY <2>1, <2>2, <2>3, <2>4, <2>5 DEF Decrement, left
<1>2. TypeOK'
  BY <1>0, <1>1 DEF TypeOK
<1>3. \A j \in Keys : flight'[j] # NoFlight => flight'[j] = flight[j]
  BY <1>0 DEF TypeOK
<1>4. WaitersExact'
  <2>1. ASSUME NEW j \in Keys, flight'[j] # NoFlight
        PROVE  waiters'[j] = Cardinality(After(flight'[j])) /\ waiters'[j] > 0
    <3>1. CASE flight[j] = id[c]
      <4>1. j = k /\ Mine(c)
        BY <3>1, <1>0 DEF KeyOfFlight, Mine, k
      <4>2. ~Removes(finished, left)
        BY <2>1, <4>1, <1>0 DEF TypeOK
      <4>3. waiters'[j] = left /\ left # 0
        BY <4>1, <4>2, <1>0 DEF TypeOK, Removes
      <4>4. left > 0 /\ left = Cardinality(After(id[c]))
        BY <1>1, <4>1, <4>3, FS_CardinalityType
      <4> QED BY <2>1, <1>3, <3>1, <4>3, <4>4
    <3>2. CASE flight[j] # id[c]
      <4>1. waiters'[j] = waiters[j]
        BY <3>2, <1>0 DEF Mine, TypeOK, k
      <4>2. After(flight'[j]) = Attached(flight[j])
        BY <3>2, <2>1, <1>3, <1>0 DEF Attached, TypeOK
      <4> QED BY <2>1, <1>3, <4>1, <4>2 DEF WaitersExact
    <3> QED BY <3>1, <3>2
  <2> QED BY <2>1 DEF WaitersExact, Attached
<1>5. IdleFree' /\ OutcomeKnown'
  BY <1>0 DEF IdleFree, OutcomeKnown, TypeOK
<1>6. PendingMapped'
  <2> SUFFICES ASSUME NEW d \in Callers, id'[d] # NoFlight, fut'[id'[d]] = "pending"
               PROVE  flight'[key'[d]] = id'[d]
    BY DEF PendingMapped
  <2>1. d # c /\ id'[d] = id[d] /\ flight[key[d]] = id[d] /\ key[d] \in Keys
    BY <1>0 DEF PendingMapped, TypeOK
  <2>2. CASE Mine(c) /\ key[d] = k
    <3>1. id[d] = id[c] /\ d \in After(id[c])
      BY <2>1, <2>2 DEF Mine, k
    <3>2. left # 0
      <4>1. IsFiniteSet(After(id[c]))
        BY SingleflightAssumption, FS_Subset
      <4> QED BY <2>2, <1>1, <3>1, <4>1, FS_EmptySet
    <3>3. ~finished
      BY <3>1, <1>0, <2>1
    <3> QED BY <2>1, <3>2, <3>3, <1>0 DEF Removes
  <2>3. CASE ~(Mine(c) /\ key[d] = k)
    BY <2>1, <2>3, <1>0 DEF TypeOK
  <2> QED BY <2>2, <2>3
<1>7. KeyOfFlight' /\ DistinctFlights'
  BY <1>0, <1>3 DEF KeyOfFlight, DistinctFlights, TypeOK
<1>8. NotACache'
  <2> SUFFICES ASSUME NEW j \in Keys, flight'[j] \in served'
               PROVE  FALSE
    BY DEF NotACache
  <2>1. flight'[j] # NoFlight /\ flight'[j] = flight[j]
    BY <1>3
  <2>2. finished /\ flight[j] = id[c]
    BY <2>1 DEF NotACache
  <2>3. j = k /\ Mine(c)
    BY <2>2, <1>0 DEF KeyOfFlight, Mine, k
  <2> QED BY <2>1, <2>2, <2>3, <1>0 DEF Removes, TypeOK
<1> QED BY <1>2, <1>4, <1>5, <1>6, <1>7, <1>8

LEMMA NextInv == SFInv /\ [Next]_vars => SFInv'
<1> SUFFICES ASSUME SFInv, [Next]_vars PROVE SFInv'
  OBVIOUS
<1>1. ASSUME NEW c \in Callers, NEW k \in Keys, Enter(c, k) PROVE SFInv'
  BY <1>1, JoinInv, StartInv DEF Enter
<1>2. ASSUME NEW c \in Callers, Return(c) PROVE SFInv'
  <2>1. id[c] \in Ids /\ fut[id[c]] = "done"
    BY <1>2 DEF Return, SFInv, IdleFree, OutcomeKnown, TypeOK
  <2> QED BY <1>2, <2>1, DropGuardInv DEF Return, SFInv, TypeOK
<1>3. ASSUME NEW c \in Callers, Unwind(c) PROVE SFInv'
  <2>1. id[c] \in Ids
    BY <1>3 DEF Unwind, SFInv, IdleFree, TypeOK
  <2> QED BY <1>3, <2>1, DropGuardInv DEF Unwind, SFInv, TypeOK
<1>4. ASSUME NEW c \in Callers, Cancel(c) PROVE SFInv'
  BY <1>4, DropGuardInv DEF Cancel, SFInv, TypeOK
<1>5. CASE UNCHANGED vars
  BY <1>5 DEF vars, SFInv, TypeOK, WaitersExact, Attached, IdleFree,
              OutcomeKnown, PendingMapped, KeyOfFlight, DistinctFlights, NotACache
<1> QED BY <1>1, <1>2, <1>3, <1>4, <1>5, PollInv DEF Next

(* The inductive invariant of do_call and FlightGuard::drop holds in every     *)
(* reachable state: entries, guards and futures of a flight agree.             *)
THEOREM SingleflightInvariant == Spec => []SFInv
BY InitInv, NextInv, PTL DEF Spec

(* For every finite set of callers, every set of keys and of ids: an entry   *)
(* counts exactly the callers still attached to it, so none is leaked and    *)
(* none is removed under a caller that awaits pending work.                  *)
THEOREM SingleflightWaiters == Spec => [](TypeOK /\ WaitersExact)
<1>1. SFInv => TypeOK /\ WaitersExact
  BY DEF SFInv
<1> QED BY <1>1, SingleflightInvariant, PTL

(* do_call runs the work of a key once at a time, for every set of callers,  *)
(* keys and ids: callers whose work is pending share one flight.             *)
THEOREM SingleflightOneExecution == Spec => []OneExecution
<1>1. SFInv => OneExecution
  BY DEF SFInv, IdleFree, PendingMapped, OneExecution
<1> QED BY <1>1, SingleflightInvariant, PTL

(* A result somebody returned with is never joined again. *)
THEOREM SingleflightNotACache == Spec => []NotACache
<1>1. SFInv => NotACache
  BY DEF SFInv
<1> QED BY <1>1, SingleflightInvariant, PTL
=============================================================================
