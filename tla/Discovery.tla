----------------------------- MODULE Discovery -----------------------------
(***************************************************************************)
(* DNS discovery of pc-grpc: the Refresher task (discovery.rs), the bounded    *)
(* change queue it feeds and the balancer that drains it.                      *)
(*                                                                         *)
(* Refresher::apply never awaits, but the balancer runs on another thread and  *)
(* frees room in the queue between two batches, so every batch is a step.      *)
(* apply takes addresses in sorted order; the model takes them in any order.   *)
(* Delays are not modelled: a tick may come at any time.  How the channel comes  *)
(* about, and the specification of both, is in GrpcDial.                        *)
(***************************************************************************)
EXTENDS Integers, Sequences, FiniteSets

CONSTANTS Addrs,   \* socket addresses
          V4,      \* the IPv4 ones
          Answers, \* what the name may resolve to
          Pool,    \* endpoints per address
          Buffer,  \* DISCOVERY_BUFFER, capacity of the change queue
          Seed     \* stands for EndpointKey::Seed

ASSUME DiscoveryAssumption ==
    /\ IsFiniteSet(Addrs) /\ V4 \subseteq Addrs /\ Answers \subseteq SUBSET Addrs
    /\ Seed \notin Addrs
    /\ Pool \in Nat \ {0}
    /\ Buffer \in Nat /\ Pool <= Buffer   \* discovery_target refuses more

VARIABLES known,       \* Refresher::known
          seed_slots,  \* Refresher::seed_slots
          phase,       \* where the refresher is in run and apply
          found,       \* the answer being applied
          todo,        \* addresses apply has still to insert or remove
          queue,       \* the change queue
          balancer,    \* keys of the endpoints tonic balances over
          dropped,     \* the Channel and its clones are dropped
          dns,         \* what the name resolves to
          settled      \* DNS is stable, lookups and builds succeed

vars == <<known, seed_slots, phase, found, todo, queue, balancer, dropped, dns,
          settled>>

Slots == 1..Pool
EndpointKeys == (Addrs \union {Seed}) \X Slots
Change == [kind : {"Insert", "Remove"}, key : EndpointKeys]

TypeOK ==
    /\ known \in SUBSET Addrs
    /\ seed_slots \in {0, Pool}
    /\ phase \in {"unborn", "sleep", "lookup", "insert", "remove", "seeds", "returned"}
    /\ found \in SUBSET Addrs
    /\ todo \in SUBSET Addrs
    /\ queue \in Seq(Change) /\ Len(queue) <= Buffer
    /\ balancer \in SUBSET EndpointKeys
    /\ dropped \in BOOLEAN
    /\ dns \in Answers
    /\ settled \in BOOLEAN

-----------------------------------------------------------------------------
(* prefer_ipv4 *)
PreferIpv4(addrs) == IF addrs \intersect V4 # {} THEN addrs \intersect V4 ELSE addrs

(* diff_addrs: an empty answer changes nothing. *)
Added(old, new) == new \ old
Gone(old, new) == IF new = {} THEN {} ELSE old \ new

(* One change per slot of an address (or of the seed). *)
Batch(kind, a) == [slot \in Slots |-> [kind |-> kind, key |-> <<a, slot>>]]

(* try_reserve_many: room for a whole batch. *)
Room == Len(queue) + Pool <= Buffer

(* No channel yet: GrpcDial makes it. *)
DiscoveryInit ==
    /\ known = {} /\ seed_slots = 0
    /\ phase = "unborn"
    /\ found = {} /\ todo = {}
    /\ queue = <<>> /\ balancer = {}
    /\ dropped = FALSE
    /\ dns \in Answers
    /\ settled = FALSE

-----------------------------------------------------------------------------
(* run: the sleep ends. *)
Wake ==
    /\ phase = "sleep"
    /\ phase' = "lookup"
    /\ UNCHANGED <<known, seed_slots, found, todo, queue, balancer, dropped, dns,
                   settled>>

(* run: tx.closed() ends the sleep and the task. *)
Quit ==
    /\ phase = "sleep" /\ dropped
    /\ phase' = "returned"
    /\ UNCHANGED <<known, seed_slots, found, todo, queue, balancer, dropped, dns,
                   settled>>

(* The lookup fails or takes longer than LOOKUP_TIMEOUT: nothing changes. *)
LookupFails ==
    /\ phase = "lookup" /\ ~settled
    /\ phase' = "sleep"
    /\ UNCHANGED <<known, seed_slots, found, todo, queue, balancer, dropped, dns,
                   settled>>

(* The lookup answers; apply starts with the difference. *)
Lookup ==
    /\ phase = "lookup"
    /\ found' = PreferIpv4(dns)
    /\ todo' = Added(known, found')
    /\ phase' = "insert"
    /\ UNCHANGED <<known, seed_slots, queue, balancer, dropped, dns, settled>>

(* apply: an address whose endpoint cannot be built is left for the next tick. *)
BuildFails(a) ==
    /\ phase = "insert" /\ a \in todo /\ ~settled
    /\ todo' = todo \ {a}
    /\ UNCHANGED <<known, seed_slots, phase, found, queue, balancer, dropped, dns,
                   settled>>

(* send_batch: the whole batch is queued. *)
Send(kind, a) ==
    /\ ~dropped /\ Room
    /\ queue' = queue \o Batch(kind, a)

(* send_batch: a full queue ends the tick, a closed one the task. *)
SendFails ==
    /\ \/ ~dropped /\ ~Room /\ phase' = "sleep"
       \/ dropped /\ phase' = "returned"
    /\ todo' = {} /\ found' = {}
    /\ UNCHANGED <<seed_slots, queue>>

(* Mutant: the address is recorded whether or not its batch was queued. *)
Insert_KnownAnyway(a) ==
    /\ phase = "insert" /\ a \in todo
    /\ \/ /\ Send("Insert", a)
          /\ todo' = todo \ {a}
          /\ UNCHANGED <<seed_slots, phase, found>>
       \/ SendFails
    /\ known' = known \union {a}
    /\ UNCHANGED <<balancer, dropped, dns, settled>>

(* apply: the pool of a new address. *)
Insert(a) ==
    /\ phase = "insert" /\ a \in todo
    /\ \/ /\ Send("Insert", a)
          /\ known' = known \union {a}
          /\ todo' = todo \ {a}
          /\ UNCHANGED <<seed_slots, phase, found>>
       \/ SendFails /\ UNCHANGED known
    /\ UNCHANGED <<balancer, dropped, dns, settled>>

(* Mutant: no check that an endpoint is left. *)
Removable_Always == Gone(known, found)

(* Mutant: asks for two endpoints to be left. *)
Removable_Strict ==
    IF Cardinality(known) > Cardinality(Gone(known, found)) + 1
    THEN Gone(known, found) ELSE {}

(* The addresses to remove: none if that would leave no endpoint. *)
Removable ==
    IF Cardinality(known) > Cardinality(Gone(known, found))
    THEN Gone(known, found) ELSE {}

(* apply: the inserts are through. *)
InsertsDone ==
    /\ phase = "insert" /\ todo = {}
    /\ phase' = "remove"
    /\ todo' = Removable
    /\ UNCHANGED <<known, seed_slots, found, queue, balancer, dropped, dns, settled>>

(* apply: the pool of an address that is gone. *)
Remove(a) ==
    /\ phase = "remove" /\ a \in todo
    /\ \/ /\ Send("Remove", a)
          /\ known' = known \ {a}
          /\ todo' = todo \ {a}
          /\ UNCHANGED <<seed_slots, phase, found>>
       \/ SendFails /\ UNCHANGED known
    /\ UNCHANGED <<balancer, dropped, dns, settled>>

RemovesDone ==
    /\ phase = "remove" /\ todo = {}
    /\ phase' = "seeds"
    /\ UNCHANGED <<known, seed_slots, found, todo, queue, balancer, dropped, dns,
                   settled>>

(* apply: the seed goes once an address is known. *)
RemoveSeeds ==
    /\ phase = "seeds"
    /\ \/ /\ seed_slots > 0 /\ known # {}
          /\ Send("Remove", Seed)
          /\ seed_slots' = 0 /\ phase' = "sleep" /\ found' = {}
          /\ UNCHANGED todo
       \/ seed_slots > 0 /\ known # {} /\ SendFails
       \/ /\ seed_slots = 0 \/ known = {}
          /\ phase' = "sleep" /\ found' = {}
          /\ UNCHANGED <<seed_slots, todo, queue>>
    /\ UNCHANGED <<known, balancer, dropped, dns, settled>>

Refresh ==
    \/ Wake \/ Lookup \/ LookupFails
    \/ \E a \in Addrs : BuildFails(a) \/ Insert(a) \/ Remove(a)
    \/ InsertsDone \/ RemovesDone \/ RemoveSeeds

(* External: tonic's balancer takes one change off the queue. *)
Drain ==
    /\ ~dropped /\ queue # <<>>
    /\ balancer' = IF Head(queue).kind = "Insert"
                   THEN balancer \union {Head(queue).key}
                   ELSE balancer \ {Head(queue).key}
    /\ queue' = Tail(queue)
    /\ UNCHANGED <<known, seed_slots, phase, found, todo, dropped, dns, settled>>

(* External: the last clone of the Channel goes, and its queue with it. *)
DropChannel ==
    /\ ~dropped
    /\ dropped' = TRUE
    /\ queue' = <<>>
    /\ UNCHANGED <<known, seed_slots, phase, found, todo, balancer, dns, settled>>

(* External: pods come and go; at times there are none. *)
DnsChanges ==
    /\ ~settled
    /\ dns' \in Answers
    /\ UNCHANGED <<known, seed_slots, phase, found, todo, queue, balancer, dropped,
                   settled>>

(* External: DNS has its final, non-empty answer. *)
Settle ==
    /\ ~settled /\ dns # {}
    /\ settled' = TRUE
    /\ UNCHANGED <<known, seed_slots, phase, found, todo, queue, balancer, dropped,
                   dns>>

-----------------------------------------------------------------------------
(* "the balancer is never emptied": once there is an endpoint there is always   *)
(* one, at every point at which the queue can be drained to.                    *)
NeverEmptied == [][balancer # {} => balancer' # {}]_vars

(* What the balancer will hold when the queue is drained. *)
WhenDrained(key) ==
    LET about == {i \in DOMAIN queue : queue[i].key = key}
    IN  IF about = {} THEN key \in balancer
        ELSE \E i \in about : /\ queue[i].kind = "Insert"
                              /\ \A j \in about : j <= i

(* "known reflects only what was actually queued", in whole pools: the drained  *)
(* balancer holds every slot of every known address, the seeds while they are    *)
(* counted, and nothing else.                                                  *)
QueuedIsKnown ==
    ~dropped /\ phase # "unborn" => \A key \in EndpointKeys :
        WhenDrained(key) <=> \/ key[1] \in known
                            \/ (key[1] = Seed /\ seed_slots > 0)

(* The balancer holds exactly the pools of what the name resolves to. *)
Converged == balancer = PreferIpv4(dns) \X Slots
=============================================================================
