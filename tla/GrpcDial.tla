------------------------------ MODULE GrpcDial ------------------------------
(***************************************************************************)
(* GrpcClientFactory of pc-grpc: one call of connect, connect_lazy,            *)
(* connect_discovered or connect_discovered_lazy, from the environment to the  *)
(* channel, and then the life of that channel (Discovery).                     *)
(*                                                                         *)
(* The call awaits DNS, sleeps and connection attempts, and the caller may drop *)
(* it at each of them; what the name resolves to goes on changing meanwhile.   *)
(* An environment variable is Unset, Invalid (does not parse) or a number.     *)
(***************************************************************************)
EXTENDS Discovery

CONSTANTS Unset, Invalid,
          DEFAULT_MAX_POOL,
          RetriesRaw,     \* values of GRPC_MAX_RETRIES
          RefreshRaw,     \* values of GRPC_DNS_REFRESH_SEC
          PoolRaw,        \* values of GRPC_..._MAX_POOL, or Unset for a target
                          \* that has none
          InitialBackoff, MaxBackoff,
          U32Max          \* greatest u32, scaled down

ASSUME DialAssumption ==
    /\ DEFAULT_MAX_POOL \in Nat \ {0}
    /\ RetriesRaw \union RefreshRaw \union PoolRaw \subseteq Nat \union {Unset, Invalid}
    /\ InitialBackoff \in Nat /\ MaxBackoff \in Nat /\ U32Max \in Nat

VARIABLES at,        \* where the call is
          lazy,      \* a ..._lazy call
          attempts,  \* max_retries.max(1)
          attempt,   \* the attempt under way in initial_lookup or prewarm
          delay,     \* the last sleep of that loop, 0 before the first
          initial    \* the answer of initial_lookup, {} without discovery

dialVars == <<at, lazy, attempts, attempt, delay, initial>>
allVars == <<vars, dialVars>>

Waiting == {"lookup", "lookupSleep", "prewarm", "prewarmSleep"}

DialTypeOK ==
    /\ TypeOK
    /\ at \in Waiting \union {"idle", "build", "check", "insert", "fixed", "discovered", "failed"}
    /\ lazy \in BOOLEAN
    /\ attempts \in Nat /\ attempt \in 0..attempts
    /\ delay \in 0..MaxBackoff
    /\ initial \in SUBSET Addrs

-----------------------------------------------------------------------------
(* env_parsed: unset, empty and invalid values give the default. *)
EnvParsed(raw, default) == IF raw \in {Unset, Invalid} THEN default ELSE raw

(* parse_dns_refresh: 0 is off, and so is everything that is not a number. *)
ParseDnsRefresh(raw) == EnvParsed(raw, 0)

AtLeastOne(n) == IF n = 0 THEN 1 ELSE n

(* pool_size_for *)
PoolSizeFor(raw) == AtLeastOne(EnvParsed(raw, DEFAULT_MAX_POOL))

(* initial_lookup, prewarm: self.config.max_retries.max(1) *)
AttemptsFor(raw) == AtLeastOne(EnvParsed(raw, 3))

Lesser(a, b) == IF a < b THEN a ELSE b

(* Mutant: the square of the attempt wraps. *)
BackoffCurve_Wraps(n) ==
    Lesser(InitialBackoff * ((n * n) % (U32Max + 1)), MaxBackoff)

(* backoff_curve: initial * attempt^2, the square saturating as a u32. *)
BackoffCurve(n) == Lesser(InitialBackoff * Lesser(n * n, U32Max), MaxBackoff)

(* build_endpoint: the CA file of GRPC_CLIENT_CA_FILE cannot be read, or the    *)
(* URI or the TLS set-up is refused; not once the environment is well.          *)
MayNotBuild == ~settled

DialInit ==
    /\ DiscoveryInit
    /\ at = "idle" /\ lazy = FALSE
    /\ attempts = 0 /\ attempt = 0 /\ delay = 0
    /\ initial = {}

-----------------------------------------------------------------------------
(* The call returns Err, or is dropped: a channel made so far goes with it. *)
Fail ==
    /\ at' = "failed"
    /\ dropped' = TRUE
    /\ queue' = <<>> /\ todo' = {} /\ initial' = {} /\ lazy' = FALSE
    /\ attempts' = 0 /\ attempt' = 0 /\ delay' = 0
    /\ UNCHANGED <<known, seed_slots, phase, found, balancer, dns, settled>>

(* resolve_target, discovery_target: the target variable is missing or not      *)
(* host:port, the refresh is zero or a pool does not fit the change queue.      *)
Refused(discover, refresh, pool, target) ==
    \/ target # "host:port"
    \/ discover /\ (refresh = 0 \/ pool > Buffer)

(* The call starts.  connect and connect_lazy discover if the refresh is on;    *)
(* the connect_discovered pair always does, with the refresh it is given.        *)
(* Pool sizes the rest of the model does not look at are left out.               *)
Start ==
    /\ at = "idle"
    /\ \E explicit \in BOOLEAN, isLazy \in BOOLEAN, retries \in RetriesRaw,
          refreshRaw \in RefreshRaw, poolRaw \in PoolRaw,
          target \in {"unset", "malformed", "host:port"} :
        LET refresh  == ParseDnsRefresh(refreshRaw)
            discover == explicit \/ refresh > 0
            pool     == PoolSizeFor(poolRaw)
        IN  \/ Refused(discover, refresh, pool, target) /\ Fail
            \/ /\ ~Refused(discover, refresh, pool, target) /\ pool = Pool
               /\ at' = IF discover /\ ~isLazy THEN "lookup"
                        ELSE IF discover THEN "insert" ELSE "build"
               /\ lazy' = isLazy
               /\ attempts' = AttemptsFor(retries) /\ attempt' = 1
               /\ UNCHANGED <<vars, delay, initial>>

(* The caller drops the future while it waits. *)
Abandon == at \in Waiting /\ Fail

(* One more attempt after a sleep, or the last error. *)
RetryOrFail ==
    \/ /\ attempt < attempts
       /\ at' = IF at = "lookup" THEN "lookupSleep" ELSE "prewarmSleep"
       /\ delay' = BackoffCurve(attempt)
       /\ UNCHANGED <<vars, lazy, attempts, attempt, initial>>
    \/ attempt = attempts /\ Fail

(* Mutant: the attempt is not counted. *)
Slept_Uncounted ==
    /\ at \in {"lookupSleep", "prewarmSleep"}
    /\ at' = IF at = "lookupSleep" THEN "lookup" ELSE "prewarm"
    /\ UNCHANGED <<vars, lazy, attempts, attempt, delay, initial>>

(* The sleep between two attempts is over. *)
Slept ==
    /\ at \in {"lookupSleep", "prewarmSleep"}
    /\ at' = IF at = "lookupSleep" THEN "lookup" ELSE "prewarm"
    /\ attempt' = attempt + 1
    /\ UNCHANGED <<vars, lazy, attempts, delay, initial>>

(* initial_lookup: an empty answer counts as a failure.  There is no            *)
(* LOOKUP_TIMEOUT here, and getaddrinfo "can hang": the answer may never come.   *)
InitialLookup ==
    /\ at = "lookup"
    /\ \/ /\ dns # {}
          /\ initial' = PreferIpv4(dns)
          /\ at' = "build" /\ attempt' = 1 /\ delay' = 0
          /\ UNCHANGED <<vars, lazy, attempts>>
       \/ (dns = {} \/ ~settled) /\ RetryOrFail

(* build_endpoint for the host name, or for the first address of the answer.   *)
(* connect_lazy is done: Channel::balance_list holds `pool` host-name endpoints. *)
Build ==
    /\ at = "build"
    /\ \/ /\ ~lazy
          /\ at' = "prewarm"
          /\ UNCHANGED <<vars, lazy, attempts, attempt, delay, initial>>
       \/ /\ lazy
          /\ at' = "fixed" /\ balancer' = {Seed} \X Slots
          /\ attempts' = 0 /\ attempt' = 0
          /\ UNCHANGED <<known, seed_slots, phase, found, todo, queue, dropped, dns,
                         settled, lazy, delay, initial>>
       \/ MayNotBuild /\ Fail

(* prewarm: the probe connects, or fails because nothing answers there (any     *)
(* more).  connect is done then; connect_discovered has its channel to fill.    *)
Prewarm ==
    /\ at = "prewarm"
    /\ \/ /\ initial = {} /\ dns # {}
          /\ at' = "fixed" /\ balancer' = {Seed} \X Slots
          /\ attempts' = 0 /\ attempt' = 0 /\ delay' = 0
          /\ UNCHANGED <<known, seed_slots, phase, found, todo, queue, dropped, dns,
                         settled, lazy, initial>>
       \/ /\ initial # {} /\ (~settled \/ initial \intersect dns # {})
          /\ at' = "check"
          /\ attempts' = 0 /\ attempt' = 0 /\ delay' = 0
          /\ UNCHANGED <<vars, lazy, initial>>
       \/ (~settled \/ initial \ dns # {}) /\ RetryOrFail

(* Mutant: the answer may be larger than the change queue. *)
CheckBuffer_Skipped ==
    /\ at = "check"
    /\ at' = "insert" /\ todo' = initial
    /\ UNCHANGED <<known, seed_slots, phase, found, queue, balancer, dropped, dns,
                   settled, lazy, attempts, attempt, delay, initial>>

(* connect_discovered_with: "Checked against the buffer, then try_send, so     *)
(* setup can never block."                                                    *)
CheckBuffer ==
    /\ at = "check"
    /\ \/ Cardinality(initial) * Pool > Buffer /\ Fail
       \/ /\ Cardinality(initial) * Pool <= Buffer
          /\ at' = "insert" /\ todo' = initial
          /\ UNCHANGED <<known, seed_slots, phase, found, queue, balancer, dropped,
                         dns, settled, lazy, attempts, attempt, delay, initial>>

(* connect_discovered_with: the endpoints of one address.  The balancer takes   *)
(* them off on another thread while the loop goes on.                           *)
InsertInitial(a) ==
    /\ at = "insert" /\ ~lazy /\ a \in todo
    /\ \/ /\ queue' = queue \o Batch("Insert", a)
          /\ todo' = todo \ {a}
          /\ UNCHANGED <<known, seed_slots, phase, found, balancer, dropped, dns,
                         settled, dialVars>>
       \/ MayNotBuild /\ Fail

(* connect_discovered_with: the refresher takes over; the first tick comes       *)
(* after a full interval.                                                     *)
Spawn ==
    /\ at = "insert" /\ ~lazy /\ todo = {}
    /\ known' = initial /\ phase' = "sleep"
    /\ at' = "discovered" /\ initial' = {}
    /\ UNCHANGED <<seed_slots, found, todo, queue, balancer, dropped, dns, settled,
                   lazy, attempts, attempt, delay>>

(* connect_discovered_lazy_with: host-name seeds stand in for the addresses. *)
SpawnLazy ==
    /\ at = "insert" /\ lazy
    /\ \/ /\ queue' = Batch("Insert", Seed) /\ seed_slots' = Pool
          /\ phase' = "sleep" /\ at' = "discovered"
          /\ lazy' = FALSE /\ attempts' = 0 /\ attempt' = 0
          /\ UNCHANGED <<known, found, todo, balancer, dropped, dns, settled, delay,
                         initial>>
       \/ MayNotBuild /\ Fail

(* The steps that need nothing but a poll, a timer or a connect with its timeout. *)
Polled ==
    \/ Slept \/ Build \/ Prewarm \/ CheckBuffer
    \/ \E a \in Addrs : InsertInitial(a)
    \/ Spawn \/ SpawnLazy

Dial == InitialLookup \/ Polled

InUse == at \in {"fixed", "discovered"}

Over == dropped /\ phase \in {"unborn", "returned"} /\ UNCHANGED allVars

DialNext ==
    \/ Start \/ Abandon \/ Dial
    \/ (Refresh \/ Quit \/ Drain \/ DnsChanges \/ Settle) /\ UNCHANGED dialVars
    \/ InUse /\ DropChannel /\ UNCHANGED dialVars
    \/ Over

DialSpec == DialInit /\ [][DialNext]_allVars

(* The call is polled, its sleeps end, and connect ends by its timeout of 5 s; the *)
(* first lookups have none, and nothing makes them answer.  The task runs and its *)
(* timers, LOOKUP_TIMEOUT among them, fire.  A balancer under traffic drains its  *)
(* queue.  select! picks among ready branches at random, and the sleep that has   *)
(* just begun is not ready: strong fairness of Quit.                             *)
DialFairSpec ==
    /\ DialSpec
    /\ WF_allVars(Polled)
    /\ WF_allVars(Refresh /\ UNCHANGED dialVars)
    /\ WF_allVars(Drain /\ UNCHANGED dialVars)
    /\ SF_allVars(Quit /\ UNCHANGED dialVars)

-----------------------------------------------------------------------------
(* A caller that is handed a channel can use it: the balancer has an endpoint or *)
(* will have one when it has drained its queue, so that "a call never waits on  *)
(* an empty balancer"; try_send never meets a full queue while the channel is   *)
(* set up; and a call that failed or was dropped leaves no task and no queue.   *)
HandedOutUsable ==
    /\ InUse /\ ~dropped => \E key \in EndpointKeys : WhenDrained(key)
    /\ at = "insert" /\ todo # {} => Room
    /\ at = "failed" => phase = "unborn" /\ queue = <<>>

(* The pauses between the attempts of one loop never get shorter. *)
BackoffGrows ==
    [][at' \in {"lookupSleep", "prewarmSleep"} => delay' >= delay]_allVars

(* Every call comes back, however many lookups and probes fail, unless one of the *)
(* lookups of initial_lookup, which have no deadline, is never answered: nothing   *)
(* else holds a call up.  And the task a call leaves behind ends when the channel  *)
(* is dropped, though a lookup of its own hangs: those have LOOKUP_TIMEOUT.        *)
DialEnds ==
    /\ at \in {"lookup", "build"} ~>
         (at \in {"fixed", "discovered", "failed"} \/ [](at = "lookup"))
    /\ dropped ~> phase \in {"unborn", "returned"}

(* On a discovering channel in use, the balancer ends up with exactly the pools  *)
(* of the addresses DNS settles on, however full the queue was meanwhile and     *)
(* however old the answer the channel was made from.                             *)
Converges ==
    settled /\ at = "discovered" ~> [](dropped \/ Converged)
=============================================================================
