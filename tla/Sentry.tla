------------------------------- MODULE Sentry -------------------------------
(***************************************************************************)
(* A log line on its way to Sentry: the forwarding hook of pc-log, init and    *)
(* receive_log of pc-sentry, and the hubs of the sentry crate.                 *)
(*                                                                         *)
(* Sentry keeps one hub per thread.  The hub of the thread that asks first is   *)
(* the process hub; every other thread gets, when it first asks, a copy of it.  *)
(* init binds its client to the hub of the thread that calls it (Main), between *)
(* installing the hook and setting the breadcrumb data, while others log.       *)
(***************************************************************************)
EXTENDS Integers, FiniteSets

CONSTANTS Threads, Main,
          None,       \* nothing yet
          Lines,      \* the lines that may be logged: level and prefix
          MaxLines    \* bound: lines logged

ASSUME SentryAssumption ==
    /\ Main \in Threads
    /\ None \notin STRING \union Threads \union [service : STRING, module : STRING]
    /\ {"", "bound", "unbound"} \subseteq STRING   \* not built into the provers
    /\ Lines \subseteq [level : {"fatal", "error", "warn", "info", "debug"},
                        prefix : {"fn", "none"}]
    /\ MaxLines \in Nat

VARIABLES forwarding,  \* FORWARDING: the levels the hook gets, or None
          owner,       \* the thread whose hub is the process hub
          hub,         \* the hub of each thread: None, without or with the client
          client,      \* the environment the client was given, or None
          data,        \* SENTRY_DATA
          line,        \* the line each thread is logging, or None
          logged,      \* number of lines so far
          events,      \* what reached the client
          missed,      \* threads whose lines were not heard after init
          early        \* threads that had a hub before the client was bound

sentryVars ==
    <<forwarding, owner, hub, client, data, line, logged, events, missed, early>>

SentryInit ==
    /\ forwarding = None /\ owner = None
    /\ hub = [t \in Threads |-> None]
    /\ client = None /\ data = None
    /\ line = [t \in Threads |-> None] /\ logged = 0
    /\ events = {} /\ missed = {} /\ early = {}

-----------------------------------------------------------------------------
(* External, Hub::current: the process hub is made by the first thread that     *)
(* asks, the hub of any other is a copy.                                       *)
HubOf(t) ==
    IF hub[t] # None THEN hub[t]
    ELSE IF owner = None THEN "unbound" ELSE hub[owner]

Ask(t) ==
    /\ owner' = IF owner = None THEN t ELSE owner
    /\ early' = IF client = None THEN early \union {t} ELSE early

(* sentry_enabled *)
SentryEnabled(t) == HubOf(t) = "bound"

(* configure_log_forwarding: fatal and error unless switched off, the others if  *)
(* switched on; a value that is no Go boolean leaves the default.               *)
ForwardedLevels(flags) ==
    {l \in DOMAIN flags : IF flags[l] = None THEN l \in {"fatal", "error"} ELSE flags[l]}

(* init, 1: the hook is installed, also if there will be no client. *)
Configure(flags) ==
    /\ forwarding' = ForwardedLevels(flags)
    /\ UNCHANGED <<owner, hub, client, data, line, logged, events, missed, early>>

(* init, 2: sentry::init binds a client to the hub of the calling thread.  A     *)
(* DSN that does not parse gives a client too, one that sends nothing.          *)
Bind(environment) ==
    /\ Ask(Main)
    /\ hub' = [hub EXCEPT ![Main] = "bound"]
    /\ client' = environment
    /\ UNCHANGED <<forwarding, data, line, logged, events, missed>>

(* Mutant: the defaults are stored only if there are overrides. *)
Seed_OverridesOnly(service, module) ==
    /\ UNCHANGED sentryVars

(* init, 3: the breadcrumb data, from the identity of the service. *)
Seed(service, module) ==
    /\ data' = [service |-> service, module |-> module]
    /\ UNCHANGED <<forwarding, owner, hub, client, line, logged, events, missed, early>>

-----------------------------------------------------------------------------
(* A macro emits a line (which has passed its gate, see LogGate) and forward reads   *)
(* the configuration: without one, or if the level is not in it, the line goes no    *)
(* further.  late: init had returned by then.                                     *)
Emit(t, l, up) ==
    /\ line[t] = None /\ logged < MaxLines
    /\ logged' = logged + 1
    /\ line' = [line EXCEPT ![t] =
                  IF forwarding = None THEN None
                  ELSE IF l.level \in forwarding
                  THEN [at |-> "receive", level |-> l.level, prefix |-> l.prefix, late |-> up]
                  ELSE None]
    /\ UNCHANGED <<forwarding, owner, hub, client, data, events, missed, early>>

(* receive_log: a thread whose hub has no client skips the line. *)
Receive(t) ==
    /\ line[t] # None /\ line[t].at = "receive"
    /\ Ask(t)
    /\ hub' = [hub EXCEPT ![t] = HubOf(t)]
    /\ line' = [line EXCEPT ![t] =
                  IF SentryEnabled(t) THEN [@ EXCEPT !.at = "capture"] ELSE None]
    /\ missed' = IF line[t].late /\ ~SentryEnabled(t) THEN missed \union {t} ELSE missed
    /\ UNCHANGED <<forwarding, client, data, logged, events>>

(* extract_log_prefix *)
ExceptionType(prefix) == IF prefix = "none" THEN "Log" ELSE prefix

(* resolve_env: the environment of the client, or else that of the process. *)
ResolveEnv(envRaw) == IF client # "" THEN client ELSE envRaw

(* receive_log: the breadcrumb data is read and attached if there is any; an error *)
(* becomes an exception with a title, any other line a message.                  *)
Capture(t, envRaw) ==
    LET l == line[t]
        title == IF l.level \in {"error", "fatal"}
                 THEN [type |-> ExceptionType(l.prefix), env |-> ResolveEnv(envRaw)]
                 ELSE None
    IN  /\ l # None /\ l.at = "capture"
        /\ events' = events \union
             {[title |-> title, crumb |-> data, late |-> l.late]}
        /\ line' = [line EXCEPT ![t] = None]
        /\ UNCHANGED <<forwarding, owner, hub, client, data, logged, missed, early>>

-----------------------------------------------------------------------------
(* Once init has returned with a client, a forwarded line reaches it and carries   *)
(* the breadcrumb data: always if Main logs it, and if another thread does unless   *)
(* that thread had asked for its hub before the client was bound, or some thread    *)
(* but Main had been the first of all to ask.                                    *)
HeardWithContext ==
    /\ client # None => missed \subseteq IF owner = Main THEN early \ {Main}
                                        ELSE Threads \ {Main}
    /\ \A e \in events : e.late => e.crumb # None
=============================================================================
