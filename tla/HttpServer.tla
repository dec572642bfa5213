----------------------------- MODULE HttpServer -----------------------------
(***************************************************************************)
(* serve_with_graceful_shutdown of pc-http with requests behind the            *)
(* middlewares of pc-auth (AuthGate): the server binds, serves until a signal   *)
(* comes, and returns when the requests in flight are over.                     *)
(***************************************************************************)
EXTENDS AuthGate

VARIABLE server   \* "new", "serving", "draining", "stopped" or "failed"

serverVars == <<authVars, server>>

HttpTypeOK ==
    /\ AuthTypeOK
    /\ server \in {"new", "serving", "draining", "stopped", "failed"}

HttpInit == AuthInit /\ server = "new"

-----------------------------------------------------------------------------
(* The listener is bound, or bind fails and the function returns the error. *)
Bind ==
    /\ server = "new"
    /\ server' \in {"serving", "failed"}
    /\ UNCHANGED authVars

(* A request comes, on a new connection or on one that has been open.  After the    *)
(* signal no connection is accepted, but those that are open may carry one more.    *)
Accept(r) ==
    /\ server \in {"serving", "draining"}
    /\ Arrive(r)
    /\ UNCHANGED server

(* shutdown_signal resolves: SIGINT or SIGTERM, or the handler of SIGINT cannot be *)
(* installed, the error of which counts as the signal.                           *)
ShutdownSignal ==
    /\ server = "serving"
    /\ server' = "draining"
    /\ UNCHANGED authVars

(* External, axum: the last request in flight is over and serve returns. *)
Drained ==
    /\ server = "draining" /\ UnderWay = {}
    /\ server' = "stopped"
    /\ UNCHANGED authVars

HttpNext ==
    \/ Bind \/ ShutdownSignal \/ Drained
    \/ \E r \in Reqs : Accept(r) \/ ((Step(r) \/ Finish(r)) /\ UNCHANGED server)
    \/ World /\ UNCHANGED server

HttpSpec == HttpInit /\ [][HttpNext]_serverVars

(* The runtime polls the requests, and a GET on Redis ends by op_timeout at the      *)
(* latest.  Redis need not answer or hand out a connection, and a handler need not    *)
(* return: the TimeoutLayer of base_router covers the routes of base_router only.     *)
HttpFairSpec ==
    /\ HttpSpec
    /\ WF_serverVars(Drained)
    /\ \A r \in Reqs :
        /\ WF_serverVars(Gate(r) /\ UNCHANGED server)
        /\ WF_serverVars(GetFails(r) /\ UNCHANGED server)

-----------------------------------------------------------------------------
(* "drain in-flight requests before returning": after the signal serve returns though   *)
(* Redis hangs with all its connections taken, for op_timeout bounds what revoke_token  *)
(* and verify_csrf wait, layer by layer; only a handler that never ends can hold the     *)
(* process up.                                                                      *)
OnlyHandlersHold ==
    server = "draining" ~> (server = "stopped" \/ \E r \in Reqs : [](pc[r] = "run"))
=============================================================================
