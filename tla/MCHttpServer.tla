---------------------------- MODULE MCHttpServer ----------------------------
(* HttpServer for TLC. *)
EXTENDS HttpServer

(* The order in the README: revoke_token is the outermost layer. *)
MCChain == <<"revoke", "csrf">>
=============================================================================
