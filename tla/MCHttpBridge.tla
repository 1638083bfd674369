---------------------------- MODULE MCHttpBridge ----------------------------
(***************************************************************************)
(* HttpBridge on small sets of requests and servers.                       *)
(***************************************************************************)
EXTENDS HttpBridge
=============================================================================
