---------------------------- MODULE MCRequestPump ----------------------------
(***************************************************************************)
(* RequestPump on small sets of requests.                                  *)
(***************************************************************************)
EXTENDS RequestPump
=============================================================================
