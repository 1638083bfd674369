----------------------------- MODULE MCLocalPool -----------------------------
(***************************************************************************)
(* LocalPool on small sets of requests, with a request limit and a heap    *)
(* ratio that both fire.                                                   *)
(***************************************************************************)
EXTENDS LocalPool
=============================================================================
