---------------------------- MODULE MCIsolatePool ----------------------------
(***************************************************************************)
(* IsolatePool with two slots, the background recycler and one caller of   *)
(* tick_recycler.                                                          *)
(***************************************************************************)
EXTENDS IsolatePool
=============================================================================
