------------------------- MODULE MCIsolateDispatcher -------------------------
(***************************************************************************)
(* IsolateDispatcher on small sets of requests.                            *)
(***************************************************************************)
EXTENDS IsolateDispatcher
=============================================================================
