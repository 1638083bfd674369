--------------------------- MODULE RequestLifecycle ---------------------------
(***************************************************************************)
(* What an isolate worker promises to the callers of Worker::dispatch      *)
(* (src/pool/worker.rs): a submitted request is settled at most once, with *)
(* a response or with a failure, its verdict never changes, and unless the *)
(* caller gives up it is settled eventually.  One step may fail any number *)
(* of requests, because a worker that goes away fails all it holds.        *)
(***************************************************************************)
CONSTANT Requests

VARIABLE state  \* what the caller of each request has seen

Init == state = [r \in Requests |-> "idle"]

Submit(r) ==
  /\ state[r] = "idle"
  /\ state' = [state EXCEPT ![r] = "waiting"]

Answer(r) ==
  /\ state[r] = "waiting"
  /\ state' = [state EXCEPT ![r] = "answered"]

Fail(S) ==
  /\ \A r \in S : state[r] = "waiting"
  /\ state' = [r \in Requests |-> IF r \in S THEN "failed" ELSE state[r]]

Cancel(r) ==
  /\ state[r] = "waiting"
  /\ state' = [state EXCEPT ![r] = "cancelled"]

Next ==
  \/ \E r \in Requests : Submit(r) \/ Answer(r) \/ Cancel(r)
  \/ \E S \in SUBSET Requests : Fail(S)

Settle(r) == Answer(r) \/ Fail({r})

(***************************************************************************)
(* The promise without and with its eventuality.                           *)
(***************************************************************************)
SafeSpec == Init /\ [][Next]_state

LiveSpec == SafeSpec /\ \A r \in Requests : WF_state(Settle(r))
===============================================================================
