-------------------------- MODULE IsolateDispatcher --------------------------
(***************************************************************************)
(* The single-isolate worker of src/dispatch/dispatcher.rs: the engine, the *)
(* mailbox and the JavaScript pump of RequestPump under another pump task,  *)
(* which parks on the recv loop's Notify alone, and with a forwarder task   *)
(* per job between the dispatch table's oneshot and the caller's.  Requests *)
(* are validated by the caller, so every job the worker receives is good.   *)
(***************************************************************************)
EXTENDS RequestPump

VARIABLE forwards  \* results held by forwarder tasks

dispatcherVars == <<vars, forwards>>

DispatcherInit == Init /\ forwards = [r \in Requests |-> "none"]

(***************************************************************************)
(* A handler settles its table entry; the caller learns it from Forward,   *)
(* which also notifies the pump.                                           *)
(***************************************************************************)
SettleHandler(r, verdict) ==
  /\ pc = "js"
  /\ handler[r] = "ready"
  /\ handler' = [handler EXCEPT ![r] = "done"]
  /\ in_flight' = in_flight \ {r}
  /\ forwards' = [forwards EXCEPT ![r] = verdict]
  /\ UNCHANGED <<caller, mailbox, open, queue, pending_pop, batch, awaits, wakeVars, pc>>

Forward(r) ==
  /\ pc = "parked"
  /\ forwards[r] # "none"
  /\ caller' = [caller EXCEPT ![r] = Seen(r, forwards[r])]
  /\ forwards' = [forwards EXCEPT ![r] = "none"]
  /\ pump_signal' = TRUE
  /\ UNCHANGED <<jobVars, jsVars, completions, napi_work, unnotified, napi_wakeup, pc>>

DispatcherJavaScript ==
  \/ /\ DispatchOne \/ PopAgain \/ Park
           \/ \E r \in Requests, kind \in {"async", "napi"} : AwaitOp(r, kind)
     /\ UNCHANGED forwards
  \/ \E r \in Requests, verdict \in {"answered", "failed"} : SettleHandler(r, verdict)

DispatcherNext ==
  \/ /\ \/ \E r \in Requests : Dispatch(r) \/ Abandon(r) \/ CompleteOp(r) \/ NapiSend(r)
                               \/ NapiNotify(r)
        \/ CloseMailbox \/ RecvJob \/ Shutdown \/ Drain \/ WakeOnSignal
     /\ UNCHANGED forwards
  \/ DispatcherJavaScript
  \/ \E r \in Requests : Forward(r)

(***************************************************************************)
(* The fairness of RequestPump, with the forwarders.                       *)
(***************************************************************************)
DispatcherFairness ==
  /\ SF_dispatcherVars((RecvJob \/ Shutdown) /\ UNCHANGED forwards)
  /\ WF_dispatcherVars(Drain /\ UNCHANGED forwards)
  /\ WF_dispatcherVars(DispatcherJavaScript)
  /\ WF_dispatcherVars(WakeOnSignal /\ UNCHANGED forwards)
  /\ \A r \in Requests :
       /\ SF_dispatcherVars(CompleteOp(r) /\ UNCHANGED forwards)
       /\ WF_dispatcherVars(NapiSend(r) /\ UNCHANGED forwards)
       /\ WF_dispatcherVars(NapiNotify(r) /\ UNCHANGED forwards)
       /\ SF_dispatcherVars(Forward(r))

DispatcherSpec ==
  DispatcherInit /\ [][DispatcherNext]_dispatcherVars /\ DispatcherFairness

(***************************************************************************)
(* Completions delivered while the JavaScript thread is idle still get     *)
(* drained on the next tick, as CompletionChannel::sender documents.       *)
(***************************************************************************)
CompletionsDrained == completions # <<>> ~> (completions = <<>> \/ pc = "stopped")
=============================================================================
