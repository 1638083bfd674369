----------------------------- MODULE RequestPump -----------------------------
(***************************************************************************)
(* One isolate worker: the mailbox and the recv loop that registers jobs   *)
(* with the engine (src/pool/isolate_worker.rs, engine_pump.rs), the pump  *)
(* task that drives V8 (run_pump, V8Engine::pump_once), the JavaScript     *)
(* pump loop that pops request ids and starts handlers                     *)
(* (runtime/polyfills/nexide_bridge.js), and the asynchronous ops and      *)
(* N-API jobs handlers wait for.  IsolateDispatcher models the other       *)
(* worker of the repository, which drives the same engine differently.     *)
(*                                                                         *)
(* All tasks of a worker share one thread and switch at await points only, *)
(* so the recv loop and the op tasks run while the pump is suspended       *)
(* (pc = "parked").  N-API jobs finish on other threads at any moment.  A  *)
(* tokio Notify is its stored permit: notify_one sets it and the pump,     *)
(* which is the only waiter, consumes it.                                  *)
(*                                                                         *)
(* The dispatch table is the set in_flight of requests that hold a slot    *)
(* (see DispatchTable), and a handler is the kind of thing it waits for.   *)
(***************************************************************************)
EXTENDS Integers, Sequences, FiniteSets, Functions

CONSTANTS
  Requests,         \* requests callers may dispatch
  MailboxCapacity,  \* MAILBOX_CAPACITY, 256
  BatchCap,         \* the pump strategy: 0 or 1 serial, larger batched
  MaxAwaits         \* bound: awaits of one handler

ASSUME PumpAssumption ==
  /\ MailboxCapacity \in Nat \ {0}
  /\ BatchCap \in Nat
  /\ MaxAwaits \in Nat

VARIABLES
  caller,       \* what each caller of dispatch has seen
  mailbox,      \* the mpsc channel of jobs
  open,         \* some Sender of the mailbox is alive
  in_flight,    \* requests that hold a dispatch-table slot
  queue,        \* RequestQueue.pending
  pending_pop,  \* the JavaScript pump waits for a pop promise
  batch,        \* ids the pop promise resolved with, not yet dispatched
  handler,      \* what each handler is doing
  awaits,       \* awaits each handler has made
  completions,  \* the async-op completion channel
  napi_work,    \* the N-API work channel
  unnotified,   \* N-API jobs sent by a thread that has yet to notify
  pump_signal,  \* permit of the recv loop's Notify
  napi_wakeup,  \* permit of the engine's Notify
  pc            \* where the pump task is

jobVars == <<mailbox, open, in_flight, queue>>
jsVars == <<pending_pop, batch, handler, awaits>>
wakeVars == <<completions, napi_work, unnotified, pump_signal, napi_wakeup>>
vars == <<caller, jobVars, jsVars, wakeVars, pc>>

LeastOf(m, n) == IF m < n THEN m ELSE n

Cap == IF BatchCap > 1 THEN BatchCap ELSE 1

(***************************************************************************)
(* RequestQueue::pop and pop_batch take up to Cap ids from the front.      *)
(***************************************************************************)
PopNewest(q) ==
  LET n == Len(q) - LeastOf(Len(q), Cap)
  IN  [taken |-> SubSeq(q, n + 1, Len(q)), left |-> SubSeq(q, 1, n)]

PopLossy(q) == [taken |-> SubSeq(q, 1, LeastOf(Len(q), Cap)), left |-> <<>>]

pop_batch(q) ==
  LET n == LeastOf(Len(q), Cap)
  IN  [taken |-> SubSeq(q, 1, n), left |-> SubSeq(q, n + 1, Len(q))]

Init ==
  /\ caller = [r \in Requests |-> "idle"]
  /\ mailbox = <<>>
  /\ open = TRUE
  /\ in_flight = {}
  /\ queue = <<>>
  /\ pending_pop = TRUE
  /\ batch = <<>>
  /\ handler = [r \in Requests |-> "none"]
  /\ awaits = [r \in Requests |-> 0]
  /\ completions = <<>>
  /\ napi_work = <<>>
  /\ unnotified = {}
  /\ pump_signal = FALSE
  /\ napi_wakeup = FALSE
  /\ pc = "drain"

-----------------------------------------------------------------------------
(***************************************************************************)
(* Callers.  dispatch sends the job and waits for the reply; a caller that *)
(* goes away drops the future and with it the reply's receiver.  Every     *)
(* pending dispatch borrows the worker, so the mailbox closes only when no *)
(* caller waits.                                                           *)
(***************************************************************************)
Dispatch(r) ==
  /\ open
  /\ caller[r] = "idle"
  /\ Len(mailbox) < MailboxCapacity
  /\ caller' = [caller EXCEPT ![r] = "waiting"]
  /\ mailbox' = Append(mailbox, r)
  /\ UNCHANGED <<open, in_flight, queue, jsVars, wakeVars, pc>>

Abandon(r) ==
  /\ caller[r] = "waiting"
  /\ caller' = [caller EXCEPT ![r] = "cancelled"]
  /\ UNCHANGED <<jobVars, jsVars, wakeVars, pc>>

CloseMailbox ==
  /\ open
  /\ \A r \in Requests : caller[r] # "waiting"
  /\ open' = FALSE
  /\ UNCHANGED <<caller, mailbox, in_flight, queue, jsVars, wakeVars, pc>>

(***************************************************************************)
(* What the caller of r sees when a result is sent on its reply channel:   *)
(* nothing if it has gone.                                                 *)
(***************************************************************************)
Seen(r, verdict) == IF caller[r] = "waiting" THEN verdict ELSE caller[r]

-----------------------------------------------------------------------------
(***************************************************************************)
(* The recv loop.  register_job refuses a malformed request before it      *)
(* touches the isolate.  Either way the pump is notified.                  *)
(***************************************************************************)
RecvSilently ==
  /\ pc = "parked"
  /\ mailbox # <<>>
  /\ mailbox' = Tail(mailbox)
  /\ in_flight' = in_flight \cup {Head(mailbox)}
  /\ queue' = Append(queue, Head(mailbox))
  /\ UNCHANGED <<caller, open, jsVars, wakeVars, pc>>

RecvJob ==
  /\ pc = "parked"
  /\ mailbox # <<>>
  /\ mailbox' = Tail(mailbox)
  /\ in_flight' = in_flight \cup {Head(mailbox)}
  /\ queue' = Append(queue, Head(mailbox))
  /\ pump_signal' = TRUE
  /\ UNCHANGED <<caller, open, jsVars, completions, napi_work, unnotified,
                 napi_wakeup, pc>>

RecvMalformed ==
  /\ pc = "parked"
  /\ mailbox # <<>>
  /\ mailbox' = Tail(mailbox)
  /\ caller' = [caller EXCEPT ![Head(mailbox)] = Seen(Head(mailbox), "failed")]
  /\ pump_signal' = TRUE
  /\ UNCHANGED <<open, in_flight, queue, jsVars, completions, napi_work, unnotified,
                 napi_wakeup, pc>>

(***************************************************************************)
(* The mailbox is closed and drained: the pump task is aborted and         *)
(* fail_inflight settles whatever is left; the engine is then dropped with *)
(* everything that was waiting inside it.                                  *)
(***************************************************************************)
ShutdownAfterPump ==
  /\ pc = "exited"
  /\ ~ open
  /\ pc' = "stopped"
  /\ UNCHANGED <<caller, jobVars, jsVars, wakeVars>>

Shutdown ==
  /\ pc = "parked"
  /\ ~ open
  /\ mailbox = <<>>
  /\ caller' = [r \in Requests |-> IF r \in in_flight THEN Seen(r, "failed") ELSE caller[r]]
  /\ in_flight' = {}
  /\ pc' = "stopped"
  /\ UNCHANGED <<mailbox, open, queue, jsVars, wakeVars>>

-----------------------------------------------------------------------------
(***************************************************************************)
(* The pump task.  pump_once drains both channels, which resolves the      *)
(* promises handlers wait for, and resolves the pending pop with up to Cap *)
(* ids; the microtask checkpoint then runs JavaScript until nothing is     *)
(* ready.                                                                  *)
(***************************************************************************)
Drain ==
  /\ pc = "drain"
  /\ handler' = [r \in Requests |->
       IF r \in Range(completions) \cup Range(napi_work) THEN "ready" ELSE handler[r]]
  /\ completions' = <<>>
  /\ napi_work' = <<>>
  /\ IF pending_pop
     THEN /\ batch' = pop_batch(queue).taken
          /\ queue' = pop_batch(queue).left
          /\ pending_pop' = (queue = <<>>)
     ELSE UNCHANGED <<batch, queue, pending_pop>>
  /\ pc' = "js"
  /\ UNCHANGED <<caller, mailbox, open, in_flight, awaits, unnotified, pump_signal,
                 napi_wakeup>>

(***************************************************************************)
(* dispatchOne starts the handler of the next id without awaiting it.      *)
(***************************************************************************)
DispatchOne ==
  /\ pc = "js"
  /\ batch # <<>>
  /\ handler' = [handler EXCEPT ![Head(batch)] = "ready"]
  /\ batch' = Tail(batch)
  /\ UNCHANGED <<caller, jobVars, pending_pop, awaits, wakeVars, pc>>

(***************************************************************************)
(* The pump loop asks for more ids as soon as it has dispatched a batch    *)
(* (op_nexide_pop_request, op_nexide_try_pop_request_batch); it leaves a   *)
(* pending promise behind only when the queue is empty.                    *)
(***************************************************************************)
PopAgain ==
  /\ pc = "js"
  /\ batch = <<>>
  /\ ~ pending_pop
  /\ batch' = pop_batch(queue).taken
  /\ queue' = pop_batch(queue).left
  /\ pending_pop' = (queue = <<>>)
  /\ UNCHANGED <<caller, mailbox, open, in_flight, handler, awaits, wakeVars, pc>>

(***************************************************************************)
(* A handler runs to its next await, or to the op that settles its         *)
(* request; the caller's own oneshot is in the table (register_job).       *)
(***************************************************************************)
AwaitOp(r, kind) ==
  /\ pc = "js"
  /\ handler[r] = "ready"
  /\ awaits[r] < MaxAwaits
  /\ awaits' = [awaits EXCEPT ![r] = @ + 1]
  /\ handler' = [handler EXCEPT ![r] = kind]
  /\ UNCHANGED <<caller, jobVars, pending_pop, batch, wakeVars, pc>>

FinishHandler(r, verdict) ==
  /\ pc = "js"
  /\ handler[r] = "ready"
  /\ handler' = [handler EXCEPT ![r] = "done"]
  /\ in_flight' = in_flight \ {r}
  /\ caller' = [caller EXCEPT ![r] = Seen(r, verdict)]
  /\ UNCHANGED <<mailbox, open, queue, pending_pop, batch, awaits, wakeVars, pc>>

(***************************************************************************)
(* The checkpoint is over: park if queue_is_empty, else go round again.    *)
(***************************************************************************)
Quiescent == batch = <<>> /\ pending_pop /\ \A r \in Requests : handler[r] # "ready"

Park ==
  /\ pc = "js"
  /\ Quiescent
  /\ pc' = IF queue = <<>> THEN "parked" ELSE "drain"
  /\ UNCHANGED <<caller, jobVars, jsVars, wakeVars>>

WakeOnSignal ==
  /\ pc = "parked"
  /\ pump_signal
  /\ pump_signal' = FALSE
  /\ pc' = "drain"
  /\ UNCHANGED <<caller, jobVars, jsVars, completions, napi_work, unnotified, napi_wakeup>>

WakeOnWakeup ==
  /\ pc = "parked"
  /\ napi_wakeup
  /\ napi_wakeup' = FALSE
  /\ pc' = "drain"
  /\ UNCHANGED <<caller, jobVars, jsVars, completions, napi_work, unnotified, pump_signal>>

-----------------------------------------------------------------------------
(***************************************************************************)
(* An async op's task finishes: CompletionSender::send.                    *)
(***************************************************************************)
CompleteOpQuietly(r) ==
  /\ pc = "parked"
  /\ handler[r] = "async"
  /\ handler' = [handler EXCEPT ![r] = "sent"]
  /\ completions' = Append(completions, r)
  /\ UNCHANGED <<caller, jobVars, pending_pop, batch, awaits, napi_work, unnotified,
                 pump_signal, napi_wakeup, pc>>

CompleteOp(r) ==
  /\ pc = "parked"
  /\ handler[r] = "async"
  /\ handler' = [handler EXCEPT ![r] = "sent"]
  /\ completions' = Append(completions, r)
  /\ napi_wakeup' = TRUE
  /\ UNCHANGED <<caller, jobVars, pending_pop, batch, awaits, napi_work, unnotified,
                 pump_signal, pc>>

(***************************************************************************)
(* An N-API job finishes on a thread of its own, which sends the callback  *)
(* and notifies in two steps.                                              *)
(***************************************************************************)
NapiSend(r) ==
  /\ pc # "stopped"
  /\ handler[r] = "napi"
  /\ handler' = [handler EXCEPT ![r] = "sent"]
  /\ napi_work' = Append(napi_work, r)
  /\ unnotified' = unnotified \cup {r}
  /\ UNCHANGED <<caller, jobVars, pending_pop, batch, awaits, completions, pump_signal,
                 napi_wakeup, pc>>

NapiNotify(r) ==
  /\ r \in unnotified
  /\ unnotified' = unnotified \ {r}
  /\ napi_wakeup' = TRUE
  /\ UNCHANGED <<caller, jobVars, jsVars, completions, napi_work, pump_signal, pc>>

-----------------------------------------------------------------------------
Handlers ==
  \E r \in Requests :
    \/ AwaitOp(r, "async")
    \/ AwaitOp(r, "napi")
    \/ FinishHandler(r, "answered")
    \/ FinishHandler(r, "failed")

JavaScript == DispatchOne \/ PopAgain \/ Handlers \/ Park

Recv == RecvJob \/ RecvMalformed \/ Shutdown

Next ==
  \/ \E r \in Requests : Dispatch(r) \/ Abandon(r)
  \/ CloseMailbox
  \/ Recv
  \/ Drain \/ JavaScript \/ WakeOnSignal \/ WakeOnWakeup
  \/ \E r \in Requests : CompleteOp(r) \/ NapiSend(r) \/ NapiNotify(r)

(***************************************************************************)
(* The tokio scheduler runs every task that can go on, and every op and    *)
(* N-API job a handler waits for finishes.  The recv loop needs strong     *)
(* fairness: the pump suspends again and again rather than for good.       *)
(***************************************************************************)
Fairness ==
  /\ SF_vars(Recv)
  /\ WF_vars(Drain)
  /\ WF_vars(JavaScript)
  /\ WF_vars(WakeOnSignal \/ WakeOnWakeup)
  /\ \A r \in Requests :
       /\ SF_vars(CompleteOp(r))
       /\ WF_vars(NapiSend(r))
       /\ WF_vars(NapiNotify(r))

Spec == Init /\ [][Next]_vars /\ Fairness

-----------------------------------------------------------------------------
(***************************************************************************)
(* Types of the worker's state.                                            *)
(***************************************************************************)
TypeOK ==
  /\ caller \in [Requests -> {"idle", "waiting", "answered", "failed", "cancelled"}]
  /\ mailbox \in Seq(Requests) /\ Len(mailbox) <= MailboxCapacity
  /\ open \in BOOLEAN
  /\ in_flight \in SUBSET Requests
  /\ queue \in Seq(Requests) /\ batch \in Seq(Requests)
  /\ pending_pop \in BOOLEAN
  /\ handler \in [Requests -> {"none", "ready", "async", "napi", "sent", "done"}]
  /\ awaits \in [Requests -> 0..MaxAwaits]
  /\ completions \in Seq(Requests) /\ napi_work \in Seq(Requests)
  /\ unnotified \in SUBSET Requests
  /\ pump_signal \in BOOLEAN /\ napi_wakeup \in BOOLEAN
  /\ pc \in {"drain", "js", "parked", "stopped"}

(***************************************************************************)
(* No lost wake-up: a parked pump with work to do has a permit waiting, or *)
(* the thread that sent the work is about to notify.  Permits do not count *)
(* the work they announce, so this rests on pump_once draining everything. *)
(***************************************************************************)
NoLostWakeup ==
  pc = "parked" =>
    /\ queue # <<>> => pump_signal
    /\ completions # <<>> => napi_wakeup
    /\ napi_work # <<>> => napi_wakeup \/ unnotified # {}

(***************************************************************************)
(* Every request that holds a slot is somewhere: queued, popped, or in a   *)
(* handler that will run on.  In particular the JavaScript pump is never   *)
(* lost: a parked engine has a pending pop to resolve.                     *)
(***************************************************************************)
Accounted ==
  pc # "stopped" =>
    /\ in_flight = Range(queue) \cup Range(batch) \cup
                   {r \in Requests : handler[r] \in {"ready", "async", "napi", "sent"}}
    /\ pc = "parked" => pending_pop /\ batch = <<>>

(***************************************************************************)
(* Handlers start in the order in which the recv loop took the requests:   *)
(* the mailbox, the queue and the batch never overtake one another.  A     *)
(* step extends the line of waiting requests at its end or shortens it at  *)
(* its front.                                                              *)
(***************************************************************************)
Line == batch \o queue \o mailbox

LineAdvances ==
  \/ \E n \in 0..Len(Line) : Line' = SubSeq(Line, n + 1, Len(Line))
  \/ \E r \in Requests : Line' = Append(Line, r)
  \/ \E k \in 1..Len(Line) :
       /\ k = Len(batch) + Len(queue) + 1
       /\ Line' = SubSeq(Line, 1, k - 1) \o SubSeq(Line, k + 1, Len(Line))
       /\ caller'[Line[k]] \in {"failed", "cancelled"}

InOrder == [][LineAdvances]_vars

(***************************************************************************)
(* The worker keeps the promise of Worker::dispatch, eventuality included. *)
(***************************************************************************)
Lifecycle == INSTANCE RequestLifecycle WITH state <- caller

ImplementsLifecycle == Lifecycle!LiveSpec

(***************************************************************************)
(* A worker whose mailbox is closed stops (run_worker_loop), even when     *)
(* abandoned requests are still running in its isolate.                    *)
(***************************************************************************)
ClosedWorkerStops == ~ open ~> pc = "stopped"

=============================================================================
