------------------------------ MODULE NapiWork ------------------------------
(***************************************************************************)
(* The Node-API across threads (src/napi/async_work.rs, threadsafe.rs and  *)
(* their part of bindings.rs): work queued for the blocking pool, and a    *)
(* threadsafe function that the addon's own threads call.  Both hand       *)
(* closures to the isolate's thread through one unbounded channel, and     *)
(* wake it through one Notify; the closures hold plain pointers.           *)
(*                                                                         *)
(* The addon keeps Node's contract: a thread uses the function only while  *)
(* it holds it (it is one of the initial threads, or a holder acquired the *)
(* function on its behalf), releases it once, and work is not deleted      *)
(* between queueing and completion.                                        *)
(***************************************************************************)
EXTENDS Integers, Sequences, FiniteSets

CONSTANTS
  Works,    \* pieces of asynchronous work
  Threads,  \* the addon's threads
  Initial,  \* those counted in initial_thread_count
  MaxCalls  \* bound: calls of the threadsafe function

ASSUME WorkAssumption ==
  /\ IsFiniteSet(Works) /\ IsFiniteSet(Threads)
  /\ Initial \subseteq Threads /\ Initial # {}
  /\ MaxCalls \in Nat

VARIABLES
  work,    \* AsyncWorkInner, and how far the pool and the isolate are with it
  tsfn,    \* TsfnInner, and whether its box is there
  thread,  \* per thread: whether it holds the function, and where it is in it
  chan,    \* the closures sent to the isolate's thread
  permit,  \* the permit of the Notify
  js,      \* the isolate's thread: "draining", "parked" or "gone"
  calls    \* calls started

workVars == <<work, tsfn, thread, chan, permit, js, calls>>

boxed == [pc |-> "new", cancelled |-> FALSE, queued |-> FALSE, executed |-> FALSE, completed |-> 0,
          freed |-> FALSE]

napi_create_threadsafe_function ==
  [live |-> TRUE, aborted |-> FALSE, thread_count |-> Cardinality(Initial), queued |-> 0]

WorkInit ==
  /\ work = [w \in Works |-> boxed]
  /\ tsfn = napi_create_threadsafe_function
  /\ thread = [t \in Threads |-> [holds |-> t \in Initial, pc |-> "idle"]]
  /\ chan = <<>> /\ permit = FALSE /\ js = "draining" /\ calls = 0

tsfnVars == <<tsfn, thread, calls>>

(***************************************************************************)
(* Sending fails silently for the one who sends when the engine is gone.   *)
(***************************************************************************)
Send(item) == chan' = IF js = "gone" THEN chan ELSE Append(chan, item)

-----------------------------------------------------------------------------
(***************************************************************************)
(* Work.  Queueing sets the flag, which nothing resets, and spawns a       *)
(* blocking task; queueing again is a GenericFailure.                      *)
(***************************************************************************)
SetWork(w, rec) == work' = [work EXCEPT ![w] = rec]

napi_queue_async_work(w) ==
  /\ js # "gone" /\ ~ work[w].freed /\ ~ work[w].queued
  /\ SetWork(w, [work[w] EXCEPT !.queued = TRUE, !.pc = "spawned"])
  /\ UNCHANGED <<tsfnVars, chan, permit, js>>

cancel(w) ==
  /\ js # "gone" /\ ~ work[w].freed /\ ~ work[w].cancelled
  /\ SetWork(w, [work[w] EXCEPT !.cancelled = TRUE])
  /\ UNCHANGED <<tsfnVars, chan, permit, js>>

(***************************************************************************)
(* The task reads the flag once: a cancellation that comes later finds the *)
(* work executed and completed as if it had not been.                      *)
(***************************************************************************)
TaskReads(w) ==
  /\ work[w].pc = "spawned"
  /\ SetWork(w, [work[w] EXCEPT !.pc = IF work[w].cancelled THEN "skipped" ELSE "executing"])
  /\ UNCHANGED <<tsfnVars, chan, permit, js>>

TaskExecutes(w) ==
  /\ work[w].pc = "executing"
  /\ SetWork(w, [work[w] EXCEPT !.pc = "executed", !.executed = TRUE])
  /\ UNCHANGED <<tsfnVars, chan, permit, js>>

TaskSends(w) ==
  /\ work[w].pc \in {"skipped", "executed"}
  /\ Send([kind |-> "complete", work |-> w,
           status |-> IF work[w].pc = "executed" THEN "Ok" ELSE "Cancelled"])
  /\ SetWork(w, [work[w] EXCEPT !.pc = "sent"])
  /\ UNCHANGED <<tsfnVars, permit, js>>

TaskNotifies(w) ==
  /\ work[w].pc = "sent"
  /\ SetWork(w, [work[w] EXCEPT !.pc = "notified"]) /\ permit' = TRUE
  /\ UNCHANGED <<tsfnVars, chan, js>>

(***************************************************************************)
(* napi_delete_async_work frees the box.                                   *)
(***************************************************************************)
drop_raw(w) ==
  /\ js # "gone"
  /\ ~ work[w].freed /\ (work[w].queued => work[w].completed > 0)
  /\ SetWork(w, [work[w] EXCEPT !.freed = TRUE])
  /\ UNCHANGED <<tsfnVars, chan, permit, js>>

-----------------------------------------------------------------------------
(***************************************************************************)
(* The threadsafe function.  Every step of a thread that is not a single   *)
(* atomic operation may interleave with the other threads and the isolate. *)
(***************************************************************************)
Free(t) == thread[t].holds /\ thread[t].pc = "idle"

At(t, pc) == thread' = [thread EXCEPT ![t].pc = pc]

othersVars == <<work, permit, js>>

napi_acquire_threadsafe_function(t, other) ==
  /\ Free(t) /\ ~ thread[other].holds /\ thread[other].pc = "idle"
  /\ ~ tsfn.aborted
  /\ tsfn' = [tsfn EXCEPT !.thread_count = @ + 1]
  /\ thread' = [thread EXCEPT ![other].holds = TRUE]
  /\ UNCHANGED <<othersVars, chan, calls>>

(***************************************************************************)
(* napi_call_threadsafe_function: the flag is read (an aborted function is *)
(* Closing), the call counted, the closure sent, the isolate woken.        *)
(***************************************************************************)
CallChecks(t) ==
  /\ Free(t) /\ calls < MaxCalls /\ ~ tsfn.aborted
  /\ calls' = calls + 1 /\ At(t, "call_count")
  /\ UNCHANGED <<othersVars, tsfn, chan>>

CallCounts(t) ==
  /\ thread[t].pc = "call_count"
  /\ tsfn' = [tsfn EXCEPT !.queued = @ + 1] /\ At(t, "call_send")
  /\ UNCHANGED <<othersVars, chan, calls>>

CallSends(t) ==
  /\ thread[t].pc = "call_send"
  /\ Send([kind |-> "call"])
  /\ At(t, IF js = "gone" THEN "idle" ELSE "call_notify")
  /\ UNCHANGED <<othersVars, tsfn, calls>>

CallNotifies(t) ==
  /\ thread[t].pc = "call_notify"
  /\ permit' = TRUE /\ At(t, "idle")
  /\ UNCHANGED <<work, js, tsfn, chan, calls>>

(***************************************************************************)
(* napi_release_threadsafe_function: an abort sets the flag first; the     *)
(* last to release sends the finalizer, without waking the isolate.        *)
(***************************************************************************)
AbortFinalizes(t) ==
  /\ Free(t)
  /\ tsfn' = [tsfn EXCEPT !.aborted = TRUE] /\ At(t, "release_sub")
  /\ Send([kind |-> "finalize"])
  /\ UNCHANGED <<othersVars, calls>>

ReleaseAborts(t) ==
  /\ Free(t)
  /\ tsfn' = [tsfn EXCEPT !.aborted = TRUE] /\ At(t, "release_sub")
  /\ UNCHANGED <<othersVars, chan, calls>>

ReleaseCounts(t) ==
  /\ Free(t) \/ thread[t].pc = "release_sub"
  /\ tsfn' = [tsfn EXCEPT !.thread_count = @ - 1]
  /\ thread' = [thread EXCEPT ![t] =
       [holds |-> FALSE, pc |-> IF tsfn.thread_count = 1 THEN "release_send" ELSE "idle"]]
  /\ UNCHANGED <<othersVars, chan, calls>>

ReleaseSends(t) ==
  /\ thread[t].pc = "release_send"
  /\ Send([kind |-> "finalize"]) /\ At(t, "idle")
  /\ UNCHANGED <<othersVars, tsfn, calls>>

-----------------------------------------------------------------------------
(***************************************************************************)
(* drain_napi_work: the isolate's thread runs what is in the channel until *)
(* it is empty, and parks.  It is woken by the permit, or by other work.   *)
(***************************************************************************)
RunComplete(w) ==
  /\ SetWork(w, [work[w] EXCEPT !.completed = @ + 1])
  /\ UNCHANGED tsfn

RunCall ==
  /\ tsfn' = [tsfn EXCEPT !.queued = @ - 1]     \* and, unless aborted, the callback
  /\ UNCHANGED work

RunFinalize ==
  /\ tsfn' = [tsfn EXCEPT !.live = FALSE]
  /\ UNCHANGED work

drain_napi_work ==
  /\ js = "draining" /\ chan # <<>>
  /\ chan' = Tail(chan)
  /\ CASE Head(chan).kind = "complete" -> RunComplete(Head(chan).work)
       [] Head(chan).kind = "call"     -> RunCall
       [] Head(chan).kind = "finalize" -> RunFinalize
  /\ UNCHANGED <<thread, permit, js, calls>>

WorkPark ==
  /\ js = "draining" /\ chan = <<>> /\ js' = "parked"
  /\ UNCHANGED <<work, tsfnVars, chan, permit>>

WorkWake ==
  /\ js = "parked" /\ js' = "draining"
  /\ \/ permit /\ permit' = FALSE
     \/ UNCHANGED permit                         \* a request, a timer, another op
  /\ UNCHANGED <<work, tsfnVars, chan>>

(***************************************************************************)
(* The isolate is dropped, and the receiver with what it has not run.      *)
(***************************************************************************)
EngineDrops ==
  /\ js = "parked" /\ js' = "gone" /\ chan' = <<>>
  /\ UNCHANGED <<work, tsfnVars, permit>>

WorkNext ==
  \/ \E w \in Works :
       \/ napi_queue_async_work(w) \/ cancel(w) \/ drop_raw(w)
       \/ TaskReads(w) \/ TaskExecutes(w) \/ TaskSends(w) \/ TaskNotifies(w)
  \/ \E t \in Threads :
       \/ \E other \in Threads \ {t} : napi_acquire_threadsafe_function(t, other)
       \/ CallChecks(t) \/ CallCounts(t) \/ CallSends(t) \/ CallNotifies(t)
       \/ ReleaseAborts(t) \/ ReleaseCounts(t) \/ ReleaseSends(t)
  \/ drain_napi_work \/ WorkPark \/ WorkWake \/ EngineDrops

-----------------------------------------------------------------------------
(***************************************************************************)
(* The pointers hold: the box of the threadsafe function is freed once,    *)
(* with no closure left that reads it and no thread that holds it or is    *)
(* inside one of its operations, and by then every call it accepted has    *)
(* been run; a piece of work completes once, and not after it was deleted. *)
(***************************************************************************)
ReadsFunction(item) == item.kind # "complete"

Inside(t) == thread[t].holds \/ thread[t].pc # "idle"

Completions(w) ==
  {i \in DOMAIN chan : chan[i].kind = "complete" /\ chan[i].work = w}

TsfnSafe ==
  /\ ~ tsfn.live => /\ \A i \in DOMAIN chan : ~ ReadsFunction(chan[i])
                    /\ \A t \in Threads : ~ Inside(t)
                    /\ tsfn.queued = 0
  /\ \A w \in Works :
       /\ Cardinality(Completions(w)) + work[w].completed <= 1
       /\ work[w].freed => /\ Completions(w) = {}
                           /\ work[w].pc \in {"new", "sent", "notified"}
       /\ \A i \in Completions(w) : (chan[i].status = "Ok") = work[w].executed
=============================================================================
