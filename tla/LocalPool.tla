------------------------------ MODULE LocalPool ------------------------------
(***************************************************************************)
(* The pool of single-thread mode (src/pool/local_pool.rs): one worker     *)
(* (local_isolate_worker.rs) whose supervisor task owns the isolate, and a *)
(* recycler task that asks the supervisor to replace the isolate in place  *)
(* when a dispatch has seen the recycle policy fire.                       *)
(*                                                                         *)
(* Callers, supervisor, recycler and isolate share one thread and switch   *)
(* at awaits.  The isolate is the set of requests registered with it (see  *)
(* RequestPump for its inside); a reply travels in two steps, because the  *)
(* dispatch future that reads it, and then the worker's health, runs some  *)
(* time after the handler has sent it.                                     *)
(***************************************************************************)
EXTENDS RecyclePolicy, Sequences, FiniteSets

CONSTANTS
  Requests,        \* requests callers may dispatch
  MailboxCapacity  \* MAILBOX_CAPACITY, 256

ASSUME LocalPoolAssumption == MailboxCapacity \in Nat \ {0}

VARIABLES
  caller,          \* where each dispatch is
  mailbox,         \* the channel of jobs
  supervisor,      \* run_local_worker: driving an isolate, booting one, or gone
  running,         \* requests registered with the isolate and not settled
  handled,         \* the supervisor's count of registered jobs
  health,          \* the snapshot shared with the pool
  recycle_notify,  \* permit of the recycler's Notify
  recycler,        \* run_recycler: parked, waiting for an ack, or aborted
  rebuild,         \* a rebuild request is in its channel
  ack,             \* what the supervisor has answered it
  dropped,         \* the pool has been dropped
  served,          \* history: jobs registered with this isolate
  condemned        \* history: the policy has fired on a snapshot of this isolate

callVars == <<caller, mailbox>>
isolateVars == <<supervisor, running, handled, health, served, condemned>>
recycleVars == <<recycle_notify, recycler, rebuild, ack>>
vars == <<callVars, isolateVars, recycleVars, dropped>>

(***************************************************************************)
(* Some sample of the process makes the policy fire on a snapshot.  With   *)
(* RSS samples above the cap it fires on a fresh isolate already.          *)
(***************************************************************************)
Fires(snapshot) == \E rss \in RssSamples : should_recycle(snapshot, rss)

Init ==
  /\ caller = [r \in Requests |-> "idle"]
  /\ mailbox = <<>>
  /\ supervisor = "driving"
  /\ running = {}
  /\ handled = 0
  /\ health = fresh
  /\ recycle_notify = FALSE
  /\ recycler = "parked"
  /\ rebuild = FALSE
  /\ ack = "none"
  /\ dropped = FALSE
  /\ served = {}
  /\ condemned = Fires(fresh)

Jobs == {mailbox[k] : k \in 1..Len(mailbox)}

Waiting(r) == caller[r] \in {"sending", "waiting", "replied"}

(***************************************************************************)
(* The callers in S learn that their reply sender was used for an error or *)
(* dropped; those that have gone away learn nothing.                       *)
(***************************************************************************)
FailCallers(S) ==
  caller' = [r \in Requests |-> IF r \in S /\ caller[r] = "waiting" THEN "failed" ELSE caller[r]]

-----------------------------------------------------------------------------
(***************************************************************************)
(* LocalIsolateWorker::dispatch sends the job, waiting for room, and fails *)
(* at once when the supervisor has gone.                                   *)
(***************************************************************************)
Dispatch(r) ==
  /\ ~ dropped
  /\ caller[r] = "idle"
  /\ caller' = [caller EXCEPT ![r] = "sending"]
  /\ UNCHANGED <<mailbox, isolateVars, recycleVars, dropped>>

Send(r) ==
  /\ caller[r] = "sending"
  /\ IF supervisor = "gone"
     THEN caller' = [caller EXCEPT ![r] = "failed"] /\ UNCHANGED mailbox
     ELSE /\ Len(mailbox) < MailboxCapacity
          /\ caller' = [caller EXCEPT ![r] = "waiting"]
          /\ mailbox' = Append(mailbox, r)
  /\ UNCHANGED <<isolateVars, recycleVars, dropped>>

Abandon(r) ==
  /\ Waiting(r)
  /\ caller' = [caller EXCEPT ![r] = "cancelled"]
  /\ UNCHANGED <<mailbox, isolateVars, recycleVars, dropped>>

(***************************************************************************)
(* dispatch_inner resumes with a response: it reads the health of whatever *)
(* isolate there is by now, and notifies the recycler if the policy fires. *)
(***************************************************************************)
Resume(r) ==
  /\ caller[r] = "replied"
  /\ caller' = [caller EXCEPT ![r] = "answered"]
  /\ \E rss \in RssSamples :
       recycle_notify' = (recycle_notify \/ should_recycle(health, rss))
  /\ UNCHANGED <<mailbox, isolateVars, recycler, rebuild, ack, dropped>>

(***************************************************************************)
(* Dropping the pool aborts the recycler, which is cancelled when it would *)
(* next run and lets go of the worker then.  A dispatch borrows the pool,  *)
(* so none is under way.                                                   *)
(***************************************************************************)
DropPool ==
  /\ ~ dropped
  /\ \A r \in Requests : ~ Waiting(r)
  /\ dropped' = TRUE
  /\ UNCHANGED <<callVars, isolateVars, recycleVars>>

AbortRecycler ==
  /\ dropped
  /\ recycler # "aborted"
  /\ recycler' = "aborted"
  /\ UNCHANGED <<callVars, isolateVars, recycle_notify, rebuild, ack, dropped>>

HandlesGone == recycler = "aborted"

-----------------------------------------------------------------------------
(***************************************************************************)
(* The recv loop.  A rebuild request goes before jobs; the loop takes no   *)
(* job once both handles of the worker are gone.  register_job refuses a   *)
(* malformed request without touching the isolate or its health.           *)
(***************************************************************************)
RegisterJob(used) ==
  /\ supervisor = "driving"
  /\ ~ rebuild
  /\ ~ HandlesGone
  /\ mailbox # <<>>
  /\ mailbox' = Tail(mailbox)
  /\ running' = running \cup {Head(mailbox)}
  /\ served' = served \cup {Head(mailbox)}
  /\ handled' = handled + 1
  /\ health' = [used |-> used, limit |-> HeapLimit, requests_handled |-> handled + 1]
  /\ condemned' = (condemned \/ Fires(health'))
  /\ UNCHANGED <<caller, supervisor, recycleVars, dropped>>

RefuseJob ==
  /\ supervisor = "driving"
  /\ ~ rebuild
  /\ ~ HandlesGone
  /\ mailbox # <<>>
  /\ mailbox' = Tail(mailbox)
  /\ FailCallers({Head(mailbox)})
  /\ UNCHANGED <<isolateVars, recycleVars, dropped>>

(***************************************************************************)
(* The isolate settles a request.                                          *)
(***************************************************************************)
Reply(r) ==
  /\ supervisor = "driving"
  /\ r \in running
  /\ running' = running \ {r}
  /\ caller' = [caller EXCEPT ![r] = IF @ = "waiting" THEN "replied" ELSE @]
  /\ UNCHANGED <<mailbox, supervisor, handled, health, served, condemned, recycleVars, dropped>>

ReplyError(r) ==
  /\ supervisor = "driving"
  /\ r \in running
  /\ running' = running \ {r}
  /\ FailCallers({r})
  /\ UNCHANGED <<mailbox, supervisor, handled, health, served, condemned, recycleVars, dropped>>

(***************************************************************************)
(* RebuildRequested: abort the pump, fail what is in flight, drop the      *)
(* isolate and boot another.                                               *)
(***************************************************************************)
KeepInFlight ==
  /\ supervisor = "driving"
  /\ rebuild
  /\ rebuild' = FALSE
  /\ running' = {}
  /\ supervisor' = "booting"
  /\ UNCHANGED <<callVars, handled, health, served, condemned, recycle_notify, recycler, ack,
                 dropped>>

BeginRebuild ==
  /\ supervisor = "driving"
  /\ rebuild
  /\ rebuild' = FALSE
  /\ FailCallers(running)
  /\ running' = {}
  /\ supervisor' = "booting"
  /\ UNCHANGED <<mailbox, handled, health, served, condemned, recycle_notify, recycler, ack,
                 dropped>>

StaleHealth ==
  /\ supervisor = "booting"
  /\ supervisor' = "driving"
  /\ handled' = 0
  /\ served' = {}
  /\ condemned' = Fires(fresh)
  /\ ack' = "ok"
  /\ UNCHANGED <<callVars, running, health, recycle_notify, recycler, rebuild, dropped>>

StaleCount ==
  /\ supervisor = "booting"
  /\ supervisor' = "driving"
  /\ health' = fresh
  /\ served' = {}
  /\ condemned' = Fires(fresh)
  /\ ack' = "ok"
  /\ UNCHANGED <<callVars, running, handled, recycle_notify, recycler, rebuild, dropped>>

BootOk ==
  /\ supervisor = "booting"
  /\ supervisor' = "driving"
  /\ health' = fresh
  /\ handled' = 0
  /\ served' = {}
  /\ condemned' = Fires(fresh)
  /\ ack' = "ok"
  /\ UNCHANGED <<callVars, running, recycle_notify, recycler, rebuild, dropped>>

(***************************************************************************)
(* The supervisor ends: jobs still in the mailbox are dropped with their   *)
(* reply senders, and so is a rebuild request.                             *)
(***************************************************************************)
ForgetMailbox ==
  /\ supervisor = "booting"
  /\ supervisor' = "gone"
  /\ ack' = "err"
  /\ UNCHANGED <<callVars, running, handled, health, served, condemned, recycle_notify, recycler,
                 rebuild, dropped>>

BootFailed ==
  /\ supervisor = "booting"
  /\ supervisor' = "gone"
  /\ ack' = "err"
  /\ FailCallers(Jobs)
  /\ mailbox' = <<>>
  /\ UNCHANGED <<running, handled, health, served, condemned, recycle_notify, recycler, rebuild,
                 dropped>>

ChannelClosed ==
  /\ supervisor = "driving"
  /\ HandlesGone
  /\ ~ rebuild
  /\ supervisor' = "gone"
  /\ FailCallers(running \cup Jobs)
  /\ running' = {}
  /\ mailbox' = <<>>
  /\ UNCHANGED <<handled, health, served, condemned, recycleVars, dropped>>

-----------------------------------------------------------------------------
(***************************************************************************)
(* The recycler takes a permit, looks at the health again and, if the      *)
(* policy still fires, sends a rebuild request, which fails when one is    *)
(* queued already or the supervisor has gone.                              *)
(***************************************************************************)
ForgetSignal ==
  /\ recycler = "parked" /\ ~ dropped
  /\ recycle_notify
  /\ recycle_notify' = FALSE
  /\ UNCHANGED <<callVars, isolateVars, recycler, rebuild, ack, dropped>>

RecyclerWake ==
  /\ recycler = "parked" /\ ~ dropped
  /\ recycle_notify
  /\ recycle_notify' = FALSE
  /\ \E rss \in RssSamples :
       LET sent == should_recycle(health, rss) /\ ~ rebuild /\ supervisor # "gone"
       IN  /\ rebuild' = (rebuild \/ sent)
           /\ recycler' = IF sent THEN "waiting" ELSE "parked"
  /\ UNCHANGED <<callVars, isolateVars, ack, dropped>>

RecyclerAck ==
  /\ recycler = "waiting" /\ ~ dropped
  /\ ack # "none"
  /\ ack' = "none"
  /\ recycler' = "parked"
  /\ UNCHANGED <<callVars, isolateVars, recycle_notify, rebuild, dropped>>

-----------------------------------------------------------------------------
Register == \E used \in HeapSizes : RegisterJob(used)

Supervisor == Register \/ RefuseJob \/ BeginRebuild \/ BootOk \/ BootFailed \/ ChannelClosed

Settle(r) == Reply(r) \/ ReplyError(r)

Next ==
  \/ \E r \in Requests : Dispatch(r) \/ Send(r) \/ Abandon(r) \/ Resume(r) \/ Settle(r)
  \/ DropPool \/ AbortRecycler
  \/ Supervisor
  \/ RecyclerWake \/ RecyclerAck

(***************************************************************************)
(* Every task that can go on does, an engine boot ends, and so does every  *)
(* handler.  A sender waits for room in first-come order, so it gets in.   *)
(***************************************************************************)
Fairness ==
  /\ WF_vars(Supervisor)
  /\ WF_vars(RecyclerWake)
  /\ WF_vars(RecyclerAck)
  /\ WF_vars(AbortRecycler)
  /\ \A r \in Requests : SF_vars(Send(r)) /\ WF_vars(Resume(r)) /\ WF_vars(Settle(r))

Spec == Init /\ [][Next]_vars /\ Fairness

-----------------------------------------------------------------------------
(***************************************************************************)
(* Types of the pool's state.                                              *)
(***************************************************************************)
TypeOK ==
  /\ caller \in [Requests -> {"idle", "sending", "waiting", "replied", "answered", "failed",
                              "cancelled"}]
  /\ mailbox \in Seq(Requests) /\ Len(mailbox) <= MailboxCapacity
  /\ supervisor \in {"driving", "booting", "gone"}
  /\ running \in SUBSET Requests /\ served \in SUBSET Requests
  /\ handled \in Nat
  /\ health \in WorkerHealth
  /\ recycler \in {"parked", "waiting", "aborted"}
  /\ recycle_notify \in BOOLEAN /\ rebuild \in BOOLEAN
  /\ ack \in {"none", "ok", "err"}
  /\ dropped \in BOOLEAN /\ condemned \in BOOLEAN

(***************************************************************************)
(* The snapshot the pool decides on describes the isolate that is running: *)
(* across rebuilds it counts exactly the jobs this isolate was given.      *)
(***************************************************************************)
HealthIsCurrent ==
  supervisor = "driving" =>
    /\ health.requests_handled = Cardinality(served)
    /\ handled = Cardinality(served)

(***************************************************************************)
(* Whoever waits for a reply is held by somebody who will send it or drop  *)
(* it: the mailbox or the isolate.  Nobody waits on a rebuilt isolate.     *)
(***************************************************************************)
NoOrphan == \A r \in Requests : caller[r] = "waiting" => r \in Jobs \cup running

(***************************************************************************)
(* An isolate is torn down only if the policy has fired on that isolate: a *)
(* signal left over from before a rebuild never costs the next isolate its *)
(* in-flight requests.                                                     *)
(***************************************************************************)
RebuildIsEarned ==
  [][supervisor = "driving" /\ supervisor' = "booting" => condemned]_vars

(***************************************************************************)
(* Every dispatch is settled once, rebuilds and failed rebuilds included.  *)
(***************************************************************************)
CallerView == [r \in Requests |-> IF Waiting(r) THEN "waiting" ELSE caller[r]]

Lifecycle == INSTANCE RequestLifecycle WITH state <- CallerView

ImplementsLifecycle == Lifecycle!LiveSpec

(***************************************************************************)
(* A recycle that was signalled and is still due takes place, the recycler *)
(* always comes back to serve the next signal, and a dropped pool leaves   *)
(* no isolate behind, in whatever phase of a rebuild it is dropped.        *)
(***************************************************************************)
Due == supervisor = "driving" /\ \A rss \in RssSamples : should_recycle(health, rss)

SignalledRecycleHappens ==
  /\ recycle_notify /\ Due ~> ~ Due \/ dropped
  /\ recycler = "waiting" ~> recycler # "waiting"
  /\ dropped ~> supervisor = "gone"

(***************************************************************************)
(* run_recycler logs a failed recycle as "keeping the existing isolate".   *)
(***************************************************************************)
FailedRecycleKeepsIsolate ==
  [][recycler = "waiting" /\ recycler' = "parked" /\ ack = "err" => supervisor = "driving"]_vars
=============================================================================
