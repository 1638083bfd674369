----------------------------- MODULE IsolatePool -----------------------------
(***************************************************************************)
(* The multi-isolate pool (src/pool/isolate_pool.rs): dispatch picks the   *)
(* less loaded of two slots and clones the slot's worker handle, while     *)
(* recycle passes, the background task's and those of tick_recycler,       *)
(* replace workers the policy condemns.  All of these run on the threads   *)
(* of a multi-thread runtime, so every atomic access is a step.            *)
(*                                                                         *)
(* A worker is a thread of its own that ends when its last handle is gone. *)
(* Handles (Arc) are held by the slot, by dispatches and by a pass for as  *)
(* long as it works on the slot.  The worker <<s, g>> is the g-th built    *)
(* for slot s; of the requests it holds only the number matters here (see  *)
(* RequestPump).                                                           *)
(***************************************************************************)
EXTENDS RecyclePolicy, FiniteSets

CONSTANTS
  Requests,  \* requests callers may dispatch
  PoolSize,  \* number of slots
  Ticks,     \* callers of tick_recycler
  MaxBuilds, \* bound: successful builds
  MaxPanics  \* bound: worker threads that panic

ASSUME IsolatePoolAssumption == 
  PoolSize \in Nat \ {0} /\ MaxBuilds \in Nat /\ MaxPanics \in Nat

VARIABLES
  picker_a, picker_b,  \* the pickers' counters
  inflight,            \* per slot
  current,             \* generation of the slot's worker
  recycling,           \* per slot
  builds,              \* successful builds per slot, recycle_count in all
  call,                \* each dispatch: where it is, and its local variables
  job,                 \* what the worker has done with the request
  pass,                \* each recycle pass
  worker,              \* state and health of each worker
  dropped              \* the pool has been dropped

poolVars == <<picker_a, picker_b, inflight, current, recycling, builds>>
vars == <<poolVars, call, job, pass, worker, dropped>>

PICKER_STRIDE_B == 7

Background == "background"

Passes == Ticks \cup {Background}

Slots == 0..(PoolSize - 1)

Workers == Slots \X (0..MaxBuilds)

NewCall == [pc |-> "idle", a |-> 0, b |-> 0, load |-> 0, slot |-> 0, gen |-> 0]

NewPass == [pc |-> "idle", slot |-> 0, gen |-> 0]

(***************************************************************************)
(* The pool as new leaves it: every slot's first worker has booted.        *)
(***************************************************************************)
Init ==
  /\ picker_a = 0 /\ picker_b = 0
  /\ inflight = [s \in Slots |-> 0]
  /\ current = [s \in Slots |-> 0]
  /\ recycling = [s \in Slots |-> FALSE]
  /\ builds = [s \in Slots |-> 0]
  /\ call = [r \in Requests |-> NewCall]
  /\ job = [r \in Requests |-> "none"]
  /\ pass = [p \in Passes |-> NewPass]
  /\ worker = [w \in Workers |->
       [state |-> IF w[2] = 0 THEN "live" ELSE "none", health |-> fresh]]
  /\ dropped = FALSE

-----------------------------------------------------------------------------
(***************************************************************************)
(* pick_index.  A pool of one slot skips the pickers.                      *)
(***************************************************************************)
Secondary(a, count) ==
  LET raw_b == count % PoolSize
  IN  IF raw_b = a THEN (raw_b + 1) % PoolSize ELSE raw_b

Dispatch(r) ==
  /\ ~ dropped
  /\ call[r].pc = "idle"
  /\ IF PoolSize = 1
     THEN call' = [call EXCEPT ![r].pc = "chosen"] /\ UNCHANGED picker_a
     ELSE /\ call' = [call EXCEPT ![r].pc = "first", ![r].a = picker_a % PoolSize]
          /\ picker_a' = picker_a + 1
  /\ UNCHANGED <<picker_b, inflight, current, recycling, builds, job, pass, worker, dropped>>

FetchSecondary(r) ==
  /\ call[r].pc = "first"
  /\ call' = [call EXCEPT ![r].pc = "second", ![r].b = Secondary(call[r].a, picker_b)]
  /\ picker_b' = picker_b + PICKER_STRIDE_B
  /\ UNCHANGED <<picker_a, inflight, current, recycling, builds, job, pass, worker, dropped>>

LoadFirst(r) ==
  /\ call[r].pc = "second"
  /\ call' = [call EXCEPT ![r].pc = "loaded", ![r].load = inflight[call[r].a]]
  /\ UNCHANGED <<poolVars, job, pass, worker, dropped>>

LoadSecond(r) ==
  /\ call[r].pc = "loaded"
  /\ LET best == IF call[r].load <= inflight[call[r].b] THEN call[r].a ELSE call[r].b
     IN  call' = [call EXCEPT ![r] = [NewCall EXCEPT !.pc = "chosen", !.slot = best]]
  /\ UNCHANGED <<poolVars, job, pass, worker, dropped>>

(***************************************************************************)
(* dispatch clones the slot's worker, then takes the in-flight guard and   *)
(* sends the job, which fails if the thread is gone.                       *)
(***************************************************************************)
TakeWorker(r) ==
  /\ call[r].pc = "chosen"
  /\ call' = [call EXCEPT ![r].pc = "holding", ![r].gen = current[call[r].slot]]
  /\ UNCHANGED <<poolVars, job, pass, worker, dropped>>

WorkerOf(r) == <<call[r].slot, call[r].gen>>

EnterUnchecked(r) ==
  /\ call[r].pc = "holding"
  /\ call' = [call EXCEPT ![r].pc = "sent"]
  /\ job' = [job EXCEPT ![r] = "queued"]
  /\ inflight' = [inflight EXCEPT ![call[r].slot] = @ + 1]
  /\ UNCHANGED <<picker_a, picker_b, current, recycling, builds, pass, worker, dropped>>

Enter(r) ==
  /\ call[r].pc = "holding"
  /\ call' = [call EXCEPT ![r].pc = "sent"]
  /\ job' = [job EXCEPT ![r] = IF worker[WorkerOf(r)].state = "live" THEN "queued" ELSE @]
  /\ inflight' = [inflight EXCEPT ![call[r].slot] = @ + 1]
  /\ UNCHANGED <<picker_a, picker_b, current, recycling, builds, pass, worker, dropped>>

(***************************************************************************)
(* The dispatch future ends, with a reply or because its caller dropped    *)
(* it; the guard is dropped either way.  A cancelled job stays with the    *)
(* worker.                                                                 *)
(***************************************************************************)
Leave(r, verdict) ==
  /\ call' = [call EXCEPT ![r].pc = verdict]
  /\ inflight' = [inflight EXCEPT ![call[r].slot] = @ - 1]

WorkerGone(r) ==
  /\ call[r].pc = "sent"
  /\ job[r] = "none"
  /\ Leave(r, "gone")
  /\ UNCHANGED <<picker_a, picker_b, current, recycling, builds, job, pass, worker, dropped>>

Cancel(r) ==
  /\ call[r].pc = "sent"
  /\ Leave(r, "cancelled")
  /\ UNCHANGED <<picker_a, picker_b, current, recycling, builds, job, pass, worker, dropped>>

-----------------------------------------------------------------------------
(***************************************************************************)
(* The worker's thread: registering a job updates the health; a malformed  *)
(* one is answered at once.  A job nobody waits for still runs.            *)
(***************************************************************************)
Register(r) ==
  /\ job[r] = "queued"
  /\ worker[WorkerOf(r)].state = "live"
  /\ job' = [job EXCEPT ![r] = "running"]
  /\ \E used \in HeapSizes :
       worker' = [worker EXCEPT ![WorkerOf(r)].health =
         [used |-> used, limit |-> HeapLimit, requests_handled |-> @.requests_handled + 1]]
  /\ UNCHANGED <<poolVars, call, pass, dropped>>

Answer(r, verdict) ==
  /\ worker[WorkerOf(r)].state = "live"
  /\ job' = [job EXCEPT ![r] = "none"]
  /\ IF call[r].pc = "sent" THEN Leave(r, verdict) ELSE UNCHANGED <<call, inflight>>
  /\ UNCHANGED <<picker_a, picker_b, current, recycling, builds, pass, worker, dropped>>

Refuse(r) == job[r] = "queued" /\ Answer(r, "failed")

Reply(r) ==
  \E verdict \in {"answered", "failed"} : job[r] = "running" /\ Answer(r, verdict)

(***************************************************************************)
(* The last handle is gone: the mailbox closes and the thread ends.        *)
(***************************************************************************)
StrongReference == TRUE

InnerHeld == ~ dropped \/ pass[Background].pc \notin {"idle", "aborted"}

Held(w) ==
  \/ InnerHeld /\ current[w[1]] = w[2]
  \/ \E r \in Requests : call[r].pc \in {"holding", "sent"} /\ WorkerOf(r) = w
  \/ \E p \in Passes :
       /\ pass[p].pc \in {"claim", "build", "built", "release"}
       /\ \/ w = <<pass[p].slot, pass[p].gen>>
          \/ pass[p].pc = "built" /\ w = <<pass[p].slot, builds[pass[p].slot]>>

End(w, state) ==
  /\ worker[w].state = "live"
  /\ worker' = [worker EXCEPT ![w].state = state]
  /\ job' = [r \in Requests |-> IF WorkerOf(r) = w THEN "none" ELSE job[r]]
  /\ UNCHANGED <<poolVars, call, pass, dropped>>

StopOld(w) == (dropped \/ current[w[1]] # w[2]) /\ End(w, "stopped")

StopWorker(w) == ~ Held(w) /\ End(w, "stopped")

(***************************************************************************)
(* A worker's thread may also panic.                                       *)
(***************************************************************************)
Panic(w) ==
  /\ Cardinality({v \in Workers : worker[v].state = "crashed"}) < MaxPanics
  /\ End(w, "crashed")

-----------------------------------------------------------------------------
(***************************************************************************)
(* A recycle pass walks the slots.                                         *)
(***************************************************************************)
BeginPass(p) ==
  /\ ~ dropped
  /\ pass[p].pc = "idle"
  /\ pass' = [pass EXCEPT ![p] = [NewPass EXCEPT !.pc = "inspect"]]
  /\ UNCHANGED <<poolVars, call, job, worker, dropped>>

NextSlot(p) ==
  IF pass[p].slot + 1 < PoolSize
  THEN [NewPass EXCEPT !.pc = "inspect", !.slot = pass[p].slot + 1]
  ELSE NewPass

(***************************************************************************)
(* recycle_slot_if_needed: read the health of the slot's worker, claim the *)
(* slot, build a worker, publish it, release the slot.                     *)
(***************************************************************************)
Inspect(p) ==
  /\ pass[p].pc = "inspect"
  /\ LET s == pass[p].slot IN
     \E rss \in RssSamples :
       pass' = [pass EXCEPT ![p] =
         IF should_recycle(worker[<<s, current[s]>>].health, rss)
         THEN [pc |-> "claim", slot |-> s, gen |-> current[s]]
         ELSE NextSlot(p)]
  /\ UNCHANGED <<poolVars, call, job, worker, dropped>>

ClaimBlindly(p) ==
  /\ pass[p].pc = "claim"
  /\ recycling' = [recycling EXCEPT ![pass[p].slot] = TRUE]
  /\ pass' = [pass EXCEPT ![p].pc = "build"]
  /\ UNCHANGED <<picker_a, picker_b, inflight, current, builds, call, job, worker, dropped>>

Claim(p) ==
  /\ pass[p].pc = "claim"
  /\ IF recycling[pass[p].slot]
     THEN pass' = [pass EXCEPT ![p] = NextSlot(p)] /\ UNCHANGED recycling
     ELSE /\ recycling' = [recycling EXCEPT ![pass[p].slot] = TRUE]
          /\ pass' = [pass EXCEPT ![p].pc = "build"]
  /\ UNCHANGED <<picker_a, picker_b, inflight, current, builds, call, job, worker, dropped>>

(***************************************************************************)
(* factory.build is awaited: only here can the background task be aborted. *)
(* A build that is dropped closes the new thread's mailbox, and the thread *)
(* ends without having become a worker.                                    *)
(***************************************************************************)
Awake(p) == p = Background => ~ dropped

Fresh(p) == <<pass[p].slot, builds[pass[p].slot] + 1>>

BuildOk(p) ==
  /\ pass[p].pc = "build" /\ Awake(p)
  /\ Cardinality({w \in Workers : worker[w].state # "none"}) < PoolSize + MaxBuilds
  /\ worker' = [worker EXCEPT ![Fresh(p)].state = "live"]
  /\ builds' = [builds EXCEPT ![pass[p].slot] = @ + 1]
  /\ pass' = [pass EXCEPT ![p].pc = "built"]
  /\ UNCHANGED <<picker_a, picker_b, inflight, current, recycling, call, job, dropped>>

BuildFailed(p) ==
  /\ pass[p].pc = "build" /\ Awake(p)
  /\ pass' = [pass EXCEPT ![p].pc = "release"]
  /\ UNCHANGED <<poolVars, call, job, worker, dropped>>

ReplaceAndReset(p) ==
  /\ pass[p].pc = "built"
  /\ current' = [current EXCEPT ![pass[p].slot] = builds[pass[p].slot]]
  /\ inflight' = [inflight EXCEPT ![pass[p].slot] = 0]
  /\ pass' = [pass EXCEPT ![p].pc = "release"]
  /\ UNCHANGED <<picker_a, picker_b, recycling, builds, call, job, worker, dropped>>

Replace(p) ==
  /\ pass[p].pc = "built"
  /\ current' = [current EXCEPT ![pass[p].slot] = builds[pass[p].slot]]
  /\ pass' = [pass EXCEPT ![p].pc = "release"]
  /\ UNCHANGED <<picker_a, picker_b, inflight, recycling, builds, call, job, worker, dropped>>

Release(p) ==
  /\ pass[p].pc = "release"
  /\ recycling' = [recycling EXCEPT ![pass[p].slot] = FALSE]
  /\ pass' = [pass EXCEPT ![p] = NextSlot(p)]
  /\ UNCHANGED <<picker_a, picker_b, inflight, current, builds, call, job, worker, dropped>>

-----------------------------------------------------------------------------
(***************************************************************************)
(* Dropping the pool, which no dispatch and no tick borrows any more,      *)
(* aborts the background task at its next await.                           *)
(***************************************************************************)
Over(r) == call[r].pc \in {"idle", "answered", "failed", "gone", "cancelled"}

DropPool ==
  /\ ~ dropped
  /\ \A r \in Requests : Over(r)
  /\ \A p \in Ticks : pass[p].pc = "idle"
  /\ dropped' = TRUE
  /\ UNCHANGED <<poolVars, call, job, pass, worker>>

AbortRecycler ==
  /\ dropped
  /\ pass[Background].pc \in {"idle", "build"}
  /\ pass' = [pass EXCEPT ![Background].pc = "aborted"]
  /\ UNCHANGED <<poolVars, call, job, worker, dropped>>

Picking(r) ==
  FetchSecondary(r) \/ LoadFirst(r) \/ LoadSecond(r) \/ TakeWorker(r) \/ Enter(r)

Settle(r) == Reply(r) \/ WorkerGone(r)

Build(p) == BuildOk(p) \/ BuildFailed(p)

Recycle(p) == Inspect(p) \/ Claim(p) \/ Build(p) \/ Replace(p) \/ Release(p)

Next ==
  \/ \E r \in Requests :
       Dispatch(r) \/ Picking(r) \/ Settle(r) \/ Cancel(r) \/ Register(r) \/ Refuse(r)
  \/ \E w \in Workers : StopWorker(w) \/ Panic(w)
  \/ \E p \in Passes : BeginPass(p) \/ Recycle(p)
  \/ DropPool \/ AbortRecycler

(***************************************************************************)
(* Threads keep running, jobs and builds end; a tick of the background     *)
(* task comes as long as it lives.                                         *)
(***************************************************************************)
Fairness ==
  /\ \A r \in Requests :
       WF_vars(Picking(r)) /\ WF_vars(Settle(r)) /\ WF_vars(Register(r) \/ Refuse(r))
  /\ \A w \in Workers : WF_vars(StopWorker(w))
  /\ \A p \in Passes : WF_vars(Recycle(p))
  /\ WF_vars(BeginPass(Background))
  /\ WF_vars(AbortRecycler)

Spec == Init /\ [][Next]_vars /\ Fairness

-----------------------------------------------------------------------------
(***************************************************************************)
(* Types of the pool's state; a dispatch's two candidates differ.          *)
(***************************************************************************)
CallType ==
  [pc : {"idle", "first", "second", "loaded", "chosen", "holding", "sent", "answered",
         "failed", "gone", "cancelled"},
   a : Slots, b : Slots, load : Nat, slot : Slots, gen : 0..MaxBuilds]

PassType ==
  [pc : {"idle", "inspect", "claim", "build", "built", "release", "aborted"},
   slot : Slots, gen : 0..MaxBuilds]

WorkerType == [state : {"none", "live", "stopped", "crashed"}, health : WorkerHealth]

TypeOK ==
  /\ picker_a \in Nat /\ picker_b \in Nat
  /\ inflight \in [Slots -> Nat]
  /\ current \in [Slots -> 0..MaxBuilds] /\ builds \in [Slots -> 0..MaxBuilds]
  /\ recycling \in [Slots -> BOOLEAN]
  /\ call \in [Requests -> CallType]
  /\ job \in [Requests -> {"none", "queued", "running"}]
  /\ pass \in [Passes -> PassType]
  /\ worker \in [Workers -> WorkerType]
  /\ dropped \in BOOLEAN
  /\ \A r \in Requests : call[r].pc \in {"second", "loaded"} => call[r].a # call[r].b

(***************************************************************************)
(* Singleflight: at most one pass builds for a slot, and the slot's flag   *)
(* is up exactly while one does (or its pass was aborted with the pool).   *)
(***************************************************************************)
Building(p, s) == pass[p].pc \in {"build", "built", "release"} /\ pass[p].slot = s

Singleflight ==
  \A s \in Slots :
    /\ Cardinality({p \in Passes : Building(p, s)}) <= 1
    /\ ~ dropped => (recycling[s] <=> \E p \in Passes : Building(p, s))

(***************************************************************************)
(* A slot's in-flight count is the number of dispatches inside their       *)
(* guard, whichever generation of the slot's workers serves them and       *)
(* however they end, so it never underflows.                               *)
(***************************************************************************)
InflightExact ==
  \A s \in Slots :
    inflight[s] = Cardinality({r \in Requests : call[r].pc = "sent" /\ call[r].slot = s})

(***************************************************************************)
(* Recycling loses no request: a dispatch fails for want of a worker only  *)
(* if that worker's thread panicked, and the worker a slot offers, even    *)
(* after a failed build, has not been stopped.                             *)
(***************************************************************************)
NoRecycleLoss ==
  /\ \A r \in Requests : call[r].pc = "gone" => worker[WorkerOf(r)].state = "crashed"
  /\ InnerHeld => \A s \in Slots : worker[<<s, current[s]>>].state \in {"live", "crashed"}

(***************************************************************************)
(* Every dispatch is settled once.                                         *)
(***************************************************************************)
Lifecycle == INSTANCE RequestLifecycle
  WITH state <- [r \in Requests |-> IF ~ Over(r) THEN "waiting"
                                    ELSE IF call[r].pc = "gone" THEN "failed"
                                    ELSE call[r].pc]

ImplementsLifecycle == Lifecycle!LiveSpec

(***************************************************************************)
(* A replaced worker's thread ends once its requests are over, and so do   *)
(* all threads of a dropped pool, in whatever phase of a recycle.          *)
(***************************************************************************)
Leftover(w) == worker[w].state = "live" /\ (dropped \/ current[w[1]] > w[2])

NoWorkerLeaks == (\E w \in Workers : Leftover(w)) ~> (\A w \in Workers : ~ Leftover(w))
=============================================================================
