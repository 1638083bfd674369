----------------------------- MODULE ServerFleet -----------------------------
(***************************************************************************)
(* The HTTP front end (src/server/mod.rs, worker_runtime.rs,               *)
(* accept_loop.rs, stream_listener.rs): serve_with_workers boots one       *)
(* worker thread per index, each with a serve loop of its own, first with  *)
(* SO_REUSEPORT listeners (attempt "reuse") and, when one of these cannot  *)
(* be bound, with one shared listener whose accept loop feeds bounded      *)
(* mailboxes (attempt "shared").  A worker is <<attempt, index>>.          *)
(*                                                                         *)
(* The main task, the worker threads and the clients interleave.  What     *)
(* the main task does while it winds a fleet down (set a watch channel,    *)
(* join a thread) is kept as the list of steps it still has to take.       *)
(***************************************************************************)
EXTENDS Integers, Sequences, FiniteSets, SequencesExt

CONSTANTS
  WorkerCount,     \* worker_count, after max(1)
  MailboxCapacity, \* STREAM_MAILBOX_CAPACITY
  Conns,           \* connections clients may open
  MaxPanics        \* bound: worker threads that panic while serving

ASSUME FleetAssumption ==
  /\ WorkerCount \in Nat \ {0}
  /\ MailboxCapacity \in Nat \ {0}
  /\ MaxPanics \in Nat

VARIABLES
  main,     \* where serve_with_workers is
  script,   \* signals and joins it still has to do before going on
  fallback, \* it goes on with the shared listener rather than return
  outcome,  \* what it returns
  task,     \* the boot task of each worker in the JoinSet
  thread,   \* the worker's thread
  sig,      \* its watch channel: TRUE, or its sender dropped
  mbox,     \* per index, the mailbox of the shared worker
  conn,     \* what has become of each connection, and the worker serving it
  picker,   \* picker_a and picker_b, modulo the number of workers
  offer,    \* what dispatch_stream is doing with the connection it holds
  shutdown, \* the shutdown future has resolved
  panics

mainVars == <<main, script, fallback, outcome>>

loopVars == <<picker, offer>>

fleetVars == <<mainVars, task, thread, sig, mbox, conn, loopVars, shutdown, panics>>

Indices == 0..(WorkerCount - 1)

Attempts == {"reuse", "shared"}

FleetWorkers == Attempts \X Indices

Of(g) == {g} \X Indices

NoWorker == <<"none", 0>>

NoOffer == [step |-> "none", a |-> 0, b |-> 0, depth |-> 0, full |-> {}]

FleetInit ==
  /\ main = "start" /\ script = <<>> /\ fallback = FALSE /\ outcome = "none"
  /\ task = [k \in FleetWorkers |-> "none"]
  /\ thread = [k \in FleetWorkers |-> "none"]
  /\ sig = [k \in FleetWorkers |-> FALSE]
  /\ mbox = [w \in Indices |-> <<>>]
  /\ conn = [c \in Conns |-> [state |-> "new", at |-> NoWorker]]
  /\ picker = [a |-> 0, b |-> 0] /\ offer = NoOffer
  /\ shutdown = FALSE /\ panics = 0

-----------------------------------------------------------------------------
(***************************************************************************)
(* The main task: choosing an attempt, and booting its workers in a        *)
(* JoinSet.                                                                *)
(***************************************************************************)
Boot(g) == task' = [k \in FleetWorkers |-> IF k \in Of(g) THEN "spawned" ELSE task[k]]

ServeWithWorkers ==
  /\ main = "start"
  /\ \E reuseport_requested \in BOOLEAN :
       IF reuseport_requested
       THEN main' = "reuse_boot" /\ Boot("reuse")
       ELSE main' = "shared_bind" /\ UNCHANGED task
  /\ UNCHANGED <<script, fallback, outcome, thread, sig, mbox, conn, loopVars, shutdown, panics>>

(***************************************************************************)
(* A boot task runs: spawn_reuseport binds the worker's own listener       *)
(* before it starts the thread, which the bind or the operating system may *)
(* refuse; both then wait for the thread to report.                        *)
(***************************************************************************)
bind_reuseport_listener(g) == IF g = "reuse" THEN {"bound", "refused"} ELSE {"bound"}

Spawn(k) ==
  /\ task[k] = "spawned"
  /\ \E bind \in bind_reuseport_listener(k[1]), started \in BOOLEAN :
       /\ task' = [task EXCEPT ![k] = CASE bind = "refused" -> "bind_failed"
                                        [] bind = "bound" /\ ~ started -> "failed"
                                        [] OTHER -> "waiting"]
       /\ thread' = [thread EXCEPT ![k] = IF bind = "bound" /\ started THEN "booting" ELSE @]
  /\ UNCHANGED <<mainVars, sig, mbox, conn, loopVars, shutdown, panics>>

(***************************************************************************)
(* The thread boots its isolate pool and reports; nobody may be listening. *)
(***************************************************************************)
BootWorker(k) ==
  /\ thread[k] = "booting"
  /\ \E booted \in BOOLEAN :
       /\ thread' = [thread EXCEPT ![k] = IF booted THEN "up" ELSE "gone"]
       /\ task' = [task EXCEPT ![k] = IF @ # "waiting" THEN @
                                      ELSE IF booted THEN "ready" ELSE "failed"]
  /\ UNCHANGED <<mainVars, sig, mbox, conn, loopVars, shutdown, panics>>

Collect(k) ==
  /\ task[k] = "ready"
  /\ task' = [task EXCEPT ![k] = "done"]
  /\ UNCHANGED <<mainVars, thread, sig, mbox, conn, loopVars, shutdown, panics>>

(***************************************************************************)
(* Steps of winding down.  shutdown_workers signals every worker before it *)
(* joins one; dropping WorkerRuntimes signals and joins one at a time.     *)
(***************************************************************************)
Place(K, k) == Cardinality({j \in K : j[2] <= k[2]})

Ordered(K) == [i \in 1..Cardinality(K) |-> CHOOSE k \in K : Place(K, k) = i]

Steps(op, K) == LET ks == Ordered(K) IN [i \in DOMAIN ks |-> <<op, ks[i]>>]

ShutdownWorkers(K) == Steps("signal", K) \o Steps("join", K)

DropWorkers(K) ==
  LET ks == Ordered(K)
  IN  [i \in 1..(2 * Len(ks)) |->
         <<IF i % 2 = 1 THEN "signal" ELSE "join", ks[(i + 1) \div 2]>>]

WindDown(steps, again, result) ==
  /\ main' = "winding" /\ script' = steps
  /\ fallback' = again /\ outcome' = result

(***************************************************************************)
(* join_next: every worker has to come up.  On the first that does not,    *)
(* the JoinSet aborts the tasks still waiting, whose handles go and whose  *)
(* threads are left to themselves, drops (signals, joins) the workers it   *)
(* still holds, and the ones already collected are shut down.              *)
(***************************************************************************)
Booting == [g \in Attempts |-> main = IF g = "reuse" THEN "reuse_boot" ELSE "shared_boot"]

JoinNext(k) ==
  /\ Booting[k[1]]
  /\ task[k] = "done"
  /\ task' = [task EXCEPT ![k] = "owned"]
  /\ main' = IF \A j \in Of(k[1]) : task'[j] = "owned"
             THEN IF k[1] = "reuse" THEN "reuse_serve" ELSE "accepting"
             ELSE main
  /\ UNCHANGED <<script, fallback, outcome, thread, sig, mbox, conn, loopVars, shutdown, panics>>

Unfinished == {"spawned", "waiting", "ready"}

JoinFailed(k) ==
  LET g    == k[1]
      held == {j \in Of(g) : task[j] = "done"}
      mine == {j \in Of(g) : task[j] = "owned"}
      again == task[k] = "bind_failed"
  IN  /\ Booting[g]
      /\ task[k] \in {"bind_failed", "failed"}
      /\ task' = [j \in FleetWorkers |-> IF j \in Of(g) THEN "over" ELSE task[j]]
      /\ sig' = [j \in FleetWorkers |-> sig[j] \/ (j \in Of(g) /\ task[j] \in Unfinished)]
      /\ WindDown(DropWorkers(held) \o
                    (IF g = "reuse" THEN ShutdownWorkers(mine) ELSE DropWorkers(mine)),
                  again, IF again THEN "none" ELSE "worker_error")
      /\ UNCHANGED <<thread, mbox, conn, loopVars, shutdown, panics>>

(***************************************************************************)
(* The port is taken while a reuseport worker holds its listener, even a   *)
(* worker nobody waits for any more.                                       *)
(***************************************************************************)
PortFree == \A k \in Of("reuse") : thread[k] \notin {"booting", "up"}

ServeWithSharedListener ==
  /\ main = "shared_bind"
  /\ \/ /\ PortFree
        /\ main' = "shared_boot" /\ Boot("shared") /\ UNCHANGED outcome
     \/ main' = "returned" /\ outcome' = "bind_error" /\ UNCHANGED task
  /\ UNCHANGED <<script, fallback, thread, sig, mbox, conn, loopVars, shutdown, panics>>

-----------------------------------------------------------------------------
(***************************************************************************)
(* The accept loop of the shared listener.  It reads and fills mailboxes   *)
(* that the workers' threads drain meanwhile, so that each look at one is  *)
(* a step: the depth of candidate a, the depth of candidate b, try_send to *)
(* the primary, try_send to the secondary.                                 *)
(*                                                                         *)
(* offer holds the two candidates (from the pick on a is the primary) and  *)
(* the depth that was read.  offer.full is a history variable: which of    *)
(* the two mailboxes were full when the primary refused the connection.    *)
(***************************************************************************)
PICKER_STRIDE == 7

queue_depth(w) == Len(mbox[w])

Full(w) == queue_depth(w) = MailboxCapacity

UnrotatedCandidates(p) == <<p.a, p.b>>

PickCandidates(p) == <<p.a, IF p.b = p.a THEN (p.b + 1) % WorkerCount ELSE p.b>>

Closed(w) == thread[<<"shared", w>>] \notin {"booting", "up"}

try_send_stream(w) == IF Closed(w) THEN "closed" ELSE IF Full(w) THEN "full" ELSE "ok"

(***************************************************************************)
(* The loop is biased: once the shutdown future has resolved nothing more  *)
(* is accepted.  dispatch_stream then runs to its end, shutdown or not.    *)
(***************************************************************************)
Accept(c) ==
  LET pick == PickCandidates(picker)
  IN  /\ main = "accepting" /\ ~ shutdown /\ offer = NoOffer
      /\ conn[c].state = "new"
      /\ conn' = [conn EXCEPT ![c].state = "accepted"]
      /\ offer' = [step |-> "pick", a |-> pick[1], b |-> pick[2],
                   depth |-> queue_depth(pick[1]), full |-> {}]
      /\ picker' = [a |-> (picker.a + 1) % WorkerCount,
                    b |-> (picker.b + PICKER_STRIDE) % WorkerCount]
      /\ UNCHANGED <<mainVars, task, thread, sig, mbox, shutdown, panics>>

Dispatching(step) == main = "accepting" /\ offer.step = step

pick_worker ==
  /\ Dispatching("pick")
  /\ offer' = IF queue_depth(offer.b) < offer.depth
              THEN [NoOffer EXCEPT !.step = "primary", !.a = offer.b, !.b = offer.a]
              ELSE [NoOffer EXCEPT !.step = "primary", !.a = offer.a, !.b = offer.b]
  /\ UNCHANGED <<mainVars, task, thread, sig, mbox, conn, picker, shutdown, panics>>

Enqueue(w, c) ==
  /\ mbox' = [mbox EXCEPT ![w] = Append(@, c)]
  /\ conn' = [conn EXCEPT ![c].state = "queued"]
  /\ offer' = NoOffer

DropConn(c) ==
  /\ conn' = [conn EXCEPT ![c].state = "dropped"]
  /\ offer' = NoOffer
  /\ UNCHANGED mbox

FallBack ==
  /\ offer' = [offer EXCEPT !.step = "secondary", !.full = {w \in {offer.a, offer.b} : Full(w)}]
  /\ UNCHANGED <<mbox, conn>>

TryPrimary(c) ==
  LET sent == try_send_stream(offer.a)
  IN  /\ Dispatching("primary") /\ conn[c].state = "accepted"
      /\ \/ sent = "ok" /\ Enqueue(offer.a, c)
         \/ sent = "full" /\ FallBack
         \/ sent = "closed" /\ DropConn(c)

TrySecondary(c) ==
  LET sent == try_send_stream(offer.b)
  IN  /\ Dispatching("secondary") /\ conn[c].state = "accepted"
      /\ \/ sent = "ok" /\ Enqueue(offer.b, c)
         \/ sent # "ok" /\ DropConn(c)

dispatch_stream(c) ==
  /\ TryPrimary(c) \/ TrySecondary(c)
  /\ UNCHANGED <<mainVars, task, thread, sig, picker, shutdown, panics>>

(***************************************************************************)
(* A transient accept error is retried, another one ends the loop.         *)
(***************************************************************************)
AcceptError ==
  /\ main = "accepting" /\ ~ shutdown /\ offer = NoOffer
  /\ \/ UNCHANGED mainVars
     \/ WindDown(DropWorkers(Of("shared")), FALSE, "accept_error")
  /\ UNCHANGED <<task, thread, sig, mbox, conn, loopVars, shutdown, panics>>

StopAccepting ==
  /\ main = "accepting" /\ shutdown /\ offer = NoOffer
  /\ WindDown(DropWorkers(Of("shared")), FALSE, "ok")
  /\ UNCHANGED <<task, thread, sig, mbox, conn, loopVars, shutdown, panics>>

StopReuseport ==
  /\ main = "reuse_serve" /\ shutdown
  /\ WindDown(ShutdownWorkers(Of("reuse")), FALSE, "ok")
  /\ UNCHANGED <<task, thread, sig, mbox, conn, loopVars, shutdown, panics>>

(***************************************************************************)
(* One step of winding down: a signal, or a join that blocks until the     *)
(* thread has ended; then the fallback or the return.                      *)
(***************************************************************************)
SkipJoin ==
  /\ main = "winding" /\ script # <<>>
  /\ LET step == Head(script)
     IN  sig' = IF step[1] = "signal" THEN [sig EXCEPT ![step[2]] = TRUE] ELSE sig
  /\ script' = Tail(script)
  /\ UNCHANGED <<main, fallback, outcome, task, thread, mbox, conn, loopVars, shutdown, panics>>

WindStep ==
  /\ main = "winding" /\ script # <<>>
  /\ LET step == Head(script)
     IN  \/ /\ step[1] = "signal"
            /\ sig' = [sig EXCEPT ![step[2]] = TRUE]
         \/ /\ step[1] = "join" /\ thread[step[2]] = "gone"
            /\ UNCHANGED sig
  /\ script' = Tail(script)
  /\ UNCHANGED <<main, fallback, outcome, task, thread, mbox, conn, loopVars, shutdown, panics>>

Return ==
  /\ main = "winding" /\ script = <<>>
  /\ main' = IF fallback THEN "shared_bind" ELSE "returned"
  /\ fallback' = FALSE
  /\ UNCHANGED <<script, outcome, task, thread, sig, mbox, conn, loopVars, shutdown, panics>>

-----------------------------------------------------------------------------
(***************************************************************************)
(* A worker thread: its serve loop takes connections from its mailbox or,  *)
(* with a listener of its own, from the kernel; told to stop, it drops the *)
(* listener or mailbox, waits for its connections and ends.                *)
(***************************************************************************)
TakeStream(w) ==
  LET k == <<"shared", w>>
  IN  /\ thread[k] = "up" /\ mbox[w] # <<>>
      /\ conn' = [conn EXCEPT ![Head(mbox[w])] = [state |-> "served", at |-> k]]
      /\ mbox' = [mbox EXCEPT ![w] = Tail(@)]
      /\ UNCHANGED <<mainVars, task, thread, sig, loopVars, shutdown, panics>>

KernelAccept(w, c) ==
  LET k == <<"reuse", w>>
  IN  /\ thread[k] = "up" /\ conn[c].state = "new"
      /\ conn' = [conn EXCEPT ![c] = [state |-> "served", at |-> k]]
      /\ UNCHANGED <<mainVars, task, thread, sig, mbox, loopVars, shutdown, panics>>

Abandon(k, lost) ==
  /\ conn' = [c \in Conns |-> IF c \in lost THEN [conn[c] EXCEPT !.state = "dropped"] ELSE conn[c]]
  /\ mbox' = IF k[1] = "shared" THEN [mbox EXCEPT ![k[2]] = <<>>] ELSE mbox

Queued(k) == IF k[1] = "shared" THEN ToSet(mbox[k[2]]) ELSE {}

Served(k) == {c \in Conns : conn[c] = [state |-> "served", at |-> k]}

DrainUnlessOrphaned(k) ==
  /\ thread[k] = "up" /\ sig[k] /\ task[k] # "over"
  /\ thread' = [thread EXCEPT ![k] = "draining"]
  /\ Abandon(k, Queued(k))
  /\ UNCHANGED <<mainVars, task, sig, loopVars, shutdown, panics>>

Drain(k) ==
  /\ thread[k] = "up" /\ sig[k]
  /\ thread' = [thread EXCEPT ![k] = "draining"]
  /\ Abandon(k, Queued(k))
  /\ UNCHANGED <<mainVars, task, sig, loopVars, shutdown, panics>>

Exit(k) ==
  /\ thread[k] = "draining" /\ Served(k) = {}
  /\ thread' = [thread EXCEPT ![k] = "gone"]
  /\ UNCHANGED <<mainVars, task, sig, mbox, conn, loopVars, shutdown, panics>>

Panic(k) ==
  /\ thread[k] \in {"up", "draining"} /\ panics < MaxPanics
  /\ thread' = [thread EXCEPT ![k] = "gone"]
  /\ Abandon(k, Queued(k) \cup Served(k))
  /\ panics' = panics + 1
  /\ UNCHANGED <<mainVars, task, sig, loopVars, shutdown>>

(***************************************************************************)
(* The clients and the operator.                                           *)
(***************************************************************************)
CloseConn(c) ==
  /\ conn[c].state = "served"
  /\ conn' = [conn EXCEPT ![c].state = "closed"]
  /\ UNCHANGED <<mainVars, task, thread, sig, mbox, loopVars, shutdown, panics>>

SignalShutdown ==
  /\ ~ shutdown /\ shutdown' = TRUE
  /\ UNCHANGED <<mainVars, task, thread, sig, mbox, conn, loopVars, panics>>

MainStep ==
  \/ ServeWithWorkers \/ ServeWithSharedListener
  \/ StopAccepting \/ StopReuseport \/ WindStep \/ Return
  \/ \E k \in FleetWorkers : JoinNext(k) \/ JoinFailed(k)

LoopStep == pick_worker \/ \E c \in Conns : dispatch_stream(c)

WorkerStep(k) == Spawn(k) \/ BootWorker(k) \/ Collect(k) \/ Drain(k) \/ Exit(k)

FleetNext ==
  \/ MainStep \/ LoopStep \/ AcceptError \/ SignalShutdown
  \/ \E k \in FleetWorkers : WorkerStep(k) \/ Panic(k)
  \/ \E w \in Indices : TakeStream(w) \/ \E c \in Conns : KernelAccept(w, c)
  \/ \E c \in Conns : Accept(c) \/ CloseConn(c)

FleetTypeOK ==
  /\ main \in {"start", "reuse_boot", "reuse_serve", "shared_bind", "shared_boot",
               "accepting", "winding", "returned"}
  /\ script \in Seq({"signal", "join"} \X FleetWorkers)
  /\ fallback \in BOOLEAN
  /\ outcome \in {"none", "ok", "worker_error", "bind_error", "accept_error"}
  /\ task \in [FleetWorkers -> Unfinished \cup
                 {"none", "done", "owned", "failed", "bind_failed", "over"}]
  /\ thread \in [FleetWorkers -> {"none", "booting", "up", "draining", "gone"}]
  /\ sig \in [FleetWorkers -> BOOLEAN]
  /\ mbox \in [Indices -> Seq(Conns)]
  /\ conn \in [Conns -> [state : {"new", "accepted", "queued", "served", "closed", "dropped"},
                         at : FleetWorkers \cup {NoWorker}]]
  /\ picker \in [a : Indices, b : Indices]
  /\ offer \in [step : {"none", "pick", "primary", "secondary"}, a : Indices, b : Indices,
                depth : Nat, full : SUBSET Indices]
  /\ shutdown \in BOOLEAN /\ panics \in 0..MaxPanics

-----------------------------------------------------------------------------
(***************************************************************************)
(* The accept loop never blocks and drops a connection instead             *)
(* (dispatch_stream).  It does so only when a candidate has died, or when  *)
(* two workers' mailboxes were full at one instant since the connection    *)
(* was accepted, however the two counters walk, whatever the depths were   *)
(* when they were read and whatever the workers drained meanwhile.  (The   *)
(* primary may well have room again by the time the secondary refuses.)    *)
(***************************************************************************)
DropNeedsTwoFull ==
  [][\A c \in Conns :
       conn[c].state = "accepted" /\ conn'[c].state = "dropped" =>
         \/ Closed(offer.a) \/ Closed(offer.b)
         \/ Cardinality(offer.full) = 2
         \/ WorkerCount = 1]_fleetVars

(***************************************************************************)
(* serve_with_workers resolves once every worker has drained its           *)
(* connections: after a regular stop no worker it had brought up runs any  *)
(* more, and no connection is queued or being served by one of these, not  *)
(* even one that was handed over while the loop was stopping.  (Threads a  *)
(* failed reuseport boot left behind are nobody's: see FleetStops.)        *)
(***************************************************************************)
ReturnMeansDrained ==
  main = "returned" /\ outcome \in {"ok", "accept_error"} =>
    /\ \A k \in FleetWorkers : task[k] = "owned" => thread[k] = "gone"
    /\ \A c \in Conns : /\ conn[c].state # "queued"
                        /\ conn[c].state = "served" => task[conn[c].at] # "owned"

(***************************************************************************)
(* A shutdown request, whenever it comes (during the boot, after a failed  *)
(* bind, with connections open or queued), ends serve_with_workers and     *)
(* every worker thread, those of aborted boot tasks included, which have   *)
(* nobody to signal them and must notice that their watch sender is gone.  *)
(***************************************************************************)
FleetStops ==
  shutdown ~> /\ main = "returned"
              /\ \A k \in FleetWorkers : thread[k] \in {"none", "gone"}
=============================================================================
