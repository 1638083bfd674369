# Formal models of nexide

nexide serves Next.js applications from Rust: HTTP requests enter through an
axum server, a pool hands each one to a V8 isolate, a JavaScript pump inside the
isolate starts the handler, and the handler answers through host ops. This
directory holds TLA+ models of that path, TLC runs that check them on small
instances, and TLAPS proofs of the results that matter most.

Paths below are relative to `src/crates/nexide/`. "P" is `runtime/polyfills/`.

## The system and its parts

| part | state | operations | how it meets the others |
|---|---|---|---|
| Dispatch table (`src/ops/dispatch_table.rs`, `response.rs`) | slots with generations, free list, `in_flight` | insert, get_mut, remove, fail_all; response head, chunks, finish | the recv loop inserts, JavaScript settles by id through ops (`ops_bridge.rs`), a stopping worker calls fail_all |
| Request queue and pump (`src/ops/queue.rs`, `src/pool/engine_pump.rs`, `src/engine/v8_engine/engine.rs`, `P/nexide_bridge.js`) | queue of ids, pending pop promise, batch, two Notify permits | push, pop, pop_batch, pump_once, park | the recv loop pushes and notifies; the JavaScript loop pops and starts handlers |
| Async completions (`async_ops.rs`, `napi/async_work.rs`) | two channels and a Notify | send, drain | ops on the same thread, N-API jobs on other threads |
| Isolate worker (`src/pool/isolate_worker.rs`) | mailbox, thread | dispatch, recv loop, shutdown | held by pool slots and dispatches through Arc |
| Single-isolate dispatcher (`src/dispatch/dispatcher.rs`) | mailbox, forwarder tasks | dispatch, pump, forward | the same engine, another pump task |
| HTTP bridge (`P/http_bridge.js`, `P/node/http.js`) | handler stack, synthetic response, ServerResponse | listen, close, __dispatch, writeHead, write, end, destroy | calls the ops; __finalizeError on rejection |
| Recycle policy (`src/pool/recycle.rs`) | none | should_recycle | consulted by both pools |
| Local pool (`local_pool.rs`, `local_isolate_worker.rs`) | mailbox, isolate, health, rebuild channel, Notify | dispatch, rebuild in place, drop | single-thread mode |
| Isolate pool (`isolate_pool.rs`) | slots (worker, in-flight count, recycling flag), pickers | dispatch, recycle pass, tick, drop | multi-thread mode |
| Application start (`src/lib.rs`, `src/server/config.rs`) | the bundle on disk, the environment | find the layout, size the fleet, cap the heap | hands a configuration and a number of workers to the server |
| Server fleet (`src/server/mod.rs`, `worker_runtime.rs`, `accept_loop.rs`, `stream_listener.rs`) | worker threads, watch channels, mailboxes, pickers | boot, fall back to a shared listener, accept, dispatch, drain, join | each worker serves connections and puts requests into its pool |
| Pages (`src/server/prerender.rs`, `next_bridge.rs`, `static_assets.rs`) | cached pages with the metadata of their files | look up, revalidate, insert, pass on to the pool | in front of the pool; Next.js rewrites the files |
| Images (`src/image/*`) | hot cache (LRU by bytes and entries), files on disk | validate, look up, fetch, encode, write, evict | in front of the pool; encodes on the blocking pool |
| CommonJS (`src/engine/cjs/*`, `P/cjs_loader.js`) | module cache | resolve, load | at boot and from handlers |
| N-API calls (`src/napi/bindings.rs`, `env.rs`, `callbacks.rs`, `references.rs`, `loader.rs`) | handles of each native call, references, wraps, deferreds, a noted exception | some hundred functions, trampoline, dlopen | addons on the isolate's thread |
| N-API work (`async_work.rs`, `threadsafe.rs`) | work items, threadsafe functions, one channel | queue, cancel, call, acquire, release, finalize, drain | addon threads, wakes the pump |
| Handles (`handle_table.rs`, `bridge.rs`, `src/ops/{net,tls,http_client,process_spawn,zlib_stream}.rs`) | a table of resources per kind, their locks, tasks under way | open, read, write, accept, wait, kill, close | async ops of the isolate |
| Timers (`P/timers.js`) | next number, set of cleared numbers | set, clear, elapse, run | async ops |

What is hard here: tasks of one thread that interleave at awaits; permits
(`Notify`) that do not count; JavaScript that uses ids and response objects after
their time; exceptions in the middle of a two-layer operation; workers that are
replaced while requests are in them; builds that fail; handles whose last drop
ends a thread. PROJECT.json lists these hazards line by line with the properties
that cover them, or why none does.

What makes each part correct, in one line each: the table never loses, doubles or
mixes up requests; the pump never sleeps on work; the bridge's JavaScript view and
the host's agree and a delivered body is whole; a pool settles every dispatch once,
whatever it does to workers meanwhile, and judges a worker by its own health.

## The modules

| module | models | proofs |
|---|---|---|
| `RequestLifecycle` | the abstract promise of `Worker::dispatch` | |
| `DispatchTable` | the arena, the response ops, fail_all | `DispatchTableProofs` |
| `RequestPump` | one isolate worker: mailbox, recv loop, pump task, pop loop, completions, shutdown | `RequestPumpProofs` |
| `IsolateDispatcher` | the other pump task, over the actions of `RequestPump` | (in `RequestPumpProofs`) |
| `HttpBridge` | ServerResponse over the synthetic response over the ops | `HttpBridgeProofs` |
| `RecyclePolicy` | the four policies and their composite | (in `LocalPoolProofs`) |
| `LocalPool` | the pool of single-thread mode, extends `RecyclePolicy` | `LocalPoolProofs` |
| `IsolatePool` | the multi-thread pool, extends `RecyclePolicy` | `IsolatePoolProofs` |
| `ServerFleet` | worker threads, listeners, accept loop, shutdown | (in `ServerProofs`) |
| `Startup` | layout of the bundle, number of workers, heap cap | (in `ServerProofs`) |
| `Server` | `Startup`, then `ServerFleet` | `ServerProofs` |
| `PageFront` | prerendered pages and the bridge to the pool | (in `SiteProofs`) |
| `ImageOptimizer` | an image request through both caches | (in `SiteProofs`) |
| `Glob` | the matcher of the image allowlists | (in `SiteProofs`) |
| `Site` | what a worker serves without JavaScript: `PageFront`, `ImageOptimizer`, `Glob` | `SiteProofs` |
| `NapiCall` | addons on the isolate's thread | (in `HostProofs`) |
| `NapiWork` | addons on other threads | (in `HostProofs`) |
| `HostHandles` | operations behind handles | (in `HostProofs`) |
| `CommonJs` | resolver and loader | (in `HostProofs`) |
| `Timers` | setTimeout, setInterval, setImmediate | (in `HostProofs`) |
| `Host` | what one isolate reaches outside V8: the five modules above | `HostProofs` |

Each `MC*` module extends its component for TLC; the `.cfg` files give the
constants their values. Operators without a map entry that stand just before the
definition they vary (`KeepSlot` before `Settle`, `RecvSilently` before `RecvJob`,
...) are variants with a plausible bug; PROJECT.json pairs each with the property
that must notice it. They are not part of any specification.

**DispatchTable.** `slots`, `free_head`, `in_flight` are the fields of the struct;
`releases` and `issued` are histories; `outcome[r]` is what the completion channel
of r has delivered. JavaScript may use any id in `issued` at any time. A refused op
throws and changes nothing, so it is a stuttering step. A chunk is the request
whose handler wrote it, which is what is needed to state that bodies do not mix.
`Settle` is settle_ok / settle_err with the `remove` they end in. `View` reads the last
result of each channel as a state of RequestLifecycle, which the table implements.

**RequestPump.** The tasks of a worker share a thread and switch at awaits, so the
recv loop and op tasks act while the pump is suspended (`pc = "parked"`); N-API
threads act at any time, in two steps (send, notify). `pump_signal` and
`napi_wakeup` are the stored permits of the two `Notify`s. `Drain` is pump_once up
to its microtask checkpoint, `DispatchOne`, `PopAgain`, `AwaitOp`, `FinishHandler`
are the checkpoint, `Park` the end of the loop body of run_pump. `BatchCap` covers
the serial and the batched strategy.

**IsolateDispatcher** extends RequestPump and replaces the pump's park (one Notify
only) and the reply path (a forwarder task per job).

**HttpBridge.** One record per request with the state of all three layers. A
JavaScript call is synchronous, hence a function on records; `Then` sequences ops
and stops at the first that throws. Handlers call the response in any order, also
after their promise has settled. The status is valid or not (send_head's parse
rejects a status that is not a u16).

**LocalPool.** The supervisor drives an isolate, boots one or has gone. A reply
takes two steps, since dispatch_inner reads the health some time after the handler
sent it. `served` and `condemned` are histories of the current isolate.

**IsolatePool.** Every atomic access is a step: both pickers' fetch_add, both load
reads, clone of the worker, guard and send, guard drop. A worker `<<slot, n>>` is a
thread that ends when nobody holds a handle (`Held`). Passes are the background
task and callers of tick_recycler.

**ServerFleet.** A worker is `<<attempt, index>>`, the attempt being SO_REUSEPORT
or the shared listener. `task` is the boot task in the JoinSet, `thread` the
worker's thread, `sig` its watch channel (set, or its sender dropped). Winding down
is a script of signals and joins that the main task works off, so that every other
actor may act between two of them. Clients connect at any time; `mbox`, `picker` and
`offer` are the accept loop's. `dispatch_stream` looks at mailboxes that other threads
drain meanwhile, so that each look is a step: the two depths, then try_send to the
primary, then try_send to the secondary. A connection may thus be dropped although the
primary has room again (the log line "both p2c candidates full" is true of the instant
the primary refused, which is what `DropNeedsTwoFull` says; the history variable
`offer.full` records that instant).

**Startup.** Every subset of the directories and files that detection looks at, and
every combination of environment values around the thresholds (absent, garbage,
zero, one short of another worker). Only `ServeFleet` in `Server` joins the two.

**PageFront.** `file[k]` is a version, whether it is whole, and the stamp that stands
for mtime and size. A lookup is the sequence `load_asset` of metadata, bytes and
sidecar, each a step, with rewrites in between. What misses goes to the pool, which
is a nondeterministic verdict here and RequestLifecycle elsewhere; `next_bridge`'s
status codes are part of the step.

**ImageOptimizer.** One record per request; steps end where the handler awaits
or does I/O. A name on disk leads to the file some request created, so that a rename
and two writers of one temporary file are what they are in a file system; `wrote` keeps
the names each request opened, for the exemption of `NoTornImage`. `Crash` empties memory and
keeps the disk.

**Glob.** `matches_impl` is a function of the call (what is left of the pattern, where the
text goes on, whether a segment starts there). The reference (`Denotes`) is what the head
of `glob.rs` documents: a way to cut the text into one piece per item of the pattern. The
code is compared with it from both sides: nothing undocumented is admitted, `**/` apart,
and all that can be cut with no `*` left empty is. The empty `*` is the finding of
`glob_star`.

**NapiCall.** `frames` is the stack of native calls, each with the handles it was
given (a token is a place in that list) and its noted exception; `exc` says that V8
is throwing. Values are their kinds, objects have an identity. Each Node-API
function is an action, made with every handle, and ends with a status. `menu`, chosen
at the start, says which kinds and which groups of functions a behaviour uses: calls
take part in one another only within a group. `last` tells a call that was refused for
its arguments from one that V8 failed; V8 may fail or throw wherever the code asks it to
get, set, define, delete, detach or settle.

**NapiWork.** A call, a release and a queued piece of work are the steps of the code
between which other threads may act (check, count, send, notify); `chan` is the one
channel, drained by the isolate. The box of the threadsafe function is `live` until
the finalizer frees it.

**HostHandles.** `res` are resources in order of creation, with table and id; `task`
are the async operations, which wait for the lock of their resource in order (`Turn`)
and send a completion. After a write that failed the outside takes no more; a read or a
wait that fails leaves the resource as it was. `load`, chosen at the start, says which
tables are used and how far.

**CommonJs.** A path is a sequence of names, a name the sequence of its parts between
dots. The resolver is a set of operators on the disk `cdisk`, which stays as it is;
the loader has the module cache and the stack of modules that run. The resolver's one
recursion, an import alias that names another, is the set of lookups reached
(`LookedUp`): it ends in the one that leads no further, or there is none. A request is
kept as it is spelled (how far up, which names, whether a slash ends it), because
`try_extensions` works on the text: `Extended` and `Exchanged` are what the text with an
extension names. Builtins are names with a subpath (`fs/promises`), and the targets of
exports and of imports are a map of keys and one of patterns that end in a star.

**Timers.** `timers` are all timers ever set, `cancelled` the set of the code; what a
timer was told and did is kept with it for the property.

## The runs

| run | result | shows |
|---|---|---|
| `request_pump` | holds | `NoLostWakeup`, `Accounted`, `InOrder`; refinement of `RequestLifecycle` with liveness; `ClosedWorkerStops` |
| `isolate_dispatcher` | violated | `CompletionsDrained`: a completion that arrives while the dispatcher's pump is parked is not drained |
| `http_bridge` | holds | `ViewsAgree`, `AnswerIsWhole`, `RejectionSettles` |
| `http_bridge_rejection` | violated | `RejectionFails`: a handler that rejects after its head was sent has a partial response delivered as a success |
| `http_bridge_end` | violated | `EndCompletesDispatch`: end() without a body passes the wrong arguments and the request stays open |
| `local_pool` | holds | `HealthIsCurrent`, `NoOrphan`, `RebuildIsEarned`, `SignalledRecycleHappens`; refinement of `RequestLifecycle` |
| `local_pool_failed_recycle` | violated | `FailedRecycleKeepsIsolate`: a failed rebuild leaves no isolate, the log says the existing one is kept |
| `isolate_pool` | holds | `Singleflight`, `InflightExact`, `NoRecycleLoss`, `NoWorkerLeaks`; refinement of `RequestLifecycle` |
| `server` | holds | `ReturnMeansDrained`, `DropNeedsTwoFull`, `FleetStops` of the fleet; `OneBuild`, `BudgetHonoured` of the start |
| `site` | holds | `Conservation`, `FreeListExact`, `InFlightExact`, `NoCrossTalk` of the dispatch table, with stale ids, fail_all at any time and generations that wrap; `SettledPageIsCurrent` of pages; `MemoryAccounted`, `NoTornImage`, `FormatIsNegotiated` of images; `GlobDenotes` of the matcher |
| `glob_star` | violated | `StarIsAnyNumber`: a `*` that would have to stay empty is not tried while a separator is left, so `*/` does not match `/` nor `a*/a` the text `a/a` |
| `host` | holds | `ExceptionsSurface`, `RefusalsConsumeNothing` (NapiCall); `TsfnSafe` (NapiWork); `NoEarlyReuse`, `StreamOrder` (HostHandles); `OneInstance`, `ResolutionStands` (CommonJs); `TimersObey` (Timers) |

`site` and `host` check modules that share an isolate or a router and no state. A
behaviour has one `workload`, chosen at the start, and the other modules stay at their
initial states; interleaving them would multiply the states and reach nothing new. The
dispatch table has behaviours of its own in the run `site` (`MCSite`), with which it shares
nothing either.

Each violated property states what a comment, a message or a log line of the
repository says; the findings in PROJECT.json quote it.

### Bounds

- `site`, the table: 4 requests, 3 generations, 1 buffered chunk. Four requests
  through one slot make its generation wrap; two and three slots occupied at once
  give fail_all all shapes of the free list.
- `request_pump`: 3 requests, mailbox of 2, batches of 2, 1 await per handler. The
  mailbox fills, a batch leaves a rest in the queue, and a completion races with a
  new request.
- `isolate_dispatcher`: 2 requests suffice for the counterexample.
- `http_bridge`: 2 requests, 2 servers, 3 calls per handler (head, chunk, end and
  every permutation, with failures). The two HttpBridge counterexamples need 1
  request and 2 calls.
- `local_pool`: 3 requests, mailbox of 2, a rebuild after 2 requests or a full
  heap, so that one isolate is rebuilt with a request in flight and another in the
  mailbox. RSS samples stay below the cap; with samples above it the policy fires
  on a fresh isolate (see `FreshSurvives`) and every rebuild is trivially earned.
- `isolate_pool`: 2 requests, 2 slots, background pass and one tick, 1 successful
  build, after which builds fail, 1 panic, recycling after 1 request. Two passes meet on
  a slot and both requests can sit in a replaced worker. A second build triples the time,
  nearly all of it for the liveness properties; the invariants are proved for any number.
- `server`: 2 workers, mailboxes of 1, 3 connections, 1 panic: both candidates can be
  full, the third connection is dropped, also with the primary drained before the
  secondary is tried, a worker dies with one queued. All 1024
  mixtures of files, all environments of `MCServer`.
- `site`, the rest: 1 page in 2 variants and 2 requests with a cache of 1, and 2 rewrites; 3
  image requests on 2 workers, so that a third can read what two write at once, for a
  remote image of size 2 in 2 formats, a source passed through or refused as SVG and one
  not admitted, with a hot cache of 3 bytes, which one of the variants fits at a time, a
  clock of 1 tick, 1 crash, and 2 configurations (with and without SVG, a redirect, a
  format the pipeline cannot write); patterns up to 4 characters over an alphabet with
  both wildcards and the slash, texts up to 2 characters with the slash and the dot, of
  those of 3 the ones without a dot and four with one (`MCTexts`). The limit on entries
  and an image larger than the cache are left to the proof (`MemoryIsAccounted`), longer
  patterns and texts to `GlobMeans`.
- `host`: native calls nested 2 deep, 1 or 2 handles and objects per menu, 2 isolates
  one after the other; 3 threads (2 that hold the function at first) and 2 calls;
  tables whose ids wrap after 2 with 2 or 3 resources, or 1 resource with 3
  operations and writes in 2 pieces; 384 disks, each with 18 requests from every file
  that a request can come from, and one with 6 requests, two links and 4 module
  starts; 3 timers whose numbers wrap after 2.

Deadlock checking is off in all runs: with finitely many requests every one of
these systems comes to rest, and a stopped worker stays stopped.

### Fairness

- Tasks that can run do run (tokio's scheduler): weak fairness of the pump, the
  JavaScript checkpoint, supervisors, recyclers, and strong fairness of the recv
  loop and op tasks, which can act only while the pump is suspended, again and
  again rather than for good. Senders wait for mailbox room in order, hence strong
  fairness of `Send`.
- Handlers and the ops they wait for end (`request_pump`, pools). The code has no
  timeout for handlers, so a handler that never ends is a request that never ends.
  `http_bridge` assumes nothing of handlers.
- The background recycler ticks as long as the pool lives (its interval).
- Callers may give up at any time and are never obliged to.
- `server`: the main task and every worker thread keep running, a boot ends, and a
  connection that is served is closed in the end (hyper waits for it, with no
  timeout). Nobody is obliged to connect or to ask for a shutdown.
- `site` and `host` check safety only.

## What is proved

All theorems hold for every value of the constants.

**DispatchTableProofs**, from `NoRequest \notin Requests`, `GenLimit > 0`:
`TypeCorrect`, `RequestsConserved` (Conservation), `CounterExact` (InFlightExact),
`Isolation` (NoCrossTalk), `IdsFresh` (FreshIds), `FreeListSound`, `FreeListComplete`
(FreeListExact), `SafelyImplements` (ImplementsLifecycle). All but FreeListComplete
follow from the inductive invariant `IInv`.
Conservation is nearly inductive but a settle must know that the slot's completion
is there; NoCrossTalk is not inductive: it needs `GenerationCounts` (until a wrap a
slot's generation is the number of its releases) and `IdsKnown` (an issued id is
older than its slot's releases or belongs to its occupant). `FreeListLocal` (head and
links lead to vacant slots, no two links meet) is what makes the slot that insert
reuses vacant. Finite cardinalities give `in_flight`, which the code decrements with
saturation: the proof shows that it never saturates. `FreeListExact` speaks of a
walk, which an induction over its length would need for every step; the proof
carries `FreeListNumbered` instead: there is a numbering of the vacant slots in which
the head is 1, each link leads to the next number and the last slot ends the list. An
insert drops the first number, a release puts one in front, fail_all numbers anew.
The refinement takes insert to Submit, a settle to Answer or Fail of the slot's owner and
fail_all to Fail of all owners at once; the response ops stutter. It holds after a wrap
too: a late op may then settle the wrong request, but none twice.

**RequestPumpProofs**, from the assumptions on capacities in `RequestPump`:
`TypeCorrect`, `NoWakeupIsLost` (NoLostWakeup), `SlotsAccounted` (Accounted),
`KeepsOrder` (InOrder, an action property), `SafelyImplements`; and for the
dispatcher `DispatcherSlotsAccounted`, `DispatcherKeepsOrder`,
`DispatcherSafelyImplements`. The invariant `PumpInv` adds `Placed` (mailbox, recv
loop, queue and batch form one line in which every request is at most once, and
whose handlers have not begun), `Results` (a result on its way belongs to a handler
that has sent it), `Popping` (while a pop is pending nothing is left of a batch) and
`Announced` (in JavaScript no completion of an op is waiting, and one that an N-API
thread has sent comes with a permit or with a thread about to notify). NoLostWakeup
alone is not inductive: the pump decides to suspend on what it saw at its last look,
and must know that whatever arrived since has left a permit. The dispatcher keeps the
same invariant, though its pump does not listen to the permit of completions
(`isolate_dispatcher`); a result waits in its forwarder only after its handler is over.

**IsolatePoolProofs**, from the assumptions on slots, builds and passes:
`TypeCorrect`, `GuardsCounted` (InflightExact), `RecyclesOnce` (Singleflight),
`RecyclingIsLossless` (NoRecycleLoss), `SafelyImplements`. Three layers, each using
the one before: `IInv1` counts the dispatches inside their guard (a cardinality) and
orders the workers of a slot by generation; `IInv2` says that a slot's flag is a lock
with one holder until the pool is dropped; `IInv3` says that who holds a share of a worker
finds it live or crashed, never stopped. Only with the flag's lock is the worker
that a pass publishes the one it built. `TypeCorrect` includes that the two
candidates of pick_index differ: for two slots or more, whatever the counters.

**HttpBridgeProofs**, from the assumptions in `HttpBridge`: `TypeCorrect`,
`LayersAgree` (ViewsAgree), `NoByteLost` (AnswerIsWhole). The invariant says that
every record is `Sound` between two calls. The proof follows the code's own
layers: what one op does to a sound record, then what the synthetic response makes
of it, then `ServerResponse`, each for the case that the layer below threw.

**HostProofs**, from the assumptions in `NapiWork`, `HostHandles`, `Timers` and
`CommonJs`:

- `ExceptionsReachTheirCaller` (ExceptionsSurface) and `RefusalsMayBeRepeated`
  (RefusalsConsumeNothing, an action property), over `NapiSpec`, the part of `Host`
  that calls addons. The second says what each kind of refusal may cost: one for the
  arguments nothing, one by V8 (`GenericFailure`) the deferred it was to settle.
  `NapiInv` adds that environments and objects keep their fields, so that a call changes
  the innermost one and nothing beside it, and that no call is on record while
  JavaScript runs: what JavaScript then does is not put down to a refused call. Each of
  the some sixty functions is one of a few kinds (`Usual`, `Consumes`, `Handed`,
  `Objects`), which is what the step lemma splits on.
- `OneInstanceHolds` (OneInstance) and `ResolutionHolds` (ResolutionStands), over
  `CjsSpec`, from `CjsAssumption`: names are not empty and a link leads to a file that
  is none. What is resolved is admitted (`Admitted`: a file, no link, within the roots,
  and resolved to itself from anywhere), along the resolver's own operators. The
  loader's `CjsInv` says that the cache has exactly the modules that did not fail, each
  under the specifier it was started for, and the stack exactly those being loaded, each
  once. A specifier is the canonical path, so two live instances of a file would be two
  entries of the cache under one name.

- `PointersHold` (TsfnSafe), over `WorkSpec`, the part of `Host` that works across
  threads. `WorkInv` follows every piece of work from its queue to its completion on
  the channel and counts the threads that have yet to release the function: who is
  between its check and its send still owns a count or a place on the channel, so the
  box is not freed under it.
- `IdsKeepTheirMeaning` (NoEarlyReuse) and `StreamsKeepOrder` (StreamOrder), over
  `HandleSpec`, the part of `Host` behind handles. `HandleInv` has seven parts.
  `Slots`: a resource is in its own slot only. `Rounds`: the next id of a table is as
  far ahead of an earlier one as there were insertions since, modulo `IdMax`; it
  makes NoEarlyReuse inductive. `Owned`: a task works on a resource of the kind its
  call named. `Turns`: who has had a lock finds those before it through. `Written`:
  what a write has left is what is not on the wire, and pieces of a later write follow
  only a whole one. `Ended`: a closed input has a closing call or nobody to call it.
  `Reads`: the completions under way bring exactly the chunks taken and not given,
  in order; without it nothing ties the order of settling to the order of taking.

These specifications are what `HostSpec` does to their variables when its workload is
theirs; under another workload the variables rest. `HostIsItsParts` proves that, and
`HostKeepsItsParts` that the host has what each part promises. The invariants were
checked by TLC on the instances of `host` before they were proved.

**ServerProofs**, from the assumptions in `ServerFleet` and `Startup`: `ServesOneBuild`
(OneBuild), `SizingFits` (BudgetHonoured), `FleetInvariance`, `StopDrains`
(ReturnMeansDrained), `DropsUnderOverload` (DropNeedsTwoFull, an action property). The
start needs no strengthening: what is served is settled in one step, and the sizing
rests on the quotient that leaves one isolate of the budget free. The fleet's invariant
`FleetInv` adds to the types `Stages` (nothing of the shared attempt exists while it is
still to come, nothing of a failed reuseport attempt is owned, and the accept loop runs
only when every worker is), `Booted` (a thread that was collected has booted), `Winding`
(after a regular stop a worker that came up has ended or its join is still in the
script) and `Delivered` (a queued connection lies in a mailbox, a mailbox with something
in it belongs to a worker that is up, a served one to a thread that runs) and `Offered`
(no mailbox exceeds its bound, the candidates differ, and once the primary has refused, a
secondary that is full now was full then, for only the loop fills mailboxes). Without
`Stages` a stop could wind down the wrong fleet and leave the other running. That the
script joins every worker it is given rests on the workers' places by index, which a
pigeonhole argument makes a numbering. TLC checked `FleetInv` on the fleet of `server`
before it was proved.

**SiteProofs**, for images, from `ImgAssumption`: `ImagesAreWhole` (NoTornImage),
`ImagesAreNegotiated` (FormatIsNegotiated) and `MemoryIsAccounted` (MemoryAccounted),
from `ImageInvariance`, for `ImageSpec`, which
is what `SiteSpec` does to these variables when its workload is images. Whole answers
need the whole chain: `Files` (a file is known under the one name its creator opened, and
the file under a `.tmp` name is not the published one), `Alone` (who wrote a name alone
finds its own file there, filled when it comes to rename), `Whole` (a published file is
filled or its name was written twice) and the types of the memory caches, whose every
operation (`get`, `put`, `evict`) keeps a list of entries that came from such files. An
exemption by file instead of by name is not kept: the file that a rename publishes may be
one that only a third request has opened. TLC checked `ImageInv` with 4 requests on 2
workers before it was proved. The memory caches are one conjunct of the types
(`Listed`): a list of whole entries, whose sizes add up to the bytes counted, within both
limits. `Total` is a recursive function, and the facts about it (`TotalConcat`, `Parts`,
`Removed`) look at the least number without a property (`LeastNatural`, from the
well-foundedness of <), because the induction theorem cannot be instantiated here.

For pages, from no assumption: `PagesAreCurrent` (SettledPageIsCurrent, an action
property), over `PageSpec`, the part of `Site` whose workload is pages. `PageInv` orders
what a lookup has seen: the file at its start, the metadata, the bytes, the file now, each
before the next (`Before`: an earlier stamp, or the same state). So an asset cached under
the stamp that the file still has was read with nothing written in between, and that is
all a later hit needs. With the bytes read first the chain breaks between them and the
metadata. TLC checked `PageInv` with two workers before it was proved.

For the matcher, from `GlobAssumption` (the characters that mean something are
characters) and `SiteAssumption` (the cases are patterns without groups and escapes, and
texts): `GlobMeans` (GlobDenotes). A case never changes, so the invariant is only that it
is one; the work is in the operators. `matches_impl` is a recursive function on calls
(what is left of the pattern, a position, whether a segment starts there); that it is
well defined (`MatcherExists`, `MatcherUnfolds`) follows from its calls being shorter
(`AnswerFollows`), which holds for a group because an alternative is shorter than its
group (`Alternatives`, `Closes`). Between the code and the reference stands `Taken`, which
cuts the text as the reference does but by the code's tokens (`**/` is one) and with its
rule for an empty `*`. `MatchesTaken` says that a plain pattern matches exactly what it
takes; `TakenIsDenoted` that this is denoted as long as there is no `**/`, and `CutIsTaken`
that what can be cut with no `*` left empty is taken. For the first, `MeansStep` says that
to be taken is a piece for the first token and the rest taken by the rest; `AnswerTakesPiece`
is the step of the code against that step, and `MatcherMeans` puts both together over the
length of the pattern, with anything behind it that begins with neither * nor /. That is how the group
comes in: `OuterMeans` unfolds the nested group (its depths, its cuts, its end), and the
plain part before it is the same argument again. `GlobDenotes` puts the group only into
patterns of up to 3 characters, for TLC; `GroupMeans` has no such bound. Induction goes
by least counterexamples here too.

`SiteIsItsParts` proves that a behaviour of `SiteSpec` is one of `ImageSpec` and one of
`PageSpec`, and `SiteKeepsItsParts` that the site has all that its run checks.

**LocalPoolProofs**, from the type assumptions on the settings: `TypeCorrect`,
`HealthCurrent`, `NobodyOrphaned`, `RebuildsEarned`, the policy fact
`FreshSurvives`, and the step simulation `SafelyImplements` (the safety part of
RequestLifecycle through the mapping `CallerView`). The invariant adds `SentOnce`
(a request is registered once, so the counter counts distinct jobs), `Handshake`
(while an isolate boots, the recycler waits for an acknowledgement not yet sent)
and `Condemnation` (a rebuild request means that the running isolate has been seen
over the limit). `Handshake` is the crux: without it the recycler could judge the
next isolate by the last one's snapshot.

The timers, also in HostProofs, from `TimerIdMax > 0`: `TimersAreObeyed` (TimersObey). The
property is not inductive. The invariant adds that the set of cleared numbers says exactly
which waiting timers were cleared (`Told`), that it holds no number never given
(`Given`: otherwise a new timer could start cleared), and that until the counter
wraps a number is the timer's place (`Numbered`).

## What is only model-checked

- Liveness: the eventualities of `ImplementsLifecycle`, `ClosedWorkerStops`,
  `RejectionSettles`, `SignalledRecycleHappens`, `NoWorkerLeaks`. The prover has no
  fairness reasoning.
- The type invariants that are proved, `FreshIds` and the table's `ImplementsLifecycle`
  are not run any more. Those of
  the other modules are in no run either: they wait for their proofs.

## What the code does that a reader may not expect

Met while modelling. Five of them disagree with a comment, which is named; the others
contradict no document. The models do what the code does, and the properties say what
holds nevertheless.

- Misses of one image variant in the same millisecond share a temporary name, and a
  rename may publish what another of them has not finished: the file they share, or one
  that a third of them has just created. `NoTornImage` exempts names written by more
  than one request (`Raced`).
- The comment at `PICKER_STRIDE_B` (`isolate_pool.rs`, lines 64-67) says that 7 is not a
  factor of the common pool sizes and lists 14: on 14 slots the secondary visits two. The
  primary still reaches all.
- Nothing replaces a pool worker whose thread has panicked; it fails at once, so that its
  load is low and the picker prefers it. `NoRecycleLoss` exempts its requests.
- `register_job` (`engine_pump.rs`, line 155) documents BadRequest for a malformed request
  and sends a handler failure, which the bridge answers with 502. Error variants are one
  verdict in the models.
- Images past their expiry are served as STALE for ever: nothing refreshes or sweeps.
- With a configured format first that the pipeline cannot write, the early lookup
  and the full path choose different formats; `FormatIsNegotiated` has the premise.
- `**/` in a pattern of the allowlist is one item that needs no separator: `**/a` admits
  `aa`. `glob.rs` (line 6) says that `**` is any number of any characters, so that a
  literal `/` would follow. What hides a leading dot from `*` and `?` hides none from
  `**`, although line 11 of the file names all three.
- `memory.rs` (line 7) calls its cache shared by the worker threads; each router
  builds its own.
- A `.meta` sidecar does not take part in the revalidation of a prerendered page.
- A body above 8 MiB is answered with 502; a comment of `next_bridge.rs` (line 24)
  says 413.
- A network or TLS stream has one mutex: a read that waits for data holds up a write.
  A child cannot be killed while it is waited for, which `child_process.js` does from
  its construction. `tls_close` sends no close_notify while an operation is pending.
- Handle ids wrap at 2^32 and then overwrite what is there; `NoEarlyReuse` says how
  far ids can be trusted.
- An addon that registers itself by a constructor does so on its first dlopen only:
  a second isolate of the process is told it has no entry point.
- `napi_get_and_clear_last_exception` clears what the environment noted, not what V8
  throws; finalizers of wraps and externals, accessors of descriptors and instance
  data are ignored; `napi_typeof` of an external is "object". An addon that obeys
  Node's rule not to release after "closing" never gets its finalizer.
- `refresh`, `ref` and `unref` of a timer do nothing. Clearing a timer that is over
  leaves its number in the set; the timer that gets this number after 2^31 - 1 others
  is dropped. `TimersObey` holds for timers that share their number with no other.
- A promise that V8 fails to settle has lost its deferred: `settle_deferred` frees the
  resolver first, answers GenericFailure and leaves the promise pending. Removing a wrap,
  detaching a buffer and setting a described property answer Ok even if V8 refused or
  threw; the wrap or the buffer is then still there.
- `require("./a.b")` finds `a.js`, since the extension is replaced as well as
  appended. For the same reason `require(".")` in a directory `src` finds `src.js` beside
  it before `src/index.js`, whereas `..` only has the extensions appended to its dots.
  Import aliases that name one another recurse until the stack is exhausted.

## What is not modelled

The contents of strings, numbers, headers, bodies and pixels; logging and wording;
argument parsing. fs, DNS, vm, crypto and environment ops: single calls of a library
with no state between them. Other polyfills (streams, events, buffers, web APIs): API
surface in JavaScript. V8 bootstrap and ES modules: run once per boot, which succeeds
or fails. The memory sampler is a nondeterministic sample. Of the modelled parts:
HTTP keep-alive and HTTP/2 (hyper's), static files (tower's), code that edits
`require.cache`, links to directories, conditional exports, patterns of exports and
imports with text behind the star or with another alias as their target, stderr (the twin of
stdout), socket options that change no state of the program.
V8 itself is what the code relies on: microtasks run to completion, one thread per
isolate. Error variants are one verdict, "failed", in the pool models.

## Plan

Keep-alive: more than one request per connection, from ServerFleet through a pool.
