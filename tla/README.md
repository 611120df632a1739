# Formal models of the RunAnywhere core

TLA+ models of the C++ core of the RunAnywhere SDKs (`src/core`), the TLC runs that
check them on small instances, and TLAPS proofs of their main safety properties for
instances of any size.

`PROJECT.json` is the index: components, runs, the source lines behind every
definition (`map`), a deviation of the code that breaks each checked property
(`mutants`), the disagreements met between code and comments (`findings`), the places
where the code is hard to test (`hazards`) and the theorems.

    tlc -workers 2 -config registry.cfg MCModelLifecycle     # one run
    tlapm ModelLifecycle_proofs.tla                          # one proof module

## 1. The system

`src/core` is a C++ library with a C API. The packages under `bindings/` (Swift,
Kotlin, Dart, TypeScript, ...) call that API from any thread; the engines under
`engines/` plug into it. The core keeps process-wide state, so its correctness is
mostly a matter of what several calling threads do to that state.

| component | state | operations | interacts with |
|---|---|---|---|
| model store | `g_loaded` (one `LoadedModel` per component), `active_refs`, `g_lifecycle_cv` | install, detach, drain and destroy, acquire, release | every caller below |
| registry lifecycle API | `g_load_admission_mutex`, the call's `swap_previous` | load, unload, reset | store, plugin registry, event subscribers (call back on the same thread), auto-download |
| lifecycle facade | per handle: `mutex`, `pinned`, `pin_depth` | load, unload, reset, acquire, release | store (not the admission gate) |
| streaming graph | edges, cancel tokens, worker threads | push, pop, close, cancel, the `run()` loops, stop, join | solution runner |
| solution runner | `started_`, scheduler, root edges | start, feed, close_input, stop, cancel, wait | graph, pipeline executor |
| HTTP download | the sidecar `<dest>.part`, the running digest, the attempt | start or resume, stream, judge the response, shift, verify, rename, retry | HTTP transport, file system, cancel flags |
| download orchestrator | `proto_state().tasks`, each task's state, flags and detached worker, the lanes of a parallel plan | start, poll, cancel, clean up, wait | HTTP download, extraction, model registry, auto-download |
| speech-to-text streams | `g_sessions`, each session's operation state, the component's gate and epoch, the component mutex, the callback slot | start, feed, stop, cancel, load or unload, unset and quiesce | engine (provider streams), store (a stream pins the model), the application's callback |
| tool-calling session | `SessionState`, `pending_dispatches`, `cancel_requested`, the session mutex and `side_effect_admission_mu` | create, step, cancel, destroy, deliver | LLM engine, the host's callback (calls back in) |
| event publisher | subscribers, queue | subscribe, publish, poll | all |
| plugin and runtime registries | plugins by primitive, priorities | register, unload, find | lifecycle, services |
| other modalities' streams | callback slot, in-flight counts | set, unset, quiesce, dispatch | services, bindings |
| voice agent | turn state machine | feed, cancel | LLM, STT, TTS services |
| SDK init, auth, telemetry | phase flags, tokens, event batches | init, shutdown, refresh, flush | network |
| hybrid router, HTTP server, RAG, device, storage, bindings | see `components` | | |

The behaviours that are hard, and what makes each component correct:

- **Store and lifecycle.** A backend is destroyed outside every lock, so a drain fence
  on `active_refs` must keep it from a request in flight. An entry changes owner several
  times (thread, slot, drain list); each backend must be destroyed exactly once. A slow
  `create()` runs with no lock but the admission gate, which unloads and the facade do
  not take. Loads fail half way. Subscribers re-enter the API. Correct means: no use
  after destroy, no double destroy, no leak, a slot that says READY owns a live backend (destroying
  one does not unmark its entry), one backend per model, one model on the NPU, a load's failure
  displaces no resident model, the gate opens again.
- **Graph and runner.** Bounded queues with three overflow policies, back-pressure through
  several threads, end-of-stream by closing edges, cancellation by polled tokens, joins in
  a fixed order. Correct means: order kept, nothing lost or doubled where the policies
  promise it, nobody stops early, cancel stops everybody, `wait()` returns.
- **HTTP download.** Servers ignore ranges and replay everything, answer 416, truncate and send
  error pages; connections drop; the process dies between two renames; a cancel deletes the
  sidecar under the stream. Correct means: only the whole payload replaces the destination,
  OK is answered only when it is there, and nothing loses what had arrived but a copy that the disk
  does not let finish.
- **Download orchestrator.** Check and entry of a task are two critical sections; a cancel
  waits with a time-out and may come too late; lanes of one plan fail, give up and report
  independently; an archive is extracted after its transfer, over whatever is in the model's folder;
  the registry may refuse the update. Correct means: one writer per file, COMPLETED only when the files
  are in place, CANCELLED only for who was asked, every worker stops.
- **Speech-to-text streams.** Feeds run the engine and the application's callback under the
  component mutex; a session is ended by another thread, by its own callback, or by a model
  load that tears all of them down, with feeds, flushes and callbacks in flight. Correct means:
  an ended session is silent, its provider stream is freed once, no session lives through a
  teardown, every call returns.
- **Tool calling.** Callbacks re-enter the session and other sessions of the same host; cancel
  races the engine's answer and the publication of the tool call it asked for; destroy must
  wait for other threads' callbacks but not for its own. Subscribers of the SDK's events are called with
  the session mutex held. Correct means: a cancelled session publishes no tool call, a destroyed one begins
  no callback, every call returns, but for three circles the code leaves (section 4).

## 2. Modules

    LifecycleStore ── LifecycleStore_proofs
      ├─ ModelLifecycle ── ModelLifecycle_proofs, MCModelLifecycle
      ├─ LifecycleFacade ── MCLifecycleFacade
      └─ LifecycleSystem (both callers) ── LifecycleSystem_proofs (and the facade's), MCLifecycleSystem
    StreamGraph ── StreamGraph_proofs, MCStreamGraph
    FileTransfer (abstract) ◄─ HttpDownload ── HttpDownload_proofs
    DownloadPromise (abstract) ◄─ DownloadOrchestrator ── DownloadOrchestrator_proofs, MCDownloadOrchestrator
    SttStream ── SttStream_proofs
    ToolCallingSession ── ToolCallingSession_proofs

`◄─` is a refinement: the detailed module instantiates the abstract one with a mapping of its
variables. Operators whose comment begins with *Deviation* are in no specification: each is the
code with a plausible bug, and is what `mutants` puts in the place of a definition to see that
the checked property notices.

### LifecycleStore: what anybody may do to `g_loaded`

The abstract specification, `StoreSpec`, of `model_lifecycle_internal.h` and
`model_lifecycle_accessors.cpp`. An element of `Entries` is the identity of a
`LoadedModel`; `slot` is the map, `refs` is `active_refs`, `backend` says whether
`destroy` still owns something. Each action is one critical section of
`g_lifecycle_mutex` or one piece of work outside it. `Detach` takes entries out of the map
into a thread's drain list; `DrainFence` and `DestroyBackend` are the two halves of
`destroy_loaded_model`, which leaves the entry's fields as they were: an entry still held somewhere
goes on saying READY without a backend. The objects are held by `shared_ptr`, so an entry that nobody
reaches may stand for a new object, and only such an entry is blank again.

### ModelLifecycle: `rac_model_lifecycle_*`

`pc` follows a call: `admission` (waiting for the gate), `evict`, `select`, then
`install` or `failed`, `release` (drain what was displaced, open the gate), `publish`.
`reject` is the one exit that publishes with the gate closed, as the code does. Requests
are reduced to the model, the component, the frameworks to try, `force_reload` and whether
the NPU is demanded. `EngineFor` is the engine selection with its fallback. Resolution and
auto-download happen before the gate and touch no modelled state: `BeginLoad` may refuse.
`SubscriberLoads` is a subscriber that calls `load` from an event.

### LifecycleFacade: `rac_lifecycle_*` on a handle

Per-handle mutex, the single `pinned` entry and its depth. The facade evicts before it
creates (the registry API creates, then swaps) and never takes the gate. `ReleaseService`
drops a reference of the entry the *handle* remembers, as the code does, while `pin` is the
entry the *caller* is using; keeping both apart is what shows the lost pin (section 4).

### LifecycleSystem

Threads choose between the two APIs call by call, over one store. `NoRecycling` adds the
`shared_ptr`s of `swap_previous` and `pinned`, which the store does not know of, to what
keeps an entry from being reused.

### StreamGraph

One worker per edge that has a consumer: each node runs one thread per input and an edge
has one reader. A graph is given by constants (`Consumer`, `Outputs`, `JoinOrder`,
`Capacity`); what each node is and the policy of each edge are chosen in the initial state
from `Builds`. A push or a pop holds the edge's mutex for the whole of it and is one step;
a blocked push is a step that is not enabled. A worker's loop is `loop` (about to pop),
`push` (an item in hand, outputs `left`), `exit` and `done`. The kinds differ as the classes
do: a split closes its outputs only in `join()`, the last worker of a merge closes its
output, a guard may find a contract violation (and cancels the root token) and leaves its
loop when a push is refused, an operator may fail (and cancels its own token) or absorb an
item. `Cascade` is the propagation of the root's cancellation, node by node. `FeedBegin`
and `FeedPush` are separate since `feed` pushes after unlocking; `StopNode` and `JoinNode`
are the scheduler's loops. The initial state is that of a `start()` that has returned.

### FileTransfer and HttpDownload

`FileTransfer` is what fetching one file promises a loader: the destination goes from its old
content through nothing to the payload, and OK means the payload is there. `HttpDownload` is
`execute_stream` with the retry loop around it. `at` is where the transfer is (`try`, `stream`,
`judge` the response, `shift` a replayed body, `verify`, `rename`, `backoff`). A file is a sequence
of blocks, `i` for the payload's block `i` and `Junk` for an error page. The server is the external
part: it may answer a range with the tail, with everything, with an error page, or with a 416 that
says the file is complete or not. `Sweep` is a cancel that deletes the partial whoever writes it;
`Crash` keeps the disk. Every step that touches a file may fail where the code looks (`OpenFails`, `WriteFails`,
`SidecarFails`, `RestoreFails`, a rename), and the copy of a shift may end early where it looks and where it
does not (`ShiftCutShort`). `Dest` maps the destination's content to the abstract `dest`.

### DownloadPromise and DownloadOrchestrator

`DownloadPromise` is what a client may rely on: `shown`, the phase a poll shows, becomes `completed`
only while the model is loadable (its files are in place, and its registry entry, if there is one, names them),
and is then final; `cancelled` needs somebody who asked; only a `packed` model, one that comes in archives, is
taken back (`Withdraw`), by a task at work on it.
`DownloadOrchestrator` is the task table and the detached workers of one model. A start is three steps,
the look-up (`FindNone`), the entry (`Admit`) and the launch, since the code leaves the mutex in
between; a cancel is the latch and wait, then, for a task without a worker, the deletion and the
publication. `lane[t][f]` follows one file of one task: `fetch`, `fetched`, `extract`, `landed`,
`failed`, `stopped`. Plans with one lane are the sequential worker. A transfer is used through its
promise: one step opens the sidecar, one ends it. `registry` is what the registry says of the model: it has
no entry and refuses the update (`none`), an old path (`stale`), or the files (`linked`). An extraction may
damage what an earlier task has unpacked from its first step on, and end either way.

### SttStream

The sessions of one component. `th[t]` says where a thread is in its call; `op[s]` is the
`StreamOperationState`; `stream` are the provider streams, named by session and creator, so that the
redundant stream of two first chunks is told from the one installed. What runs under `g_mu` or a
session's operation mutex is one step; the component mutex is held across engine calls and callbacks,
so it is the variable `mtx`. A model load or unload is `BeginTeardown`, the sweep, `LockComponent`,
`Hush` (load only), `DrainModel` (the store's fence: no open stream pins the model) and `EndTeardown`.
`Unset` and `Quiesce` are the owner who unregisters the callback to free its data. A chunk of the wrong
format is refused by an event that is dispatched outside any feed operation (`FeedMalformed`); it is admitted
or dropped like every other one.

### ToolCallingSession

A thread is a stack of frames, one per API call it is in; a frame in `callback` or `notify` may have a
further call above it. Who holds the session mutex and the admission mutex is read off the stacks. `step`
generates (`running`), tells the subscribers of the SDK's events with the session mutex held (`notify`, and
`notifying` while one of them is inside a call), looks at the cancel for the last time and decides (`decide`):
a cancel latched from here on leaves the turn as it is, but for a tool call, which is granted under both
mutexes (`admit`). It queues its events and delivers them after unlocking (`snapshot`, `deliver`, `gate`,
`publish`, `callback`). `cancel` latches and signals the engine; `destroy` does too, clears the callback under
the session mutex and waits for the dispatches of other threads. `acked` and `gone` are history
variables: a cancel, a destroy has returned.

## 3. Runs

| run | instance | states | shows |
|---|---|---|---|
| `registry` | 3 threads, 2 components, 4 entries, 2 models, 2 engines, re-entrant subscribers | 374,257 | safety of the registry API |
| `registry_progress` | 2 threads, 2 components, 3 entries, NPU placement rejected | 27,877 | liveness; each step is one of the store's (`StoreSpec`) |
| `facade` | 3 threads, 2 handles on a component each, 3 entries, 2 models | 88,897 | pin bookkeeping, one backend at a time, liveness, `StoreSpec` |
| `system_mixed` | 3 threads, both APIs on one slot, 4 entries | 124,085 | a READY slot names a usable backend although one of the APIs passes no gate |
| `graph` | split, guard or operator, merge; block, drop-newest and drop-oldest edges | 138,043 | order, loss, early ends, cancellation, `wait()` |
| `http` | 3 blocks, 5 kinds of answers, 2 attempts, 3 transfers, checksum, a disk that may fail | 264,446 | the destination, the answer and the partial; `FileTransfer` |
| `download` | 2 tasks, 2 files (one may be an archive), one client that starts, one that cancels | 382,365 | one writer, `DownloadPromise`, workers stop |
| `stt` | 3 threads, 1 session, 2 chunks and refused ones, 1 teardown, an unset | 231,040 | provider streams, silence, teardown, every call returns |
| `toolcall` | 2 threads, 2 tool calls, calls nested 3 deep in callbacks and subscribers | 104,682 | cancel, destroy, every call returns |
| `system_lost_pin`, `download_duplicate`, `stt_unload` | | | the first three disagreements of section 4 |

**Why the bounds are enough.** Three threads let one load, one tear down and one use the same entry, the
largest conflict an entry can meet; two components are needed for NPU rivals and for unloads that match
several slots; four entries (five in `system_lost_pin`) are the occupants, the one being created and the
one being drained at the same time; `system_mixed` was also explored with five (164,556 states), and
`SystemOwnership` is proved for any number. Two models make a swap different from a reload. Two facade
handles let a load of one run beside the pins of the other. `registry` and the mixed runs use symmetry of
entries and threads; the runs with liveness use none. In the graph, capacity 1 makes every inner edge
full after one item and 2 at the root lets two items wait; two items suffice to overtake one another.
`MaxItems` bounds `fed`.

A payload of three blocks has an offset strictly inside, one that is followed by another, and a
replay longer than its prefix; two attempts are one retry; three transfers (`MaxStarts`) are one that
leaves a bad partial, one that resumes from it, and one that finds what that left. Two tasks are a
running one and the next; two files are two lanes, or one file after another, or a transfer and an
extraction. In `stt` two feeders race to create the provider stream, a stop and a cancel race for one
session, and each of these threads may be the one in the callback; `MaxChunks` and `MaxTeardowns` bound
`fed` and `epoch`. A second session adds nothing a session does to itself, and an instance with two (millions of
states) is too slow for a run to keep. In `toolcall` one thread drives the session while the other cancels or
destroys it; `MaxDepth` 3 nests a callback in a callback, `MaxToolCalls` 2 lets a call be granted, repeated and
refused. `CallsReturn` was also explored with three threads, one tool call and depth 2 (252 thousand states).

`CHECK_DEADLOCK FALSE` stands where the program may stop: a finished graph; a client that has
started all its transfers or tasks and cancels no more (`http`, `download`, `download_duplicate`); a
session that has ended, or the wait cycle of section 4 (`stt`, `stt_unload`, `toolcall`); and
`system_mixed`, where a lost pin may leave a reference nobody will drop, and the drain then waits for
ever. Every other run checks deadlock.

**Preconditions worth knowing.**

- `registry` uses requests that name an engine registered for their component (`PinnedRequests`): with
  the fallback `OneNpuSlot` does not hold (section 4). Its requests never reach the rejection of the
  NPU policy: with it `NoSelfDeadlock` does not hold (section 4).
- `facade` has one handle per component: a second one on the same component, or the registry API,
  moves the slot under a pin, which is `system_lost_pin`.
- `NoEarlyEndUndropped` excludes guards that push to a drop-newest edge: there a dropped item ends the
  guard (`pipeline_executor.cpp:110`), see the hazards. `DeliveredInOrder`'s second half and
  `NothingLost` speak of graphs without dropping edges and without operators, which may absorb
  items at will. `WaitEnds` speaks of a root output with room and of graphs in
  which no operator has failed (section 4).
- `FinalIsWhole` and `KeepsPromise` of `http` need the plan's checksum (`Checked`): without it
  nothing tells a resumed error page from the payload, as the hazard at `rac_http_download.cpp:726` says.
- `OneWriterPerFile` and `KeepsPromise` of `download` hold with one client that starts; with two they do
  not, which is `download_duplicate`.
- `EndsReturn` excepts the one wait cycle `Wedged`, `CallsReturn` the three circles of `LockCycle`: the code has
  them (section 4), and the properties say that the modelled steps have no further one. What subscribers
  could add that is not modelled is listed in section 7.
- `GoodPrefixKept` excepts the step in which the copy of a shift fails (`CopyFails`, section 4), and speaks of
  the steps of a transfer, not of a crash or of a cancel that deletes the partial.
- `KeepsPromise` of `download` takes a model without a registry entry as loadable by its files (section 4).

**Fairness.** Lifecycle: weak fairness of the steps that go on with a call (`Continue`,
`FacadeContinue`), none for starting calls. Threads are scheduled by the OS, `create()` and
`destroy()` return, a request returns its pin. Weak fairness does not promise a thread its turn
at the gate or at a handle's mutex, and no property claims it: they say that who holds it lets
go. Graph: weak fairness of "some thread of the graph steps", and of every owner's stop or wait in
progress. Items are finite, so nobody can keep the rest waiting for ever, and the 50 ms
polls inside `push` and `pop` make a cancelled worker runnable. Feeders need no fairness and
nobody has to call anything. Downloads: some worker steps, and a start that has entered its task
launches it; a transfer ends, by its last byte, an error or a flag (the time-outs are the transport's).
Streams and tool calling: weak fairness of each thread's next step inside a call; engines and
callbacks return; no call is owed, and a mutex is promised to nobody.

## 4. Where the code and its comments disagree

1. **Lost pin** (`system_lost_pin`). A facade handle remembers one pinned entry. When a registry load
   evicts that entry and the handle loads and pins another, the first caller's release drops
   the second entry's reference; the second backend is destroyed in use. Two handles on one
   component reach it as well.
2. **Two tasks for one model** (`download_duplicate`). The look-up for a task in flight and the entry of the
   new one are two critical sections (`download_orchestrator.cpp:3408-3427`, `3588-3591`). Two clients that start
   the same model both find none, and two workers write one file; the comment at 3401-3407 promises
   that they coalesce.
3. **Unload beside a stop** (`stt_unload`). A stop erases its session before it destroys the provider stream
   (`rac_stt_stream.cpp:919-929`). A load or unload in between finds no session to wait for, takes the
   component mutex and waits for the stream's pin; the stop waits for that mutex.

These are in the models too, and told here without a run of their own:

4. **Re-entry from a rejected load.** The NPU placement refusal publishes its event before it releases
   the admission gate (`model_lifecycle.cpp:872`); a subscriber that loads a model waits for itself.
   `NoSelfDeadlock` fails in `MCModelLifecycle` with `PlacementRequests` and `ReentrantSubscribers`.
5. **NPU fallback.** Room on the NPU is made by the framework the request names, not by the engine selected
   (`model_lifecycle.cpp:774`), so a fallback onto QHexRT co-resides with another QHexRT model. `OneNpuSlot`
   fails with a request whose framework does not serve its component.
6. **A graph nobody reads, and a failed operator.** With the root output full the workers block, and
   `close_input` or `wait()` never ends them; an operator that fails cancels its own token only
   (`op_engine_backed.cpp:183`), the guard before it blocks on the edge nobody pops any more, and
   `wait()` hangs.
7. **Lock order in tool calling.** A generation that holds the session mutex asks for the admission mutex, which
   a tool callback holds while the step or destroy it calls asks for the session mutex: `LockCycle`. The
   comment at `tool_calling_session.cpp:331-334` says that cancel and destroy may "be called
   re-entrantly by the callback itself"; cancel may, since it never takes the session mutex. In the same way a
   destroy from a tool callback waits for another thread's dispatch, which waits for the admission mutex.
8. **Subscribers under the session mutex.** The generation's completion event is PUBLIC and every subscriber is
   called before the session mutex is released (`tool_calling_generation_internal.h:484`, `sdk_event_publish.cpp:139-153`).
   A subscriber that steps or destroys the session waits for its own thread; one that cancels or destroys it
   asks for the admission mutex with the session mutex held, the other order of item 7.
9. **What a failing load has displaced.** A failure takes no READY model out of its slot (`ReadyGivesWay`), but a load
   for the NPU has evicted the other components' models before its create (`model_lifecycle.cpp:774-776`), and a forced
   reload has erased its own (`759-761`). If the load then fails, these models are gone.
10. **A shift that cannot finish.** When the server replays the whole file, the sidecar is moved aside and copied
   back. If a write fails, on a full disk say, the guard removes the file that was moved aside, with the prefix
   and the replay in it (`rac_http_download.cpp:666-692`); so it does when a file cannot be opened and cannot be
   put back. A crash in between leaves that file under a name nobody looks for. A copy whose last flush
   fails is told from the payload by the checksum only.
11. **COMPLETED and the registry.** That the registry refuses the update is logged, and COMPLETED is published all the
   same (`download_orchestrator.cpp:1739-1743`, `1956-1960`).
12. **Extraction in place.** A task extracts into the model's folder itself (`1593-1605`, `rac_extraction.cpp:375-376`). A second
   task of a COMPLETED model overwrites it, and if it fails, or until it ends, the model cannot be loaded.
13. **The hush before the drain.** A finalize deferred to the end of a dispatch still counts as in flight
   (`rac_stt_stream.cpp:1633`, `1688`): a load can be stuck at its hush in the cycle of item 3, one step before the drain.

## 5. Properties

Lifecycle: `SingleHolder` (an entry is in one slot or one list: no double destroy),
`NoUseAfterDestroy`, `NoLeakedBackend`, `ReadyIsUsable`, `OneBackendPerModel`, `OneNpuSlot`,
`NoSelfDeadlock`, `ReadyGivesWay` (an action property: the three reasons for which a load takes a READY model
out of its slot), `GateReleased`,
`TeardownFinishes`; for the facade `PinBookkeeping`, `OneBackendPerComponent`, `HandleUnlocked`;
`StoreSpec` as a property of both callers is a refinement: the concrete variables include
the abstract ones, so the mapping is the identity and the callers' own variables are hidden.

Graph: `DeliveredInOrder`, `NothingLost`, `NoEarlyEndUndropped`, `CancelStopsWorkers`, `WaitEnds`.

HTTP: `FinalIsWhole` (nothing but the payload replaces the destination), `GoodPrefixKept` (an action
property: what had arrived stays, unless a copy fails), `KeepsPromise` (refinement of `FileTransfer`). Orchestrator:
`OneWriterPerFile`, `KeepsPromise` (refinement of `DownloadPromise`), `TaskStops`.

Speech-to-text: `OneKeeper` (a provider stream has one party that will destroy it), `Silent`,
`NoSessionInTeardown`, `EndsReturn`; `TeardownDrains` does not hold. Tool calling: `CancelledIsInert`,
`QuietAfterDestroy` (nobody is in a callback but the destroying thread on its way out of those it called destroy
from, and it begins no other), `CallsReturn`.

## 6. Proofs

All for every value of the constants that satisfies the `ASSUME`s: sentinels outside the sets they
complete, finitely many threads or tasks, typed requests and engines, a plan without duplicates; for the
graph, well-formed wiring in which no two nodes share an output edge and no node has one twice (a split
makes a new edge for each of its outputs, `pipeline_node.hpp:231`; every other node has one). TLC evaluates
them in every run. What a theorem needs beyond that is a hypothesis it names: `RequestsPinned`,
`PlacementsHonoured`, `OneHandleEach`, `Checked`, `OneStarter`, `PathsCounted`. Every inductive invariant was
first checked by TLC.

- **`LifecycleStore_proofs`.** `SingleHolder` and `NoUseAfterDestroy` are not inductive: nothing in
  them says that an entry with `refs = 0` has no user, or that a pinned entry is still on this
  side of the fence. `StoreInv` adds `RefsCountPins` (the counter is the number of pins),
  `PinnedBeforeFence`, and what the entries in slots and in hand describe. One lemma
  per action of the store; `StoreInvariance` and `StoreSafety` follow. The part of it that says who owns an
  entry (`OwnershipInv`: one holder, described slots, no leak) is inductive by itself, whatever happens to the
  reference counts; what the counts add is proved over it. `ReadyIsUsable` is part of it: since `DestroyBackend`
  leaves a held entry READY, it needs that an entry in a slot is in nobody's list to destroy.
- **`ModelLifecycle_proofs`.** `ImplementsStore` shows `Spec => StoreSpec`: every step of
  the registry API is a step of the store, or stutters on it. So the store's invariant comes for free
  (`LifecycleSafety`). `LifecycleInv` then adds what the gate gives: who is past admission
  holds it (`GateHeld`), an entry in hand is the one the request asked for
  (`MadeForRequest`), and the slot of a load in progress is READY only with the remembered occupant
  (`SlotFrozen`). From these follow `BackendPerModel` and `LoadDisplacement`,
  which goes through the actions of a load and finds the three that take a READY model out of a slot.
  `OneNpuModel` (with `RequestsPinned`: every request's framework serves its component, so the engine
  selected is the one named) adds that an NPU entry says so in the field the eviction reads
  (`NpuDescribed`), and that a load for the NPU past its eviction finds the other slots without
  one (`NpuCleared`), which lasts because only the gate's holder installs. `NoSelfWait` (with
  `PlacementsHonoured`: no request is turned away for its placement) shows that the holder of the gate is
  inside the load (`HolderInside`).
- **`LifecycleSystem_proofs`, the facade alone** (with `OneHandleEach`). A release drops a reference of the entry the handle
  remembers; that it is the caller's own needs that all users of a handle use one entry, which
  needs that nobody else moves the component's slot. `FacadeInv` is the store's invariant with `Locks`
  (who is inside a load holds the handle's mutex), `Places` (where a load's entry is), `HeldOne`, `UsersOf` and
  the bookkeeping itself. `FacadeKeepsBooks`, `FacadeOneBackend`, `FacadeImplementsStore`.
- **`LifecycleSystem_proofs`, both callers** (no hypothesis). The store's contract fails here: a release may drop
  the reference of an entry that replaced its caller's, and `NoUseAfterDestroy` is violated
  (`system_lost_pin`). `SystemOwnership` says how far the damage goes. A step of either caller is a step of the store
  or that release (`CallStepsStore`, `HandleStepsStore`), the release touches references and pins only
  (`PinsOwnNothing`), so `OwnershipInv` stays: no backend is destroyed twice or leaked, and a READY slot owns
  its backend.
- **`StreamGraph_proofs`.** `GraphTypeCorrect`: with `Pushing` (a worker that pushes has outputs left,
  all of them its node's) the types, and with them the capacity bound of every edge under every
  policy, are inductive. `StreamRunsToItsEnd`: `NoEarlyEndUndropped` needs that in a quiet graph only
  failing operators have cancelled tokens (`TokensQuiet`), that no output of a node still running
  is closed (`OutputsOpen`), so that a guard's push is not refused and nobody is on the
  way out without a reason (`LoopGoesOn`).
- **`StreamGraph_proofs`, what comes out** (`DeliveryInOrder` and `NothingIsLost`, with `PathsCounted`: `Paths` is
  the number of routes from the root input to the root output, and it is finite; the executor's doc calls the
  graph a DAG, `pipeline_executor.hpp:6`, and a loop that reaches the output would have infinitely many routes).
  Neither invariant speaks of anything but the root output, so the induction needs the past of the whole
  graph. An item fans out into copies, one per route; `HistoryInv` says that the state *has* a history: the
  number `when[p][m]` under which the last edge of route `p` accepted item `m`, how many copies have left each
  edge, and which one a worker holds. Its parts: a queue holds consecutive numbers and no number or copy occurs twice
  (`Numbered`), a copy comes from a worker that took it (`Followed`, `Holding`), the input is numbered as fed
  (`FedInTurn`), and in a lossless graph no copy overtakes the one before it (`InTurn`) and none is left out as long
  as the output takes it (`PassedOn`). A history is no variable of the model: each step's lemma gives
  the next one (`TakeKeepsHistory`, `PushKeepsHistory`, `FeedKeepsHistory`, `WaitKeepsHistory`). `DeliveredInOrder`
  is then an injection of the places of an item in the output into the routes, and into the places of the
  item before it; `NothingLost` follows along every route by its length, with a least counterexample
  (`LeastOf`, from the well-foundedness of the naturals).
- **`HttpDownload_proofs`** (`FinalAlwaysWhole` and `TransferImplements` with `Checked`). What is renamed must
  be what the digest covered: `DigestCovers` says so of a partial that still has a name, `Lengths` that
  the partial is its prefix and what was written, which is what a truncation and a shift rely on;
  `AttemptsLeft` bounds the retries; `NotYetThere` keeps a payload from being replaced. `NoGoodPrefixLost` (with
  `Checked`) is the action property: the good blocks before and after each step of a transfer but a failing copy
  are compared case by case, which needs `Streamed` (what a stream has written so far is the body, at its place) beside the invariant.
- **`DownloadOrchestrator_proofs`** (`OneWriterAlways` and `OrchestratorImplements` with `OneStarter`).
  `OneActive` (at most one task is active) is what gives a file one writer. It needs where lanes, outcomes and
  workers of a task can be (`LanesOK`, `OutcomesOK`, `TasksOK`), what a caller between two of its critical
  sections relies on (`CallersOK`), that an entered task is launched by who entered it
  (`LaunchPending`), and that an identity not yet used has no work (`FreshUnworked`). The types need no hypothesis.
  For the promise, `ArchiveLanes` (only an archive is extracted) shows that what is taken back comes in archives, and the
  lanes that have all ended well that the files are there when COMPLETED is shown, whatever the registry answered.
- **`SttStream_proofs`.** `Silent` and `NoSessionInTeardown` rest on counting: a session's `feeds` and `dispatches`
  are the numbers of threads in them (`Counted`), so a session that is quiescent has none. One thread
  claims a cleanup and is the only one past it (`ClaimsOK`, `CleansOK`, `OneCleaner`), who waits for a
  session's end has ended it (`EndsOK`), sessions are entered once (`IssuedOK`, `OneStarts`), the event of a refused
  chunk, which no feed keeps alive, is delivered only to a session nobody has begun to clean (`RefusalsOK`), and a
  teardown's list covers every live session until it is swept (`TearOK`). `MutexOK` and `FreedOK` give the component mutex and
  the freed callback data. `StreamsHaveOneKeeper` adds which thread or session is to destroy each provider stream:
  a made stream is its maker's until it is installed or discarded, an installed one its session's until a
  cleanup has taken it.
- **`ToolCallingSession_proofs`.** `StackInv` (below the innermost frame there are callbacks only, or right below it
  an announcement whose subscriber called in and has not got the session mutex), `MuOK` and `AdmissionOK` (one holder
  each, read off the stacks), `CancelOK` (from the latch to the return of a cancel, what a generation or a delivery can
  still do) and `GoneOK` (nobody but the destroying thread is in a callback of a retired session, and all that
  thread has left are the callbacks destroy was called from, which return for good) give `CancelHolds` and
  `DestroyIsQuiet`, for any depth of nesting.

The abstract specifications are used as `Promise!Spec` and `StoreSpec`; that each step maps to a step or
a stutter is proved for every refinement the runs check.

Every invariant, action property and refinement a passing run checks is stated by a theorem. **Only
model-checked**: liveness, which rests on fairness, outside the prover's reach (`GateReleased`,
`TeardownFinishes`, `HandleUnlocked`, `CancelStopsWorkers`, `WaitEnds`, `TaskStops`, `EndsReturn`, `CallsReturn`).

## 7. Not modelled, and the plan

Abstracted in the modelled parts:

- Lifecycle: the LLM cancel flag, the content and the order of events (the deferred ones that a rejected load
  drops included), creation and destruction of facade handles, names returned as `c_str()` of an entry, a load
  or unload called from inside a request that holds a pin (it waits for itself, as the API says), and
  the facade's second implementation for builds without protobuf.
- Graph: a second `start()` after `wait()`, the build inside `start()`, the lifetime of the scheduler and the
  runner objects (their destructors, raw pointers after an unlock), payload types beyond "conforms or not",
  tokens forked by callers, the two halves of a merge worker's exit (`fetch_sub`, then `close`, one step here),
  chains of splits. A poll that times out and waits again is no step.
- Downloads: planning and the requests it rejects, the order of progress events, catalog sizes that drift from
  the server's, `skip_registry_update`, the deadline of the auto-download's poll, the transport's registration, and the
  WebAssembly driver. The server is external.
- Speech-to-text: destruction of the component, registering a callback again after an unset, dispatches without a session
  id, and a callback of one session that ends another. The events of a first feed (`rac_stt_stream.cpp:1456-1478`) and of
  a session's summary (798-802) are PUBLIC and published synchronously, the first while the feed is counted: a
  subscriber that ends the session from them waits for its own thread. Subscribers are not modelled here.
- Tool calling: the run loop (one blocking call around the same generation step), and parsing, prompts and grammars. The
  generation holds a lifecycle pin while it tells the subscribers (`tool_calling_generation_internal.h:484`, released at 493),
  so one that unloads the model waits for its own thread's pin: the store is not part of this model. The event
  `destroy` publishes under the session mutex (`tool_calling_session.cpp:1109`) goes to telemetry only, which has
  no subscribers. A handle used from `on_handle_published`, inside `create` and before its first generation, is left out.

Components with status `not_modelled` say why in their note. Pure I/O, parsing, numeric ranking and generated
or third-party code stay out. The order of what comes next, most important first:

1. **Registries** (`PluginRegistry`): register and unregister of a plugin while a load creates with it, and the
   reference count of the registered HTTP transport. Abstract specification: nobody calls into code that was unloaded.
2. **Other modalities' streams**: set, unset and quiesce of the callback slots of LLM, TTS, VAD and diarization, which have
   no sessions. Abstract specification: no callback runs after quiesce has returned.
3. **Runner lifetime**: restart after `wait()`, destroy during `wait()`, chained splits.
4. **Proofs**: `NoUseAfterDestroy` of the mixed system under a rule its callers could follow (the registry API
   leaves a component alone while a handle of it has users); an abstract specification of the graph, one queue per
   route, that `HistoryInv` shows `StreamGraph` to implement.
5. **Events**: order and completeness of the lifecycle's events over a model of the publisher.
6. Voice agent turns, token refresh, telemetry batches, hybrid router.

Each of these gets a passing run of its own only where it asks a new question; a run of the present set
whose question is answered by a larger one is then folded into it.
