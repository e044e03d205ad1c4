# Verification of the wozzits runtime

TLA+ models of the core of wozzits, a C++20/D3D12 engine that runs inside an editor
process: its threads and their channels, queues and joins, scene saving and teardown,
logging, the asset system and the statechart runner. TLC checks them on small
instances; TLAPS proves theorems about the request channel, the IO lane, the scene
save, the fork-join counter, the task pool with its two lock-free queues, the logger with
its service lane and the asset system for instances of any size. Paths are relative to the repository,
except where `EDR` stands for `src/engine/app/editor_runtime.cpp`, `RC` for
`window_engine/engine/app/runtime_channel.h` and `SYS` for `src/assets/system.cpp`.

## The system

An editor (C#) loads the engine as a library and starts it on a thread of its
own. The engine runs a frame loop; the editor's threads talk to it through
`EditorRuntimeControl`. Beside the engine thread run an IO lane (blocking file
work), a pool of task workers (fork-join work of a frame), a logger thread and a
logger-service thread.

| component | state | operations | what makes it correct |
|---|---|---|---|
| `Mailbox` (RC) | a vector under a mutex | post, drain | no edit lost, in order |
| `Request` (RC) | Idle / Requested / InFlight / Published / Failed, payload, result, abandoned flag, one condition variable | call, call_inout, service, claim, publish, abandon | one cycle at a time; the payload is never reclaimed under the servicer; an answer goes to its caller; nobody sleeps for ever |
| `IoExecutor` | queue, accepting, running, in-flight count, two condition variables | post, quiesce, destructor, worker loop | every accepted job runs once; quiesce is a barrier; throwing jobs do no harm |
| `EditorRuntimeControl` and `run_project_runtime` | mailboxes, eight requests, stop and closing flags, active-caller count, pending dirty restore | verbs, frame steps, teardown | a verb returns; nothing touches a deleted control |
| scene save (`WozzitsApp_v1`, scene JSON library) | document, dirty flags, snapshot, scene file | prepare, commit, finalize, open | a save answered None is on disk; an unsaved edit stays dirty; one writer |
| fork-join counter (`wz::tasks`) | count, parking slot | run, wait, complete, park, resume | wait returns when and only when the tasks are done; no touch after free |
| task pool | deques, injection queue, resumable list, sleepers | submit, pop, steal, drain, sleep | no task lost or run twice; no worker sleeps while work waits |
| logging | bounded ring, in-flight count, accepting and running flags | push, dispatch, wait_until_idle, stop | accepted messages are dispatched, each once, in order; the idle wait is a barrier and returns |
| logger service | diagnostics channel, drop counter, flush request and done counts, reporting flag, thread | publish, flush_now, quiesce, destructor | nothing is logged after quiesce; every occurrence counted or known lost; a flush drains and returns |
| asset system | registered set, committed graph, cache, compiled nodes, node states, disk cache, RHI registrations | register, commit, resolve, resolve_roots, invalidate, bind, evictions | compilers see their inputs; a cache hit stands for something that is there; one build per key and call |
| statecharts | charts by name, runtimes by handle | load, create, tick, prune | a runtime fits the chart it points to |
| job graph | dependency counters | run a DAG, critical path | each job after its predecessors, once |
| atomic file write | staging file, destination | write, flush, rename | old or new bytes, never a mix |
| scene compilers, behaviours, rendering, input, audio | | | see *Not modelled* |

How they interact:

- A non-blocking verb posts to a mailbox; the frame loop drains all of them at
  the start of a frame. A blocking verb is one `Request::call`; the loop services
  each request once per frame.
- The save verb is answered late: the loop *claims* the request, snapshots the
  document, clears the dirty flags and posts a closure to the IO lane. The closure
  writes the file, reports the flags to restore, posts a result for the loop and
  *publishes* the answer to the caller.
- `wz_host_runtime_stop()` sets the stop flag, joins the engine thread (whose
  teardown quiesces the lane, saves what is left and abandons every request),
  refuses new callers, waits for the ones inside and deletes the control.
- Every thread logs into one ring; one worker empties it. The diagnostics lane
  collects records from all threads and is itself a producer of the logger, so the
  teardown has to silence it before the logger is freed.
- The engine thread rebinds the asset graph on every edit: it replaces the registered
  set, commits, resolves what is a sink through the cache and the disk, and then tears
  down what left the graph.
- Frame code forks tasks to the pool and joins them on a `Counter` that lives on
  the waiter's stack: the engine thread blocks, a task parks its fibre.

The hard parts are the interleavings of these threads at saves, at teardown and at
the last completion of a join; exceptions from callbacks and jobs; the order of
clearing, restoring and reading the dirty flags; holes in the logger's ring; and, on
one thread, the recursion of the asset system over tables that its own inner levels
change. `PROJECT.json` lists them as hazards, each at its line with the properties
that guard it.

## Modules

| module | models | on |
|---|---|---|
| `BlockingVerb` | what a blocking verb promises its callers (abstract) | |
| `RequestChannel` | `Request<P, R>` of RC, immediate (`service`) or deferred (`claim`/`publish`) | refines `BlockingVerb` |
| `RequestChannelProofs` | inductive invariant and refinement, proved | extends `RequestChannel` |
| `JobLane` | what the IO lane promises (abstract) | |
| `IoExecutor` | `src/io/io_executor.cpp` | refines `JobLane` |
| `IoExecutorProofs` | inductive invariant and refinement, proved | extends `IoExecutor` |
| `SceneSave` | frame loop, save and open verbs, save closure, atomic file write, teardown, stop | two `BlockingVerb`s and a `JobLane` |
| `SceneSaveProofs` | inductive invariants of the control flow and of the documents, proved | extends `SceneSave` |
| `ForkJoin` | `run`, `wait`, `complete`, park and resume | |
| `ForkJoinProofs` | inductive invariant, proved | extends `ForkJoin` |
| `WorkDeque` | what a worker's deque promises (abstract) | |
| `WorkStealingDeque` | `containers/work_stealing_deque.h` under x64's store order | refines `WorkDeque` |
| `MpscQueue` | `containers/mpsc_queue.h`, the injection queue, down to its nodes | |
| `MpscQueueProofs` | inductive invariant, proved | extends `MpscQueue` |
| `TaskPool` | submission, stealing, sleep and shutdown of the workers | |
| `PoolProofs` | inductive invariants of the deque and of the pool, and the deque's refinement, proved | extends `WorkStealingDeque` and `TaskPool` |
| `Logger` | `src/logging/`, and `containers/mpsc_ring_buffer.h` underneath | |
| `LoggerService` | `src/diagnostics/logger_service.cpp` and the teardown of lane and logger | extends `Logger` |
| `LoggingProofs` | inductive invariants of the logger and of the lane, proved | extends `LoggerService` |
| `AssetSystem` | `src/assets/system.cpp`, the cache, the disk cache, the binds of the application | |
| `AssetSystemProofs` | inductive invariant and action properties of the asset system, proved | extends `AssetSystem` |
| `StatechartRunner` | `src/engine/behavior/statechart_runner.cpp` | |
| `MCScene`, `MCAssets`, `MCLogging`, `MCStatechart` | instances for TLC: plans, graphs, workloads, charts | |

`SceneSave` is built on the two *abstract* modules: the detailed channel and lane
are shown to implement them, so their inner steps need not be interleaved with the
save again.

### RequestChannel

One mutex guards the request, so a hold of it is one action; a notify that comes
after the unlock is a step of its own. `pc` says where each caller is (`gate`: in the
first wait; `posted`: in the second), `asleep` is the wait set of the one condition
variable, `sv` the progress of each servicer. A payload is named by its caller and a
result is tagged with the caller it was computed for, which is how the model tells
whose answer a call gets. `Wake-up` is not an action: a caller that is asleep may
run its predicate again at any time (a spurious wake-up), but fairness holds only
for callers that were notified, so no liveness result rests on one.

| action | code |
|---|---|
| `Call`, `Sleep`, `Refuse`, `Post`, `Take` | `call_inout()`: entry, the two waits, the abandoned exits, the answer |
| `Claim`, `Publish`, `Fail`, `Notify` | `service()`, or `claim()` and `publish()` when `deferred` |
| `Abandon`, `AbandonNotify` | `abandon()` |

`deferred` is fixed by `Init`: TRUE where the runtime claims a request on the engine
thread and lets another thread publish the answer, as it does for the save.

### IoExecutor

A hold of `mutex_` is one action, the notifies are their own. A job is a model
value posted at most once; it may throw (`Run`). `Leave` is the scope guard's
decrement, `NotifyIdle` its notify. The destructor does not run while its owner is
inside `quiesce()`, and nobody posts to a destroyed lane.

### SceneSave

The engine thread's program counter `eng` walks one frame (`top`, `drain`, `take`,
`claim`, `redrain`, `retake`, `prepare`, `post`, `open`, `load`, `simulate`) or the
teardown (`quiesce` ... `exited`). An edit is a set element, a document is the scene
it was loaded from, its edits and the camera pose, and a scene file is a document; its
pose is `NoPose` if it has no whole camera block (`plan.posed` says which files have one
at the start).
The flags `scene` and `camera` are `document_.dirty()` and the camera's; `restore` is
the bit mask of `request_dirty_restore`, `results` the mailbox of save results. Each
save closure (`job[n]`) goes through the read of the file, the write, the restore
of the flags of a failed save, the post of its result, which may be lost to an
exception, and the publish. `job[0]` is the teardown save, run by the engine thread.
The write is `write_file_atomic` (`src/file/filesystem.cpp:364`): `CommitStage` writes
and flushes the staging sibling, `CommitRename` replaces the scene file by it, and
`CommitSettles` is the write-through after which the rename is on disk. `disk` is what
a reader sees, `durable` what a power loss would leave: the old document or the new one
while the rename is in the journal, and nothing for bytes that were not flushed. A
step `PowerLoss` is not needed: `SavedStaysSaved` asks of every state what a restart
from `durable` would find.

An open is two steps. `LoadScene` takes what the asset system compiles of the scene's
path: `bind_asset_graph` first evicts what was compiled before (`LeftBy`), unless it
returns early with a failure (`wozzits_app_v1.cpp:158-208`); `load_scene` then carries on
all the same (`:396`), and a scene opened before is a cache hit on the document it was
then (`Compiled`, `cached`), while the file may hold more by now. Such an open is answered
FALSE. `RestoreCamera` reads the file once more for the camera; without a whole block the
camera stays where it is, and its flag is cleared all the same. Either way document and
file differ with clean flags. The history `adrift` remembers which of the two, nodes or
camera, an open left so, until a save snapshots it (or the camera moves and is dirty):
of that, and of nothing else, the properties say nothing. Binds by other verbs only empty
`cached`, which shows nothing that a failing open with the eviction (`LoadFails`) does not.

`Throw` is an exception inside the frame: the guard answers the claim and the stack
unwinds to the teardown without a save.

Assumed of the rest: the host begins no verb once it has begun to stop the runtime
(`editor_runtime.h:427-434`); the scene files named to an open exist;
no one but the save writes them; the view does not prefer the scene's camera, which the
editor never asks for. The inline commit without a lane is left
out: the editor always runs with one.

`plan` is fixed by `Init` and says what the owner threads may do in a behaviour (who
calls, the scenes, edits and poses there are, how many saves and opens, which files
have a camera block); it bounds the
instance and has no counterpart in the code.

### ForkJoin

Each atomic operation on the counter is one action; all of them are acquire or
release, and the properties are about the order on these two variables only. The
worker's program counter stands for its task. Two forms of the waiter: the engine
thread (`main`), which blocks on the value it loaded, and a task fibre, which switches
out and is registered by the worker's scheduler fibre (`Register`) *after* it stopped
running: the race with the last completion. The waiter may run further batches
before or after each wait, and a task's body may run more tasks against the counter
it is counted in. The deques and the sleep of workers are abstracted: an idle worker
takes a queued task, a resumable fibre first. Spurious failures of the weak
compare-exchange only repeat a loop and are left out, as is the serial path. `main`
says which of the two waits; it is chosen in `Init`.

### WorkStealingDeque

Every atomic access is one action, except that an access only the owner makes (the
loads of its own `bottom_` and `array_`, the filling of an array no one can see yet)
goes with the next one. The order of the owner's stores is what the fences are about.
The engine is built for x64 only (`CMakePresets.json`): loads are in order, and
stores wait in a first-in first-out buffer that a full fence or a locked instruction
empties. `shared` is what thieves read; `buffer` holds the later versions of the
owner's variables, one per store under way; `Flush` lets the oldest arrive. The
sequentially consistent fence in `pop()` is the guard `Fenced`. A slot that is
locked because `Task` is wider than an atomic can only order more than this model
does. `Items` and `taken` are the refinement: the deque goes from `top_` to
`bottom_`, and a pop that has lowered `bottom_` keeps its slot until it has decided.

### MpscQueue

Nodes are members of `Addresses`, and `Allocate` may give out the address of a node
that was deleted: the point of the model, since `empty()` compares addresses. A
producer is between its exchange and its link at `ppc = "link"`. The consumer is one
thread (the pool's token sees to it), and one further thread calls `empty()`; `moved`
records whether a pop has moved the head since that call began.

### TaskPool

A worker's program counter `wk` follows `try_run_one()` (`top`, `drain`, `drainTail`,
`token`, `draining`, `advance`, `own`, `release`, `pop`, `steal`), the sleep under the
lock (`lock`, `check`, `checkTail`, `checkDeques`, `asleep`, `woken`) and a task
(`body`, `notify`, `resume`). `mutex` is who holds `mutex_` across several actions,
which only `has_any_work()` does. The deques are atomic, as `WorkStealingDeque` shows
they may be taken to be; the injection queue keeps its separate exchange and link, and
its `empty()` its two loads: `SaysEmpty` lets it answer yes wherever `MpscQueue` lets
an address be met again. A task ends or parks according to whether all it submitted
is done, `ForkJoin`'s promise. Two simplifications: a steal is not refused for a lost
race (the worker that won it is awake), and the 65 tries before the lock are one.

### Logger and LoggerService

Every atomic access of the ring and of the counters is an action, except that the test
of `tail` and its compare-exchange are one (`Claim`: a failed exchange reads a fresher
head and comes back) and that writing a value and marking its cell `Ready` are one (no
one reads the value of a cell that is not Ready). A message *is* the ring position its
producer claimed, so order and loss can be read off the log. The worker's 10000 stalled
tries of the final drain are one choice: it gives up (`gaveUp`) only while a producer
sits between its claim and its publish. `promised` is what was accepted before the stop
began; later messages may be lost, and the code says so.

The lane has the same kind of ring, modelled by its slots, and logs as the producer
`Lane` of the logger: the composition is one state space, and `ShutdownLogger` frees
the logger as soon as `quiesce()` has returned, before or after the lane is destroyed.
Assumed, as the code assumes: who deletes the logger or the lane has seen to it that
no one is inside (`Delete`, `StopLane`).

### AssetSystem

One thread, but a recursion that no unit test walks through: `resolve_roots()` visits
prerequisites (`resolve_node`), each of which may call `resolve()`, which visits them
again, and each level evicts and erases. The call stack is a variable; every action is
a step of its top frame: entry with its early returns, one prerequisite visited, the
return after it, the compile. A host call is the bottom of the stack (`call`).

| actions | code |
|---|---|
| `Register`, `Deregister`, `Commit`, `Invalidate`, `HostWritesCache`, `EvictUnregistered` | the host's operations between resolves |
| `StartResolve`, `StartResolveAll`, `StartResolveRoots`, `NextRoot`, `RootFailed`, `EndCall`, `EvictUndemanded` | `resolve`, `resolve_all`, `resolve_roots_with_report` and their loops |
| `ResolveRefused`, `ResolveHit`, `ResolveBegin`, `Compile`, `CompileFails` | `resolve()` |
| `NodeKnown`, `NodeHit`, `NodeLoad`, `NodeRefused`, `NodeBegin`, `NodeBuild`, `NodeReturn`, `DemandBegin`, `DemandReturn` | `resolve_node` and its two lambdas |
| `VisitDep`, `DepFailed` | the loops over prerequisites of both |
| `Bind`, `Sweep` | `bind_asset_graph()`: the draft replaces the graph, its sinks are resolved, what left is torn down, the scene's renderables are registered and resolved |
| `Restart` | the process ends; the disk cache stays |

A handle is abstracted to whether the cache's entry is the one the compiled node holds:
`ours`, `foreign` (stored by the host through `cache()`), `stale` or `none`. `touched`
are the slots the host wrote behind the system, for which the agreement of the two
tables is not promised. A disk entry is `intact`, `torn` or absent: `write_file()` of
`store_cached` replaces nothing atomically. `deps` never changes: the key of a draft's
node is content addressed, and that of a file carrier registered at run time (a scene, a
JSON or GLB file) stands for its path, but a carrier has no prerequisites. A compiler may
fail at any time.

What a compiler, or a load from the disk cache, publishes to the GPU registries is best
effort (`Publish`; `scalar_field_compilers.cpp:641-643`, `:703-709`,
`engine_disk_cache_provider.cpp:172-184`): an upload that fails is released and warned
of, the compile succeeds and is cached, and nothing tries again until the key is compiled
or loaded anew. The history `refused` holds the keys whose last publish failed. `HitIsLit`
and `BindLeavesNothingDark` except them and say that nothing *else* puts out an asset: no
sweep, eviction, re-registration or restart. The loss of the GPU device
(`rhi_scene_renderer.cpp:1049-1078`), which puts out everything, is not modelled.

### StatechartRunner

A chart is its regions, states, transitions and the number of its pure operations; a
runtime is what `create()` sizes for it. The world answers guards and agent reads
arbitrarily. A tick whose runtime does not fit its chart is undefined behaviour, and
the model has no step for it; `ReplaceIsSafe` asks whether such a runtime exists.

## Runs

| run | bounds | shows |
|---|---|---|
| `requests` | 3 callers, 2 servicers, 2 results, immediate or deferred | payloads are safe, refinement of `BlockingVerb`, posted calls are answered, teardown releases everyone |
| `io_lane` | 2 threads, 3 jobs | refinement of `JobLane`, `quiesce()` and the destructor return |
| `scene_save` | 2 owners, 1 scene without a pose, 1 edit, 2 poses, 2 saves; or 1 owner, 2 scenes of which 1 has a pose, 2 edits, 2 saves, 1 open; or 1 owner, 1 scene, 1 edit, 2 poses, 1 save, 1 open of it | an answered save is on disk and stays there, through a power loss too; whole documents; the teardown save; one writer |
| `scene_stop` | 2 owners, 1 save, 1 open | every call and stop return, nothing touches the deleted control |
| `scene_posted_edit` | 1 owner, 1 edit, 1 save | *violated*: see Findings |
| `join` | 3 workers, 4 tasks, the engine thread or a fibre waits | complete joins, no touch after free, the fibre in one place, `wait()` returns |
| `deque` | 2 thieves, 3 tasks, a first array of one slot | refinement of `WorkDeque`, no task left behind |
| `mpsc` | 2 producers, 4 addresses, 3 elements | order, no use after free, when `empty()` may err |
| `pool` | 2 workers, 1 submitter, 3 tasks | a task is in one place, submitted tasks complete, the destructor returns |
| `assets` | 4 keys in a diamond or with a cycle, 4 host operations | halves in step, inputs present, hits are lit, one build per call, forced builds are fresh, nothing dark after a bind |
| `logging` | 3 producers, ring of 2, channel of 1, 2 flushers, 6 workloads | claim order, idle barrier, no loss at shutdown, silence after quiesce, flushes drain, exact counts; waits and flushes return |
| `chart_replaced` | 2 nodes, 2 texts of one chart | *violated*: see Findings |

Why the bounds are enough to meet the interesting cases:

- Channel: three callers give one in service, one at the gate and one that arrives
  while the gate opens; two servicers let a deferred claim be answered while the next
  one is claimed. Callers call again without limit.
- Lane: three jobs on two threads give both threads busy and one job queued; the
  third may be posted before, during or after quiesce and destruction.
- Save: two saves are what the stale-flag window needs (a failed one and the one
  after it). Two poses tell a camera save from none. A save bound of two also means
  that a caller cannot be overtaken at the gate for ever, which the code does not
  exclude. One open is enough for the cache to matter, because the scene loaded at the
  start is compiled: edit, save, and open it again after a failed bind. Plans with two
  and three opens were run while the module was written.
- Join: three workers give a completer between its claim and publish, another one
  decrementing and a third in a body; four tasks give a batch that drains, a second
  batch on the used counter, and one stacked on it. `SlotIsFresh`, which no run lists,
  is the comment at `task.h:96-109` as an invariant (proved, `FreshSlot`); without the reset a pool of one
  worker bounces the fibre for ever, which `WaitReturns` sees.
- Deque: from one slot the ring grows twice within three tasks, so that a thief may
  hold the first array through both; slots are used again after a steal; two thieves
  and the owner race for the last task.
- Injection queue: three elements give an address deleted and met again while another
  push is half done; four addresses also let the producers hold one each.
- Pool: of three tasks one may be the parent of another that is stolen, or parked on,
  while the third is injected. A third worker or a second submitter shows nothing
  new to the sleepers (links out of order are in `mpsc`): both were run without
  liveness while the module was written.
- Assets: the diamond (`program` and `renderable` both need `source`, and `demand` and
  `renderable` both need `program`) has a key that two paths reach and a demand root;
  the cycle is what no commit accepts. An upload may be refused at every compile and load. Four host operations give, for example, bind,
  an edit that removes a key, and its return: issue #311. Resolves run to their end
  and cost no operation.
- Logging: a ring of two cells wraps with three messages, and four pushes fill it
  twice; each workload brings about one race, because their product adds states and no
  new pair of neighbours. The channel of one slot drops the second of two records; the
  code's has 2048, and nothing depends on the number.

`CHECK_DEADLOCK FALSE` is given where the program may stop: the lane destroyed, the
runtime deleted, the pool stopped, the logger freed, the counter gone or nothing more
to do within the bounds.

## Fairness

- `RequestChannel`: a caller that is awake runs; a servicer that claimed finishes its
  callback and notifies; `abandon()` notifies. Nothing obliges the
  engine loop to offer its service: `PostedIsAnswered` has that as its hypothesis (each
  frame of a live loop does), and `TeardownReleases` does without it, for a loop that
  has ended and a `mark_finished` that has abandoned the channel.
- `IoExecutor`: threads run when awake, jobs end. Nobody has to post, to quiesce or
  to destroy.
- `SceneSave`: the engine thread and the lane run on, a caller inside a verb goes on
  when it can, and `stop()` finishes once begun. Nobody has to call or to stop.
- `ForkJoin`: a worker with a step to take takes one, a task's body ends, the waiter
  finishes a `run()` or `wait()` it is in. All weak fairness of single threads.
- `WorkStealingDeque`: a store reaches memory, the owner ends a push or pop it has
  begun, and a thief goes on trying, as a worker with nothing else to do does. The
  owner need not push or pop.
- `TaskPool`: strong fairness of each thread. Sleepers may wake spuriously and take
  the mutex for a moment again and again; a thread that waits for it is assumed to get
  it in the end.
- `LoggerService`: weak fairness of every thread that is inside a call, of the two
  workers, and of a teardown that has begun. Nobody has to log, publish, flush, wait or
  tear down, and the cadence need not come: a flush or the stop wakes the lane.
- `MpscQueue`, `AssetSystem` and `StatechartRunner` are checked for safety only. A
  resolve ends because the graph is acyclic: the recursion is bounded by it, not by
  any scheduling.

## Proofs

### RequestChannelProofs

For any set of callers, servicers and results (finite or not), assuming only that the
sentinels are not members of those sets:

- `Invariance`: `Spec => []IInv`. `IInv` is the type invariant, `OneCycle`,
  `OneServicer`, `PayloadHeldWhileServiced`, `AnswerIsForItsCaller`,
  `PayloadComesBack` and `NoLostWakeup`, plus two facts that make them inductive: a
  Requested channel holds a payload (so that a claim knows whose call it serves), and
  only callers inside a call sleep. They are proved together because they lean on each
  other: the payload of a claimed request is safe because the cycle is single, the
  cycle is single because only the parked caller frees the channel, and an answer is
  for the caller parked on it because that caller could not have left. `TypePreserved`,
  `BookkeepingPreserved` and `WakeupPreserved` split the induction step by concern,
  and each of them by action.
- `TypeCorrect`, `PayloadSafe`, `AnswersMatchCalls`, `PayloadReturned`, `WakeupsKept`:
  its parts.
- `Refinement`: `Spec => ImplementsBlockingVerb`. Every step maps to a step of the
  abstract verb or to none: a gated or posted caller *waits*, a claim starts its
  service, a publish answers it, `Take` returns the answer.

### AssetSystemProofs

For any set of keys, any dependency functions (cyclic ones included), any kinds and
root sets, and stacks of any depth, from the three assumptions of `AssetSystem`. The
inductive invariant is

    Inductive == TypeOK /\ HalvesInStep /\ HitIsLit /\ Unwound /\ Recursion
                   /\ Once /\ CompiledSound /\ BindsSinks

`CompilerSeesItsInputs` speaks of the moment a compiler runs and is far from inductive.
`Recursion` carries it through the stack: in every frame of `resolve()` that has begun
its loop, each prerequisite is either still to be visited or trusted (compiled, and
vouched for by the cache) -- or is the one the frame above is resolving, and then that
frame will leave it trusted or fail. Frames above a `resolve()` are frames of
`resolve()` (`ResolveCallsResolve`), and none of their steps takes trust away from a
key other than the one they stand on, which is not trusted when they erase it: this is
why visiting the later prerequisites does not undo the earlier ones. The erasing of
`ForceRecompile` happens in `resolve_node`, never above a `resolve()`. `Unwound` says
that a sweep and a host operation find an empty stack.

`Once` is what one call has done so far. A key that `resolve()` is about to compile is
not trusted (`Dark`) and one that the call has built or resolved is
(`BuiltTrusted`, `ResolvedTrusted`), so that without `ForceRecompile` nothing is built
twice. With it trust is taken away on every visit, and the argument is another:
`resolve_node` brings every prerequisite up to date (`NodesVisit`) before it lets
`resolve()` run on the key, so `resolve()` compiles the key it was called for and only
finds the rest (`OneCompile`), and a key that was visited is not visited again. Whatever
is trusted past the entry of `resolve_node` was built in this call (`ForcedAnew`). None
of this needs an acyclic graph.

A bind needs one. Call a set of keys lit (`Lit`) if its effects are there, the refused
ones apart, and it holds
the prerequisites of each of its keys that the disk cache cannot have served; `Sound` is
the greatest such set. Compiled keys are in it (`CompiledSound`), and so are the sinks
the bind has resolved (`BindsSinks`). The keys that depend on a dark one have, if
`kahn_topo` could order the graph (`Sorted`), a last one among them, which is a sink and
therefore lit: descending from it to the dark key meets a key served from the disk.

- `HalvesAgree`, `LitWhileCompiled`, `InputsPresent`: the three invariants of the run
  `assets`, from `InductiveHolds`. `TypeCorrect`: its type. For the second: what is built
  or loaded is lit or refused, and the sweep drops the compiled node with the effect.
- `BuildsOnce`, `ForcedBuilds`, `BindLights`: its three action properties.

### IoExecutorProofs

For any finite, non-empty set of threads (`resolve_threads` starts at least one) and
any set of jobs. `Inductive` adds to the type four facts that the properties only
imply, each of which says that two tables agree: the queue holds the queued jobs, each
once (`QueueHoldsQueued`); the workers that run hold the running jobs, each its own
(`WorkersHoldRunning`); `in_flight_` is the number of workers between a pop and the end
of the scope guard (`CountIsBusy`); and whoever left the lane, left an empty queue that
nothing can fill again (`ShutdownInOrder`). The barrier is then arithmetic: a count of
zero is an empty set of busy workers, so no job runs, and an empty queue means that
none is queued.

- `Barrier`, `Drains`: `QuiesceIsABarrier` and `DestructionDrains`, which no run lists
  because the refinement and the theorems say more.
- `Refinement`: `Spec => ImplementsJobLane`. A pop starts the oldest job, the end of
  a job finishes it, and `quiesce()` returning is the abstract lane reporting quiet.

### SceneSaveProofs

For any finite set of owner threads, any scenes, edits, plans and number of saves.
Two invariants. `Inductive` is about the control flow alone: the place of the engine
thread, the callers, the lane and the place of each closure. What the documents hold is
left open, so the first two theorems do not depend on what a save writes.

- A save is claimed only on an idle channel, and from the claim to the answer its
  caller is the one *running* call. The engine owes the answer between claim and post,
  then one closure does (`OneOwed`): a second claim is impossible before the answer, so
  no second closure is inside the commit. The teardown save runs on a lane that was
  found empty and that nobody posts to any more (`ClosuresInPlace`). Hence
  `OneWriterAtATime`, whatever the number of lane threads.
- `active_callers_` is the number of callers between the two ends of their
  `CallerScope` (`CountIsInside`), so the zero that `wz_host_runtime_stop()` waits for
  is an empty set; with `StopInOrder` this gives `NothingLeft`.
- The backlog holds queued closures, each once (`BacklogHoldsQueued`): a start never
  revives a closure that has ended.

`DataSafe`, on top of it, is about the documents, and has one hypothesis on the plans,
`OneDriver`: either one thread makes all the calls or nobody opens a scene. The save and
the open verb are both documented for "the owner thread"
(`window_engine/engine/app/editor_runtime.h:480`, `:577`); nothing in the control
enforces it, and without it TLC refutes all three properties (see Not modelled). The plans
of `scene_save` satisfy it.

- `NothingForgotten` is the heart: whatever the working document has and its file has not
  is flagged, and a flag is in `dirty`, in the sticky bitmask, in the report of a failed
  save, in a snapshot that is not posted yet or in a save that may still fail; or it is
  `adrift`. Every step only passes flags along this chain, and two steps drop some: the
  rename, when the file has just received what they stand for, and an open, which puts
  down in `adrift` what it cleans without having it from the file. The order restore, then report, then answer is what keeps the chain
  whole, and a lost report is harmless because the bitmask comes first.
- `SnapshotsHold` says what a save under way knows: its document is the one of the claim,
  the working one has grown from it, and, at each stage, its staging file or the scene
  file holds it, but for the nodes of a cached scene nobody has edited since (`Stale`). A save whose `scene` flag is clear leaves the nodes of the file alone,
  which is right because they were there already.
- `ClaimInOrder` says that between the second drain and the prepare no flag is owed but
  `dirty`, so that a clean document is in its file; `Settled`, that a file and what the
  power loss leaves of it differ only inside a rename.
- `CallsApart`: with one driver no save is claimed while a scene is loaded.
- From these: `AnswersAreHonest` (an action property: the two places that answer None
  are a clean claim and the closure of a save that settled), `StoppingPersists` and
  `SavedForGood`. The first two except what is adrift, the third what an open answered
  FALSE has unloaded; an edit or a camera move made after the open is covered again.

### ForkJoinProofs

For any finite, non-empty set of workers and any number of tasks. `Inductive` is the
type with

- `CountIsExact`: the count is the tasks queued and the workers counted with one;
- `BatchInHand`: tasks are armed and not yet submitted only inside `run()`, the slot is
  reset while nothing else is outstanding, and the counter dies drained;
- `OneFinisher`: the worker that loads a count of one is the only counted one, and while
  it is counted whoever is armed or spawned after it loads more. So at most one worker at
  a time is between such a load and its publish, and nobody writes the slot it claimed;
- `ClaimInHand`, `FibreInOnePlace`, `SlotIsFresh`, `WaiterRuns`: who holds the fibre, and
  what the slot says meanwhile.

`Joins` and `NoUseAfterReturn` follow: `wait()` returns, and the frame is left, at a
count of zero, and by `CountIsExact` nobody is queued or counted then; a worker touches
the counter only while it is counted. `Exact`, `OneFibre` and `FreshSlot` are the
invariants of their names.

### PoolProofs

The deque, for any set of thieves, any capacity but zero and any number of tasks. The store buffer
makes the proof one about *versions*: `Ver(0)` is what memory holds, `Ver(j)` the j-th
store under way, and the last is what the owner sees (`Own`). `Live` are the indices of
the tasks the owner counts, a pop's included while it has not decided. `Inv` adds to the
type

- `VersionsInOrder`: arrays are only added, and each is the last while it is written;
  the bottom goes up one by one, and down only by the pop that waits at its fence, so
  that the memory's back is never ahead of the owner's;
- `VersionsAgree`: whoever reads an index of the range through the array of an older
  version finds what the owner finds. This is the fact that growth and slot reuse
  threaten, and a thief between its load of `array_` and its load of the slot needs it
  of every later version (`ThiefHolds`);
- `RangeFits`: the range is no longer than the ring and a push leaves room for the slot
  it is about to fill, counted from a `top_` that may be out of date (`ot <= top`);
- `TasksDistinct`: a task of the range was pushed, is there once and was not handed out;
- `ThiefHolds`: a thief whose `t` still is `top_` holds the oldest task, at every step.
  A thief with another `t` may hold anything, because its swap fails.

Two lemmas about arrays carry the data: indices less than a ring apart have different
slots (`SlotsApart`), so `Put` overwrites nothing that is live (`PutStore`) and the copy
of `grow()` finds each task (`CopyHasAll`). A store of the owner is one lemma for all
its kinds (`WriteInOrder`, `WriteAgrees`, `WriteSparesThieves`), the swap on `top_` one
for the owner and the thieves (`TopAdvances`).

- `DequeIsSound`: `Spec => []Inv`.
- `DequeIsAWorkDeque`: `Spec => ImplementsWorkDeque`. The abstract push is the arrival
  of `bottom_` in memory, not the store (`FlushPushes`), except that a pop's restored
  bottom arrives without a push; the swap is a steal, the owner's included; a pop of
  one among several is a pop; all else stutters.

The pool over such deques, for any set of workers that is not empty, any submitters and
any number of tasks. `PoolInv` adds to the type

- `PlacesDivide`: the tasks submitted are divided among the injection queue, the hands
  of the workers, the deques, the resumable list, the parked and the done. Six disjoint
  sets say what the property's count of places says, but a step of the pool moves one
  task from one of them to the next, so that each step is a line of set algebra;
- `EachPlaceOnce`: within each of these a task is there once, without which taking one
  out would not take it out of the set (`ElementsTail`, `StoredRemove`, `ValueSet`);
- `OneDrains`: the drain token is held by the one worker that pops nodes, so the head it
  read is still the head when it stores the next. Two consumers would hand one node out
  twice: it is all that makes the single-consumer queue safe under many workers;
- `CurIsHeld`, `LinksAreDue`: a worker's task is in its hand, except that a node being
  popped is still the queue's; a submitter after its exchange has a node to link.

Of the mutex the proof needs only that the resumable list changes in one action under
it; its longer holds are about sleep and stop. That a sleeping worker is woken for a task
is liveness, which TLC checks.

- `TasksInOnePlace`: `PoolSpec => []EachTaskInOnePlace`.

### MpscQueueProofs

For any producers, any set of addresses with the null one apart, any bound. Addresses
are used again, so the invariant names nodes by where they are: `Fresh` ones belong to a
producer before its exchange, the `Chain` is what is allocated from the head on, linked
up or not. `Numbered` numbers the chain from what was popped to what was pushed, without
gaps or doubles, a link leading to the next number; `LinksPending` says that a producer
about to link holds two neighbours of the chain of which it alone will link the first.
That the consumer follows a link only past its predecessor then makes `ElementsInOrder`,
`NodesOutliveTheirUsers` (a producer's `prev` cannot be popped before it links it) and,
with what an asker may assume while `moved` is false (`AskerKnows`), `EmptyIsHonest`.

### LoggingProofs

For any finite sets of producers and publishers (the counts are cardinalities, and a
process has finitely many threads), any flushers, waiters and workloads, any ring with a
cell. `Inv` is the invariant of the logger and that of the lane, which meet only in the
lane's pushes and in the teardown, so that each is shown not to be disturbed by the
other's steps (`LoggerIdles`, `LaneIdles`).

- Of the logger: `CountIsExact`, that `in_flight_` is the producers between the count
  and the claim, the messages in the ring and the one in the worker's hand;
  `EachSomewhere`, `CellsHoldTheirs`, `WritersHaveHoles`, that each message between head
  and tail is in its own cell or with the producer that claimed it, and nothing else is;
  `RingBounds`, that no producer compares the tail with a head newer than the ring's,
  which is why two messages never share a cell (`CellsApart`); `StopInOrder`, what the
  shutdown has yet to drain. An idle count of zero then *is* an empty ring.
- Of the lane: `RecordsAddUp` accounts for every record; `HolesHaveWriters` says that a
  slot that is not Ready has a publisher inside, hence none is left for the last cycle
  (`LastCycle`); `RequestsInOrder` and `OwedIsPopped` that a cycle which begins after a
  request serves it and pops what was Ready then; `SilencedInOrder` that a cycle which
  may still report began before the barrier of `quiesce()`, which is why `quiesce()`
  needs it.
- `DispatchedInClaimOrder`, `IdleMeansDispatched`, `ShutdownLosesNothing`,
  `QuiesceIsFinal`, `FlushIsABarrier`, `NoRecordUncounted`: the invariants of the run
  `logging`.

Every invariant and action property of the passing runs is a theorem. Only
model-checked: `StatechartRunner`, whose run shows a violation; and all liveness, which
the prover does not support.

## Findings

`scene_posted_edit`: the editor's comment on its save command
(`editor/src/Wozzits.Editor.ViewModels/EditorPanes/InspectorPaneViewModel.cs:2328-2331`)
says a save on blur makes edits survive a relaunch. The mailboxes of edits are
drained at the start of a frame and the save is claimed further down (`EDR:1577`). An
edit and a save that both arrive in between are served in the wrong order: the save
answers None without the edit. The edit is applied by the next frame, and saved by
the teardown save, unless the runtime is stopped before that frame, when no one
drains the mailboxes any more.

`chart_replaced`: `StatechartRunnerStore::load()` overwrites the chart under a name in
place, and its comment (`statechart_runner.cpp:41-43`) says this is safe because "prior
runtimes were destroyed on the previous scene teardown". The editor embeds a chart's
text in each node at the time it is attached. Attach a chart to one node, edit it,
attach it to a second: the second node's `self.start` replaces the chart to which the
first node's live runtime points, and `tick()` indexes the new chart with vectors sized
for the old one. Nor is a runtime ever destroyed: nothing calls `destroy()` or
`retain()`.

Two things seen on the way that no run reports. `MPSCQueue::empty()` loads `head`, then
`tail`; if a pop deletes the old node in between and a new push is given its address,
it answers yes although another push was half done all the while, which the comment at
`mpsc_queue.h:146-148` excludes. In the pool this costs at most parallelism, since the
worker that popped is awake (`EmptyErrsOnlyUnderAPop`; `TaskPool` is checked with the
false answer allowed). And a worker may sleep while tasks wait in the deque of a busy
one, because the drainer moves tasks between the two queues without a wake-up of its
own; they run when the busy worker comes to them.

An open after a failed bind (`wozzits_app_v1.cpp:158-208`, `:396`) may show the scene as
it was compiled before, because the eviction at `:237` was skipped. Its owner is told that
the open failed and sees the older scene, which is clean: a save then answers None
although the file holds another, and the next edit and save replace in the file what was
saved since. And an open of a scene without a camera block leaves the camera where it was
and marks it clean (`:634-677`): until it moves, or the nodes are edited, no save writes it.
Nothing in the repository promises otherwise; the properties of `SceneSave` except both.

Two comments that the code has outgrown, of no consequence: `EDR:1904` says the
commit has no atomic rename (the write is `write_file_atomic`), and
`window_engine/engine/abi/wozzits_abi.h:1437` calls the save verb non-blocking.

## Not modelled

- The other blocking verbs and the edits' effect on the document: the same channel
  with other payloads, and data transformation.
- Two owner threads where one opens a scene while the other's save of it is being
  written: the opened document then misses what the save writes, and `SavedStaysSaved`,
  `TeardownPersists` and `SaveAnswerIsHonest` do not hold. The two verbs are documented
  for one owner thread.
- Scene-file writers of the ABI that bypass the runtime
  (`wz_host_set_scene_file_behavior_config`). An exception in the middle of a mailbox
  batch.
- The job graph over the pool and the clamps of
  `compute_frame_delta`.
- What a compiler computes, the scene compilers and the draft editing: transformations
  of rich data by one thread, where a model would repeat the code.
- Behaviours, cognition, motion, collision: floating-point computation of the engine
  thread. Rendering, window, input, audio: calls into the operating system and drivers.
  The editor, except as the threads that call and the step that embeds a chart.

## Plan

Written, in this order: request channel and its proofs, IO lane and its proofs, scene
save with the file write and its proofs, fork-join and its proofs, work-stealing deque,
injection queue, task pool, logger and its service lane, asset system and its proofs,
statechart runner; then the proofs of logger and lane, of the injection queue, of the
deque, of what a save writes, of what a call of the asset system builds and of where the
pool's tasks are. To come:

1. The ABI's scene-file writers in `SceneSave`.
2. `DagScheduler` over `ForkJoin`'s promise; `critical_path` and `compute_frame_delta`
   as functions against reference definitions.
