# TLA+ models of teck

teck is a small 2D engine: about 1,400 lines of C++ under `src/src`, drawing with
WebGPU through a vendored copy of Dawn (`src/lib/dawn`, the rest of the
repository). The program opens a window, asks Dawn for a device, builds its GPU
objects without checking any of them, and then runs one loop on one thread: poll
the window, move the entities, render a frame, let Dawn process its events.
There are no tests, and nearly everything that can go wrong goes wrong in
the order of things: a device that comes late or not at all, a call that fails
and is not looked at, a device that is lost in the middle of a frame, singletons
that are destroyed in the order nobody wrote down, a pointer that the next call
frees. Below teck, the parts of Dawn that every frame runs through are shared by
threads, completed by a GPU that works on its own time, and called back from inside their own
calls: the queue, the event manager, the mapping of buffers, the staging memory, the objects that equal descriptors share.
These modules model both halves, check them with TLC and prove parts of them with TLAPS.

All paths below are relative to the repository (`src/`); core files are
`src/src/core/...`, Dawn's front end is `src/lib/dawn/src/dawn/native/...`.

## Inventory

| component | state it keeps | operations | interacts with |
|---|---|---|---|
| tkEngine (`engine.cpp`) | `bRunning`, the window, loaded scenes, update systems | Create, Init, Run, MainLoop, ShouldExit, PollEvents, Update, destructor | owns the window, calls scene, renderer |
| tkWindow (`window.cpp`) | the GLFW window | constructor, PollEvents, ShouldClose, destructor | GLFW, the user |
| tkRenderer (`renderer.cpp`) | instance, device, surface, swap chain, buffers, pipeline | GetDevice (two nested callbacks), Init, InitGraphics, Render | Dawn, the reader, the 2d render system |
| tkReader (`reader.cpp`) | one static stream and one block of memory | ReadTextFile: Open, Read, SetMemory; destructor | files; lends its memory to the renderer |
| tkRegistry, tkScene, systems | the entities | BeginPlay, CleanUpScene, physics Update, SetupBuffers | used by the engine's Init and loop |
| the singletons | four function-local statics | built at first use, destroyed by `exit` | everything above |
| Dawn's device front end | device state, uncaptured-error callback, swap chain texture, encoder errors | creation calls, WriteBuffer, encoding, Submit, Present, Tick, destruction | called by the renderer |
| Dawn's queue on Vulkan (`ExecutionQueue.cpp`, `Queue.cpp`, `vulkan/QueueVk.cpp`, `CallbackTaskManager.cpp`) | last submitted and completed serial, recording context, fences and command pools in flight and unused, tasks in flight, callback tasks | Submit, Tick, CheckPassedSerials, OnSubmittedWorkDone, TrackTask, WaitForIdle, WaitForQueueSerial, Destroy, device loss | the driver's GPU; any thread that waits or flushes callbacks |
| Dawn's event manager (`EventManager.cpp`) | `mEvents`, each event's completion and callback mode, `mNextFutureID`, the lock of the map and the device's | TrackEvent, SetFutureReady, ProcessPollEvents, WaitAny, ShutDown | the device's queue; any thread |
| Dawn's buffer mapping (`Buffer.cpp`) | state, `mLastMapID`, map callback or pending event | MapAsync, MapAsyncF, Unmap, Destroy, use in Submit and WriteBuffer | queue tasks, event manager, callbacks of the application |
| Dawn's staging memory (`DynamicUploader.cpp`, `RingBufferAllocator.cpp`) | rings with start, end, used and requests; staging buffers; released buffers | Allocate, Deallocate | queue serials, every WriteBuffer |
| Dawn's cached objects (`RefCounted.cpp`, `ContentLessObjectCache.h`, `ObjectBase.cpp`) | reference counts, the cache of weak references with its mutex, the device's object lists and their mark | GetOrCreate (Find, create, Insert), AddRef, Release with the deletion, Track, Untrack, the device's destruction | any thread, without the device's lock |

What is hard, and what must hold:

- **Startup.** The device arrives by callback; teck goes on as if it had it. The
  main loop must never run without a device, a surface and a window. One failure path
  calls `exit(0)` inside the callback, in the middle of `Init`.
- **A frame.** Eleven calls, none checked. A failed call yields an error object that
  the later calls carry on; the encoder keeps its errors until `Finish`. A frame
  with sound objects must draw, one with broken objects must say so, and `Present` must not
  be called for a texture that was never acquired.
- **Device loss.** It may happen in any backend call, teck sets no lost callback
  and keeps calling. The error callback must fall silent, the loop must
  keep running and still obey a request to close.
- **Exit.** Surface before window, swap chain detached by the surface, device before
  instance, scenes cleaned up, on every path.
- **Reading.** The text returned must live until the next call and no longer; a file
  that could not be opened must not spoil the calls after it.

- **The queue.** The GPU completes work at any time; a fence or a command pool may be reused only
  when the GPU is done with it, an object must not be lost or owned twice when a
  driver call fails halfway, and a task must be answered exactly once whether its serial
  passes, the device is lost or the queue is destroyed. Other threads take fences and store the
  completed serial without the device's lock.
- **Futures.** Threads track, complete, poll and wait for the same events between two
  locks that are taken in both orders; an event must be completed once, never be
  forgotten, and no two threads may wait for each other.
- **Mapping.** Every request is answered once, although it may be overtaken by an Unmap, a
  Destroy, a new request, a loss, or a callback that calls back in.
- **Staging memory.** A ring is reused from the front while uploads fill it from the back: no byte the
  GPU may still read is handed out again, none is forgotten when the ring wraps.
- **Cached objects.** Threads look for, make, insert and release equal objects at once, and
  the cache holds only weak references: a dying object must not be revived or dangle there, two living ones must not stand
  for one content, and a deletion in the middle of a lookup must not wait for its own mutex. The device
  destroys objects that are still in use.

`PROJECT.json` lists these as hazards at the lines where they bite.

## Modules

| module | models | abstract specification |
|---|---|---|
| `DawnDevice` | the outcomes of a device call, `DeviceBase::HandleError`, `APIPresent`, `Destroy` | |
| `Statics` | C++ function-local statics: building order and destruction order | |
| `TeckRenderer` | `GetDevice`, `Init`, `InitGraphics`, `Render`, call by call; extends the two above | |
| `TeckEngine` | `tkEngine`, `tkWindow`, the scene's life, the destruction of the singletons; the whole program | `TeckLifecycle` |
| `TeckReader` (+`TeckReaderMC`) | `tkReader` with its stream and its heap block | `TextStore` |
| `VulkanQueue` | the pieces of `QueueVk.cpp`, `ExecutionQueue.cpp`, `Queue.cpp` as operators: driver calls, submission, fences, pools, tasks | |
| `DawnQueue` | the queue with its callers, waiting and flushing threads, GPU, loss, destruction; extends `VulkanQueue` | `WorkDone` |
| `DawnEvents` | the event manager used by several threads, and the queue serials it looks at | `Futures` |
| `DawnBuffer` | a mappable buffer with its map requests by callback and by future, the queue's serials, tasks in flight and callbacks | `BufferMapping` |
| `RingAllocator` | `RingBufferAllocator.cpp` as pure operators on a ring | |
| `DynamicUploader` | the rings, the staging buffers and `Deallocate`'s loop, with the GPU | |
| `DawnObjects` | shader modules as cached, counted and listed objects, used by several threads | `Interning` |
| `TeckEngine_proofs`, `TeckLifecycle_proofs`, `TeckReader_proofs`, `DawnEvents_proofs`, `DynamicUploader_proofs`, `DawnObjects_proofs`, `DawnQueue_proofs`, `DawnBuffer_proofs` | theorems | |

### How the models correspond to the code

*Program counter.* The main thread is sequential, so `pc` names the call it makes
next, and each action is one call on Dawn, GLFW or another component with everything
the code does up to the next one. `Startup` follows `InitGraphics` (renderer.cpp:91-108)
in order, `Render` follows `tkRenderer::Render` (327-380).

*Device calls.* Every entry of Dawn's front end has one shape: check that the
device is alive, validate, call the backend, and on an error make an error object
and call `HandleError`. `OutcomesOf(valid, failures)` is that shape:
`dead` when the device is not alive, `invalid` when validation fails, otherwise
`ok` or one of the failures the call may meet (`loss` for any backend call,
`oom` where the call allows out-of-memory errors). `valid` is written out at each call
from the objects it uses; descriptors that are constant in the code and were found
valid against Dawn's rules are `TRUE`. `HandleError` is Dawn's: a loss disconnects
the device and is reported to nobody, any other error calls the uncaptured-error
callback while the device is alive. `uncaught` counts these calls, restarting
with each frame.

*Objects.* `obj` maps each handle of `tkRenderer` to `null`, `valid`, `error` or, for
a shader module made from a missing file, `empty` (the empty string is valid
WGSL without an entry point, so the pipeline made from it is invalid).

*Callbacks.* Natively Dawn completes both requests before `RequestAdapter`
returns (`Deliveries` contains "sync"); in a browser they wait for the event
loop ("async"). A failed adapter request logs an error, whose assertion aborts a
debug build (`Asserts` contains TRUE), and otherwise calls `exit(0)`. A failed device
request is ignored by the code; the null device then ends the process.

*Exit.* `DestroyNext` picks the singleton that was built last. The destructors of
the renderer and the engine are sequences of their own (members in reverse order
of declaration); reader and registry only free memory.

*Reader.* `disk` is what the files hold, which may change between calls; a file is a
short string over a letter, a newline and a NUL, or missing. `heap` is the memory
behind `new char[]`; any free block may be returned, the one just freed included.
`isOpen`, `good` and `rest` are the `std::fstream`. The loop over the lines takes
one step per line. NUL truncation by `strcpy_s`, the newline added to an unterminated
last line, and the ignored result of `Open` are modelled as the code has them.

*Queue.* `calls` is what the thread holding the device's lock has still to do: every public call pushes
the steps it is made of, `CallStep` takes the first, and each step is one call on the driver with
the code around it, so the GPU and the other threads run between any two. A driver call may
fail or lose the device at each place where the code checks it; the query of a fence may fail on a device that is not lost, and the
validation layer may have an error for a tick (`CheckDebugLayer`). Threads in `WaitForQueueSerial` take the fences
they wait for, wait, compare the serials and store without the device's lock, in the code's order of
reads and writes; `NobodyWaits` keeps them out of the calls that the comment at
DeviceVk.cpp:847-853 declares not thread-safe. Callbacks flushed from the task
manager run on whichever thread flushed them.

*Events.* `todo[t]` is the sequence of steps thread `t` still has to take; `wait[t]` the
futures it polls or waits for. The map's lock and the device's lock are held from the step that takes them to the
step that gives them back, so that every order of the threads' steps between the locks is explored.
Completing an event, running its callback and dropping its last reference are steps of their own. A
wait with a timeout is a wait whose polling may stop at any time. `working` are the events to which a worker, the device
or a buffer refers. Each entry point that makes an event is an action: work done on the queue waits for what is submitted or
pending, a map request for the buffer's last use, however old, and what either call refuses has an early status.
`UnmapEarly` is `UnmapInternal` for a pending request: under the device's lock it sets the status and calls
`SetFutureReady`, also while `MapAsyncF` is still tracking the event.

*Mapping.* One application thread calls into the buffer. With `Reentrant` the callback of an
event may call `Unmap`, `Destroy` or map again before it returns, which the model
takes as calls made between the steps of the call that ran it. `lastMapID` and the ids kept by
requests are the code's; an answer for an old id is recognised as stale where the code compares them. Tasks in flight,
queued callbacks and the callbacks a flush has taken are sets: `RunCallback` takes any of them, a superset of the code's order.

*Staging memory.* `RingAllocator` has the arithmetic, the alignment and the list of requests of a ring.
`requests` additionally keep where their bytes start, which the code does not store
(history). `Tick` may come at any time, a superset of `ShouldFlush` and the frame's tick.

*Cached objects.* `pc[t]` is where a thread is in a call, `stage[t]` where it is in deleting the object
whose count it brought to zero, which may happen in the middle of the call (a temporary reference) and is
finished first, as the code does. Every reference has a place: `held` by the application, `made` and `got` by
`GetOrCreate`, `temps` by a lookup. The cache's mutex is held from `LockCache` to the last probe, each probe is one
step, and other threads' releases come in between. The hash table compares entries of equal hash in any
order and may compare others. An object is an address: when freed it may be used again. Shader modules are created and
released without the device's lock (`no autolock` in dawn.json; releases never lock), so nothing else
orders the threads. `emplace` also promotes a reference to the new object itself; as its maker holds one for longer, that is left out. The
branch of `Insert` for a failed second promotion cannot be taken: the temporary reference keeps the object alive. After the device's
destruction nothing looks up any more, as `mCaches` is gone (see below).

### Assumptions

- `vertices` and `indices`, which `renderer.cpp` uses, are declared nowhere in the
  repository. The uses agree only with an array of four vectors, which is what
  the vertex upload is modelled with: `bufferDesc.size` is one block, four writes.
- Nobody changes a resource file while a call reads it.
- `tkEngine::InputSystems` is empty, as nothing adds to it.
- The rejected writes of the vertex buffer (below) are reported by Dawn and the program goes on; in the browser build startup
  ends the program. `teck_engine` includes both.
- Queue serials and future ids do not overflow 64 bits; fence and pool are the only driver
  objects a submission takes. `Serials` is `Nat`: `MaxSerial` bounds what is submitted, not what is counted, as threads
  that wait may store old serials, after which a lost device is counted complete once more. `Objects` bounds how many fences and pools exist: when all do no more can be made.
- `DawnBuffer` has one thread calling the buffer. `DawnEvents` lets `Unmap` in one thread overtake the tracking of a request in another. In both the data
  race between `UnmapInternal` and `MapAsyncEvent::Complete` on the buffer's own state is left out: the code names it (TODO crbug.com/dawn/831).
- A waiter whose query of the fences fails, on a lost device or a live one, handles the error when no call is in
  progress; `HandleError` without the device's lock in the middle of another call is left out.
- Observed and not modelled: `tkReader::Open` opens `../res/` + path
  (reader.cpp:68) but prints `res/` + path when that fails (reader.cpp:71).

## Runs

| run | instance | shows |
|---|---|---|
| `teck_engine` | native debug, native release and browser build at once; 25,203 states | `TypeOK`, `ResourcesNested`, `LoopHasDevice`, `PresentHasImage`, `SoundFrameDraws`, `FrameReports`, `CleanEnd`, `QuietAfterLoss`, `KeepsLifecycle` |
| `teck_reader` | two files of up to two characters, two blocks; 31,921 states | `TypeOK`, `OwnsItsMemory`, `ReturnedTextStays`, `KeepsTextStore` |
| `dawn_queue` | 4 fences and pools, 2 submissions, 2 tasks, 1 waiting thread; 1,369,889 states | `TypeOK`, `OwnedOnce`, `InUseIsKept`, `CompletedIsFinished`, `TasksWillPass`, `KeepsWorkDone`, `ReleaseAnswersAll` |
| `dawn_events` | 2 threads, 2 events and the device-lost event, 1 submission; callbacks of work done spontaneous, of map requests and of the loss not; 1,334,632 states | `TypeOK`, `NoneForgotten`, `NoDeadlock`, `KeepsFutures`, `SpontaneousCompletes` |
| `buffer_map` | 2 map requests, by callback or by future, 2 submissions; 143,709 states | `TypeOK`, `MapsAsPromised`, `EveryRequestAnswered` |
| `ring_buffer` | up to 2 rings of 3 bytes, 2 staging buffers, uploads of 1 and 2 bytes, alignments 1 and 2, 3 serials; 1,902,050 states | `TypeOK`, `UploadsIntact`, `NoBytesLost`, `EverythingReclaimed` |
| `dawn_objects` | 2 threads, 3 objects, 2 contents, no calls during the device's destruction; 52,032 states | `TypeOK`, `RefsAreCounted`, `CacheHoldsExisting`, `OnePerContent`, `FreedAfterDestroy`, `EraserHoldsNoLock`, `KeepsInterning`, `CallsReturn` |
| `tick_needed` | `dawn_queue`'s | violation: a device is called idle with tasks in flight |
| `unmap_deadlock` | 2 threads, 1 event, spontaneous map requests, lost callback not spontaneous | violation: `Unmap` and a poll wait for each other's lock |
| `early_unmap` | as `unmap_deadlock` | violation: a request that is ended before it is tracked is not completed when it is tracked |
| `reentrant_unmap` | one request by future, whose callback may call the buffer | violation: a destroyed buffer is validated as if alive |
| `destroy_race` | `dawn_objects`'s, with calls during the destruction | violation: the head of the list is gone when it is removed |

- `ResourcesNested`, `CleanEnd`: the order of destruction on every path to the end,
  normal, `exit(0)` in the callback, or with a lost device.
- `LoopHasDevice`: failed and pending requests never reach the loop. In the browser
  build this holds because startup dies first: the device cannot arrive before `Init` returns.
- `PresentHasImage`: although `Render` ignores the result of acquiring a texture.
- `SoundFrameDraws`, `FrameReports`: what a frame does for every combination of
  valid and broken objects. A frame with any broken object costs a fixed number of reports,
  not one for each command that uses it.
- `QuietAfterLoss`: no report on a lost device, though it is called for ever.
- `KeepsLifecycle`: the refinement of `TeckLifecycle`, liveness included: startup
  settles, a request to close ends a running program, a stopping program ends,
  and nothing but the user ends a running one.
- `OwnsItsMemory`, `ReturnedTextStays`, `KeepsTextStore`:
  the reader's block and pointer over any sequence of calls; the loop over
  lines, the unchecked `Open` and the C string copy together return what
  `TextStore` defines on the file as a whole.

- `OwnedOnce`, `InUseIsKept`: over every sequence of submissions, failing driver calls, ticks and
  waits each fence and each pool is in one place, and not reused while the GPU may use it.
- `CompletedIsFinished`, `TasksWillPass`: the completed serial never says more
  than the GPU did, and a task's serial is one that will pass, so that it is
  answered once. `KeepsWorkDone` refines that to one answer per request in any
  interleaving with loss and destruction; `ReleaseAnswersAll` says that nothing
  is left unanswered once the device is released.
- `NoneForgotten`, `NoDeadlock`: a pending event is always reachable
  by some poll; no two threads wait for each other, and none for itself. `KeepsFutures` is the refinement of `Futures`; `SpontaneousCompletes` that a
  spontaneous event whose serial passes is completed although nobody polls it.
- `MapsAsPromised`, `EveryRequestAnswered`: the refinement of `BufferMapping`, in which answers come once and
  agree with what the buffer does; every request is answered in the end.
- `UploadsIntact`, `NoBytesLost`, `EverythingReclaimed`: no upload the GPU may read overlaps a later
  one, the bytes of a ring are its requests and its free part, and all is free again when the GPU is done.
- `RefsAreCounted`: an object's count is the number of places that hold a reference. `CacheHoldsExisting`: each weak
  reference in the cache is to memory that is not yet freed, on which comparing
  addresses in `Erase` relies. `OnePerContent`: racing inserts leave one living object of a content.
  `FreedAfterDestroy`: `DestroyImpl` runs once for each object, also when the device was destroyed first. `EraserHoldsNoLock`, `CallsReturn`: a thread that must erase does not hold
  the mutex (dawn:1993), and every call returns. `KeepsInterning` refines all that to atomic lookups in `Interning`.

**Bounds.** `TeckEngine` has no bound besides its constants: `uncaught` counts the
startup once, then restarts with each frame and is at most 5 in one; the frame is a
cycle, so TLC visits every state. For the reader, two characters give every shape of a line (empty,
terminated, unterminated, cut by a NUL at either place) and two lines; the proofs cover
all lengths. At most one block is alive at a time, so two let the allocator reuse
the one just freed or not. For the queue, two serials are the least in which one is
passed while another is in flight, four objects allow both in flight, one recording and one unused, and a
single waiter already races with the device's thread at every step. Two threads
are what a race or a deadlock between two locks needs. The sets of callback modes have one element each: the mode decides only whether
`TrackEvent` checks an event and `SetFutureReady` completes it, so one set has the spontaneous events and the other two those that
are not; the cases left are the ones in which `NoDeadlock` is false. Two
map requests give every way of overtaking (a third multiplies the states beyond use). A
ring of three bytes with uploads of one and two has every
wrap, every hole left by alignment, and a full ring; for it and for the event manager the proofs
cover all sizes. For the cached objects, two threads race at every step and three objects allow one in use, one
being made and one dying; three threads on one content were tried and hold too, and the proofs cover all numbers. The Dawn runs do not look for deadlock of
the whole model: their bounds, and a released device, stop them.

**Fairness.** Weak fairness of the main thread (`MainThread`, and `Step` within
a call of the reader): the operating system keeps running it and no modelled call
blocks for ever. The user need not close the window, callers need not call.
`DawnQueue`: a call that has begun goes on, the GPU executes what was submitted, and after
the device's release somebody flushes the callbacks. `DawnEvents`: strong fairness for each thread within a
call, as it contends for locks that are free again and again. `DawnBuffer`: the
application ticks and polls again and again, as teck's loop does, and the GPU executes. `DawnObjects`: strong fairness
for each thread within a call, as it contends for a mutex that is given back again and again.

## Proofs

`TeckEngine_proofs`, for every `Deliveries` and `Asserts`, from the two named
assumptions on these constants.

- The safety invariants are not inductive: that a frame has a device follows from where
  startup left it dozens of steps earlier. `IInv` adds `StaticOrder` (the places of
  the singletons in the building order, which make the destruction order what it
  is), `Holdings` (which resources each program point holds) and `ImageHeld` (what
  the frame's view says of the swap chain's texture). Lemmas for the common
  shape of a call (`CallLemma`, `CreateLemma`) serve all creation calls; then one
  lemma per group of actions, and `StepIInv` combines them. From `IInv`:
  `TypeCorrect`, `ResourcesStayNested`, `LoopOnlyWithDevice`,
  `PresentNeverWantsImage`, and the action property `LossIsQuiet`.
- `FInv` describes a frame in progress: at each call, how the encoder's error, the
  pass and the count of reports follow from the objects and the calls so far. It
  gives `ReportsPerFrame` and `SoundFramesDraw`.

`TeckLifecycle_proofs`, on top of it.

- `EndInv` adds what the end needs of the beginning: nothing is held before the call that
  acquires it, the scene is listed before anything can exit, GLFW's close flag comes from
  a request, and a singleton that is gone has run its whole destructor. It gives
  `EndsClean`, for the end of the loop and for the exit in the adapter callback alike.
- `ImplementsLifecycle`: initial states and steps of teck are those of `TeckLifecycle`.
  One lemma per group of actions (`StartupShows`, `FrameShows`, `EngineShows`,
  `ExitShows`) names the abstract step, or shows with `Hidden` that there is none.

`TeckReader_proofs`, for every set of paths, contents (strings of any length) and
blocks.

- `IInv` adds to the invariants that the stream is open only while a call reads,
  that the old block is gone before a new one is made, and that the stream is used
  up by then. `ReaderTypeCorrect`, `NothingLeaks`, `TextStays`, `StreamsClosed` follow.
- `ImplementsTextStore`: initial states and steps of the reader are initial states
  and steps of `TextStore`. Its core is `LineKeepsText`: a turn of the line
  loop moves text from what remains to what was read and loses none of it. `LeastElement` and
  `FirstIndex` establish what the library's search for a character returns.

`DynamicUploader_proofs`, for every ring size, set of upload sizes and alignments, and number
of rings and staging buffers.

- Start, end, used size and the list of requests of a ring say where its bytes
  are only together with the place `k` at which the requests wrap around:
  `Shape(ring, k)`. `RingInv` is that there is such a `k`; `AppendShape`, `AllocateInv` and `ReclaimInv`
  show that the operations of `RingAllocator` keep it, each moving `k` its own way.
- `IInv` adds that the serials of a ring's requests never decrease, that staging
  buffers are distinct, and that every upload the GPU may still read is held by a
  request or a released buffer with its own serial, beyond those finished. It gives
  `TypeCorrect`, `NothingLost`, `NothingOverwritten`, `AllReclaimed`.

`DawnEvents_proofs`, for any number of threads and events.

- `IInv` says what a thread's remaining steps say about the locks it holds (`ThreadOK`: it holds the map's lock
  iff a step that gives it back is left, and steps come in their pairs), that every
  event that is referred to was made, and where a pending event is (`Referred`: in the
  map, with a worker, or in a step about to be taken; before `ShutDown` never
  only in a step that drops it, which is why the release of the last reference is
  never wrong). One lemma per action. It gives `TypeCorrect`, `NothingForgotten`,
  `PollsStayDisjoint` and `NobodyWaitsForever`. The last assumes `Quiet`: neither the lost callback nor a map request is
  spontaneous. These are the events that the code makes ready under the device's lock (`Handled` says there are no others), and `unmap_deadlock` shows
  that the assumption is needed. The other theorems, the refinement included, do without it.
- `FInv` adds what the callbacks rest on: a step that completes an event, or takes it out of the map on its own, is for one that is ready (so
  are the futures a thread has found ready), a worker looks at an event only right after it has signaled it (`Timely`), and no event waits
  for a serial beyond the next (`Numbers`), which is why a loss, which completes all serials, makes every future ready.
  `ImplementsFutures`: a completion is `Ready`, the last reference dropped is `ShutDown` (by `Referred` only after the
  map was reset), making an event is `Make`, and all other steps are at most `BecomeReady`.

`DawnObjects_proofs`, for any number of threads, objects and contents.

- `IInv` holds whatever calls overlap: it ties every count to the places that hold a reference
  (the sets `Holders`, whose cardinality each action changes by one), says that an object is dying in one thread only and
  only at count zero, and where a thread may hold the mutex. It gives `TypeCorrect`, `CountsAreRight` and `EraserUnlocked`.
- `DInv`, when no call overlaps the device's destruction (`~Overlap`): who knows of an object (list, moved list, cache, mark)
  at each stage from its creation to its deletion, and what a lookup knows while it holds the mutex. It gives `NothingDangles`,
  `OneOfEach`, `DestroyedOnce`, `CachesEmpty`, `HeadStays`. `destroy_race` shows that the assumption is needed.
- `ImplementsInterning`: each step is one of `Interning` or a stutter. An insert is `Make`; a second promotion is `Find`; the release of the last
  reference is `Drop`, unless a passing lookup still holds a temporary one, and then the drop of that is `Vanish`.

`DawnQueue_proofs`, for any number of Vulkan objects, requests and waiting threads, from `QueueBounds`.

- The invariants of the run say where fences, pools and tasks are, but why they stay there lies in what is left of a call.
  `CallsOK` gives the order of the steps still to be taken (`Orderly`: nothing submits after the wait for the GPU, the
  disconnection comes before the tasks are lost, and so on) and how far a device that is being given up has come. `FencesOK` and
  `PoolsOK` say for each object which of the four places has it, and that an entry in flight carries the serial the
  GPU was given; `SerialsOK` bounds what waiting threads hold between reading and storing; `QuietOK` is that after the wait of
  a destruction, or a loss that did not take the driver with it, the GPU executes nothing and no fence is in flight, so that no query can fail there. `RequestsOK` and `NeedsOK`
  give each request one place and tie a callback's mark to the GPU or to the end of the device.
- One lemma per step of a call, one per step of another thread. It gives `TypeCorrect`, `OwnedOnceAlways` (by counting:
  an object in the places that hold it once), `InUseIsKeptAlways`, `CompletedIsFinishedAlways`, `TasksWillPassAlways`, and
  `ImplementsWorkDone`, where flushing is the step that answers.

`DawnBuffer_proofs`, for any number of requests, from `BufferBounds`.

- `TypeCorrect` holds for every application. Its invariant needs one thing besides the types: an early unmap finds the
  pending event in the event manager (`PendingEventOK`).
- `ImplementsMapping`, for an application that uses one of the two entry points and calls nothing from the callback of an event
  (`OneEntryPoint`). Both halves are needed: `reentrant_unmap` shows the second, and with both entry points in use TLC
  finds in six steps that an old task maps the buffer for a request it does not belong to (see below). `RInv`: each map request and each
  answer exists once among tasks, queue and running callbacks (`CallbacksOK`); an answer on its way is a failure for a
  request that is not the owner (`AnswersOK`); the latest map request waits for a serial that is not before the
  buffer's last use, and once its callback is taken or was never set there is no latest request (`LatestOK`); only the pending
  event will succeed (`EventsOK`); and what is mapped has been used up to a serial the GPU has finished (`SerialsOK`). `HandOnKeeps` serves all
  steps that hand tasks on or mark callbacks. In the refinement the owner is the pending event or the pending callback.

**Only model-checked.** Of what the passing runs check, liveness and fairness everywhere (`ReleaseAnswersAll`, `EveryRequestAnswered`, `SpontaneousCompletes`, `CallsReturn`,
and the leads-to half of `KeepsLifecycle` and `KeepsTextStore`), which is out of the prover's reach, as are `ENABLED`,
induction over data and recursive operators. `DestroyedIsRefused` and the properties of the other violation runs are false.

## Findings

- `tick_needed`: `DeviceBase::Tick` and its like look at the serials alone
  (Device.cpp:1622): after a wait has stored the last serial, `IsDeviceIdle` returns true with tasks still in
  flight, which nothing then answers until the next submission. The same early return leaves
  staging memory unreclaimed.
- `unmap_deadlock`: `Unmap` and `Destroy` run under the device's lock and make the pending map event ready (Buffer.cpp:714); a spontaneous one
  then takes the lock of the events (EventManager.cpp:402-408), which `ProcessPollEvents` holds while it takes the device's (EventManager.cpp:419,
  448, 166). A spontaneous lost callback does the same in `HandleError` (Device.cpp:727), where one thread is enough: a poll that meets the
  loss asks for the lock it holds already.
- `early_unmap`: `SetFutureReady` marks a serial event as ready in a copy (`auto`, EventManager.cpp:385-392). A spontaneous map request that another
  thread unmaps before `TrackEvent` has given it an id is then not completed when it is tracked, as lines 394-396 say it will be; its callback waits for the
  old serial and for a poll.
- `reentrant_unmap`: a callback run by `Unmap` may destroy the buffer; the rest of the call goes on
  with the state it read before (Buffer.cpp:728).
- `destroy_race`: `ApiObjectList::Destroy` looks at the head of the list it moved and removes it without the mutex
  (ObjectBase.cpp:81-82). A last release in another thread, which no device lock orders, removes the object in between; the assertion fails,
  and `DestroyImpl` runs on an object that is being freed. The documentation calls such use safe.

### Observed beside the findings

Each of these was met while translating; none has a run of its own.

- Vertices: `SetupLineVertexBuffer` writes block i at `i * size` into a buffer that has room for one (renderer.cpp:307-310), against Dawn's rule at
  CommandValidation.cpp:235. `WriteVertices` has it: with a sound buffer and a living device three of the four writes are reported at every start, which
  `uncaught` counts.
- Browser: the build that `CMakeLists.txt:30` and `web-build.bat` describe cannot start. `InitGraphics` uses the
  device before control returns to the event loop that delivers it (renderer.cpp:84-88); `teck_engine` has this as the only end of
  an asynchronous delivery. `indices` would also have to be declared with 16 bits to agree with its upload
  (renderer.cpp:404), and `j` runs to a million (renderer.cpp:68).
- Queue: `WaitForIdleForDestruction` drops the pools of a recording context that was split
  (QueueVk.cpp:180-186). When exporting a semaphore fails after the submission, the pool stays both in the
  recording context and in flight (QueueVk.cpp:444). The completed serial is compared and
  stored without a lock, so a waiter and a tick can move it back, and the assertions on it
  (ExecutionQueue.cpp:50-52, QueueVk.cpp:166 and 543) can fail. A waiter that stores a serial during
  `Destroy` can leave tasks to nobody.
- Events: a completed event may stay in the map until the next poll if it completes
  while being tracked. `ShutDown` runs callbacks under the map's lock. The order of callbacks (294-302) holds within
  one poll only; the mutex meant for it (EventManager.h:91-92) is never taken.
- Mapping: `MapAsync`, `Unmap`, `MapAsyncF` on one buffer: `MapAsyncF` does not advance `mLastMapID`
  (Buffer.cpp:587-640), so the task of the first request still carries the latest id and maps the buffer for
  the second, whose event then finds it mapped, against the assertion at Buffer.cpp:235; an application in `DawnBuffer` uses one of the two. A request flushed just before a loss maps the buffer and answers that the device
  is lost.
- Cached objects: creating a pipeline or shader module while another thread destroys the device uses `mCaches` after it was
  set to null (Device.cpp:658, 1092, 1168); the model stops such a call there. A device that is destroyed moves
  objects to a list on its stack, which `IsAlive` still calls alive. `Track` reads the mark of the list before taking its
  mutex (ObjectBase.cpp:63-67): an object made while the device is destroyed may enter a list that nobody will destroy again.
- Staging memory: the first allocation of a new ring passes no alignment (DynamicUploader.cpp:94), which offset 0 makes
  harmless. An empty ring whose start and end are in its middle refuses an upload larger than either side.

## Not modelled

- The rest of Dawn, Tint and the other vendored libraries, which are nearly all of the repository's lines: other GPU
  back ends, the shader compiler, validation rules, the wire protocol, generated tables. What is modelled of Dawn is
  what every frame of teck runs through and what is shared there by threads, GPU and callbacks. GLFW, EnTT, glm,
  the C++ library, the driver and the user are external.
- `AddRect`, `IterateRenderSystems`, `tsRender2d::Render`, `LoadTextures`, the
  binary and memory readers, `tsInput::HandleInput`: never called in this commit.
- The contents of the geometry: the arrays that `Init` fills are declared nowhere in this commit, so the width of an index
  and where it would wrap are not known (the sizes of the uploads are modelled); the points that
  `tsRender2d::Render` writes past their five places (sRender2d.cpp:32) belong to a function that is never called.
- The values of vertices, matrices, positions and colours: data no modelled
  control depends on.
- The export of semaphores for external textures in a submission (QueueVk.cpp:440-452); its failure is described above, and `OwnedOnce` is
  about the calls that are modelled.
- An internal error in `CreateRenderPipeline` (Device.cpp:1465): as for an invalid descriptor it is reported once and an error object returned, so it has no action of its own.
- `InitGraphics` allocates a `tsRender2d` that is never deleted (renderer.cpp:105). `obj` keeps its `pointBuffer` when the renderer's members
  are released; no property speaks of it.

## Plan

Done, in this order: `TeckRenderer`, `TeckEngine` against `TeckLifecycle`, `TeckReader` against `TextStore`, with the
proofs of their safety; `DawnQueue` against `WorkDone`; `DawnEvents` against `Futures`;
`DawnBuffer` against `BufferMapping`; `DynamicUploader`; `DawnObjects` against `Interning`; the
proofs of `DynamicUploader`, `DawnEvents` and `DawnObjects`, then of `DawnQueue` and `DawnBuffer`, and that `DawnEvents` implements `Futures`.

Left:

1. `DawnSwapChain` and `DawnEncoder`: attachment and reconfiguration
   (SwapChain.cpp, Surface.cpp), the encoder's states (EncodingContext.cpp), each in
   full instead of as teck uses it, with `TeckRenderer`'s operators shown to agree.
2. `BuddyMemory`: Vulkan's suballocation of memory heaps (BuddyAllocator.cpp, BuddyMemoryAllocator.cpp,
   PooledResourceMemoryAllocator.cpp).
3. Pipelines created asynchronously (CreatePipelineAsyncEvent.cpp, AsyncTask.cpp).
