# Flutter engine for OpenHarmony: a TLA+ verification project

The repository is the Flutter engine with an OpenHarmony embedding.  What carries
its own concurrent logic, and what this project is about, is the way work moves
between its threads: how a frame is requested, built on the UI thread and drawn on
the raster thread, over which vsync and message-loop machinery, how pointer packets
and external textures enter it, and what happens when queues are merged, surfaces and
views come and go, and the shell is destroyed.  Rendering
itself (Impeller, display lists, text, layer geometry) is numeric and sequential and
is left out.

Contents: [inventory](#1-inventory), [modules](#2-modules-and-the-code),
[runs](#3-runs), [proofs](#4-proofs), [findings](#5-disagreements-found),
[limits](#6-what-is-not-modelled), [plan](#7-plan).
`PROJECT.json` has the line-by-line map, the mutants and the hazards.

## 1. Inventory

Threads: **platform** (main), **UI** (Dart), **raster**, **IO**, the OS's **vsync**
thread, the threads that produce buffers for external textures, and the worker pool
of `ConcurrentMessageLoop`.  Each of the first four runs an `fml::MessageLoop`
over a queue of `MessageLoopTaskQueues`.

| component | state | operations | interacts with | hard part | correct when |
|---|---|---|---|---|---|
| Frame pipeline (`shell/common/pipeline.h`) | semaphores `empty_`, `available_`, deque, `inflight_` | `Produce`, `ProduceIfEmpty`, `Complete`, drop of a continuation, `Consume` | animator (producer), rasterizer (consumer and producer) | two semaphores and a mutex taken one after the other | slots conserved, front exists when consumed, FIFO |
| Vsync waiter (`shell/common/vsync_waiter.cc`, `platform/ohos/vsync_waiter_ohos.cpp`) | `callback_`, `secondary_callbacks_` | `AsyncWaitForVsync`, `ScheduleSecondaryCallback`, `AwaitVSync`, `FireCallback` | UI thread, OS vsync thread, task queues (pause of Dart) | fires on another thread than it is armed on | one OS request per wait, each callback fired once, each pause resumed |
| Animator (`shell/common/animator.cc`) | `pending_frame_semaphore_`, `frame_scheduled_`, `regenerate_layer_trees_`, recorder, layer trees, continuation | `RequestFrame`, `BeginFrame`, `Render`, `EndFrame`, `DrawLastLayerTrees`, flow ids | vsync waiter, pipeline, engine, shell | long protocol over several threads | one request under way, no rebuild forgotten, committed frames drawn |
| Rasterizer (`shell/common/rasterizer.cc`) | surface, view records, thread merger | `Setup`, `Teardown`, `Draw`, `DrawLastLayerTrees` | pipeline, embedder, thread merger | resubmits while the animator commits; changes thread | frames drawn in order, none lost |
| Task queues (`fml/message_loop_task_queues.cc`, `task_source.cc`) | heaps per queue, `owner_of`, `subsumed_by`, pauses, order | register, peek and pop, `Merge`, `Unmerge`, pause, resume, dispose | every thread | wake-ups across merges | no lost wake-up, order kept, merge relation consistent |
| Message loop and thread (`message_loop_impl.cc`, `platform/ohos/message_loop_ohos.cc`, `timerfd.cc`, `thread.cc`) | `terminated_`, timer | `PostTask`, flush, `Terminate`, last flush, `Join` | task queues | unlocked test of `terminated_`; `Join` of a merged queue | a task is left only to a loop that has stopped; `Join` stops one loop |
| Raster thread merger (`raster_thread_merger.cc`, `shared_thread_merger.cc`) | leases by caller, `enabled_`, two mutexes | `MergeWithLease`, `ExtendLeaseTo`, `DecrementLease`, `UnMergeNowIfLastOne`, `Enable`, `Disable` | task queues, rasterizer, view embedder, shell | the caller changes the thread it runs on | leases and queues agree; checks hold while the raster thread is in time |
| Shell (`shell/common/shell.cc`) | the components, latches, `waiting_for_first_frame_` | creation, `OnPlatformViewCreated/Destroyed`, `~Shell`, views | all of the above | blocks one thread on another | latches are signalled |
| Engine, runtime controller | rendered views | `BeginFrame`, `Render`, `ScheduleFrame` | animator, Dart | | ends a frame once all views are rendered |
| Pointer data dispatcher (`shell/common/pointer_data_dispatcher.cc`) | `pending_packet_`, `is_pointer_data_in_progress_` | `DispatchPacket`, `DispatchPendingPacket`, the secondary vsync callback | engine, vsync waiter | state changed by packets between scheduling a callback and its run | packets in order, at most the last one held back, none kept for ever |
| Surfaces (`platform/ohos/ohos_xcomponent_adapter.cpp`, `platform_view_ohos.cpp`, `surface/ohos_surface.cpp`, `FlutterView.ets`, its hosts) | attachment flags of three layers, windows, display size, off-screen window, first-frame hook | XComponent callbacks, attach, detach, preload, `NotifyCreate`, `NotifyDestroyed`, ... | ArkUI, shell, rasterizer | every layer keeps its own idea of who is attached; the raster task is not waited for when a window is created | no destroyed window in use, a detached engine holds none, the attached view is shown and its first frame reported |
| External textures (`platform/ohos/ohos_external_texture.cpp`, `platform_view_ohos.cpp`, `texture.cc`) | native image, buffers held, sequence numbers, size-change state, registry, global map | `OnNativeImageFrameAvailable`, `MarkNewFrameAvailable`, `Paint`, `SetExternalNativeImage`, `Reset`, unregister, loss and return of the surface | producer thread, platform, raster | a frame crosses three threads; buffers are few | no buffer used twice, queued buffers announced, picture never goes back, producer not starved |
| Concurrent message loop (`fml/concurrent_message_loop.cc`) | `tasks_`, `thread_tasks_`, `shutdown_` | `PostTask`, `PostTaskToAllWorkers`, `WorkerMain`, `Terminate` | Dart, image decoding, Impeller | notification after the unlock, shutdown at any moment | no task lost or run twice, no missed notification, joins return |
| IO manager, `SyncSwitch`, platform isolates | queues, locks | | Dart, IO thread | shutdown | not modelled |
| Layer trees, raster cache, display lists, Impeller, `dart:ui`, OHOS NAPI and channels, embedder API, assets, tools | | | | pixels, geometry, system calls | not modelled |

Interaction along a frame: the UI thread calls `Animator::RequestFrame`, which takes
the semaphore and posts `AwaitVSync`; the waiter asks the OS; the vsync thread fires,
pauses the Dart event loop and posts the callback to the UI thread; the callback
claims a pipeline slot, runs Dart and commits the layer trees; only for the first
item of the pipeline a `Draw` task goes to the raster thread, which draws, may
resubmit, and posts itself again as long as there is more.

## 2. Modules and the code

| module | models | state and steps |
|---|---|---|
| `BoundedQueue` | abstract specification: a FIFO buffer with `Depth` slots | claim, append, give back, take |
| `Pipeline` | `pipeline.h` | A step ends at a semaphore operation or at the end of a critical section.  `Produce`/`ProduceIfEmpty` claim; `Complete` pushes (or bails out); `SignalAvailable` is the signal after the mutex; `Consume` is `ConsumeAcquire`, `ConsumePop`, `ConsumeFinish`.  Any number of producers and consumers.  `ImplementsBoundedQueue` is the refinement. |
| `VsyncWaiter` | `vsync_waiter.cc`, `vsync_waiter_ohos.cpp` | The UI thread's calls up to the unlock and the OS request as separate steps; the vsync thread's `FireCallback` as take, pause, post.  `os` is the external OS request. |
| `FrameScheduling` | `animator.cc`, `Rasterizer::Draw`, `~Shell`, glue in `shell.cc`, `engine.cc`, `runtime_controller.cc` | Composition: instantiates `VsyncWaiter` and `Pipeline` on its own variables and drives their actions.  `ui` and `raster` say where the two threads are in their tasks. |
| `TaskQueues` | `message_loop_task_queues.cc`, `task_source.cc`, `delayed_task.cc`, `message_loop_impl.cc`, OHOS timerfd loop, `thread.cc` | One atomic action per critical section of `queue_mutex_`, with the timer it re-arms; one loop thread per queue; `PostTask` in its two steps. |
| `ThreadMerging` | `raster_thread_merger.cc`, `shared_thread_merger.cc`, users in `rasterizer.cc`, `shell.cc` and the Android embedder | Both threads, the raster queue, the leases of the rasterizers that share the merger (a shell and those spawned from it); `WithViews` are those whose frames have platform views.  `MergeWithLease` and `DecrementLease` are two steps each (own mutex, then the shared one).  The queues are a Boolean here; `TaskQueues` has them in detail. |
| `PointerDispatcher` | `pointer_data_dispatcher.cc`, its callers in `shell.cc` and `engine.cc` | Extends `VsyncWaiter` with the dispatcher's state; packets are numbered.  A packet task is `BeginTask`, `DispatchPacket`, `StorePacket` (each ends where the waiter's mutex is given up); the callback is `VsyncCallback`. |
| `ExternalTexture` | `ohos_external_texture.cpp`, texture handlers of `platform_view_ohos.cpp`, `shell.cc`, `rasterizer.cc`, `texture.cc` | One texture with its own native image and one given to it.  A buffer is its number and size.  `Flush` is the producer (external), `FrameAvailable` the listener on its thread, `MarkTask` the platform task, the rest are raster tasks taken in order.  `Latched` tasks block the platform thread. |
| `SurfaceLifecycle` | `FlutterView.ets`, `onAttach` and `onDetach` of `FlutterAbilityAndEntryDelegate.ets` with `FlutterEngineConnectionRegistry.ets`, `ohos_xcomponent_adapter.cpp`, `platform_view_ohos.cpp`, `ohos_surface.cpp`, `ohos_surface_vulkan_impeller.cpp`, glue in `shell.cc`, `rasterizer.cc` | Views and one engine.  `engine`, `available` are FlutterView's flags, `exclusive` is `exclusiveAbility`, `alive` are the windows there are, `base` the flags of `XComponentBase`, `native` and `offscreen` the windows of the surface, `calls` what the platform thread has still to do in a handler that waits for the raster thread. |
| `ConcurrentLoop` | `concurrent_message_loop.cc` | One step per critical section of `tasks_mutex_`; `NotifyOne` is the notification after the unlock; spurious wake-ups are a step. |
| `PipelineProofs`, `VsyncWaiterProofs` (with `PointerDispatcher`), `FrameSchedulingProofs`, `TaskQueuesProofs`, `ThreadMergingProofs`, `ConcurrentLoopProofs`, `ExternalTextureProofs`, `SurfaceLifecycleProofs` | theorems | section 4 |
| `MCPipeline`, `MCTaskQueues` | symmetry sets and merge pairs for TLC | |

Definitions marked "Mutant" are plausible bugs of the definition that follows them;
no specification uses them.  They are there to show that each property can fail.

Abstractions.  Timings, tracing and logging are left out everywhere.  A frame is a
number (`FrameScheduling`) or "has platform views" (`ThreadMerging`).  In
`TaskQueues` the two heaps of a queue are one set of tasks ordered by target time and
order; the body of a task says whether it is a Dart task (secondary heap), the join
task or another.  In `ThreadMerging` a draw task carries its frame, so a `Draw` that
finds the pipeline empty is no step, and a frame to be drawn again is put back unless
a newer one of the same rasterizer is queued.

## 3. Runs

`tlc -config X.cfg M`.  Passing runs explore their whole state space.

| run | cfg, module | shows | bounds |
|---|---|---|---|
| `pipeline` | `MCPipeline`, `MCPipeline` | `SlotsConserved`, `AvailableBacksQueue`, `FrontIsDefined`; refinement of `BoundedQueue` | three producers, two consumers, depth 2: a full and an empty pipeline with contention on either side |
| `pointers` | `MCPointers`, `PointerDispatcher` | `OnlyLastHeldBack`, `DeliveredInOrder`, `PacketsDelivered`; and of the waiter under it `OneRequestOutstanding`, `PauseHasResume` | three packets (one delivered, one held back, one pushing it out), two secondary callbacks, so that one is found waiting |
| `frames` | `MCFrames`, `FrameScheduling` | `OneFrameRequest`, `RegenerateIsPending` (in `FrameInv`), `DrawnInOrder`, `DroppedOnlyWhenSuperseded` | two views (a frame may render some), depth 2 as in the code, three frames so that a slot is reused, one resubmission, destruction at any time |
| `frames_live` | `MCFramesLive`, `FrameScheduling` | `CommittedFrameIsDrawn`, `RequestedFrameBegins`, `DartTasksResume`, `ShutdownCompletes` | depth 1, three frames, one resubmission.  The animator uses depth 1 when platform and raster share a runner; here the raster thread is a thread of its own, which allows more interleavings, and nothing in the latches of `~Shell`, the vsync protocol or the retries depends on the depth.  With depth 1 every item is the first of the pipeline, so the window between push and signal has no effect: that is what `frame_stranded` (depth 2) is about |
| `task_queues` | `MCTaskQueues`, `MCTaskQueues` | `MergeTopology`, `NoLostWakeUp`, `TakenInOrder`, `TaskIsTaken`, `JoinEndsALoop` | two queues, the raster one merged into the platform one, three tasks (the joining one included) due at two instants, two switches (merge, unmerge; a pause).  Three tasks are what it takes to merge, join and post once more.  Any number of queues, and any pairs of them, are covered by the theorems on the invariants and on `TakenInOrder` |
| `thread_merging` | `MCThreadMerging`, `ThreadMerging` | `LeasesMatchQueues` (in `MergerInv`), `SubmittedOnPlatformThread`, `ChecksHold`, `DisabledKeepsThreads` | two rasterizers on one shared merger, one with platform views, leases of 3, four frames: a lease is taken, extended and runs out while frames of the other come between; surfaces are destroyed and created three times in all |
| `textures` | `MCTextures`, `ExternalTexture` | `BuffersInOrder` and `UnregisteredLetsGo` (in `TextureInv`), `WaitingIsAnnounced`, `DrawnInOrder`, `ProducerProceeds` | buffer queues of 2 (no release of late frames) and 3 (release), three frames, one event: a loss of the surface, a switch of the image or a resize; the limits of delayed and size-change frames are 1 so that they are passed |
| `surfaces` | `MCSurfaces`, `SurfaceLifecycle` | `SurfaceHasWindow`, `DetachedReleasesWindow` and `ReportedIsRendered` (in `SurfaceInv`), `NoDeadWindow`, `AttachedIsShown`, `FirstFrameIsReported` | two views, two sizes, two attachments, preloads or resizes, besides windows, views and hosts that come, go and come again without a bound |
| `workers` | `MCWorkers`, `ConcurrentLoop` | `TasksConserved`, `NoMissedNotify`, `TaskIsExecuted`, `WorkersReturn` | three workers and three tasks: some asleep, one about to sleep, one at work; one task for all |
| `frame_stranded`, `producer_stalls`, `lease_check` | | violations: section 5 | smallest that show them |

Every bound is a named constant used in a guard: `MaxFrames`, `MaxInputs` (tasks
posted to the UI thread), `MaxResubmits`, `MaxPackets`, `MaxTasks`, `MaxBroadcasts`,
`MaxTime`, `MaxSwitches` (merges, pauses; surfaces), `MaxEvents` (events of a texture,
of the views), `MaxLag`.  The interesting orders need two or three of
each: a request while one is pending, a second frame while one is drawn, a merge
while a task runs.  `Deadlock` is not checked in runs whose bounds make the system
stop.

`MaxLag` is no bound but part of the claims: `InTime` says that the platform thread has
never started more than `MaxLag` tasks while the raster thread was still in the frame
that merged the threads, and `LeaseTerm > MaxLag + 1` that a lease (10 frames in the
embedders) outlasts that overlap.  The model has the later executions too (`StartTask`
asks for nothing of the kind), but the properties of `ThreadMerging` are about those in
time.  Beyond, they fail: the late `DecrementLease` of the merging frame can end the
lease between the `IsMerged` and the `ExtendLeaseTo` of another frame.

Fairness.  `FrameScheduling`: weak fairness of the UI, vsync and raster threads and
of `~Shell` after its latch (message loops keep running, the OS answers an accepted
vsync request), strong fairness of `DartDone` (Dart code returns although it may
schedule and render repeatedly before).  `PointerDispatcher`: weak fairness of the UI
and the vsync thread.  `ExternalTexture`: weak fairness of the listener that announces a
flushed buffer, of the platform and the raster thread and of drawing a frame that was
asked for.  `SurfaceLifecycle`: weak fairness of the platform and the raster thread and
of drawing, strong fairness of the task that reports the first frame (the platform's
message loop takes a posted task in its turn, however often the application and the
system call in between).  `ConcurrentLoop`: weak fairness of every worker and of a notification
that is due.
`TaskQueues`: weak fairness of every loop thread, of a poster between its two steps,
of time, and of `ResumeSecondarySource`, which `VsyncWaiter!PauseHasResume` justifies.
No fairness is assumed of inputs, posts, producers, view events, merges or
destruction.

What the properties leave out on purpose:

* `OneRequestOutstanding` assumes an OS that accepts requests (`RequestMayFail = FALSE`).
* `NoLostWakeUp` assumes that a queue that is paused is never subsumed
  (`PausableIsNotSubsumed`).
* `TaskIsTaken` excepts tasks whose queue is served by a loop that has stopped, which
  `Thread::Join` of a merged queue brings about (section 5); `JoinEndsALoop` says that
  the loop stopped is the joined thread's own or, the queue being merged, another's,
  not that the caller of `Join` gets on.
* The properties of `ThreadMerging` speak of executions in time (above), and the passing
  run and the theorems of shells of which one draws platform views; with two of them
  `ChecksHold` fails, which is `lease_check`.  That a shell which draws none keeps its
  own thread configuration is not claimed: its mutex is another one, and
  `DisabledKeepsThreads` fails for it.
* `WaitingIsAnnounced` and `ProducerProceeds` speak of a texture whose surface has not
  gone away (`producer_stalls` is about the other case) and, the former, of one that has
  not been resized (a parked buffer loses its count, section 5).
* `AttachedIsShown` and `FirstFrameIsReported` speak of a view that is to be shown
  (`ToBeShown`): it is attached to the engine, its window is there, its `XComponentBase`
  is attached, and the engine is this view's alone.  Left out are a view whose
  XComponent was created again and so is not attached, an engine to which another
  XComponent has been attached since or was left attached, an engine whose window a
  `PreDraw` took off the screen (all three `disturbed` or not `attached`), and the end of
  the program in a detach (`Crashed`).  Section 5 says how the code gets there.  The
  model has all of these executions, and `SurfaceInv` and `NoDeadWindow` hold in them.
  The system is taken to destroy an XComponent's window before it creates one with the
  same id.
* `SurfaceInv` excepts a preloaded engine in three places, each with its line of code.

## 4. Proofs

Checked by TLAPS for every value of the constants.  Every invariant and every action
property of a passing run is a theorem; the inductive invariants were checked by TLC
before they were proved.

* `PipelineProofs`.  `InductiveInvariance` of `IInv`: type correctness, slot
  conservation (`empty` + claimed + queued + being consumed = `Depth`) and the
  accounting of `available` (permits + acquired + pushed-but-unsignalled = queue
  length).  `FrontIsDefined` alone is not inductive: that `Consume` may take
  `queue_.front()` follows only from the second equation.  From it `TypeCorrect`,
  `SlotsConservedAlways`, `FrontIsDefinedAlways`, and the step simulation
  `PipelineImplementsBoundedQueue`.
* `VsyncWaiterProofs`, the waiter.  `OneRequestAlways`: exactly one OS request backs the
  waiting callbacks, for any set of secondary callbacks, under the assumption that the
  OS accepts requests (`RequestMayFail = FALSE`; with a refusal the statement is false,
  section 5).  `PausesAreResumed` and `TypeCorrect` go together: that `paused` never
  falls below zero needs the count of vsync tasks, which is one more than the pauses
  only because `FireCallback` pauses before it posts.
* `VsyncWaiterProofs`, the pointer dispatcher on top of it.  `DispatcherInv` relates the
  packet held back, the packets begun and delivered and the place of the UI thread
  inside a dispatch; `OnlyLastHeldBack` alone says nothing about the middle of a
  dispatch and is not inductive.  From it `OnlyLastHeldBackAlways` and
  `DeliveredInOrderAlways` for any number of packets.  `PointerImplementsWaiter` shows
  that every step of the dispatcher is a step of `VsyncWaiter` or leaves it alone, and
  `PointerOneRequest` and `PointerPausesAreResumed` carry the waiter's invariants over;
  `PointerTypeCorrect` has the types.
* `FrameSchedulingProofs`.  `RequestInv` joins the invariants of waiter and pipeline
  (restated for the two threads that use them) with `OneFrameRequest` and
  `RegenerateIsPending`; a semaphore that is taken can be given back once only because
  the request is counted wherever it is (task, callback, fired, running).  From it
  `OneFrameRequestAlways` and `FrameInvAlways`, and the two refinements
  `UsesVsyncWaiter` and `UsesPipeline`: what the animator, the engine and the rasterizer
  do to the two components is a behaviour of the components' own specifications, so
  whatever is proved of those holds here.  `OrderInv` adds where the raster thread is
  with its continuation and that queued frames are newer than the drawn one, except for
  that one itself when resubmitted; from it `DrawnInOrderAlways` and, for the depth of
  two that the statement is about, `DroppedOnlyWhenSupersededAlways`.
* `TaskQueuesProofs`.  `InductiveInvariance`, then `TypeCorrect`,
  `MergeTopologyAlways` and `NoLostWakeUpEver`, for any queues, pairs, posters and
  bounds.  `NoLostWakeUp` needs the merge relation to be consistent (a registered
  task's wake goes to the owner) and the assumption `PausableIsNotSubsumed`: a
  resume of a subsumed queue wakes nobody.  `TakenInOrderAlways` is about all the queues
  a loop serves; it rests on `OrdersUnique` (`order_` numbers tasks uniquely across
  queues, so a task taken from the owner's or a subsumed heap is nobody else's) and on
  `MergeTopology`.
* `ThreadMergingProofs`, for any number of rasterizers on the shared merger, one of which
  draws platform views (with two the statements are false, section 5), any lease term
  above the lag and any number of frames and switches.  `MergeInv` says which stages the
  two threads can be in while merged and not, that only this rasterizer has a record
  among the leases, that its mutex keeps `Disable` out of its merge, and
  (`LeaseOutlives`) that the lease the raster thread still has to decrement is large
  enough for what the platform thread took meanwhile: this is where
  `LeaseTerm > MaxLag + 1` is used.  It is inductive as long as the raster thread is in
  time, and an execution that is late stays late (`OnceLate`).  From it `LeasesMatch`,
  `ChecksHoldAlways`, `SubmittedOnPlatformThreadAlways` and
  `DisabledKeepsThreadsAlways`.  `TypeCorrect` needs neither assumption.
* `ConcurrentLoopProofs`.  `LoopTypeOK`; `NoMissedNotifyAlways` from `WakeInv`, which
  adds that a worker is in its last round only after the shutdown (such a worker will
  not take the queued task); `TasksConservedAlways` from `TaskInv` (the order of the queue and
  the place of every number up to `posted`), for any number of workers and tasks.
* `ExternalTextureProofs`, for images of any size and any number of frames and events.
  `OrderInv`: buffers are queued in the order of their numbers in every image, and what
  was shown, what is held, what is parked and what waits are older in that order; also
  needed is that the old image is the held buffer whenever both are there, or a redraw
  could go back.  From it `DrawnInOrderAlways`.  `LifeInv`: at most one latched task, the
  listener of the given image only while it is the source, and behind every
  registration of a dropped texture the task that ends it; with `OrderInv` it gives
  `TexturesCorrect` (`TextureInv`).  `AnnounceInv`: as long as the texture is owned and
  its surface has not gone away, map, registry and listener have it; then every step
  keeps the balance of waiting buffers against sequence numbers, tasks and the
  producer's pending call, which is `WaitingIsAnnouncedAlways`.
* `SurfaceLifecycleProofs`, for any views, sizes and events.  `WindowInv`: the shape of
  the handler the platform thread is in, that only a draw follows a latched task, and
  (`RefersToLive`) that a window the raster thread uses, or will use by a queued task, is
  there and its loss will be told to it or is being told, whichever views and hosts
  attach, detach or preload meanwhile.  `NoDeadWindow` alone is lost at the first queued
  task.  From it `NoDeadWindowAlways` and `SurfaceCorrect`.

Assumptions on constants are named in the module that declares them and evaluated by
the runs.

Model-checked only: the liveness properties (`CommittedFrameIsDrawn`,
`RequestedFrameBegins`, `DartTasksResume`, `ShutdownCompletes`, `PacketsDelivered`,
`TaskIsTaken`, `JoinEndsALoop`, `ProducerProceeds`, `AttachedIsShown`,
`FirstFrameIsReported`, `TaskIsExecuted`, `WorkersReturn`), since fairness and `ENABLED`
are out of the prover's reach, and the three violations of section 5.

The proof of `SurfaceCorrect` corrected a property.  `DetachedReleasesWindow` used to
say that a detached engine without a window has no surface either.  That is false from
five attachments and preloads on, which the run does not reach: an engine that was
preloaded and is detached from a view whose window is yet to be created keeps its
surface, since `DetachFlutterEngine` does not call `SurfaceDestroyed` without a window
(`ohos_xcomponent_adapter.cpp:469`).  It now excepts a preloaded engine.

## 5. Disagreements found

* `frame_stranded`: with the pipeline of depth 2, a frame pushed but not yet
  signalled is counted by the consumer, whose extra `Draw` then fails `TryWait`;
  nobody draws the frame, or any later one, afterwards.
* `producer_stalls`: a frame produced while `NotifyDestroyed` runs is announced after
  the texture has left `g_texture_platformview_map`, and the announcement is dropped
  (`platform_view_ohos.cpp:614`, `:630`).  After `NotifyCreate` nobody announces the
  buffers left in the queue; with the one `Paint` holds they fill it, and the producer
  waits for ever, which `ohos_external_texture.cpp:182` means to prevent.
* `lease_check`: `DecrementLease` leaves the record of a lease that has ended in
  `lease_term_by_caller_` at 0.  When another rasterizer that shares the merger merges
  the threads again, the next frame of the first one (with or without platform views)
  decrements its record and fails the `FML_CHECK` whose message is "lease_term should
  always be positive when merged" (`shared_thread_merger.cc:59`).

States the models reach or the reading showed, without a run of their own:

* frames: the continuation that `~Animator` drops commits a null item
  (`pipeline.h:91`), which a `Draw` posted by the rasterizer itself dereferences
  (`rasterizer.cc:255`, `DrawNullItem`); a refused OS request leaves `callback_` set for
  ever (`vsync_waiter_ohos.cpp:60`, `RequestMayFail`); `ProducerCommitIfEmpty` leaves
  `inflight_` incremented when it bails out; `frame_scheduled_` stays set after
  `DrawLastLayerTrees`, so flow ids outlive the vsync.
* merging: a surface is created (its setup task is posted, not waited for), a frame with
  platform views follows, the surface is destroyed: `OnPlatformViewDestroyed` disables
  the merger, the earlier setup task enables it again, the frame merges the queues, and
  the platform thread waits for a teardown task that only it could now run
  (`shell.cc:870`, `:937`, `:986`; the comment at `shell.cc:929` means to rule this out);
  the same follows from a `Disable` through another shell's `RasterThreadMerger`, whose
  mutex does not keep it out of a merge under way;
  `UnMergeNowIfLastOne` runs the merge callback although nothing was unmerged.
* loops: `Thread::Join` (`thread.cc:170`) posts a task that terminates the loop it runs
  on; while the queue is subsumed that is the owner's loop: it stops, the tasks of both
  queues stay, and the joined thread never ends, so `Join` does not return; a `PostTask`
  between its test of `terminated_` and the registration leaves its
  task in the queue of a stopped loop; of the tasks queued when a `ConcurrentMessageLoop`
  shuts down each worker takes at most one more, the others are dropped, whereas
  `concurrent_message_loop.cc:52` says "Don't just drop tasks on the floor in case of
  shutdown."
* textures: `MarkNewFrameAvailable` may release the newest frame when it was painted
  before it was announced (`ohos_external_texture.cpp:185`); a stale
  `buffer_size_has_changed_` (`:114`) may stretch a frame; a buffer parked for a size
  change loses its count; `Reset` never clears `source_is_external_` (`:736`);
  `SetExternalNativeImage` and `Reset` without a surface install the listener although
  the map has no entry; the texture may be destroyed on the platform thread when it is
  unregistered without a surface.
* surfaces: a preloaded engine given a window of another size reports its first frame
  though nothing was rendered on it (`ohos_surface.cpp:147`, `platform_view_ohos.cpp:187`;
  `FlutterNapi.ets:389` says "first Flutter frame rendered"), and the callback
  also follows a failed draw (`rasterizer.cc:643`), hence the `predrawn` in
  `ReportedIsRendered`; a second preload at the size of a kept off-screen window gets
  no swapchain (`ohos_surface.cpp:49`), hence the exception in `SurfaceHasWindow`; window references are not balanced
  (`ohos_xcomponent_adapter.cpp:552`, `:596`); a view detached before its surface is
  available stays attached in `XComponentBase` (`FlutterView.ets:456`), and when its
  window is created after all, `OnSurfaceCreated` (`ohos_xcomponent_adapter.cpp:552`)
  moves the engine there, away from the view now attached; `attachToFlutterEngine`
  itself detaches no other view, and `onDetach` of a host that is not the exclusive one
  clears `exclusiveAbility`, so that the next `onAttach` detaches nobody
  (`FlutterEngineConnectionRegistry.ets:138`, `:148`); a re-created XComponent of a view
  that stays attached is not attached again (`FlutterView.ets:385`), and detaching that
  view then parses an empty `shellholderId_` (`ohos_xcomponent_adapter.cpp:470`), which
  ends the program; `PreDraw` of a shown engine moves rendering off-screen
  (`ohos_xcomponent_adapter.cpp:447`); `FlutterEntry.shouldAttachEngineToAbility`
  returns true also for the parameter false (`FlutterEntry.ets:136`); `window_is_preload_` is read and written on
  two threads without a lock; `NotifyCreated` runs on the raster thread although
  `shell.cc:836` expects the platform thread.

## 6. What is not modelled

The parts `PROJECT.json` lists as `not_modelled`, with reasons.  Of the modelled
parts: view records and the GPU switch of the rasterizer, `WaitForFirstFrame`, views
added and removed, the watcher thread of the OHOS platform loop, task observers, the
task grade of the running thread, `WaitUntilMerged` (tests only), statically merged
queues, several `SharedThreadMerger`s on the same queues; PixelMap textures and the
conversion of a buffer to an image; the GL and software surfaces, input and
accessibility events of an XComponent; who destroys a `ConcurrentMessageLoop` (a worker
that holds the last reference joins itself, `concurrent_message_loop.cc:161`).  Data
races on the lease map (read without the shared mutex) are taken to return a current
value.

Most of the repository is rendering (Impeller, display lists, layers, text), bindings
and the embeddings of other platforms; their lines carry no protocol between threads
that a model of this kind could say more about than a test.

## 7. Plan

Next, in this order:

1. Proofs: `ThreadMerging`'s Boolean queues as a refinement mapping of `TaskQueues`;
   what the proved invariants say of the pairs of components that are still composed by
   hand (`ExternalTexture`'s one frame at a time from `FrameScheduling`).
2. `FirstFrame`: `WaitForFirstFrame`, the rasterizer's view records, the GPU switch
   and the embedder's `used_this_frame_`, on top of `ThreadMerging`'s overlap.
3. `PlatformLoop`: watcher thread, async event and `Terminate` of
   `message_loop_ohos.cc`.
4. `UnrefQueue`: delayed drains of `SkiaUnrefQueue` against its destruction.
