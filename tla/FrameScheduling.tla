--------------------------- MODULE FrameScheduling ---------------------------
(***************************************************************************)
(* How a frame is asked for, built and drawn: shell/common/animator.cc on  *)
(* the UI thread, the vsync waiter (module VsyncWaiter), the frame         *)
(* pipeline (module Pipeline), Rasterizer::Draw on the raster thread, and  *)
(* the glue of shell.cc, engine.cc and runtime_controller.cc between them. *)
(*                                                                         *)
(* The UI and the raster task runners are FIFO queues.  A step of a thread *)
(* ends where another thread can observe or disturb it: at a semaphore, a  *)
(* critical section or a posted task.                                      *)
(*                                                                         *)
(* Left out: timings, tracing, idle notifications, the raster thread       *)
(* merger (the OHOS shell never merges its threads).                       *)
(***************************************************************************)
EXTENDS Integers, Sequences, FiniteSets

CONSTANTS
  Views,        \* views with viewport metrics
  Depth,        \* depth of the frame pipeline
  MaxFrames,    \* bound on the frames committed
  MaxInputs,    \* bound on tasks posted to the UI thread from outside
  MaxResubmits, \* bound on the frames the rasterizer asks to draw again
  MayShutDown   \* whether the shell may be destroyed

ASSUME FrameAssumption ==
  /\ IsFiniteSet(Views) /\ Views # {}
  /\ Depth \in {1, 2}
  /\ MaxFrames \in Nat /\ MaxInputs \in Nat /\ MaxResubmits \in Nat
  /\ MayShutDown \in BOOLEAN

VARIABLES
  \* module VsyncWaiter
  callback, secondary, requesting, os, fire, taken, paused, uiQueue, running, alive,
  \* module Pipeline
  empty, available, inflight, queue, stage, kind, first, cstage, item, more,
  \* Animator and RuntimeController (UI thread)
  ui,         \* where the UI thread is in its task
  back,       \* where it returns to after a commit
  sem,        \* pending_frame_semaphore_
  scheduled,  \* frame_scheduled_
  regenerate, \* regenerate_layer_trees_
  recorder,   \* frame_timings_recorder_ is set
  trees,      \* views in layer_trees_tasks_
  rendered,   \* rendered_views_during_frame_
  flows,      \* trace_flow_ids_ is not empty
  frames,     \* number of frames committed; a frame is known by its number
  inputs,     \* tasks posted from outside so far
  \* Rasterizer (raster thread)
  rasterQueue,\* tasks of the raster task runner
  raster,     \* what the raster thread is doing
  resubmit,   \* resubmitted_item, or NoFrame
  drawn,      \* the last frame given to DoDraw
  resubmits,  \* frames resubmitted so far
  shell       \* how far ~Shell has come

NoFrame == 0
Frames == 1..MaxFrames
FlowIds == "flowIds"   \* the id under which the animator schedules its own
                       \* secondary callback
Inputs == {"dart", "texture", "pointer"}

V == INSTANCE VsyncWaiter WITH
  Secondaries <- {FlowIds},
  OtherTasks <- Inputs \cup {"await", "shutdown"},
  MaxTasks <- 2 * MaxInputs + 8,
  RequestMayFail <- FALSE

P == INSTANCE Pipeline WITH
  Producers <- {"ui", "raster"}, Consumers <- {"raster"},
  Resources <- Frames, NoResource <- NoFrame,
  MaxInflight <- Depth + MaxResubmits

vsyncVars == <<callback, secondary, requesting, os, fire, taken, paused,
               uiQueue, running, alive>>
pipeVars == <<empty, available, inflight, queue, stage, kind, first,
              cstage, item, more>>
animVars == <<sem, scheduled, regenerate, recorder, trees, rendered, flows, frames>>
uiVars == <<ui, back, animVars>>
rasterVars == <<raster, resubmit, drawn, resubmits>>
vars == <<vsyncVars, pipeVars, uiVars, inputs, rasterQueue, rasterVars, shell>>

TypeOK ==
  /\ V!TypeOK
  /\ P!TypeOK
  /\ ui \in {"start", "dart", "build", "commit", "pushed", "signalled", "end", "finish"}
  /\ back \in {"dart", "build", "finish"}
  /\ sem \in 0..1
  /\ \A b \in {scheduled, regenerate, recorder, flows} : b \in BOOLEAN
  /\ trees \subseteq Views /\ rendered \subseteq Views
  /\ frames \in 0..MaxFrames /\ inputs \in 0..MaxInputs
  /\ rasterQueue \in Seq({"draw", "redraw", "drawLast", "reset"})
  /\ raster \in {"idle", "draw", "consume", "resubmit", "complete", "signal",
                 "postMore", "post", "gone", "crashed"}
  /\ resubmit \in Frames \cup {NoFrame} /\ drawn \in Frames \cup {NoFrame}
  /\ resubmits \in 0..MaxResubmits
  /\ shell \in {"up", "ui", "raster", "down"}

Init ==
  /\ V!Init
  /\ P!Init
  /\ ui = "start" /\ back = "finish"
  /\ sem = 1 /\ scheduled = FALSE /\ regenerate = FALSE
  /\ recorder = FALSE /\ trees = {} /\ rendered = {} /\ flows = FALSE
  /\ frames = 0 /\ inputs = 0
  /\ rasterQueue = << >> /\ raster = "idle"
  /\ resubmit = NoFrame /\ drawn = NoFrame /\ resubmits = 0
  /\ shell = "up"

HasContinuation == stage["ui"] = "held"
RasterPost(t) == rasterQueue' = Append(rasterQueue, t)

-----------------------------------------------------------------------------
(* Tasks posted to the UI thread from outside *)

\* A Dart event, OnPlatformViewMarkTextureFrameAvailable, or a pointer event
\* (Animator::EnqueueTraceFlowId).
PostInput ==
  /\ inputs < MaxInputs
  /\ shell = "up"
  /\ \E t \in Inputs : V!PostTask(t)
  /\ inputs' = inputs + 1
  /\ UNCHANGED <<pipeVars, uiVars, rasterQueue, rasterVars, shell>>

\* The UI message loop runs its next task, from its start ...
UIStart ==
  /\ V!StartTask
  /\ ui' = IF Head(uiQueue) = "dart" /\ alive THEN "dart" ELSE "start"
  /\ UNCHANGED <<pipeVars, back, animVars, inputs, rasterQueue, rasterVars, shell>>

\* ... to its end.  Weak pointers make a task of a destroyed animator empty.
UIFinish ==
  /\ ui = "finish" \/ (~alive /\ ui = "start")
  /\ V!FinishTask
  /\ ui' = "start"
  /\ UNCHANGED <<pipeVars, back, animVars, inputs, rasterQueue, rasterVars, shell>>

-----------------------------------------------------------------------------
(* Animator *)

\* RequestFrame(regenerate_layer_trees): the semaphore lets one request through
\* until the vsync callback has run.
RequestFrame(regen) ==
  /\ regenerate' = (regenerate \/ regen)
  /\ IF sem = 1
       THEN sem' = 0 /\ scheduled' = TRUE /\ V!PostTask("await")
       ELSE UNCHANGED <<sem, scheduled, vsyncVars>>

\* Engine::ScheduleFrame(false) for a texture with a new frame.
TextureTask ==
  /\ running = "texture" /\ ui = "start" /\ alive
  /\ RequestFrame(FALSE)
  /\ ui' = "finish"
  /\ UNCHANGED <<pipeVars, back, recorder, trees, rendered, flows, frames, inputs,
                 rasterQueue, rasterVars, shell>>

\* Dart code schedules a frame, inside or outside a vsync task.
ScheduleFrame ==
  /\ ui \in {"dart", "build"}
  /\ RequestFrame(TRUE)
  /\ UNCHANGED <<pipeVars, ui, back, recorder, trees, rendered, flows, frames, inputs,
                 rasterQueue, rasterVars, shell>>

AwaitVSync ==
  /\ running = "await" /\ ui = "start" /\ alive
  /\ V!AsyncWaitForVsync
  /\ ui' = "finish"
  /\ UNCHANGED <<pipeVars, back, animVars, inputs, rasterQueue, rasterVars, shell>>

RequestVsync ==
  /\ V!AwaitVSync
  /\ UNCHANGED <<pipeVars, uiVars, inputs, rasterQueue, rasterVars, shell>>

VsyncThread ==
  /\ V!VsyncThread
  /\ UNCHANGED <<pipeVars, uiVars, inputs, rasterQueue, rasterVars, shell>>

\* EnqueueTraceFlowId and ScheduleMaybeClearTraceFlowIds.
EnqueueTraceFlowId ==
  /\ running = "pointer" /\ ui = "start"
  /\ flows' = TRUE
  /\ V!ScheduleSecondaryCallback(FlowIds)
  /\ ui' = "finish"
  /\ UNCHANGED <<pipeVars, back, sem, scheduled, regenerate, recorder, trees, rendered,
                 frames, inputs, rasterQueue, rasterVars, shell>>

\* The secondary callback of ScheduleMaybeClearTraceFlowIds.
MaybeClearTraceFlowIds ==
  /\ running = FlowIds /\ ui = "start" /\ alive
  /\ flows' = (flows /\ scheduled)
  /\ ui' = "finish"
  /\ UNCHANGED <<vsyncVars, pipeVars, back, sem, scheduled, regenerate, recorder, trees,
                 rendered, frames, inputs, rasterQueue, rasterVars, shell>>

\* Mutant: the semaphore is not signalled when the last trees are drawn.
DrawLastKeepsSemaphore ==
  /\ running = "vsync" /\ ui = "start" /\ alive
  /\ ~regenerate
  /\ RasterPost("drawLast")
  /\ ui' = "finish"
  /\ UNCHANGED <<vsyncVars, pipeVars, back, animVars, inputs, rasterVars, shell>>

\* The vsync callback when the layer trees can be reused.
DrawLastLayerTrees ==
  /\ running = "vsync" /\ ui = "start" /\ alive
  /\ ~regenerate
  /\ sem' = sem + 1
  /\ RasterPost("drawLast")
  /\ ui' = "finish"
  /\ UNCHANGED <<vsyncVars, pipeVars, back, scheduled, regenerate, recorder, trees,
                 rendered, flows, frames, inputs, rasterVars, shell>>

\* Mutant: regenerate_layer_trees_ is not reset.
BeginFrameKeepsRegenerate ==
  /\ running = "vsync" /\ ui = "start" /\ alive
  /\ regenerate
  /\ IF HasContinuation THEN UNCHANGED pipeVars ELSE P!Produce("ui")
  /\ trees' = {} /\ rendered' = {} /\ recorder' = TRUE /\ flows' = FALSE
  /\ scheduled' = FALSE /\ sem' = sem + 1
  /\ ui' = "build"
  /\ UNCHANGED <<vsyncVars, back, regenerate, frames, inputs, rasterQueue, rasterVars, shell>>

\* The vsync callback when they cannot: BeginFrame with a slot in the pipeline,
\* fresh or kept from a frame that rendered nothing.  Engine::BeginFrame marks
\* the frame border and hands over to Dart.
BeginFrame ==
  /\ running = "vsync" /\ ui = "start" /\ alive
  /\ regenerate
  /\ IF HasContinuation THEN UNCHANGED pipeVars ELSE P!Produce("ui")
  /\ trees' = {} /\ rendered' = {} /\ recorder' = TRUE /\ flows' = FALSE
  /\ scheduled' = FALSE /\ regenerate' = FALSE /\ sem' = sem + 1
  /\ ui' = "build"
  /\ UNCHANGED <<vsyncVars, back, frames, inputs, rasterQueue, rasterVars, shell>>

\* BeginFrame with the pipeline full: the frame is asked for again (the
\* semaphore, just signalled, is taken by RequestFrame) and EndFrame follows.
BeginFramePipelineFull ==
  /\ running = "vsync" /\ ui = "start" /\ alive
  /\ regenerate
  /\ ~HasContinuation
  /\ empty = 0
  /\ trees' = {} /\ recorder' = TRUE /\ flows' = FALSE
  /\ V!PostTask("await") /\ scheduled' = TRUE
  /\ ui' = "end" /\ back' = "finish"
  /\ UNCHANGED <<pipeVars, sem, regenerate, rendered, frames, inputs,
                 rasterQueue, rasterVars, shell>>

\* RuntimeController::Render, Engine::Render, Animator::Render; when the last
\* view has been rendered the frame is ended at once (OnAllViewsRendered).
Render(v) ==
  /\ ui \in {"dart", "build"}
  /\ frames < MaxFrames
  /\ recorder' = TRUE
  /\ trees' = trees \cup {v}
  /\ rendered' = IF rendered \cup {v} = Views THEN {} ELSE rendered \cup {v}
  /\ IF rendered \cup {v} = Views
       THEN ui' = "end" /\ back' = ui
       ELSE UNCHANGED <<ui, back>>
  /\ UNCHANGED <<vsyncVars, pipeVars, sem, scheduled, regenerate, flows, frames, inputs,
                 rasterQueue, rasterVars, shell>>

\* EndWarmUpFrame after rendering outside a vsync task.
EndWarmUpFrame ==
  /\ ui = "dart" /\ trees # {}
  /\ ui' = "end" /\ back' = "dart"
  /\ UNCHANGED <<vsyncVars, pipeVars, animVars, inputs, rasterQueue, rasterVars, shell>>

\* Dart returns: from the vsync task to EndFrame, from its own task to the loop.
DartDone ==
  /\ ui \in {"dart", "build"}
  /\ ui' = IF ui = "build" THEN "end" ELSE "finish"
  /\ back' = "finish"
  /\ UNCHANGED <<vsyncVars, pipeVars, animVars, inputs, rasterQueue, rasterVars, shell>>

\* EndFrame with nothing to commit: already ended, or no view was rendered.
EndFrameEmpty ==
  /\ ui = "end"
  /\ ~recorder \/ trees = {}
  /\ recorder' = FALSE
  /\ ui' = back
  /\ UNCHANGED <<vsyncVars, pipeVars, back, sem, scheduled, regenerate, trees, rendered,
                 flows, frames, inputs, rasterQueue, rasterVars, shell>>

\* EndFrame completes the continuation, up to the end of ProducerCommit's
\* critical section ...
EndFrameCommit ==
  /\ ui = "end"
  /\ recorder /\ trees # {}
  /\ HasContinuation
  /\ P!Complete("ui", frames + 1)
  /\ frames' = frames + 1
  /\ recorder' = FALSE /\ trees' = {}
  /\ ui' = "pushed"
  /\ UNCHANGED <<vsyncVars, back, sem, scheduled, regenerate, rendered, flows, inputs,
                 rasterQueue, rasterVars, shell>>

\* ... Complete on an empty continuation does nothing: the frame is dropped.
EndFrameDropped ==
  /\ ui = "end"
  /\ recorder /\ trees # {}
  /\ ~HasContinuation
  /\ recorder' = FALSE /\ trees' = {}
  /\ ui' = back
  /\ UNCHANGED <<vsyncVars, pipeVars, back, sem, scheduled, regenerate, rendered, flows,
                 frames, inputs, rasterQueue, rasterVars, shell>>

\* available_.Signal() in ProducerCommit ...
CommitSignal ==
  /\ ui = "pushed"
  /\ P!SignalAvailable("ui")
  /\ ui' = IF running = "shutdown" THEN "start" ELSE "signalled"
  /\ UNCHANGED <<vsyncVars, back, animVars, inputs, rasterQueue, rasterVars, shell>>

\* Mutant: the test of is_first_item is inverted.
NotifyUnlessFirst ==
  /\ ui = "signalled"
  /\ IF ~first["ui"] THEN RasterPost("draw") ELSE UNCHANGED rasterQueue
  /\ ui' = back
  /\ UNCHANGED <<vsyncVars, pipeVars, back, animVars, inputs, rasterVars, shell>>

\* ... and only for the first item of the pipeline OnAnimatorDraw is called.
NotifyDelegate ==
  /\ ui = "signalled"
  /\ IF first["ui"] THEN RasterPost("draw") ELSE UNCHANGED rasterQueue
  /\ ui' = back
  /\ UNCHANGED <<vsyncVars, pipeVars, back, animVars, inputs, rasterVars, shell>>
-----------------------------------------------------------------------------
(* Rasterizer::Draw on the raster thread *)

\* A task of OnAnimatorDraw holds the pipeline weakly; one the rasterizer posted
\* to itself holds it strongly and keeps it beyond the animator's life.
PipelineLives == alive \/ \E i \in DOMAIN Tail(rasterQueue) : Tail(rasterQueue)[i] = "redraw"

StartDraw ==
  /\ raster = "idle"
  /\ rasterQueue # << >>
  /\ Head(rasterQueue) \in {"draw", "redraw"}
  /\ rasterQueue' = Tail(rasterQueue)
  /\ raster' = IF Head(rasterQueue) = "redraw" \/ PipelineLives THEN "draw" ELSE "idle"
  /\ UNCHANGED <<vsyncVars, pipeVars, uiVars, inputs, resubmit, drawn, resubmits, shell>>

\* Rasterizer::DrawLastLayerTrees leaves the pipeline alone.
RasterDrawLast ==
  /\ raster = "idle"
  /\ rasterQueue # << >>
  /\ Head(rasterQueue) = "drawLast"
  /\ rasterQueue' = Tail(rasterQueue)
  /\ UNCHANGED <<vsyncVars, pipeVars, uiVars, inputs, rasterVars, shell>>

\* Consume finds available_ at zero: kPipelineEmpty, and no further Draw.
DrawPipelineEmpty ==
  /\ raster = "draw"
  /\ available = 0
  /\ raster' = "idle"
  /\ UNCHANGED <<vsyncVars, pipeVars, uiVars, inputs, rasterQueue, resubmit, drawn,
                 resubmits, shell>>

DrawAcquire ==
  /\ raster = "draw"
  /\ P!ConsumeAcquire("raster")
  /\ raster' = "consume"
  /\ UNCHANGED <<vsyncVars, uiVars, inputs, rasterQueue, resubmit, drawn, resubmits, shell>>

DrawPop ==
  /\ raster = "consume"
  /\ P!ConsumePop("raster")
  /\ drawn' = IF Head(queue) = NoFrame THEN drawn ELSE Head(queue)
  /\ UNCHANGED <<vsyncVars, uiVars, inputs, rasterQueue, raster, resubmit, resubmits, shell>>

\* The consumer lambda dereferences the item it is given: the process is gone,
\* and what the other threads still do in the model means nothing.
DrawNullItem ==
  /\ raster = "consume"
  /\ cstage["raster"] = "consuming"
  /\ item["raster"] = NoFrame
  /\ raster' = "crashed"
  /\ UNCHANGED <<vsyncVars, pipeVars, uiVars, inputs, rasterQueue, resubmit, drawn,
                 resubmits, shell>>

\* DoDraw and the end of Consume; a frame whose raster status asks for it
\* (external view embedders) is to be submitted again.
DoDraw ==
  /\ raster = "consume"
  /\ item["raster"] # NoFrame
  /\ P!ConsumeFinish("raster")
  /\ \/ raster' = "post" /\ UNCHANGED <<resubmit, resubmits>>
     \/ /\ resubmits < MaxResubmits
        /\ raster' = "resubmit"
        /\ resubmit' = item["raster"]
        /\ resubmits' = resubmits + 1
  /\ UNCHANGED <<vsyncVars, uiVars, inputs, rasterQueue, drawn, shell>>

\* Mutant: the frame is submitted again with Produce.
ResubmitAlways ==
  /\ raster = "resubmit"
  /\ P!Produce("raster")
  /\ raster' = "complete"
  /\ UNCHANGED <<vsyncVars, uiVars, inputs, rasterQueue, resubmit, drawn, resubmits, shell>>

ResubmitProduce ==
  /\ raster = "resubmit"
  /\ P!ProduceIfEmpty("raster")
  /\ raster' = "complete"
  /\ UNCHANGED <<vsyncVars, uiVars, inputs, rasterQueue, resubmit, drawn, resubmits, shell>>

\* Mutant: the last free slot counts as none.
ResubmitGivesUpEarly ==
  /\ raster = "resubmit"
  /\ empty <= 1
  /\ raster' = "post" /\ resubmit' = NoFrame
  /\ UNCHANGED <<vsyncVars, pipeVars, uiVars, inputs, rasterQueue, drawn, resubmits, shell>>

ResubmitPipelineFull ==
  /\ raster = "resubmit"
  /\ empty = 0
  /\ raster' = "post" /\ resubmit' = NoFrame
  /\ UNCHANGED <<vsyncVars, pipeVars, uiVars, inputs, rasterQueue, drawn, resubmits, shell>>

ResubmitComplete ==
  /\ raster = "complete"
  /\ P!Complete("raster", resubmit)
  /\ raster' = IF queue = << >> THEN "signal" ELSE "post"
  /\ resubmit' = NoFrame
  /\ UNCHANGED <<vsyncVars, uiVars, inputs, rasterQueue, drawn, resubmits, shell>>

ResubmitSignal ==
  /\ raster = "signal"
  /\ P!SignalAvailable("raster")
  /\ raster' = "postMore"
  /\ UNCHANGED <<vsyncVars, uiVars, inputs, rasterQueue, resubmit, drawn, resubmits, shell>>

\* Mutant: a resubmitted frame does not change consume_result.
DrawDoneIgnoresResubmit ==
  /\ raster \in {"post", "postMore"}
  /\ IF more["raster"] THEN RasterPost("redraw") ELSE UNCHANGED rasterQueue
  /\ raster' = "idle"
  /\ UNCHANGED <<vsyncVars, pipeVars, uiVars, inputs, resubmit, drawn, resubmits, shell>>

\* With MoreAvailable, Draw posts itself again and yields the event loop.
DrawDone ==
  /\ raster \in {"post", "postMore"}
  /\ IF raster = "postMore" \/ more["raster"]
       THEN RasterPost("redraw") ELSE UNCHANGED rasterQueue
  /\ raster' = "idle"
  /\ UNCHANGED <<vsyncVars, pipeVars, uiVars, inputs, resubmit, drawn, resubmits, shell>>

-----------------------------------------------------------------------------
(* ~Shell: engine on the UI thread, then the rasterizer on the raster thread *)

ShellDestroyed ==
  /\ MayShutDown
  /\ shell = "up"
  /\ V!PostTask("shutdown")
  /\ shell' = "ui"
  /\ UNCHANGED <<pipeVars, uiVars, inputs, rasterQueue, rasterVars>>

\* ~Animator drops a continuation it still holds: ~ProducerContinuation commits
\* a null resource.
DropContinuation ==
  /\ running = "shutdown" /\ ui = "start" /\ alive
  /\ P!Complete("ui", NoFrame)
  /\ ui' = "pushed"
  /\ UNCHANGED <<vsyncVars, back, animVars, inputs, rasterQueue, rasterVars, shell>>

\* Mutant: the engine is not destroyed before its outstanding frame request is
\* answered, by a task that is queued behind this one.
EngineResetAwaitsFrame ==
  /\ running = "shutdown" /\ ui = "start"
  /\ stage["ui"] = "idle" /\ sem = 1
  /\ V!Destroy
  /\ ui' = "finish"
  /\ UNCHANGED <<pipeVars, back, animVars, inputs, rasterQueue, rasterVars, shell>>

EngineReset ==
  /\ running = "shutdown" /\ ui = "start"
  /\ stage["ui"] = "idle"
  /\ V!Destroy
  /\ ui' = "finish"
  /\ UNCHANGED <<pipeVars, back, animVars, inputs, rasterQueue, rasterVars, shell>>

\* ui_latch is signalled and ~Shell goes on to the raster thread.
UILatch ==
  /\ shell = "ui" /\ ~alive /\ running # "shutdown"
  /\ RasterPost("reset")
  /\ shell' = "raster"
  /\ UNCHANGED <<vsyncVars, pipeVars, uiVars, inputs, rasterVars>>

RasterizerReset ==
  /\ raster = "idle"
  /\ rasterQueue # << >>
  /\ Head(rasterQueue) = "reset"
  /\ rasterQueue' = Tail(rasterQueue)
  /\ raster' = "gone" /\ shell' = "down"
  /\ UNCHANGED <<vsyncVars, pipeVars, uiVars, inputs, resubmit, drawn, resubmits>>

-----------------------------------------------------------------------------
UIThread ==
  \/ UIStart \/ UIFinish \/ TextureTask \/ ScheduleFrame \/ AwaitVSync \/ RequestVsync
  \/ EnqueueTraceFlowId \/ MaybeClearTraceFlowIds
  \/ DrawLastLayerTrees \/ BeginFrame \/ BeginFramePipelineFull
  \/ (\E v \in Views : Render(v)) \/ EndWarmUpFrame \/ DartDone
  \/ EndFrameEmpty \/ EndFrameCommit \/ EndFrameDropped \/ CommitSignal \/ NotifyDelegate
  \/ DropContinuation \/ EngineReset

RasterThread ==
  \/ StartDraw \/ RasterDrawLast \/ DrawPipelineEmpty \/ DrawAcquire \/ DrawPop
  \/ DrawNullItem \/ DoDraw
  \/ ResubmitProduce \/ ResubmitPipelineFull \/ ResubmitComplete \/ ResubmitSignal
  \/ DrawDone \/ RasterizerReset

PlatformThread == ShellDestroyed \/ UILatch

Next == PostInput \/ UIThread \/ VsyncThread \/ RasterThread \/ PlatformThread

Spec == Init /\ [][Next]_vars

\* The message loops and the vsync thread keep running, and Dart code returns.
Fairness ==
  /\ WF_vars(UIThread) /\ WF_vars(VsyncThread) /\ WF_vars(RasterThread)
  /\ WF_vars(UILatch) /\ SF_vars(DartDone)

FairSpec == Spec /\ Fairness

-----------------------------------------------------------------------------
(* Properties *)

One(b) == IF b THEN 1 ELSE 0
Count(q, t) == Cardinality({i \in DOMAIN q : q[i] = t})

\* pending_frame_semaphore_ is taken exactly as long as one request is under
\* way: an AwaitVSync task, a callback in the waiter, a fired one, or the vsync
\* task before the animator has answered it.  Otherwise frames would stop for
\* good, or two vsync callbacks would build frames at once.
OneFrameRequest ==
  alive => sem + Count(uiQueue, "await") + One(running = "await" /\ ui = "start")
               + One(callback) + One("vsync" \in taken)
               + Count(uiQueue, "vsync") + One(running = "vsync" /\ ui = "start") = 1

\* A layer tree that asked to be rebuilt is not forgotten: as long as
\* regenerate_layer_trees_ is set, a request is pending that will see it.
RegenerateIsPending == alive /\ regenerate => sem = 0

\* The state is well formed, and no request to rebuild the layer trees is lost.
FrameInv == TypeOK /\ RegenerateIsPending

\* Frames reach DoDraw in the order the animator committed them; a frame
\* submitted again never overtakes or follows a newer one.
DrawnInOrder == [][drawn' >= drawn]_vars

\* With two slots the rasterizer gives up a frame it was to submit again only
\* when a newer frame is queued behind it, as long as the shell is up.
DroppedOnlyWhenSuperseded ==
  [][(raster \in {"resubmit", "complete"}) /\ raster' = "post" /\ shell = "up"
       => queue # << >> /\ Head(queue) > resubmit]_vars

\* animator.cc:149: "Eventually the 'Rasterizer' will consume it": every frame
\* committed to the pipeline is given to DoDraw, unless the shell goes down.
CommittedFrameIsDrawn == \A f \in Frames : (frames >= f) ~> (drawn >= f \/ shell # "up")

\* A frame that was requested is begun, or drawn from the last layer trees.
RequestedFrameBegins == (sem = 0) ~> (sem = 1 \/ ~alive)

\* The Dart event loop, paused for a vsync, is resumed.
DartTasksResume == []<>(paused = 0)

\* ~Shell waits for the UI thread and then for the raster thread: neither wait
\* is for ever, wherever the threads are when it starts.
ShutdownCompletes == (shell = "ui") ~> (shell = "down" \/ raster = "crashed")
=============================================================================
