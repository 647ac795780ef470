---------------------------- MODULE ThreadMerging ----------------------------
(***************************************************************************)
(* Dynamic thread merging: fml/raster_thread_merger.cc and                 *)
(* shared_thread_merger.cc, driven by Rasterizer::Draw, Setup and Teardown *)
(* on whichever thread serves the raster queue, by the Android view        *)
(* embedder, and by Shell::OnPlatformViewCreated and -Destroyed.           *)
(*                                                                         *)
(* The rasterizers are those of a shell and of the shells spawned from it: *)
(* each has a RasterThreadMerger with a mutex of its own, and all share    *)
(* one SharedThreadMerger.  The raster queue is a FIFO of tasks that the   *)
(* raster thread serves while unmerged and the platform thread while       *)
(* merged (module TaskQueues).                                             *)
(*                                                                         *)
(* Left out: the frame pipeline (module FrameScheduling; a draw task       *)
(* carries its frame, so a Draw that finds the pipeline empty is no step), *)
(* WaitUntilMerged (called by tests only), statically merged queues.       *)
(***************************************************************************)
EXTENDS Integers, Sequences

CONSTANTS
  Rasterizers,
  WithViews,   \* the rasterizers of the shells that show platform views
  LeaseTerm,   \* kDefaultMergedLeaseDuration (10 in the embedders)
  MaxLag,      \* how far the raster thread may fall behind (see InTime)
  MaxFrames,   \* bound on the frames the animators commit
  MaxSwitches  \* bound on the surfaces created and destroyed

\* A lease is longer than the lag: otherwise DecrementLease of the frame that took
\* it could end the lease under another frame's feet.
ASSUME LeaseAssumption ==
  /\ Rasterizers # {} /\ WithViews \subseteq Rasterizers
  /\ LeaseTerm \in Nat /\ MaxLag \in Nat /\ LeaseTerm > MaxLag + 1
  /\ MaxFrames \in Nat /\ MaxSwitches \in Nat

VARIABLES
  merged,    \* the raster queue is subsumed by the platform queue
  lease,     \* lease_term_by_caller_
  enabled,   \* enabled_ of the shared merger
  queue,     \* tasks of the raster queue
  task,      \* the raster task a thread runs
  pc,        \* where it is in that task, or in a platform handler
  surface,   \* surface_ of each rasterizer
  attached,  \* the platform has given the shell a surface
  views,     \* composition_order_ of the embedder is not empty
  latch,     \* the latch of OnPlatformViewDestroyed is signalled
  lag,       \* raster tasks the platform thread has started since the raster thread
             \* began the one that merged them; kept once it exceeds MaxLag
  frames,    \* frames committed so far
  switches   \* surfaces created or destroyed so far

vars == <<merged, lease, enabled, queue, task, pc, surface, attached, views, latch,
          lag, frames, switches>>

Threads == {"platform", "raster"}
Absent == -1   \* the caller has no record in lease_term_by_caller_

Task == [kind : {"draw", "drawLast", "setup", "teardown"}, r : Rasterizers,
         layers : BOOLEAN,   \* the frame has platform views
         again : BOOLEAN]    \* the frame is to be submitted again

NoTask == [kind |-> "none"]
NewTask(kind, r, layers) == [kind |-> kind, r |-> r, layers |-> layers, again |-> FALSE]

Stages == {"idle", "draw", "drawLast", "preroll", "merge", "merging", "extend",
           "submit", "decrement", "decrementing", "end", "setup", "teardown",
           "tornDown", "unmerge", "destroyed", "wait", "created", "aborted"}

TypeOK ==
  /\ merged \in BOOLEAN /\ enabled \in BOOLEAN /\ latch \in BOOLEAN
  /\ lease \in [Rasterizers -> 0..LeaseTerm \cup {Absent}]
  /\ queue \in Seq(Task)
  /\ task \in [Threads -> Task \cup {NoTask}]
  /\ pc \in [Threads -> Stages]
  /\ surface \in [Rasterizers -> BOOLEAN]
  /\ attached \in [Rasterizers -> BOOLEAN]
  /\ views \in [Rasterizers -> BOOLEAN]
  /\ lag \in Nat /\ frames \in Nat /\ switches \in Nat

\* Every rasterizer has been set up once, which made its merger.
Init ==
  /\ merged = FALSE /\ enabled = TRUE /\ latch = FALSE
  /\ lease = [r \in Rasterizers |-> Absent]
  /\ queue = << >>
  /\ task = [t \in Threads |-> NoTask]
  /\ pc = [t \in Threads |-> "idle"]
  /\ surface = [r \in Rasterizers |-> TRUE]
  /\ attached = [r \in Rasterizers |-> TRUE]
  /\ views = [r \in Rasterizers |-> FALSE]
  /\ lag = 0 /\ frames = 0 /\ switches = 0

\* The raster thread has always come to the end of the task in which it merged the
\* queues before the platform thread had started more than MaxLag others.
InTime == lag <= MaxLag

Go(t, stage) == pc' = [pc EXCEPT ![t] = stage]

\* A failed FML_CHECK takes the whole process down.
Abort == pc' = [t \in Threads |-> "aborted"]

\* Mutant: nobody takes mutex_.
UnlockedAlways(r) == r \in Rasterizers

\* mutex_ of r's RasterThreadMerger is free: it is held from the checks of
\* MergeWithLease and DecrementLease to the end of the shared merger's part.
Unlocked(r) ==
  \A t \in Threads : pc[t] \in {"merging", "decrementing"} => task[t].r # r

\* SharedThreadMerger::IsMergedUnSafe: some lease term is not zero.
IsMerged == \E r \in Rasterizers : lease[r] > 0

\* The thread whose loop takes the tasks of the raster queue
\* (TaskRunner::RunsTasksOnCurrentThread).
RunsRasterTasks(t) == t = IF merged THEN "platform" ELSE "raster"

IsOnRasterizingThread(t) == t = IF IsMerged THEN "platform" ELSE "raster"

\* Draw is done with its frame: DoDraw goes on to DecrementLease.
AfterFrame(t) == Go(t, IF task[t].kind = "draw" THEN "decrement" ELSE "end")

-----------------------------------------------------------------------------
(* The raster queue *)

\* Shell::OnAnimatorDraw and OnAnimatorDrawLastLayerTrees.
PostFrame(kind, r, layers) ==
  /\ frames < MaxFrames
  /\ layers => r \in WithViews
  /\ pc["platform"] # "aborted"
  /\ frames' = frames + 1
  /\ queue' = Append(queue, NewTask(kind, r, layers))
  /\ UNCHANGED <<merged, lease, enabled, task, pc, surface, attached, views, latch,
                 lag, switches>>

StartTask(t) ==
  /\ pc[t] = "idle"
  /\ queue # << >>
  /\ RunsRasterTasks(t)
  /\ lag' = IF ~InTime THEN lag
            ELSE IF t = "platform" /\ pc["raster"] # "idle" THEN lag + 1 ELSE 0
  /\ task' = [task EXCEPT ![t] = Head(queue)]
  /\ Go(t, Head(queue).kind)
  /\ queue' = Tail(queue)
  /\ UNCHANGED <<merged, lease, enabled, surface, attached, views, latch, frames, switches>>

\* The end of Rasterizer::Draw puts a frame to be drawn again back, unless a
\* newer one of the same pipeline waits; that of the teardown lets the IO thread
\* signal the latch.
EndTask(t) ==
  /\ pc[t] = "end"
  /\ queue' = IF /\ task[t].kind = "draw" /\ task[t].again
                 /\ \A i \in DOMAIN queue : queue[i].kind = "draw" => queue[i].r # task[t].r
              THEN Append(queue, NewTask("draw", task[t].r, task[t].layers))
              ELSE queue
  /\ latch' = (latch \/ task[t].kind = "teardown")
  /\ Go(t, IF t = "platform" /\ task[t].kind = "teardown" THEN "wait" ELSE "idle")
  /\ task' = [task EXCEPT ![t] = NoTask]
  /\ UNCHANGED <<merged, lease, enabled, surface, attached, views, lag, frames, switches>>

-----------------------------------------------------------------------------
(* A frame *)

\* Rasterizer::Draw yields on the wrong thread; DoDraw needs a surface.
Draw(t) ==
  /\ pc[t] = "draw"
  /\ Unlocked(task[t].r)
  /\ Go(t, IF IsOnRasterizingThread(t) /\ surface[task[t].r] THEN "preroll" ELSE "end")
  /\ UNCHANGED <<merged, lease, enabled, queue, task, surface, attached, views, latch,
                 lag, frames, switches>>

DrawLastLayerTrees(t) ==
  /\ pc[t] = "drawLast"
  /\ Go(t, IF surface[task[t].r] THEN "preroll" ELSE "end")
  /\ UNCHANGED <<merged, lease, enabled, queue, task, surface, attached, views, latch,
                 lag, frames, switches>>

\* PostPrerollAction of a frame without platform views.
PrerollWithoutViews(t) ==
  /\ pc[t] = "preroll"
  /\ ~task[t].layers
  /\ views' = [views EXCEPT ![task[t].r] = FALSE]
  /\ Go(t, "submit")
  /\ UNCHANGED <<merged, lease, enabled, queue, task, surface, attached, latch, lag, frames, switches>>

\* Mutant: the frame that merges the threads is submitted as well.
PrerollSubmitsUnmerged(t) ==
  /\ pc[t] = "preroll"
  /\ task[t].layers /\ Unlocked(task[t].r)
  /\ ~IsMerged
  /\ views' = [views EXCEPT ![task[t].r] = FALSE]
  /\ Go(t, "submit")
  /\ UNCHANGED <<merged, lease, enabled, queue, task, surface, attached, latch, lag, frames, switches>>

\* PostPrerollAction while the threads are apart: CancelFrame, merge, retry.
PrerollUnmerged(t) ==
  /\ pc[t] = "preroll"
  /\ task[t].layers /\ Unlocked(task[t].r)
  /\ ~IsMerged
  /\ views' = [views EXCEPT ![task[t].r] = FALSE]
  /\ task' = [task EXCEPT ![t].again = TRUE]
  /\ Go(t, "merge")
  /\ UNCHANGED <<merged, lease, enabled, queue, surface, attached, latch, lag, frames, switches>>

\* PostPrerollAction while merged; the first frame with platform views is
\* submitted twice.
PrerollMerged(t) ==
  /\ pc[t] = "preroll"
  /\ task[t].layers /\ Unlocked(task[t].r)
  /\ IsMerged
  /\ views' = [views EXCEPT ![task[t].r] = TRUE]
  /\ task' = [task EXCEPT ![t].again = ~views[task[t].r]]
  /\ Go(t, "extend")
  /\ UNCHANGED <<merged, lease, enabled, queue, surface, attached, latch, lag, frames, switches>>

\* RasterThreadMerger::MergeWithLease up to the call of the shared merger ...
MergeWithLease(t) ==
  /\ pc[t] = "merge"
  /\ Unlocked(task[t].r)
  /\ IF enabled /\ ~IsMerged THEN Go(t, "merging") ELSE AfterFrame(t)
  /\ UNCHANGED <<merged, lease, enabled, queue, task, surface, attached, views, latch,
                 lag, frames, switches>>

\* ... and SharedThreadMerger::MergeWithLease, under its own mutex.
SharedMergeWithLease(t) ==
  /\ pc[t] = "merging"
  /\ IF IsMerged \/ ~merged THEN AfterFrame(t) ELSE Abort
  /\ merged' = TRUE
  /\ lease' = IF IsMerged THEN lease ELSE [lease EXCEPT ![task[t].r] = LeaseTerm]
  /\ UNCHANGED <<enabled, queue, task, surface, attached, views, latch,
                 lag, frames, switches>>

ExtendLeaseTo(t) ==
  /\ pc[t] = "extend"
  /\ Unlocked(task[t].r)
  /\ lease' = IF enabled THEN [lease EXCEPT ![task[t].r] = LeaseTerm] ELSE lease
  /\ Go(t, "submit")
  /\ UNCHANGED <<merged, enabled, queue, task, surface, attached, views, latch,
                 lag, frames, switches>>

\* The frame is painted and submitted, with its platform views if IsMerged().
SubmitFrame(t) ==
  /\ pc[t] = "submit"
  /\ AfterFrame(t)
  /\ UNCHANGED <<merged, lease, enabled, queue, task, surface, attached, views, latch,
                 lag, frames, switches>>

\* RasterThreadMerger::DecrementLease up to the call of the shared merger ...
DecrementLease(t) ==
  /\ pc[t] = "decrement"
  /\ Unlocked(task[t].r)
  /\ Go(t, IF IsMerged /\ enabled THEN "decrementing" ELSE "end")
  /\ UNCHANGED <<merged, lease, enabled, queue, task, surface, attached, views, latch,
                 lag, frames, switches>>

\* UnMergeNowUnSafe once all lease terms are zero; Unmerge of queues that are
\* not merged fails.
UnMergeWhenAllZero(t) ==
  IF IsMerged'
  THEN merged' = merged /\ Go(t, "end")
  ELSE merged' = FALSE /\ IF merged THEN Go(t, "end") ELSE Abort

\* ... and SharedThreadMerger::DecrementLease, whose FML_CHECK wants a caller
\* that has a record to have a positive one.
SharedDecrementLease(t) ==
  /\ pc[t] = "decrementing"
  /\ \E l \in {lease[task[t].r]} :
       IF l = 0
       THEN Abort /\ UNCHANGED <<lease, merged>>
       ELSE /\ lease' = IF l = Absent THEN lease ELSE [lease EXCEPT ![task[t].r] = l - 1]
            /\ UnMergeWhenAllZero(t)
  /\ UNCHANGED <<enabled, queue, task, surface, attached, views, latch,
                 lag, frames, switches>>

-----------------------------------------------------------------------------
(* The surface comes and goes *)

\* The raster task of OnPlatformViewCreated: Enable, then Rasterizer::Setup.
Setup(t) ==
  /\ pc[t] = "setup"
  /\ Unlocked(task[t].r)
  /\ enabled' = TRUE
  /\ surface' = [surface EXCEPT ![task[t].r] = TRUE]
  /\ Go(t, "end")
  /\ UNCHANGED <<merged, lease, queue, task, attached, views, latch,
                 lag, frames, switches>>

\* The raster task of OnPlatformViewDestroyed: Enable and Rasterizer::Teardown ...
Teardown(t) ==
  /\ pc[t] = "teardown"
  /\ Unlocked(task[t].r)
  /\ enabled' = TRUE
  /\ surface' = [surface EXCEPT ![task[t].r] = FALSE]
  /\ Go(t, "tornDown")
  /\ UNCHANGED <<merged, lease, queue, task, attached, views, latch,
                 lag, frames, switches>>

\* Mutant: the test of IsMerged() is missing.
TeardownAlwaysUnmerges(t) ==
  /\ pc[t] = "tornDown"
  /\ Unlocked(task[t].r)
  /\ Go(t, "unmerge")
  /\ UNCHANGED <<merged, lease, enabled, queue, task, surface, attached, views, latch,
                 lag, frames, switches>>

\* ... up to its IsMerged() ...
TeardownIsMerged(t) ==
  /\ pc[t] = "tornDown"
  /\ Unlocked(task[t].r)
  /\ Go(t, IF IsMerged THEN "unmerge" ELSE "end")
  /\ UNCHANGED <<merged, lease, enabled, queue, task, surface, attached, views, latch,
                 lag, frames, switches>>

\* Mutant: the record of the caller is dropped, and the last one not looked for.
UnMergeNeverLast(t) ==
  /\ pc[t] = "unmerge"
  /\ Unlocked(task[t].r)
  /\ lease' = [lease EXCEPT ![task[t].r] = Absent]
  /\ Go(t, "end")
  /\ UNCHANGED <<merged, enabled, queue, task, surface, attached, views, latch,
                 lag, frames, switches>>

\* ... and UnMergeNowIfLastOne of both mergers.
UnMergeNowIfLastOne(t) ==
  /\ pc[t] = "unmerge"
  /\ Unlocked(task[t].r)
  /\ IF enabled
     THEN /\ lease' = [lease EXCEPT ![task[t].r] = Absent]
          /\ UnMergeWhenAllZero(t)
     ELSE Go(t, "end") /\ UNCHANGED <<lease, merged>>
  /\ UNCHANGED <<enabled, queue, task, surface, attached, views, latch,
                 lag, frames, switches>>

Switch(r, stage) ==
  /\ switches < MaxSwitches
  /\ switches' = switches + 1
  /\ pc["platform"] = "idle"
  /\ Unlocked(r)
  /\ enabled' = FALSE
  /\ attached' = [attached EXCEPT ![r] = ~attached[r]]
  /\ Go("platform", stage)
  /\ UNCHANGED <<merged, lease, queue, surface, views, latch, lag, frames>>

\* Shell::OnPlatformViewDestroyed disables the merger ...
OnPlatformViewDestroyed(r) ==
  /\ attached[r]
  /\ Switch(r, "destroyed")
  /\ task' = [task EXCEPT !["platform"] = NewTask("teardown", r, FALSE)]

\* ... runs the raster task now or posts it (RunNowOrPostTask) ...
RunTeardownNowOrPost ==
  /\ pc["platform"] = "destroyed"
  /\ IF merged
     THEN Go("platform", "teardown") /\ UNCHANGED queue
     ELSE Go("platform", "wait") /\ queue' = Append(queue, task["platform"])
  /\ UNCHANGED <<merged, lease, enabled, task, surface, attached, views, latch,
                 lag, frames, switches>>

\* ... and waits for it.
LatchWait ==
  /\ pc["platform"] = "wait"
  /\ latch
  /\ latch' = FALSE
  /\ Go("platform", "idle")
  /\ UNCHANGED <<merged, lease, enabled, queue, task, surface, attached, views, lag, frames, switches>>

\* Shell::OnPlatformViewCreated disables the merger ...
OnPlatformViewCreated(r) ==
  /\ ~attached[r]
  /\ Switch(r, "created")
  /\ task' = [task EXCEPT !["platform"] = NewTask("setup", r, FALSE)]

\* ... and runs the raster task itself or lets the IO thread post it
\* (should_post_raster_task); it does not wait for a posted one.
RunSetupNowOrPost ==
  /\ pc["platform"] = "created"
  /\ IF merged
     THEN Go("platform", "setup") /\ UNCHANGED queue
     ELSE Go("platform", "idle") /\ queue' = Append(queue, task["platform"])
  /\ UNCHANGED <<merged, lease, enabled, task, surface, attached, views, latch,
                 lag, frames, switches>>

-----------------------------------------------------------------------------
RasterTask(t) ==
  \/ StartTask(t) \/ EndTask(t) \/ Draw(t) \/ DrawLastLayerTrees(t)
  \/ PrerollWithoutViews(t) \/ PrerollUnmerged(t) \/ PrerollMerged(t)
  \/ MergeWithLease(t) \/ SharedMergeWithLease(t) \/ ExtendLeaseTo(t) \/ SubmitFrame(t)
  \/ DecrementLease(t) \/ SharedDecrementLease(t)
  \/ Setup(t) \/ Teardown(t) \/ TeardownIsMerged(t) \/ UnMergeNowIfLastOne(t)

Next ==
  \/ \E kind \in {"draw", "drawLast"}, r \in Rasterizers, layers \in BOOLEAN :
       PostFrame(kind, r, layers)
  \/ \E t \in Threads : RasterTask(t)
  \/ \E r \in Rasterizers : OnPlatformViewDestroyed(r)
  \/ \E r \in Rasterizers : OnPlatformViewCreated(r)
  \/ RunTeardownNowOrPost \/ LatchWait \/ RunSetupNowOrPost

Spec == Init /\ [][Next]_vars

-----------------------------------------------------------------------------
(* Properties *)

\* The leases and the task queues agree: the queues are merged exactly as long
\* as some rasterizer's lease term is positive.  Otherwise the next Merge or
\* Unmerge fails its FML_CHECK, or the rasterizers draw on the wrong thread.
LeasesMatchQueues == merged <=> IsMerged

\* The state is well formed, and the leases and the queues agree in it as long as
\* the raster thread is in time.
MergerInv == TypeOK /\ (InTime => LeasesMatchQueues)

\* A frame with platform views is submitted on the platform thread, with the
\* threads still merged (external_view_embedder.cc:232: "the raster tasks are
\* handled on the platform thread"): a submission elsewhere would lose the views.
SubmittedOnPlatformThread ==
  \A t \in Threads :
    InTime /\ pc[t] = "submit" /\ task[t].layers => t = "platform" /\ IsMerged

\* The checks of the mergers hold: the queues can be merged or unmerged whenever
\* the shared merger tries to, and (shared_thread_merger.cc:60) "lease_term should
\* always be positive when merged", at every DecrementLease of every caller; a lease
\* is extended only while merged (shared_thread_merger.cc:81), and Teardown unmerges
\* with the merger enabled (rasterizer.cc:138).
ChecksHold ==
  InTime => \A t \in Threads :
              /\ pc[t] # "aborted"
              /\ pc[t] = "extend" /\ enabled => IsMerged
              /\ pc[t] = "unmerge" => enabled

\* raster_thread_merger.h:100: "Once disabled, any call to |MergeWithLease| or
\* |UnMergeNowIfLastOne| results in a noop": a shell that shows platform views and
\* disables its merger finds the threads as they stay, since the mutex of its merger
\* keeps a merge or an unmerge under way from outliving the call of Disable.
DisabledKeepsThreads ==
  [][(/\ InTime /\ ~enabled
      /\ task["platform"] # NoTask /\ task["platform"].r \in WithViews)
        => merged' = merged]_vars
=============================================================================
