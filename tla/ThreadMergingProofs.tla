------------------------- MODULE ThreadMergingProofs -------------------------
(***************************************************************************)
(* Dynamic thread merging with any number of rasterizers that share the    *)
(* merger, one of which draws platform views, for any lease term that is   *)
(* longer than the lag of the raster thread, any number of frames and any  *)
(* number of surfaces created and destroyed.  As long as the raster thread *)
(* is in time: the leases and the task queues agree, the checks of the     *)
(* mergers hold, platform views are submitted on the platform thread, and  *)
(* a merger that its shell disabled changes nothing.                       *)
(***************************************************************************)
EXTENDS ThreadMerging, TLAPS

P == pc["platform"]
R == pc["raster"]

\* Where the raster thread and the platform thread can be at all; without a task
\* of the raster queue of its own, the platform thread is at rest.
RasterStages == {"idle", "draw", "drawLast", "preroll", "merge", "merging", "submit",
                 "decrement", "decrementing", "end", "setup", "teardown", "tornDown"}
PlatformAtRest == {"idle", "end", "destroyed", "wait", "created"}
PlatformStages == PlatformAtRest \cup
                  {"draw", "drawLast", "preroll", "extend", "submit", "decrement",
                   "decrementing", "setup", "teardown", "tornDown", "unmerge"}

\* The raster thread after it merged the queues, and before that.
Overlapping == {"decrement", "decrementing"}
RasterAfterMerge == {"idle", "end"} \cup Overlapping

\* The stages of a frame that has not given its part of the lease back.
BeforeDecrement == {"draw", "drawLast", "preroll", "extend", "submit", "decrement",
                    "decrementing"}

\* The platform thread in a handler that disabled the merger, before its Enable.
InHandler == {"destroyed", "created", "teardown", "setup"}

\* Only r takes leases: a frame with platform views is one of r's.
Tasks(r) == {x \in Task : x.layers => x.r = r}
OnlyCaller(r) ==
  /\ \A x \in Rasterizers \ {r} : lease[x] = Absent
  /\ queue \in Seq(Tasks(r))
  /\ task \in [Threads -> Tasks(r) \cup {NoTask}]

\* A thread in the middle of something has a task.
HasTask == \A t \in Threads : pc[t] \notin {"idle", "wait"} => task[t] \in Task

\* The platform thread takes raster tasks only while merged, the raster thread
\* finishes the task that merged, which is one of r's.
StagesMatchQueues(r) ==
  /\ R \in RasterStages /\ P \in PlatformStages
  /\ merged => R \in RasterAfterMerge
  /\ ~merged => P \in PlatformAtRest
  /\ R = "decrementing" => merged
  /\ R = "submit" => ~task["raster"].layers
  /\ R \in {"merge", "merging"} => task["raster"].layers
  /\ P = "extend" => task["platform"].layers
  /\ merged /\ R \in Overlapping => task["raster"].r = r

\* mutex_ of r's merger: one thread at a time merges or decrements.
MutexHeld(r) ==
  ~(R \in {"merging", "decrementing"} /\ P = "decrementing" /\ task["platform"].r = r)

\* Disable comes from the platform thread, and not through r's merger while the
\* raster thread holds the mutex of that one.
DisabledInBetween(r) ==
  /\ P \in {"decrementing", "tornDown", "unmerge"} => enabled
  /\ ~enabled /\ R = "decrementing" => P \in InHandler
  /\ ~enabled /\ R \in {"merging", "decrementing"} /\ task["platform"] \in Task =>
       task["platform"].r # r

\* The lease outlives the raster thread's decrement: what the platform thread took
\* away in the meantime is bounded by the tasks it started.
LeaseOutlives(r) ==
  /\ lag <= MaxLag
  /\ ~merged /\ R \notin {"idle", "decrement", "end"} => lag = 0
  /\ merged /\ R \in Overlapping =>
       lease[r] >= LeaseTerm - lag + (IF P \in BeforeDecrement THEN 1 ELSE 0)

\* The inductive invariant, of a raster thread that is in time.
MergeInv(r) ==
  /\ TypeOK
  /\ merged <=> lease[r] > 0
  /\ OnlyCaller(r)
  /\ HasTask
  /\ StagesMatchQueues(r)
  /\ MutexHeld(r)
  /\ DisabledInBetween(r)
  /\ LeaseOutlives(r)

-----------------------------------------------------------------------------
(* Facts about one state *)

\* What the mergers answer: r's lease tells.
LEMMA OneLease ==
  ASSUME NEW r \in Rasterizers, MergeInv(r)
  PROVE  /\ IsMerged <=> merged
         /\ lease[r] \in Int
         /\ lease[r] <= LeaseTerm
<1>1. \A x \in Rasterizers : x # r => ~(lease[x] > 0)
  BY DEF MergeInv, OnlyCaller, Absent
<1>2. lease[r] \in 0..LeaseTerm \cup {Absent} /\ LeaseTerm \in Nat
  BY LeaseAssumption DEF MergeInv, TypeOK
<1> QED
  BY <1>1, <1>2 DEF MergeInv, IsMerged, Absent

\* The task of a thread in a stage of one.
LEMMA OwnTask ==
  ASSUME NEW r \in Rasterizers, MergeInv(r), NEW t \in Threads, pc[t] \notin {"idle", "wait"}
  PROVE  /\ task[t] \in Task /\ task[t] \in Tasks(r) /\ task[t].r \in Rasterizers
         /\ task[t].kind \in {"draw", "drawLast", "setup", "teardown"}
         /\ task[t].layers \in BOOLEAN /\ task[t].again \in BOOLEAN
         /\ task[t].layers => task[t].r = r
         /\ task \in [Threads -> Task \cup {NoTask}]
         /\ task \in [Threads -> Tasks(r) \cup {NoTask}]
<1>1. /\ task[t] \in Task /\ task \in [Threads -> Task \cup {NoTask}]
      /\ task \in [Threads -> Tasks(r) \cup {NoTask}]
  BY DEF MergeInv, HasTask, TypeOK, OnlyCaller
<1>2. /\ task[t].kind \in {"draw", "drawLast", "setup", "teardown"}
      /\ task[t].r \in Rasterizers /\ task[t].layers \in BOOLEAN /\ task[t].again \in BOOLEAN
  BY <1>1 DEF Task
<1>3. task[t] # NoTask
  BY <1>2 DEF NoTask
<1>4. task[t] \in Tasks(r)
  BY <1>1, <1>3
<1>5. task[t].layers => task[t].r = r
  BY <1>4 DEF Tasks
<1> QED
  BY <1>1, <1>2, <1>4, <1>5

\* Nobody holds the mutex of r's merger.
LEMMA MutexFree ==
  ASSUME NEW r \in Rasterizers, MergeInv(r), Unlocked(r)
  PROVE  /\ R \notin {"merging", "decrementing"}
         /\ P = "decrementing" => task["platform"].r # r
<1>1. R \in {"merging", "decrementing"} => task["raster"].r = r
  <2>1. CASE R = "merging"
    <3>1. task["raster"].layers
      BY <2>1 DEF MergeInv, StagesMatchQueues
    <3> QED
      BY <2>1, <3>1, OwnTask DEF R, Threads
  <2>2. CASE R = "decrementing"
    BY <2>2 DEF MergeInv, StagesMatchQueues, Overlapping
  <2> QED
    BY <2>1, <2>2
<1> QED
  BY <1>1 DEF Unlocked, Threads, P, R

\* A thread moves on.
LEMMA GoMoves ==
  ASSUME TypeOK, NEW t \in Threads, NEW s \in Stages, Go(t, s)
  PROVE  /\ pc' \in [Threads -> Stages]
         /\ t = "platform" => P' = s /\ R' = R
         /\ t = "raster" => R' = s /\ P' = P
<1>1. pc \in [Threads -> Stages]
  BY DEF TypeOK
<1>2. pc' = [pc EXCEPT ![t] = s]
  BY DEF Go
<1>3. pc' \in [Threads -> Stages]
  BY <1>1, <1>2
<1> QED
  BY <1>1, <1>2, <1>3 DEF Threads, P, R

\* The task of each thread where only that of t may have changed.
LEMMA TasksKept ==
  ASSUME TypeOK, HasTask, NEW t \in Threads, NEW s \in Stages, Go(t, s),
         task' \in [Threads -> Task \cup {NoTask}],
         \A u \in Threads \ {t} : task'[u] = task[u],
         s \notin {"idle", "wait"} => task'[t] \in Task
  PROVE  HasTask'
BY DEF HasTask, TypeOK, Go

\* Where a thread may go without touching the leases, the queues and the mutex.
MayMove(t, s) ==
  /\ t = "platform" => /\ s \in PlatformStages \ {"decrementing"}
                       /\ ~merged => s \in PlatformAtRest
                       /\ s \in BeforeDecrement => P \in BeforeDecrement
                       /\ s \in {"tornDown", "unmerge"} => enabled'
                       /\ P \in InHandler /\ merged => s \in InHandler \/ enabled'
                       /\ s = "extend" => task'["platform"].layers
  /\ t = "raster" => /\ s \in RasterStages \ {"merging", "decrementing"}
                     /\ merged => s \in {"idle", "end"}
                     /\ s \in {"idle", "decrement", "end"} \/ lag = 0
                     /\ s = "submit" => ~task'["raster"].layers
                     /\ s = "merge" => task'["raster"].layers

\* A thread keeps to the rasterizer of its task, or gives the task up.
SameRasterizer(t) ==
  task'[t] = NoTask \/ (task[t] \in Task /\ task'[t].r = task[t].r)

\* A step of a frame or of a surface task that leaves the leases, the queues and
\* the merger alone: the thread goes from one stage to another.
LEMMA QuietStep ==
  ASSUME NEW r \in Rasterizers, MergeInv(r), TypeOK', HasTask', OnlyCaller(r)',
         NEW t \in Threads, NEW s \in Stages, Go(t, s),
         UNCHANGED <<merged, lease, lag>>, enabled => enabled',
         MayMove(t, s), SameRasterizer(t),
         \A u \in Threads \ {t} : task'[u] = task[u]
  PROVE  MergeInv(r)'
<1>1. /\ t = "platform" => P' = s /\ R' = R
      /\ t = "raster" => R' = s /\ P' = P
  BY GoMoves DEF MergeInv
<1>2. \/ /\ t = "platform"
         /\ task'["raster"] = task["raster"]
      \/ /\ t = "raster"
         /\ task'["platform"] = task["platform"]
  BY DEF Threads
<1>3. StagesMatchQueues(r) /\ MutexHeld(r) /\ DisabledInBetween(r) /\ LeaseOutlives(r)
  BY DEF MergeInv
<1>4. StagesMatchQueues(r)'
  <2>1. CASE t = "platform"
    BY <1>1, <1>2, <1>3, <2>1 DEF MayMove, StagesMatchQueues
  <2>2. CASE t = "raster"
    BY <1>1, <1>2, <1>3, <2>2 DEF MayMove, StagesMatchQueues, Overlapping, RasterAfterMerge
  <2> QED
    BY <1>2, <2>1, <2>2
<1>5. MutexHeld(r)'
  BY <1>1, <1>2, <1>3 DEF MayMove, MutexHeld
<1>6. DisabledInBetween(r)'
  <2>1. CASE t = "platform"
    <3>1. P' \in {"decrementing", "tornDown", "unmerge"} => enabled'
      BY <1>1, <2>1 DEF MayMove
    <3>2. ~enabled' /\ R' = "decrementing" => P' \in InHandler
      BY <1>1, <1>3, <2>1 DEF MayMove, DisabledInBetween, StagesMatchQueues
    <3>3. ~enabled' /\ R' \in {"merging", "decrementing"} /\ task'["platform"] \in Task =>
            task'["platform"].r # r
      <4>1. task'["platform"] \in Task => task'["platform"] # NoTask
        <5>1. \A x \in Task : x.kind # "none"
          BY DEF Task
        <5> QED
          BY <5>1 DEF NoTask
      <4> QED
        BY <1>1, <1>3, <2>1, <4>1 DEF SameRasterizer, DisabledInBetween
    <3> QED
      BY <3>1, <3>2, <3>3 DEF DisabledInBetween
  <2>2. CASE t = "raster"
    BY <1>1, <1>2, <1>3, <2>2 DEF MayMove, DisabledInBetween
  <2> QED
    BY <1>2, <2>1, <2>2
<1>7. LeaseOutlives(r)'
  <2>1. lease[r] \in Int
    BY OneLease
  <2>2. LeaseOutlives(r) /\ lag \in Int /\ LeaseTerm \in Int
    BY LeaseAssumption DEF MergeInv, TypeOK
  <2>3. CASE t = "platform"
    BY <1>1, <2>1, <2>2, <2>3 DEF MayMove, LeaseOutlives
  <2>4. CASE t = "raster"
    BY <1>1, <2>1, <2>2, <2>4 DEF MayMove, LeaseOutlives, Overlapping
  <2> QED
    BY <1>2, <2>3, <2>4
<1> QED
  BY <1>4, <1>5, <1>6, <1>7 DEF MergeInv

\* The same of a step that also leaves the queue alone, by a thread with a task.
LEMMA StageStep ==
  ASSUME NEW r \in Rasterizers, MergeInv(r),
         NEW t \in Threads, pc[t] \notin {"idle", "wait"}, NEW s \in Stages, Go(t, s),
         UNCHANGED <<merged, lease, queue, attached, latch, lag, frames, switches>>,
         enabled' \in BOOLEAN, enabled => enabled',
         surface' \in [Rasterizers -> BOOLEAN], views' \in [Rasterizers -> BOOLEAN],
         task' \in [Threads -> Tasks(r) \cup {NoTask}], task'[t] \in Task,
         task'[t].r = task[t].r,
         \A u \in Threads \ {t} : task'[u] = task[u],
         MayMove(t, s)
  PROVE  MergeInv(r)'
<1>1. TypeOK /\ HasTask /\ OnlyCaller(r)
  BY DEF MergeInv
<1>2. pc' \in [Threads -> Stages]
  BY <1>1, GoMoves
<1>3. task' \in [Threads -> Task \cup {NoTask}]
  BY DEF Tasks
<1>4. TypeOK'
  BY <1>1, <1>2, <1>3 DEF TypeOK
<1>5. HasTask'
  BY <1>1, <1>3, TasksKept
<1>6. OnlyCaller(r)'
  BY <1>1 DEF OnlyCaller
<1>7. SameRasterizer(t)
  BY OwnTask DEF SameRasterizer
<1> QED
  BY <1>4, <1>5, <1>6, <1>7, QuietStep

\* A thread that takes a raster task serves the queues as they are.
LEMMA Busy ==
  ASSUME NEW r \in Rasterizers, MergeInv(r)
  PROVE  /\ P \notin PlatformAtRest => merged
         /\ R \notin RasterAfterMerge => ~merged /\ lag = 0
         /\ P \in PlatformStages /\ R \in RasterStages
BY DEF MergeInv, StagesMatchQueues, LeaseOutlives, RasterAfterMerge, Overlapping

-----------------------------------------------------------------------------
(* The queue of the raster tasks *)

LEMMA PostFrameStep ==
  ASSUME NEW r \in Rasterizers, WithViews \subseteq {r}, MergeInv(r),
         NEW kind \in {"draw", "drawLast"}, NEW x \in Rasterizers, NEW layers \in BOOLEAN,
         PostFrame(kind, x, layers)
  PROVE  MergeInv(r)'
<1>1. /\ NewTask(kind, x, layers) \in Task
      /\ NewTask(kind, x, layers).layers => NewTask(kind, x, layers).r = r
  BY DEF NewTask, Task, PostFrame
<1>2. NewTask(kind, x, layers) \in Tasks(r)
  BY <1>1 DEF Tasks
<1>3. TypeOK'
  BY <1>1 DEF PostFrame, MergeInv, TypeOK
<1>4. OnlyCaller(r)'
  BY <1>2 DEF PostFrame, MergeInv, OnlyCaller
<1> QED
  BY <1>3, <1>4 DEF PostFrame, MergeInv, HasTask, StagesMatchQueues, MutexHeld,
       DisabledInBetween, LeaseOutlives, P, R

LEMMA StartStep ==
  ASSUME NEW r \in Rasterizers, MergeInv(r), InTime', NEW t \in Threads, StartTask(t)
  PROVE  MergeInv(r)'
<1> DEFINE x == Head(queue)
<1>1. x \in Tasks(r) /\ Tail(queue) \in Seq(Tasks(r))
  BY DEF StartTask, MergeInv, OnlyCaller
<1>2. x \in Task /\ Tail(queue) \in Seq(Task)
  BY <1>1 DEF StartTask, MergeInv, TypeOK, Tasks
<1>3. x.kind \in {"draw", "drawLast", "setup", "teardown"}
  BY <1>2 DEF Task
<1>4. x.kind \in Stages /\ TypeOK /\ Go(t, x.kind)
  BY <1>3 DEF Stages, MergeInv, StartTask
<1>5. /\ pc' \in [Threads -> Stages]
      /\ t = "platform" => P' = x.kind /\ R' = R
      /\ t = "raster" => R' = x.kind /\ P' = P
  BY <1>4, GoMoves
<1>6. /\ task' = [task EXCEPT ![t] = x]
      /\ task' \in [Threads -> Task \cup {NoTask}]
      /\ task' \in [Threads -> Tasks(r) \cup {NoTask}]
      /\ \A u \in Threads \ {t} : task'[u] = task[u]
      /\ task'[t] \in Task
  BY <1>1, <1>2 DEF StartTask, MergeInv, TypeOK, OnlyCaller
<1>7. /\ lag' = IF t = "platform" /\ R # "idle" THEN lag + 1 ELSE 0
      /\ lag' <= MaxLag /\ lag' \in Nat
  BY DEF StartTask, MergeInv, TypeOK, LeaseOutlives, InTime, R
<1>8. TypeOK'
  BY <1>2, <1>5, <1>6, <1>7 DEF StartTask, MergeInv, TypeOK
<1>9. HasTask' /\ OnlyCaller(r)'
  <2>1. HasTask /\ OnlyCaller(r)
    BY DEF MergeInv
  <2>2. HasTask'
    BY <1>4, <1>6, <2>1, TasksKept
  <2>3. OnlyCaller(r)'
    BY <1>1, <1>6, <2>1 DEF OnlyCaller, StartTask
  <2> QED
    BY <2>2, <2>3
<1>10. /\ pc[t] = "idle" /\ UNCHANGED <<merged, lease, enabled>>
       /\ t = "platform" <=> merged
       /\ \/ /\ t = "platform"
             /\ task'["raster"] = task["raster"]
          \/ /\ t = "raster"
             /\ task'["platform"] = task["platform"]
  BY <1>6 DEF StartTask, RunsRasterTasks, Threads
<1>11. StagesMatchQueues(r) /\ MutexHeld(r) /\ DisabledInBetween(r)
  BY DEF MergeInv
<1> HIDE DEF x
<1>12. StagesMatchQueues(r)'
  <2>1. CASE t = "platform"
    <3>1. x.kind \in PlatformStages /\ x.kind # "extend"
      BY <1>3 DEF PlatformStages
    <3> QED
      BY <1>5, <1>10, <1>11, <2>1, <3>1 DEF StagesMatchQueues
  <2>2. CASE t = "raster"
    <3>1. x.kind \in RasterStages /\ x.kind \notin {"submit", "merge", "merging", "decrementing"} \cup Overlapping
      BY <1>3 DEF RasterStages, Overlapping
    <3> QED
      BY <1>5, <1>10, <1>11, <2>2, <3>1 DEF StagesMatchQueues
  <2> QED
    BY <1>10, <2>1, <2>2
<1>13. MutexHeld(r)'
  BY <1>3, <1>5, <1>10, <1>11 DEF MutexHeld
<1>14. DisabledInBetween(r)'
  <2>1. CASE t = "platform"
    <3>1. P = "idle" /\ P' \notin {"decrementing", "tornDown", "unmerge"} /\ R' = R
      BY <1>3, <1>5, <1>10, <2>1 DEF P
    <3>2. merged /\ R # "merging"
      BY <1>10, <1>11, <2>1 DEF StagesMatchQueues, RasterAfterMerge, Overlapping
    <3>3. ~enabled => R # "decrementing"
      BY <1>11, <3>1 DEF DisabledInBetween, InHandler
    <3> QED
      BY <1>10, <3>1, <3>2, <3>3 DEF DisabledInBetween
  <2>2. CASE t = "raster"
    BY <1>3, <1>5, <1>10, <1>11, <2>2 DEF DisabledInBetween
  <2> QED
    BY <1>10, <2>1, <2>2
<1>15. LeaseOutlives(r)'
  <2>1. lease[r] \in Int
    BY OneLease
  <2>2. LeaseOutlives(r) /\ lag \in Int /\ LeaseTerm \in Int
    BY LeaseAssumption DEF MergeInv, TypeOK
  <2>3. CASE t = "platform"
    <3>1. pc["platform"] = "idle" /\ P \notin BeforeDecrement
      BY <1>10, <2>3 DEF P, BeforeDecrement
    <3> QED
      BY <1>5, <1>7, <1>10, <2>1, <2>2, <2>3, <3>1 DEF LeaseOutlives, Overlapping
  <2>4. CASE t = "raster"
    BY <1>5, <1>7, <1>10, <2>4 DEF LeaseOutlives
  <2> QED
    BY <1>10, <2>3, <2>4
<1> QED
  BY <1>8, <1>9, <1>10, <1>12, <1>13, <1>14, <1>15 DEF MergeInv

LEMMA EndStep ==
  ASSUME NEW r \in Rasterizers, MergeInv(r), NEW t \in Threads, EndTask(t)
  PROVE  MergeInv(r)'
<1> DEFINE s == IF t = "platform" /\ task[t].kind = "teardown" THEN "wait" ELSE "idle"
<1>0. pc[t] = "end"
  BY DEF EndTask
<1>1. /\ task[t] \in Task /\ task[t].r \in Rasterizers /\ task[t].layers \in BOOLEAN
      /\ task[t].layers => task[t].r = r
  BY <1>0, OwnTask
<1>2. /\ NewTask("draw", task[t].r, task[t].layers) \in Task
      /\ NewTask("draw", task[t].r, task[t].layers) \in Tasks(r)
  BY <1>1 DEF NewTask, Task, Tasks
<1>3. queue' \in Seq(Task) /\ queue' \in Seq(Tasks(r))
  BY <1>2 DEF EndTask, MergeInv, TypeOK, OnlyCaller
<1>4. s \in Stages /\ TypeOK /\ Go(t, s)
  BY DEF Stages, MergeInv, EndTask
<1>5. pc' \in [Threads -> Stages]
  BY <1>4, GoMoves
<1>6. /\ task' \in [Threads -> Task \cup {NoTask}]
      /\ task' \in [Threads -> Tasks(r) \cup {NoTask}]
      /\ \A u \in Threads \ {t} : task'[u] = task[u]
      /\ SameRasterizer(t)
  BY DEF EndTask, MergeInv, TypeOK, OnlyCaller, SameRasterizer
<1>7. latch' \in BOOLEAN
  BY DEF EndTask
<1>8. TypeOK'
  BY <1>3, <1>5, <1>6, <1>7 DEF EndTask, MergeInv, TypeOK
<1>9. HasTask'
  BY <1>4, <1>6, TasksKept DEF MergeInv
<1>10. UNCHANGED <<merged, lease, enabled, lag>>
  BY DEF EndTask
<1>11. OnlyCaller(r)'
  BY <1>3, <1>6, <1>10 DEF MergeInv, OnlyCaller
<1>12. t = "platform" => P \notin InHandler
  BY <1>0 DEF InHandler, P
<1>13. MayMove(t, s)
  BY <1>12 DEF MayMove, PlatformStages, PlatformAtRest, BeforeDecrement, RasterStages
<1> HIDE DEF s
<1> QED
  BY <1>4, <1>6, <1>8, <1>9, <1>10, <1>11, <1>13, QuietStep

-----------------------------------------------------------------------------
(* A frame *)

LEMMA DrawStep ==
  ASSUME NEW r \in Rasterizers, MergeInv(r), NEW t \in Threads,
         Draw(t) \/ DrawLastLayerTrees(t)
  PROVE  MergeInv(r)'
<1>1. PICK s \in {"preroll", "end"} : Go(t, s)
  BY DEF Draw, DrawLastLayerTrees
<1>2. pc[t] \in {"draw", "drawLast"}
  BY DEF Draw, DrawLastLayerTrees
<1>3. MayMove(t, s)
  BY <1>2, Busy DEF MayMove, PlatformStages, PlatformAtRest, BeforeDecrement, RasterStages,
       RasterAfterMerge, Overlapping, InHandler, P, R
<1>4. UNCHANGED <<merged, lease, enabled, queue, task, surface, attached, views, latch,
                  lag, frames, switches>>
  BY DEF Draw, DrawLastLayerTrees
<1>5. surface \in [Rasterizers -> BOOLEAN] /\ views \in [Rasterizers -> BOOLEAN] /\ enabled \in BOOLEAN
  BY DEF MergeInv, TypeOK
<1>6. task[t] \in Task /\ task \in [Threads -> Tasks(r) \cup {NoTask}]
  BY <1>2, OwnTask
<1>7. s \in Stages
  BY DEF Stages
<1> QED
  BY <1>1, <1>2, <1>3, <1>4, <1>5, <1>6, <1>7, StageStep

\* A frame keeps its rasterizer and its layers when it is marked for resubmission.
LEMMA AgainTask ==
  ASSUME NEW r \in Rasterizers, MergeInv(r), NEW t \in Threads, pc[t] \notin {"idle", "wait"},
         NEW b \in BOOLEAN, task' = [task EXCEPT ![t].again = b]
  PROVE  /\ task' \in [Threads -> Tasks(r) \cup {NoTask}] /\ task'[t] \in Task
         /\ task'[t].r = task[t].r /\ task'[t].layers = task[t].layers
         /\ \A u \in Threads \ {t} : task'[u] = task[u]
<1>1. /\ task[t] \in Task /\ task[t] \in Tasks(r)
      /\ task \in [Threads -> Tasks(r) \cup {NoTask}]
  BY OwnTask
<1> DEFINE x == [task[t] EXCEPT !.again = b]
<1>2. x \in Task /\ x.r = task[t].r /\ x.layers = task[t].layers
  BY <1>1 DEF Task
<1>3. x \in Tasks(r)
  BY <1>1, <1>2 DEF Tasks
<1>4. task' = [task EXCEPT ![t] = x]
  OBVIOUS
<1> HIDE DEF x
<1> QED
  BY <1>1, <1>2, <1>3, <1>4

LEMMA PrerollStep ==
  ASSUME NEW r \in Rasterizers, MergeInv(r), NEW t \in Threads,
         PrerollWithoutViews(t) \/ PrerollUnmerged(t) \/ PrerollMerged(t)
  PROVE  MergeInv(r)'
<1>1. /\ pc[t] = "preroll"
      /\ UNCHANGED <<merged, lease, enabled, queue, surface, attached, latch, lag, frames, switches>>
  BY DEF PrerollWithoutViews, PrerollUnmerged, PrerollMerged
<1>2. /\ task[t] \in Task /\ task \in [Threads -> Tasks(r) \cup {NoTask}]
      /\ task[t].r \in Rasterizers
  BY <1>1, OwnTask
<1>3. /\ surface \in [Rasterizers -> BOOLEAN] /\ views \in [Rasterizers -> BOOLEAN]
      /\ enabled \in BOOLEAN
  BY DEF MergeInv, TypeOK
<1>4. views' \in [Rasterizers -> BOOLEAN]
  BY <1>2, <1>3 DEF PrerollWithoutViews, PrerollUnmerged, PrerollMerged
<1>5. CASE PrerollWithoutViews(t)
  <2>1. Go(t, "submit") /\ task' = task /\ ~task[t].layers
    BY <1>5 DEF PrerollWithoutViews
  <2>2. MayMove(t, "submit") /\ "submit" \in Stages
    BY <1>1, <2>1, Busy DEF MayMove, PlatformStages, PlatformAtRest, BeforeDecrement, RasterStages,
         RasterAfterMerge, Overlapping, InHandler, P, R, Stages
  <2> QED
    BY <1>1, <1>2, <1>3, <1>4, <2>1, <2>2, StageStep
<1>6. CASE PrerollUnmerged(t)
  <2>1. Go(t, "merge") /\ task' = [task EXCEPT ![t].again = TRUE] /\ ~merged /\ task[t].layers
    BY <1>6, OneLease DEF PrerollUnmerged
  <2>2. /\ task' \in [Threads -> Tasks(r) \cup {NoTask}] /\ task'[t] \in Task
        /\ task'[t].r = task[t].r /\ task'[t].layers = task[t].layers
        /\ \A u \in Threads \ {t} : task'[u] = task[u]
    BY <1>1, <2>1, AgainTask
  <2>3. MayMove(t, "merge") /\ "merge" \in Stages
    BY <1>1, <2>1, <2>2, Busy DEF MayMove, PlatformStages, PlatformAtRest, BeforeDecrement,
         RasterStages, RasterAfterMerge, Overlapping, InHandler, P, R, Stages, Threads
  <2> QED
    BY <1>1, <1>3, <1>4, <2>1, <2>2, <2>3, StageStep
<1>7. CASE PrerollMerged(t)
  <2>1. /\ Go(t, "extend") /\ task' = [task EXCEPT ![t].again = ~views[task[t].r]]
        /\ merged /\ (~views[task[t].r]) \in BOOLEAN /\ task[t].layers
    BY <1>2, <1>3, <1>7, OneLease DEF PrerollMerged
  <2>2. /\ task' \in [Threads -> Tasks(r) \cup {NoTask}] /\ task'[t] \in Task
        /\ task'[t].r = task[t].r /\ task'[t].layers = task[t].layers
        /\ \A u \in Threads \ {t} : task'[u] = task[u]
    BY <1>1, <2>1, AgainTask
  <2>3. MayMove(t, "extend") /\ "extend" \in Stages
    BY <1>1, <2>1, <2>2, Busy DEF MayMove, PlatformStages, PlatformAtRest, BeforeDecrement,
         RasterStages, RasterAfterMerge, Overlapping, InHandler, P, R, Stages, Threads
  <2> QED
    BY <1>1, <1>3, <1>4, <2>1, <2>2, <2>3, StageStep
<1> QED
  BY <1>5, <1>6, <1>7

LEMMA SubmitStep ==
  ASSUME NEW r \in Rasterizers, MergeInv(r), NEW t \in Threads, SubmitFrame(t)
  PROVE  MergeInv(r)'
<1>1. PICK s \in {"decrement", "end"} : Go(t, s)
  BY DEF SubmitFrame, AfterFrame
<1>2. /\ pc[t] = "submit"
      /\ UNCHANGED <<merged, lease, enabled, queue, task, surface, attached, views, latch,
                     lag, frames, switches>>
  BY DEF SubmitFrame
<1>3. MayMove(t, s)
  BY <1>2, Busy DEF MayMove, PlatformStages, PlatformAtRest, BeforeDecrement, RasterStages,
       RasterAfterMerge, Overlapping, InHandler, P, R
<1>4. surface \in [Rasterizers -> BOOLEAN] /\ views \in [Rasterizers -> BOOLEAN] /\ enabled \in BOOLEAN
  BY DEF MergeInv, TypeOK
<1>5. task[t] \in Task /\ task \in [Threads -> Tasks(r) \cup {NoTask}]
  BY <1>2, OwnTask
<1>6. s \in Stages
  BY DEF Stages
<1> QED
  BY <1>1, <1>2, <1>3, <1>4, <1>5, <1>6, StageStep

-----------------------------------------------------------------------------
(* The surface *)

LEMMA SurfaceStep ==
  ASSUME NEW r \in Rasterizers, MergeInv(r), NEW t \in Threads,
         Setup(t) \/ Teardown(t) \/ TeardownIsMerged(t)
  PROVE  MergeInv(r)'
<1>1. pc[t] \in {"setup", "teardown", "tornDown"}
  BY DEF Setup, Teardown, TeardownIsMerged
<1>2. IsMerged <=> merged
  BY OneLease
<1>3. task[t] \in Task /\ task \in [Threads -> Tasks(r) \cup {NoTask}] /\ task[t].r \in Rasterizers
  BY <1>1, OwnTask
<1>4. surface \in [Rasterizers -> BOOLEAN] /\ views \in [Rasterizers -> BOOLEAN] /\ enabled \in BOOLEAN
  BY DEF MergeInv, TypeOK
<1>5. UNCHANGED <<merged, lease, queue, task, attached, views, latch, lag, frames, switches>>
  BY DEF Setup, Teardown, TeardownIsMerged
<1>6. surface' \in [Rasterizers -> BOOLEAN] /\ enabled' \in BOOLEAN /\ (enabled => enabled')
  BY <1>3, <1>4 DEF Setup, Teardown, TeardownIsMerged
<1>7. t = "platform" => enabled'
  <2>1. t = "platform" /\ pc[t] = "tornDown" => enabled
    BY DEF MergeInv, DisabledInBetween, P
  <2> QED
    BY <2>1 DEF Setup, Teardown, TeardownIsMerged
<1>8. PICK s \in {"end", "tornDown", "unmerge"} : Go(t, s) /\ (s = "unmerge" => merged)
  BY <1>2 DEF Setup, Teardown, TeardownIsMerged
<1>9. MayMove(t, s)
  BY <1>1, <1>7, <1>8, Busy DEF MayMove, PlatformStages, PlatformAtRest, BeforeDecrement,
       RasterStages, RasterAfterMerge, Overlapping, P, R
<1>10. s \in Stages
  BY DEF Stages
<1> QED
  BY <1>1, <1>3, <1>4, <1>5, <1>6, <1>8, <1>9, <1>10, StageStep

-----------------------------------------------------------------------------
(* The lease *)

\* A step that takes the mutex: the thread goes on to the shared merger.
LEMMA LockStep ==
  ASSUME NEW r \in Rasterizers, MergeInv(r), enabled,
         NEW t \in Threads, NEW s \in {"merging", "decrementing"}, Go(t, s),
         Unlocked(task[t].r),
         pc[t] \in {"merge", "decrement"},
         s = "merging" => pc[t] = "merge" /\ ~merged,
         s = "decrementing" => pc[t] = "decrement" /\ merged,
         UNCHANGED <<merged, lease, enabled, queue, task, surface, attached, views, latch,
                     lag, frames, switches>>
  PROVE  MergeInv(r)'
<1>1. TypeOK /\ s \in Stages
  BY DEF MergeInv, Stages
<1>2. /\ pc' \in [Threads -> Stages]
      /\ t = "platform" => P' = s /\ R' = R
      /\ t = "raster" => R' = s /\ P' = P
  BY <1>1, GoMoves
<1>3. t = "platform" \/ t = "raster"
  BY DEF Threads
<1>4. TypeOK' /\ OnlyCaller(r)'
  BY <1>1, <1>2 DEF TypeOK, MergeInv, OnlyCaller
<1>5. HasTask'
  <2>1. HasTask /\ task[t] \in Task
    BY DEF MergeInv, HasTask
  <2>2. task' \in [Threads -> Task \cup {NoTask}] /\ task'[t] \in Task
        /\ \A u \in Threads \ {t} : task'[u] = task[u]
    BY <1>4, <2>1 DEF TypeOK
  <2> QED
    BY <1>1, <2>1, <2>2, TasksKept
<1>6. StagesMatchQueues(r) /\ MutexHeld(r) /\ DisabledInBetween(r) /\ LeaseOutlives(r)
  BY DEF MergeInv
<1>7. t = "platform" => s = "decrementing" /\ P = "decrement"
  BY <1>6 DEF StagesMatchQueues, PlatformStages, PlatformAtRest, P
<1>8. t = "raster" => task["raster"].r = r
  <2>1. CASE t = "raster" /\ s = "merging"
    <3>1. task[t].layers
      BY <1>6, <2>1 DEF StagesMatchQueues, R
    <3> QED
      BY <2>1, <3>1, OwnTask
  <2>2. CASE t = "raster" /\ s = "decrementing"
    BY <1>6, <2>2 DEF StagesMatchQueues, Overlapping, R
  <2> QED
    BY <2>1, <2>2
<1>9. /\ R = "merging" => FALSE
      /\ t = "raster" => ~(P = "decrementing" /\ task["platform"].r = r)
      /\ t = "platform" /\ task["platform"].r = r => R # "decrementing"
  <2>1. t = "raster" => /\ R # "merging"
                        /\ ~(P = "decrementing" /\ task["platform"].r = r)
    BY <1>8, MutexFree
  <2>2. t = "platform" => merged
    BY <1>7
  <2>3. t = "platform" /\ task["platform"].r = r => R # "decrementing"
    BY MutexFree
  <2> QED
    BY <1>3, <1>6, <2>1, <2>2, <2>3 DEF StagesMatchQueues, RasterAfterMerge, Overlapping
<1>10. StagesMatchQueues(r)'
  <2>1. CASE t = "platform"
    BY <1>2, <1>6, <1>7, <2>1 DEF StagesMatchQueues, PlatformStages
  <2>2. CASE t = "raster"
    BY <1>2, <1>6, <1>8, <2>2 DEF StagesMatchQueues, RasterStages, RasterAfterMerge, Overlapping, R
  <2> QED
    BY <1>3, <2>1, <2>2
<1>11. MutexHeld(r)'
  BY <1>2, <1>3, <1>7, <1>9 DEF MutexHeld
<1>12. DisabledInBetween(r)'
  BY DEF DisabledInBetween
<1>13. LeaseOutlives(r)'
  BY <1>2, <1>3, <1>6, <1>7 DEF LeaseOutlives, Overlapping, BeforeDecrement, R
<1> QED
  BY <1>4, <1>5, <1>6, <1>10, <1>11, <1>12, <1>13 DEF MergeInv

LEMMA MergeStep ==
  ASSUME NEW r \in Rasterizers, MergeInv(r), NEW t \in Threads, MergeWithLease(t)
  PROVE  MergeInv(r)'
<1>1. /\ pc[t] = "merge" /\ Unlocked(task[t].r)
      /\ UNCHANGED <<merged, lease, enabled, queue, task, surface, attached, views, latch,
                     lag, frames, switches>>
  BY DEF MergeWithLease
<1>2. task[t] \in Task /\ task \in [Threads -> Tasks(r) \cup {NoTask}]
  BY <1>1, OwnTask
<1>3. IsMerged <=> merged
  BY OneLease
<1>4. CASE enabled /\ ~IsMerged
  <2>1. Go(t, "merging")
    BY <1>4 DEF MergeWithLease
  <2> QED
    BY <1>1, <1>3, <1>4, <2>1, LockStep
<1>5. CASE ~(enabled /\ ~IsMerged)
  <2>1. PICK s \in {"decrement", "end"} : Go(t, s)
    BY <1>5 DEF MergeWithLease, AfterFrame
  <2>2. MayMove(t, s)
    BY <1>1, Busy DEF MayMove, PlatformStages, PlatformAtRest, BeforeDecrement, RasterStages,
         RasterAfterMerge, Overlapping, InHandler, P, R
  <2>3. surface \in [Rasterizers -> BOOLEAN] /\ views \in [Rasterizers -> BOOLEAN] /\ enabled \in BOOLEAN
    BY DEF MergeInv, TypeOK
  <2>4. s \in Stages
    BY DEF Stages
  <2> QED
    BY <1>1, <1>2, <2>1, <2>2, <2>3, <2>4, StageStep
<1> QED
  BY <1>4, <1>5

LEMMA DecrementStep ==
  ASSUME NEW r \in Rasterizers, MergeInv(r), NEW t \in Threads, DecrementLease(t)
  PROVE  MergeInv(r)'
<1>1. /\ pc[t] = "decrement" /\ Unlocked(task[t].r)
      /\ UNCHANGED <<merged, lease, enabled, queue, task, surface, attached, views, latch,
                     lag, frames, switches>>
  BY DEF DecrementLease
<1>2. task[t] \in Task /\ task \in [Threads -> Tasks(r) \cup {NoTask}]
  BY <1>1, OwnTask
<1>3. IsMerged <=> merged
  BY OneLease
<1>4. CASE IsMerged /\ enabled
  <2>1. Go(t, "decrementing")
    BY <1>4 DEF DecrementLease
  <2> QED
    BY <1>1, <1>3, <1>4, <2>1, LockStep
<1>5. CASE ~(IsMerged /\ enabled)
  <2>1. Go(t, "end")
    BY <1>5 DEF DecrementLease
  <2>2. MayMove(t, "end")
    BY <1>1, Busy DEF MayMove, PlatformStages, PlatformAtRest, BeforeDecrement, RasterStages,
         RasterAfterMerge, Overlapping, InHandler, P, R
  <2>3. surface \in [Rasterizers -> BOOLEAN] /\ views \in [Rasterizers -> BOOLEAN] /\ enabled \in BOOLEAN
    BY DEF MergeInv, TypeOK
  <2>4. "end" \in Stages
    BY DEF Stages
  <2> QED
    BY <1>1, <1>2, <2>1, <2>2, <2>3, <2>4, StageStep
<1> QED
  BY <1>4, <1>5

\* The steps of the shared merger, and ExtendLeaseTo: r's lease changes, and with it
\* possibly the queues; the thread goes on to s.
LEMMA LeaseStep ==
  ASSUME NEW r \in Rasterizers, MergeInv(r),
         NEW t \in Threads, pc[t] \notin {"idle", "wait"},
         NEW s \in {"submit", "decrement", "end"}, Go(t, s),
         NEW l \in 0 .. LeaseTerm \cup {Absent}, lease' = [lease EXCEPT ![r] = l],
         merged' \in BOOLEAN, merged' <=> l > 0,
         t = "platform" => P \notin InHandler,
         UNCHANGED <<enabled, queue, task, surface, attached, views, latch,
                     lag, frames, switches>>
  PROVE  /\ StagesMatchQueues(r)' /\ LeaseOutlives(r)' => MergeInv(r)'
         /\ lease'[r] = l
         /\ \A x \in Rasterizers \ {r} : lease'[x] = Absent
         /\ t = "platform" => P' = s /\ R' = R
         /\ t = "raster" => R' = s /\ P' = P
<1>1. TypeOK /\ OnlyCaller(r) /\ s \in Stages
  BY DEF MergeInv, Stages
<1>2. /\ pc' \in [Threads -> Stages]
      /\ t = "platform" => P' = s /\ R' = R
      /\ t = "raster" => R' = s /\ P' = P
  BY <1>1, GoMoves
<1>3. /\ lease'[r] = l /\ lease' \in [Rasterizers -> 0..LeaseTerm \cup {Absent}]
      /\ \A x \in Rasterizers \ {r} : lease'[x] = Absent
  BY <1>1 DEF TypeOK, OnlyCaller
<1>4. TypeOK' /\ OnlyCaller(r)'
  BY <1>1, <1>2, <1>3 DEF TypeOK, OnlyCaller
<1>5. HasTask'
  <2>1. HasTask /\ task[t] \in Task
    BY DEF MergeInv, HasTask
  <2>2. task' \in [Threads -> Task \cup {NoTask}] /\ task'[t] \in Task
        /\ \A u \in Threads \ {t} : task'[u] = task[u]
    BY <1>4, <2>1 DEF TypeOK
  <2> QED
    BY <1>1, <2>1, <2>2, TasksKept
<1>6. t = "platform" \/ t = "raster"
  BY DEF Threads
<1>7. MutexHeld(r)'
  BY <1>2, <1>6 DEF MergeInv, MutexHeld
<1>8. DisabledInBetween(r)'
  BY <1>2, <1>6 DEF MergeInv, DisabledInBetween
<1> QED
  BY <1>2, <1>3, <1>4, <1>5, <1>7, <1>8 DEF MergeInv

\* After such a step IsMerged asks for r's lease.
LEMMA OneLeaseNext ==
  ASSUME NEW r \in Rasterizers, \A x \in Rasterizers \ {r} : lease'[x] = Absent
  PROVE  IsMerged' <=> lease'[r] > 0
BY DEF IsMerged, Absent

LEMMA SharedMergeStep ==
  ASSUME NEW r \in Rasterizers, MergeInv(r), NEW t \in Threads, SharedMergeWithLease(t)
  PROVE  MergeInv(r)'
<1>1. pc[t] = "merging"
  BY DEF SharedMergeWithLease
<1>2. StagesMatchQueues(r) /\ LeaseOutlives(r) /\ TypeOK
  BY DEF MergeInv
<1>3. t = "raster" /\ R = "merging"
  BY <1>1, <1>2 DEF StagesMatchQueues, PlatformStages, PlatformAtRest, Threads, P, R
<1>4. ~merged /\ lag = 0
  BY <1>3, Busy DEF RasterAfterMerge, Overlapping
<1>5. task["raster"].layers
  BY <1>2, <1>3 DEF StagesMatchQueues
<1>6. ~IsMerged /\ task[t].r = r
  BY <1>1, <1>3, <1>4, <1>5, OneLease, OwnTask
<1>7. PICK s \in {"decrement", "end"} : Go(t, s)
  BY <1>4 DEF SharedMergeWithLease, AfterFrame
<1>8. /\ lease' = [lease EXCEPT ![r] = LeaseTerm] /\ merged' = TRUE
      /\ UNCHANGED <<enabled, queue, task, surface, attached, views, latch,
                     lag, frames, switches>>
  BY <1>6 DEF SharedMergeWithLease
<1>9. LeaseTerm \in 0 .. LeaseTerm \cup {Absent} /\ LeaseTerm > 0 /\ LeaseTerm \in Nat
  BY LeaseAssumption
<1>10. /\ StagesMatchQueues(r)' /\ LeaseOutlives(r)' => MergeInv(r)'
       /\ lease'[r] = LeaseTerm /\ R' = s /\ P' = P
  <2>1. merged' \in BOOLEAN /\ (merged' <=> LeaseTerm > 0)
    <3>1. merged' = TRUE /\ LeaseTerm > 0
      BY <1>8, <1>9
    <3>2. (LeaseTerm > 0) = TRUE
      BY <3>1
    <3> QED
      BY <3>1, <3>2
  <2>2. UNCHANGED <<enabled, queue, task, surface, attached, views, latch,
                    lag, frames, switches>>
    BY <1>8
  <2>3. t # "platform" /\ pc[t] \notin {"idle", "wait"}
    BY <1>1, <1>3
  <2>4. CASE s = "decrement"
    <3>1. Go(t, "decrement")
      BY <1>7, <2>4
    <3> QED
      BY <1>3, <1>8, <1>9, <2>1, <2>2, <2>3, <2>4, <3>1, LeaseStep
  <2>5. CASE s = "end"
    <3>1. Go(t, "end")
      BY <1>7, <2>5
    <3> QED
      BY <1>3, <1>8, <1>9, <2>1, <2>2, <2>3, <2>5, <3>1, LeaseStep
  <2> QED
    BY <2>4, <2>5
<1>11. P \in PlatformAtRest
  BY <1>2, <1>4 DEF StagesMatchQueues
<1>12. StagesMatchQueues(r)'
  <2>1. task'["raster"].r = r
    BY <1>3, <1>6, <1>8
  <2> QED
    BY <1>2, <1>8, <1>10, <1>11, <2>1 DEF StagesMatchQueues, RasterAfterMerge, RasterStages,
         Overlapping, PlatformAtRest
<1>13. LeaseOutlives(r)'
  BY <1>2, <1>4, <1>8, <1>9, <1>10, <1>11 DEF LeaseOutlives, PlatformAtRest, BeforeDecrement
<1> QED
  BY <1>10, <1>12, <1>13

LEMMA ExtendStep ==
  ASSUME NEW r \in Rasterizers, MergeInv(r), NEW t \in Threads, ExtendLeaseTo(t)
  PROVE  MergeInv(r)'
<1>1. /\ pc[t] = "extend" /\ Go(t, "submit")
      /\ UNCHANGED <<merged, enabled, queue, task, surface, attached, views, latch,
                     lag, frames, switches>>
  BY DEF ExtendLeaseTo
<1>2. StagesMatchQueues(r) /\ LeaseOutlives(r) /\ TypeOK
  BY DEF MergeInv
<1>3. t = "platform" /\ P = "extend"
  BY <1>1, <1>2 DEF StagesMatchQueues, RasterStages, Threads, P, R
<1>4. merged /\ task["platform"].layers
  BY <1>2, <1>3, Busy DEF PlatformAtRest, StagesMatchQueues
<1>5. task[t].r = r
  BY <1>1, <1>3, <1>4, OwnTask
<1>6. PICK l \in {lease[r], LeaseTerm} : lease' = [lease EXCEPT ![r] = l]
  <2>1. lease = [lease EXCEPT ![r] = lease[r]]
    BY <1>2 DEF TypeOK
  <2> QED
    BY <1>5, <2>1 DEF ExtendLeaseTo
<1>7. /\ l \in 0 .. LeaseTerm \cup {Absent} /\ l > 0 /\ l >= lease[r]
      /\ l \in Int /\ lease[r] \in Int
  <2>1. lease[r] \in 0 .. LeaseTerm \cup {Absent} /\ lease[r] > 0
    BY <1>2, <1>4 DEF MergeInv, TypeOK
  <2>2. lease[r] \in 0 .. LeaseTerm
    BY <2>1 DEF Absent
  <2>3. LeaseTerm \in Nat /\ LeaseTerm > 0
    BY LeaseAssumption
  <2> QED
    BY <2>1, <2>2, <2>3
<1>8. /\ StagesMatchQueues(r)' /\ LeaseOutlives(r)' => MergeInv(r)'
      /\ lease'[r] = l /\ P' = "submit" /\ R' = R
  <2>1. merged' \in BOOLEAN /\ (merged' <=> l > 0)
    BY <1>1, <1>2, <1>4, <1>7 DEF TypeOK
  <2>2. P \notin InHandler
    BY <1>3 DEF InHandler
  <2> QED
    BY <1>1, <1>3, <1>6, <1>7, <2>1, <2>2, LeaseStep
<1>9. StagesMatchQueues(r)'
  BY <1>1, <1>2, <1>4, <1>8 DEF StagesMatchQueues, PlatformStages
<1>10. LeaseOutlives(r)'
  <2>1. lag \in Int /\ LeaseTerm \in Int
    BY <1>2, LeaseAssumption DEF TypeOK
  <2> QED
    BY <1>1, <1>2, <1>3, <1>4, <1>7, <1>8, <2>1 DEF LeaseOutlives, BeforeDecrement
<1> QED
  BY <1>8, <1>9, <1>10

\* A rasterizer without platform views has no lease to give back: nothing happens to
\* the leases, and r's keeps the queues merged.
LEMMA StrangerStep ==
  ASSUME NEW r \in Rasterizers, MergeInv(r), merged, NEW t \in Threads, t = "platform",
         pc[t] \in {"decrementing", "unmerge"}, UNCHANGED lease, UnMergeWhenAllZero(t),
         UNCHANGED <<enabled, queue, task, surface, attached, views, latch,
                     lag, frames, switches>>
  PROVE  MergeInv(r)'
<1>1. IsMerged'
  BY OneLease DEF IsMerged
<1>2. Go(t, "end") /\ merged' = merged
  BY <1>1 DEF UnMergeWhenAllZero
<1>3. MayMove(t, "end")
  BY DEF MayMove, PlatformStages, PlatformAtRest, BeforeDecrement, InHandler, P
<1>4. /\ surface \in [Rasterizers -> BOOLEAN] /\ views \in [Rasterizers -> BOOLEAN]
      /\ enabled \in BOOLEAN /\ "end" \in Stages
  BY DEF MergeInv, TypeOK, Stages
<1>5. task[t] \in Task /\ task \in [Threads -> Tasks(r) \cup {NoTask}]
  BY OwnTask
<1> QED
  BY <1>2, <1>3, <1>4, <1>5, StageStep

LEMMA SharedDecrementStep ==
  ASSUME NEW r \in Rasterizers, MergeInv(r), NEW t \in Threads, SharedDecrementLease(t)
  PROVE  MergeInv(r)'
<1>1. /\ pc[t] = "decrementing"
      /\ UNCHANGED <<enabled, queue, task, surface, attached, views, latch,
                     lag, frames, switches>>
  BY DEF SharedDecrementLease
<1>2. StagesMatchQueues(r) /\ MutexHeld(r) /\ LeaseOutlives(r) /\ TypeOK
  BY DEF MergeInv
<1>3. t = "platform" \/ t = "raster"
  BY DEF Threads
<1>4. merged
  BY <1>1, <1>2, <1>3 DEF StagesMatchQueues, PlatformAtRest, P, R
<1>5. CASE task[t].r # r
  <2>1. t = "platform"
    BY <1>1, <1>2, <1>3, <1>4, <1>5 DEF StagesMatchQueues, Overlapping, R
  <2>2. lease[task[t].r] = Absent
    BY <1>1, <1>5, OwnTask DEF MergeInv, OnlyCaller
  <2>3. UNCHANGED lease /\ UnMergeWhenAllZero(t)
    BY <2>2 DEF SharedDecrementLease, Absent
  <2> QED
    BY <1>1, <1>4, <2>1, <2>3, StrangerStep
<1>6. ASSUME task[t].r = r
      PROVE  MergeInv(r)'
  <2>1. lease[r] \in 1 .. LeaseTerm /\ LeaseTerm \in Nat /\ MaxLag \in Nat /\ lag \in Nat
    <3>1. lease[r] > 0 /\ lease[r] \in 0 .. LeaseTerm \cup {Absent} /\ lag \in Nat
      BY <1>4 DEF MergeInv, TypeOK
    <3> QED
      BY <3>1, LeaseAssumption DEF Absent
  <2> DEFINE l == lease[r] - 1
  <2>2. l \in 0 .. LeaseTerm \cup {Absent} /\ l \in Int
    BY <2>1
  <2>3. lease' = [lease EXCEPT ![r] = l] /\ UnMergeWhenAllZero(t)
    BY <1>6, <2>1 DEF SharedDecrementLease, Absent
  <2>4. lease'[r] = l /\ \A x \in Rasterizers \ {r} : lease'[x] = Absent
    BY <1>2, <2>3 DEF TypeOK, MergeInv, OnlyCaller
  <2>5. IsMerged' <=> l > 0
    BY <2>4, OneLeaseNext
  <2>6. Go(t, "end") /\ merged' \in BOOLEAN /\ (merged' <=> l > 0)
    BY <1>2, <1>4, <2>3, <2>5 DEF UnMergeWhenAllZero, TypeOK
  <2>7. /\ StagesMatchQueues(r)' /\ LeaseOutlives(r)' => MergeInv(r)'
        /\ t = "platform" => P' = "end" /\ R' = R
        /\ t = "raster" => R' = "end" /\ P' = P
    <3>1. t = "platform" => P \notin InHandler
      BY <1>1 DEF InHandler, P
    <3> HIDE DEF l
    <3> QED
      BY <1>1, <2>2, <2>3, <2>6, <3>1, LeaseStep
  <2>8. CASE t = "raster"
    <3>1. R = "decrementing"
      BY <1>1, <2>8 DEF R
    <3>2. lease[r] >= LeaseTerm - lag /\ lag <= MaxLag
      BY <1>2, <1>4, <2>1, <3>1 DEF LeaseOutlives, Overlapping
    <3>3. l > 0
      BY <2>1, <3>2, LeaseAssumption
    <3>4. merged'
      BY <2>6, <3>3
    <3>5. StagesMatchQueues(r)'
      BY <1>1, <1>2, <2>7, <2>8, <3>4 DEF StagesMatchQueues, RasterStages, RasterAfterMerge, Overlapping
    <3>6. LeaseOutlives(r)'
      BY <1>1, <2>7, <2>8, <3>2, <3>4 DEF LeaseOutlives, Overlapping
    <3> QED
      BY <2>7, <3>5, <3>6
  <2>9. CASE t = "platform"
    <3>1. P = "decrementing"
      BY <1>1, <2>9 DEF P
    <3>2. R \in RasterAfterMerge \ {"decrementing"}
      BY <1>2, <1>4, <1>6, <2>9, <3>1 DEF StagesMatchQueues, MutexHeld
    <3>3. StagesMatchQueues(r)'
      BY <1>1, <1>2, <1>4, <2>7, <2>9, <3>2 DEF StagesMatchQueues, PlatformStages, PlatformAtRest,
           RasterAfterMerge, Overlapping
    <3>4. LeaseOutlives(r)'
      <4>1. R \in Overlapping => lease[r] >= LeaseTerm - lag + 1
        BY <1>2, <1>4, <3>1 DEF LeaseOutlives, BeforeDecrement
      <4>2. R \in Overlapping => l >= LeaseTerm - lag
        BY <2>1, <4>1
      <4>3. lag <= MaxLag
        BY <1>2 DEF LeaseOutlives
      <4> HIDE DEF l
      <4> QED
        BY <1>1, <2>1, <2>2, <2>4, <2>7, <2>9, <3>2, <4>2, <4>3 DEF LeaseOutlives, BeforeDecrement,
             RasterAfterMerge, Overlapping
    <3> QED
      BY <2>7, <3>3, <3>4
  <2> QED
    BY <1>3, <2>8, <2>9
<1> QED
  BY <1>5, <1>6

LEMMA UnMergeStep ==
  ASSUME NEW r \in Rasterizers, MergeInv(r), NEW t \in Threads, UnMergeNowIfLastOne(t)
  PROVE  MergeInv(r)'
<1>1. /\ pc[t] = "unmerge"
      /\ UNCHANGED <<enabled, queue, task, surface, attached, views, latch,
                     lag, frames, switches>>
  BY DEF UnMergeNowIfLastOne
<1>2. StagesMatchQueues(r) /\ LeaseOutlives(r) /\ TypeOK /\ enabled
  <2>1. StagesMatchQueues(r) /\ LeaseOutlives(r) /\ TypeOK /\ DisabledInBetween(r)
    BY DEF MergeInv
  <2> QED
    BY <1>1, <2>1 DEF DisabledInBetween, StagesMatchQueues, RasterStages, Threads, P, R
<1>3. t = "platform" /\ P = "unmerge"
  BY <1>1, <1>2 DEF StagesMatchQueues, RasterStages, Threads, P, R
<1>4. merged
  BY <1>3, Busy DEF PlatformAtRest
<1>5. lease' = [lease EXCEPT ![task[t].r] = Absent] /\ UnMergeWhenAllZero(t)
  BY <1>2 DEF UnMergeNowIfLastOne
<1>6. CASE task[t].r # r
  <2>1. lease[task[t].r] = Absent
    BY <1>1, <1>6, OwnTask DEF MergeInv, OnlyCaller
  <2>2. UNCHANGED lease
    BY <1>2, <1>5, <2>1 DEF TypeOK
  <2> QED
    BY <1>1, <1>3, <1>4, <1>5, <2>2, StrangerStep
<1>7. CASE task[t].r = r
  <2>1. R \in RasterAfterMerge \ {"decrementing"}
    <3>1. Unlocked(r)
      BY <1>7 DEF UnMergeNowIfLastOne
    <3> QED
      BY <1>2, <1>4, <3>1, MutexFree DEF StagesMatchQueues
  <2>2. lease'[r] = Absent /\ \A x \in Rasterizers \ {r} : lease'[x] = Absent
    BY <1>2, <1>5, <1>7 DEF TypeOK, MergeInv, OnlyCaller
  <2>3. ~IsMerged' /\ ~(Absent > 0)
    BY <2>2 DEF IsMerged, Absent
  <2>4. Go(t, "end") /\ merged' = FALSE
    BY <1>4, <1>5, <2>3 DEF UnMergeWhenAllZero
  <2>5. merged' \in BOOLEAN /\ (merged' <=> Absent > 0)
    BY <2>3, <2>4
  <2>6. /\ StagesMatchQueues(r)' /\ LeaseOutlives(r)' => MergeInv(r)'
        /\ P' = "end" /\ R' = R
    <3>1. P \notin InHandler
      BY <1>3 DEF InHandler
    <3> QED
      BY <1>1, <1>3, <1>5, <1>7, <2>4, <2>5, <3>1, LeaseStep
  <2>7. StagesMatchQueues(r)'
    BY <1>1, <1>2, <2>1, <2>4, <2>6 DEF StagesMatchQueues, PlatformStages, PlatformAtRest
  <2>8. LeaseOutlives(r)'
    BY <1>1, <1>2, <2>1, <2>4, <2>6 DEF LeaseOutlives, RasterAfterMerge, Overlapping
  <2> QED
    BY <2>6, <2>7, <2>8
<1> QED
  BY <1>6, <1>7

-----------------------------------------------------------------------------
(* The handlers of the platform thread *)

LEMMA SwitchStep ==
  ASSUME NEW r \in Rasterizers, MergeInv(r), NEW x \in Rasterizers,
         OnPlatformViewDestroyed(x) \/ OnPlatformViewCreated(x)
  PROVE  MergeInv(r)'
<1>1. PICK s \in {"destroyed", "created"}, kind \in {"setup", "teardown"} :
        /\ Switch(x, s)
        /\ task' = [task EXCEPT !["platform"] = NewTask(kind, x, FALSE)]
  BY DEF OnPlatformViewDestroyed, OnPlatformViewCreated
<1>2. /\ switches' = switches + 1 /\ P = "idle" /\ Unlocked(x) /\ enabled' = FALSE
      /\ attached' = [attached EXCEPT ![x] = ~attached[x]] /\ Go("platform", s)
      /\ UNCHANGED <<merged, lease, queue, surface, views, latch, lag, frames>>
  BY <1>1 DEF Switch, P
<1>3. /\ NewTask(kind, x, FALSE) \in Task /\ NewTask(kind, x, FALSE) \in Tasks(r)
      /\ NewTask(kind, x, FALSE).r = x
  BY DEF NewTask, Task, Tasks
<1>4. /\ StagesMatchQueues(r) /\ MutexHeld(r) /\ LeaseOutlives(r) /\ TypeOK /\ HasTask
      /\ OnlyCaller(r)
  BY DEF MergeInv
<1>5. s \in Stages /\ "platform" \in Threads /\ "raster" \in Threads
  BY DEF Stages, Threads
<1>6. pc' \in [Threads -> Stages] /\ P' = s /\ R' = R
  BY <1>2, <1>4, <1>5, GoMoves
<1>7. /\ task' \in [Threads -> Task \cup {NoTask}] /\ task'["platform"] \in Task
      /\ task' \in [Threads -> Tasks(r) \cup {NoTask}] /\ task'["platform"].r = x
      /\ \A u \in Threads \ {"platform"} : task'[u] = task[u]
  BY <1>1, <1>3, <1>4, <1>5 DEF TypeOK, OnlyCaller
<1>8. TypeOK'
  <2>1. attached' \in [Rasterizers -> BOOLEAN]
    BY <1>2, <1>4 DEF TypeOK
  <2>2. switches' \in Nat
    BY <1>2, <1>4 DEF TypeOK
  <2>3. enabled' \in BOOLEAN
    BY <1>2
  <2> QED
    BY <1>2, <1>4, <1>6, <1>7, <2>1, <2>2, <2>3 DEF TypeOK
<1>9. HasTask' /\ OnlyCaller(r)'
  <2>1. HasTask'
    BY <1>2, <1>4, <1>5, <1>7, TasksKept
  <2>2. OnlyCaller(r)'
    BY <1>2, <1>4, <1>7 DEF OnlyCaller
  <2> QED
    BY <2>1, <2>2
<1>10. StagesMatchQueues(r)'
  <2>1. task'["raster"] = task["raster"]
    BY <1>5, <1>7
  <2> QED
    BY <1>2, <1>4, <1>6, <2>1 DEF StagesMatchQueues, PlatformStages, PlatformAtRest
<1>11. MutexHeld(r)'
  BY <1>6 DEF MutexHeld
<1>12. DisabledInBetween(r)'
  <2>1. x = r => R \notin {"merging", "decrementing"}
    BY <1>2, MutexFree
  <2> QED
    BY <1>6, <1>7, <2>1 DEF DisabledInBetween, InHandler
<1>13. LeaseOutlives(r)'
  BY <1>2, <1>4, <1>6 DEF LeaseOutlives, BeforeDecrement
<1> QED
  BY <1>2, <1>8, <1>9, <1>10, <1>11, <1>12, <1>13 DEF MergeInv

LEMMA HandlerStep ==
  ASSUME NEW r \in Rasterizers, MergeInv(r),
         RunTeardownNowOrPost \/ RunSetupNowOrPost \/ LatchWait
  PROVE  MergeInv(r)'
<1>1. "platform" \in Threads /\ TypeOK /\ HasTask /\ OnlyCaller(r)
  BY DEF Threads, MergeInv
<1>2. PICK s \in {"teardown", "wait", "setup", "idle"} :
        /\ Go("platform", s)
        /\ s \in {"teardown", "setup"} => merged /\ P \in {"destroyed", "created"}
        /\ s \in {"wait", "idle"} => ~merged \/ P = "wait"
  BY DEF RunTeardownNowOrPost, RunSetupNowOrPost, LatchWait, P
<1>3. /\ UNCHANGED <<merged, lease, enabled, task, surface, attached, views, lag, frames, switches>>
      /\ latch' \in BOOLEAN
  BY <1>1 DEF RunTeardownNowOrPost, RunSetupNowOrPost, LatchWait, TypeOK
<1>4. P \in {"destroyed", "created"} => task["platform"] \in Task /\ task["platform"] \in Tasks(r)
  BY <1>1, OwnTask DEF P
<1>5. queue' \in Seq(Task) /\ queue' \in Seq(Tasks(r))
  <2>1. \/ queue' = queue
        \/ P \in {"destroyed", "created"} /\ queue' = Append(queue, task["platform"])
    BY DEF RunTeardownNowOrPost, RunSetupNowOrPost, LatchWait, P
  <2>2. queue \in Seq(Task) /\ queue \in Seq(Tasks(r))
    BY <1>1 DEF TypeOK, OnlyCaller
  <2> QED
    BY <1>4, <2>1, <2>2
<1>6. s \in Stages
  BY DEF Stages
<1>7. pc' \in [Threads -> Stages]
  BY <1>1, <1>2, <1>6, GoMoves
<1>8. TypeOK' /\ OnlyCaller(r)'
  BY <1>1, <1>3, <1>5, <1>7 DEF TypeOK, OnlyCaller
<1>9. HasTask'
  <2>1. /\ task' \in [Threads -> Task \cup {NoTask}]
        /\ \A u \in Threads \ {"platform"} : task'[u] = task[u]
        /\ s \notin {"idle", "wait"} => task'["platform"] \in Task
    BY <1>1, <1>2, <1>3, <1>4 DEF TypeOK
  <2> QED
    BY <1>1, <1>2, <1>6, <2>1, TasksKept
<1>10. MayMove("platform", s)
  BY <1>2 DEF MayMove, PlatformStages, PlatformAtRest, BeforeDecrement, InHandler
<1>11. /\ SameRasterizer("platform")
       /\ \A u \in Threads \ {"platform"} : task'[u] = task[u]
  BY <1>1, <1>3 DEF SameRasterizer, TypeOK
<1> QED
  BY <1>1, <1>2, <1>3, <1>6, <1>8, <1>9, <1>10, <1>11, QuietStep

-----------------------------------------------------------------------------
(* Theorems *)

LEMMA MergeInit ==
  ASSUME NEW r \in Rasterizers, Init
  PROVE  MergeInv(r)
<1>1. P = "idle" /\ R = "idle"
  BY DEF Init, P, R, Threads
<1>2. \A x \in Rasterizers : lease[x] = Absent
  BY DEF Init
<1>3. TypeOK
  <2>1. queue \in Seq(Task)
    BY DEF Init
  <2>2. /\ lease \in [Rasterizers -> 0..LeaseTerm \cup {Absent}]
        /\ task \in [Threads -> Task \cup {NoTask}]
        /\ pc \in [Threads -> Stages]
        /\ surface \in [Rasterizers -> BOOLEAN]
        /\ attached \in [Rasterizers -> BOOLEAN]
        /\ views \in [Rasterizers -> BOOLEAN]
    BY DEF Init, Stages
  <2> QED
    BY <2>1, <2>2 DEF Init, TypeOK
<1>4. HasTask
  BY DEF Init, HasTask
<1>5. OnlyCaller(r)
  BY <1>2 DEF Init, OnlyCaller
<1>6. StagesMatchQueues(r)
  BY <1>1 DEF Init, StagesMatchQueues, PlatformStages, PlatformAtRest, RasterStages
<1>7. MutexHeld(r) /\ DisabledInBetween(r)
  BY <1>1 DEF Init, MutexHeld, DisabledInBetween
<1>8. LeaseOutlives(r)
  BY <1>1, LeaseAssumption DEF Init, LeaseOutlives
<1> QED
  BY <1>2, <1>3, <1>4, <1>5, <1>6, <1>7, <1>8 DEF Init, MergeInv, Absent

\* A raster thread that is late stays late.
LEMMA OnceLate ==
  ASSUME [Next]_vars, InTime'
  PROVE  InTime
<1>1. CASE \E t \in Threads : RasterTask(t)
  <2>1. PICK t \in Threads : RasterTask(t)
    BY <1>1
  <2>2. CASE StartTask(t)
    BY <2>2 DEF StartTask, InTime
  <2>3. CASE UNCHANGED lag
    BY <2>3 DEF InTime
  <2> QED
    BY <2>1, <2>2, <2>3 DEF RasterTask, EndTask, Draw, DrawLastLayerTrees, PrerollWithoutViews,
         PrerollUnmerged, PrerollMerged, MergeWithLease, SharedMergeWithLease, ExtendLeaseTo,
         SubmitFrame, DecrementLease, SharedDecrementLease, Setup, Teardown, TeardownIsMerged,
         UnMergeNowIfLastOne
<1>2. CASE UNCHANGED lag
  BY <1>2 DEF InTime
<1> QED
  BY <1>1, <1>2 DEF Next, PostFrame, OnPlatformViewDestroyed, OnPlatformViewCreated, Switch,
       RunTeardownNowOrPost, LatchWait, RunSetupNowOrPost, vars

LEMMA MergeNext ==
  ASSUME NEW r \in Rasterizers, WithViews \subseteq {r}, MergeInv(r), InTime', [Next]_vars
  PROVE  MergeInv(r)'
<1>1. CASE \E kind \in {"draw", "drawLast"}, x \in Rasterizers, layers \in BOOLEAN :
             PostFrame(kind, x, layers)
  BY <1>1, PostFrameStep
<1>2. CASE \E t \in Threads : RasterTask(t)
  BY <1>2, StartStep, EndStep, DrawStep, PrerollStep, MergeStep, SharedMergeStep, ExtendStep,
     SubmitStep, DecrementStep, SharedDecrementStep, SurfaceStep, UnMergeStep DEF RasterTask
<1>3. CASE \E x \in Rasterizers : OnPlatformViewDestroyed(x) \/ OnPlatformViewCreated(x)
  BY <1>3, SwitchStep
<1>4. CASE RunTeardownNowOrPost \/ LatchWait \/ RunSetupNowOrPost
  BY <1>4, HandlerStep
<1>5. CASE UNCHANGED vars
  BY <1>5 DEF vars, MergeInv, TypeOK, OnlyCaller, HasTask, StagesMatchQueues, MutexHeld,
       DisabledInBetween, LeaseOutlives, P, R
<1> QED
  BY <1>1, <1>2, <1>3, <1>4, <1>5 DEF Next

\* A merger that r's shell has disabled: whoever changes the queues holds the mutex of
\* r's merger, or tests enabled_ under it.
LEMMA DisabledStep ==
  ASSUME NEW r \in Rasterizers, WithViews \subseteq {r}, MergeInv(r), [Next]_vars, ~enabled,
         task["platform"] # NoTask, task["platform"].r \in WithViews
  PROVE  merged' = merged
<1>1. R \notin {"merging", "decrementing"} /\ P # "decrementing" /\ P # "merging"
  <2>1. task["platform"] \in Task /\ task["platform"].r = r
    BY DEF MergeInv, TypeOK, Threads
  <2> QED
    BY <2>1 DEF MergeInv, DisabledInBetween, StagesMatchQueues, PlatformStages, PlatformAtRest
<1>2. \A t \in Threads : pc[t] \notin {"merging", "decrementing"}
  BY <1>1 DEF Threads, P, R
<1>3. ASSUME NEW t \in Threads, RasterTask(t)
      PROVE  merged' = merged
  <2>1. ~SharedMergeWithLease(t) /\ ~SharedDecrementLease(t)
    BY <1>2 DEF SharedMergeWithLease, SharedDecrementLease
  <2> QED
    BY <1>3, <2>1 DEF RasterTask, StartTask, EndTask, Draw, DrawLastLayerTrees,
         PrerollWithoutViews, PrerollUnmerged, PrerollMerged, MergeWithLease, ExtendLeaseTo,
         SubmitFrame, DecrementLease, Setup, Teardown, TeardownIsMerged, UnMergeNowIfLastOne
<1> QED
  BY <1>3 DEF Next, vars, PostFrame, OnPlatformViewDestroyed, OnPlatformViewCreated, Switch,
       RunTeardownNowOrPost, LatchWait, RunSetupNowOrPost

LEMMA MergeInvariant ==
  ASSUME NEW r \in Rasterizers, WithViews \subseteq {r}
  PROVE  Spec => [](InTime => MergeInv(r))
<1>1. Init => (InTime => MergeInv(r))
  BY MergeInit
<1>2. (InTime => MergeInv(r)) /\ [Next]_vars => (InTime => MergeInv(r))'
  BY MergeNext, OnceLate
<1> QED
  BY <1>1, <1>2, PTL DEF Spec

-----------------------------------------------------------------------------
(* Types, whoever draws platform views and however late the raster thread is *)

\* A thread that is not at rest has a task.
Tasked == \A t \in Threads : pc[t] \notin {"idle", "wait", "aborted"} => task[t] \in Task
TypeInv == TypeOK /\ Tasked

\* The parts of such a task.
LEMMA TaskFields ==
  ASSUME TypeInv, NEW t \in Threads, pc[t] \notin {"idle", "wait", "aborted"}
  PROVE  /\ task[t] \in Task /\ task[t].r \in Rasterizers /\ task[t].layers \in BOOLEAN
         /\ task \in [Threads -> Task \cup {NoTask}]
         /\ [task[t] EXCEPT !.again = TRUE] \in Task
         /\ [task[t] EXCEPT !.again = ~views[task[t].r]] \in Task
         /\ NewTask("draw", task[t].r, task[t].layers) \in Task
<1>1. task[t] \in Task /\ task \in [Threads -> Task \cup {NoTask}]
      /\ views \in [Rasterizers -> BOOLEAN]
  BY DEF TypeInv, Tasked, TypeOK
<1>2. /\ task[t].r \in Rasterizers /\ task[t].layers \in BOOLEAN
      /\ views[task[t].r] \in BOOLEAN
  BY <1>1 DEF Task
<1> QED
  BY <1>1, <1>2 DEF Task, NewTask

\* A thread moves to another stage, with its task or without one.
LEMMA StagesTyped ==
  ASSUME TypeInv, NEW t \in Threads, NEW s \in Stages, Go(t, s),
         \A u \in Threads : u # t => task'[u] = task[u],
         s \in {"idle", "wait", "aborted"} \/ task'[t] \in Task
  PROVE  pc' \in [Threads -> Stages] /\ Tasked'
  BY DEF TypeInv, TypeOK, Tasked, Go

\* A failed check leaves no task to be done.
LEMMA AbortTyped ==
  ASSUME Abort
  PROVE  pc' \in [Threads -> Stages] /\ Tasked'
  BY DEF Abort, Tasked, Stages

\* A step of a thread within its task.
LEMMA WithinTask ==
  ASSUME TypeInv, NEW t \in Threads, pc[t] \notin {"idle", "wait", "aborted"},
         Abort \/ \E s \in Stages : Go(t, s),
         task' = task
  PROVE  pc' \in [Threads -> Stages] /\ Tasked'
<1>1. task[t] \in Task
  BY TaskFields
<1> QED
  BY <1>1, StagesTyped, AbortTyped

\* What the mergers, the surfaces and the embedder keep.
LEMMA RestTyped ==
  ASSUME TypeInv, NEW t \in Threads, pc[t] \notin {"idle", "wait", "aborted"},
         pc' \in [Threads -> Stages] /\ Tasked',
         UNCHANGED <<queue, attached, latch, lag, frames, switches>>,
         task' \in [Threads -> Task \cup {NoTask}],
         merged' \in BOOLEAN, enabled' \in BOOLEAN,
         lease' \in [Rasterizers -> 0..LeaseTerm \cup {Absent}],
         surface' = surface \/ \E b \in BOOLEAN : surface' = [surface EXCEPT ![task[t].r] = b],
         views' = views \/ \E b \in BOOLEAN : views' = [views EXCEPT ![task[t].r] = b]
  PROVE  TypeInv'
<1>1. task[t].r \in Rasterizers
  BY TaskFields
<1>2. /\ surface \in [Rasterizers -> BOOLEAN] /\ views \in [Rasterizers -> BOOLEAN]
  BY DEF TypeInv, TypeOK
<1>3. surface' \in [Rasterizers -> BOOLEAN] /\ views' \in [Rasterizers -> BOOLEAN]
  BY <1>1, <1>2
<1> QED
  BY <1>3 DEF TypeInv, TypeOK

\* One lemma for each kind of step.
LEMMA FrameTyped ==
  ASSUME TypeInv, NEW t \in Threads,
         \/ Draw(t) \/ DrawLastLayerTrees(t) \/ PrerollWithoutViews(t)
         \/ MergeWithLease(t) \/ SubmitFrame(t) \/ DecrementLease(t)
         \/ Setup(t) \/ Teardown(t) \/ TeardownIsMerged(t)
  PROVE  TypeInv'
<1>1. /\ pc[t] \notin {"idle", "wait", "aborted"} /\ task' = task
      /\ UNCHANGED <<queue, attached, latch, lag, frames, switches, merged, lease>>
      /\ enabled' = enabled \/ enabled' = TRUE
      /\ surface' = surface \/ \E b \in BOOLEAN : surface' = [surface EXCEPT ![task[t].r] = b]
      /\ views' = views \/ \E b \in BOOLEAN : views' = [views EXCEPT ![task[t].r] = b]
  BY DEF Draw, DrawLastLayerTrees, PrerollWithoutViews, MergeWithLease, SubmitFrame,
         DecrementLease, Setup, Teardown, TeardownIsMerged
<1>2. \E s \in Stages : Go(t, s)
  BY DEF Draw, DrawLastLayerTrees, PrerollWithoutViews, MergeWithLease, SubmitFrame,
         DecrementLease, Setup, Teardown, TeardownIsMerged, AfterFrame, Stages
<1>3. /\ task \in [Threads -> Task \cup {NoTask}] /\ merged \in BOOLEAN /\ enabled \in BOOLEAN
      /\ lease \in [Rasterizers -> 0..LeaseTerm \cup {Absent}]
  BY DEF TypeInv, TypeOK
<1> QED
  BY <1>1, <1>2, <1>3, WithinTask, RestTyped

LEMMA PrerollTyped ==
  ASSUME TypeInv, NEW t \in Threads, PrerollUnmerged(t) \/ PrerollMerged(t)
  PROVE  TypeInv'
<1>1. /\ pc[t] \notin {"idle", "wait", "aborted"}
      /\ UNCHANGED <<queue, attached, latch, lag, frames, switches, merged, lease, enabled, surface>>
      /\ \E b \in BOOLEAN : views' = [views EXCEPT ![task[t].r] = b]
  BY DEF PrerollUnmerged, PrerollMerged
<1>2. \E s \in Stages : Go(t, s)
  BY DEF PrerollUnmerged, PrerollMerged, Stages
<1>3. /\ task' \in [Threads -> Task \cup {NoTask}] /\ task'[t] \in Task
      /\ \A u \in Threads : u # t => task'[u] = task[u]
  <2>1. \/ task' = [task EXCEPT ![t] = [task[t] EXCEPT !.again = TRUE]]
        \/ task' = [task EXCEPT ![t] = [task[t] EXCEPT !.again = ~views[task[t].r]]]
    BY DEF PrerollUnmerged, PrerollMerged
  <2>2. PICK x \in Task : task' = [task EXCEPT ![t] = x]
    <3>1. /\ [task[t] EXCEPT !.again = TRUE] \in Task
          /\ [task[t] EXCEPT !.again = ~views[task[t].r]] \in Task
      BY <1>1, TaskFields
    <3> QED
      BY <2>1, <3>1, Zenon
  <2>3. task \in [Threads -> Task \cup {NoTask}]
    BY DEF TypeInv, TypeOK
  <2> QED
    BY <2>2, <2>3
<1>4. pc' \in [Threads -> Stages] /\ Tasked'
  BY <1>2, <1>3, StagesTyped
<1>5. /\ merged \in BOOLEAN /\ enabled \in BOOLEAN
      /\ lease \in [Rasterizers -> 0..LeaseTerm \cup {Absent}]
  BY DEF TypeInv, TypeOK
<1> QED
  BY <1>1, <1>3, <1>4, <1>5, RestTyped

LEMMA LeaseTyped ==
  ASSUME TypeInv, NEW t \in Threads,
         \/ SharedMergeWithLease(t) \/ ExtendLeaseTo(t)
         \/ SharedDecrementLease(t) \/ UnMergeNowIfLastOne(t)
  PROVE  TypeInv'
<1>1. /\ pc[t] \notin {"idle", "wait", "aborted"} /\ task' = task
      /\ UNCHANGED <<queue, attached, latch, lag, frames, switches, enabled, surface, views>>
  BY DEF SharedMergeWithLease, ExtendLeaseTo, SharedDecrementLease, UnMergeNowIfLastOne
<1>2. Abort \/ \E s \in Stages : Go(t, s)
  BY DEF SharedMergeWithLease, ExtendLeaseTo, SharedDecrementLease, UnMergeNowIfLastOne,
         UnMergeWhenAllZero, AfterFrame, Stages
<1>3. /\ task \in [Threads -> Task \cup {NoTask}] /\ merged \in BOOLEAN /\ enabled \in BOOLEAN
      /\ lease \in [Rasterizers -> 0..LeaseTerm \cup {Absent}] /\ LeaseTerm \in Nat
      /\ task[t].r \in Rasterizers
  BY <1>1, TaskFields, LeaseAssumption DEF TypeInv, TypeOK
<1>4. merged' \in BOOLEAN
  BY <1>3 DEF SharedMergeWithLease, ExtendLeaseTo, SharedDecrementLease, UnMergeNowIfLastOne,
              UnMergeWhenAllZero
<1>5. lease' \in [Rasterizers -> 0..LeaseTerm \cup {Absent}]
  <2>1. \/ lease' = lease
        \/ \E l \in 0..LeaseTerm \cup {Absent} : lease' = [lease EXCEPT ![task[t].r] = l]
    <3>1. CASE SharedMergeWithLease(t) \/ ExtendLeaseTo(t) \/ UnMergeNowIfLastOne(t)
      <4>1. LeaseTerm \in 0..LeaseTerm
        BY <1>3
      <4>2. \/ lease' = lease \/ lease' = [lease EXCEPT ![task[t].r] = LeaseTerm]
            \/ lease' = [lease EXCEPT ![task[t].r] = Absent]
        BY <3>1, Zenon DEF SharedMergeWithLease, ExtendLeaseTo, UnMergeNowIfLastOne
      <4> QED
        BY <4>1, <4>2
    <3>2. CASE SharedDecrementLease(t)
      <4>1. lease[task[t].r] \in 0..LeaseTerm \cup {Absent}
        BY <1>3
      <4> QED
        BY <1>3, <3>2, <4>1 DEF SharedDecrementLease, Absent
    <3> QED
      BY <3>1, <3>2
  <2> QED
    BY <1>3, <2>1
<1> QED
  BY <1>1, <1>2, <1>3, <1>4, <1>5, WithinTask, RestTyped

\* A task more in the raster queue.
LEMMA AppendTyped ==
  ASSUME TypeInv, NEW x \in Task
  PROVE  Append(queue, x) \in Seq(Task)
<1>1. queue \in Seq(Task)
  BY DEF TypeInv, TypeOK
<1> QED
  BY <1>1

LEMMA QueueTyped ==
  ASSUME TypeInv, NEW t \in Threads, StartTask(t) \/ EndTask(t)
  PROVE  TypeInv'
<1>1. CASE StartTask(t)
  <2>1. Head(queue) \in Task /\ Tail(queue) \in Seq(Task) /\ queue # << >>
    BY <1>1 DEF StartTask, TypeInv, TypeOK
  <2>2. Head(queue).kind \in Stages
    BY <2>1 DEF Task, Stages
  <2>3. /\ task' \in [Threads -> Task \cup {NoTask}] /\ task'[t] \in Task
        /\ \A u \in Threads : u # t => task'[u] = task[u]
    BY <1>1, <2>1 DEF StartTask, TypeInv, TypeOK
  <2>4. pc' \in [Threads -> Stages] /\ Tasked'
    BY <1>1, <2>2, <2>3, StagesTyped DEF StartTask
  <2>5. lag' \in Nat
    BY <1>1 DEF StartTask, TypeInv, TypeOK
  <2> QED
    BY <1>1, <2>1, <2>3, <2>4, <2>5 DEF StartTask, TypeInv, TypeOK
<1>2. CASE EndTask(t)
  <2>1. pc[t] \notin {"idle", "wait", "aborted"}
    BY <1>2 DEF EndTask
  <2>2. queue' \in Seq(Task)
    <3>1. queue \in Seq(Task)
      BY DEF TypeInv, TypeOK
    <3>2. queue' = queue \/ queue' = Append(queue, NewTask("draw", task[t].r, task[t].layers))
      BY <1>2 DEF EndTask
    <3>3. NewTask("draw", task[t].r, task[t].layers) \in Task
      BY <2>1, TaskFields
    <3> HIDE DEF NewTask, Task
    <3> QED
      BY <3>1, <3>2, <3>3, AppendTyped
  <2>3. /\ task' \in [Threads -> Task \cup {NoTask}]
        /\ \A u \in Threads : u # t => task'[u] = task[u]
    BY <1>2 DEF EndTask, TypeInv, TypeOK
  <2>4. \E s \in {"idle", "wait"} : Go(t, s)
    BY <1>2 DEF EndTask
  <2>5. pc' \in [Threads -> Stages] /\ Tasked'
    BY <2>3, <2>4, StagesTyped DEF Stages
  <2>6. latch' \in BOOLEAN
    BY <1>2 DEF EndTask, TypeInv, TypeOK
  <2> QED
    BY <1>2, <2>2, <2>3, <2>5, <2>6 DEF EndTask, TypeInv, TypeOK
<1> QED
  BY <1>1, <1>2

LEMMA HandlerTyped ==
  ASSUME TypeInv,
         \/ \E r \in Rasterizers : OnPlatformViewDestroyed(r) \/ OnPlatformViewCreated(r)
         \/ RunTeardownNowOrPost \/ LatchWait \/ RunSetupNowOrPost
  PROVE  TypeInv'
<1>1. ASSUME NEW r \in Rasterizers, OnPlatformViewDestroyed(r) \/ OnPlatformViewCreated(r)
      PROVE  TypeInv'
  <2>1. PICK kind \in {"setup", "teardown"} :
          task' = [task EXCEPT !["platform"] = NewTask(kind, r, FALSE)]
    BY <1>1 DEF OnPlatformViewDestroyed, OnPlatformViewCreated
  <2>2. NewTask(kind, r, FALSE) \in Task
    BY DEF NewTask, Task
  <2>3. /\ task' \in [Threads -> Task \cup {NoTask}] /\ task'["platform"] \in Task
        /\ \A u \in Threads : u # "platform" => task'[u] = task[u]
    BY <2>1, <2>2 DEF TypeInv, TypeOK, Threads
  <2>4. \E s \in Stages : Switch(r, s)
    BY <1>1 DEF OnPlatformViewDestroyed, OnPlatformViewCreated, Stages
  <2>5. pc' \in [Threads -> Stages] /\ Tasked'
    BY <2>3, <2>4, StagesTyped DEF Switch, Threads
  <2> QED
    <3>1. /\ attached' \in [Rasterizers -> BOOLEAN] /\ switches' \in Nat /\ enabled' \in BOOLEAN
      <4>1. /\ switches \in Nat /\ attached \in [Rasterizers -> BOOLEAN]
            /\ switches' = switches + 1 /\ enabled' = FALSE
            /\ attached' = [attached EXCEPT ![r] = ~attached[r]]
        BY <2>4 DEF Switch, TypeInv, TypeOK
      <4>2. attached' \in [Rasterizers -> BOOLEAN]
        BY <4>1
      <4>3. switches' \in Nat
        BY <4>1
      <4> QED
        BY <4>1, <4>2, <4>3
    <3>2. UNCHANGED <<merged, lease, queue, surface, views, latch, lag, frames>>
      BY <2>4 DEF Switch
    <3> QED
      BY <2>3, <2>5, <3>1, <3>2 DEF TypeInv, TypeOK
<1>2. CASE RunTeardownNowOrPost \/ LatchWait \/ RunSetupNowOrPost
  <2>1. /\ task' = task /\ task["platform"] \in Task \cup {NoTask}
        /\ RunTeardownNowOrPost \/ RunSetupNowOrPost => task["platform"] \in Task
        /\ UNCHANGED <<merged, lease, enabled, surface, attached, views, lag, frames, switches>>
    BY <1>2 DEF RunTeardownNowOrPost, LatchWait, RunSetupNowOrPost, TypeInv, TypeOK, Tasked, Threads
  <2>2. queue' \in Seq(Task) /\ latch' \in BOOLEAN
    <3>1. queue \in Seq(Task) /\ latch \in BOOLEAN
      BY DEF TypeInv, TypeOK
    <3>2. \/ queue' = queue
          \/ queue' = Append(queue, task["platform"]) /\ (RunTeardownNowOrPost \/ RunSetupNowOrPost)
      BY <1>2 DEF RunTeardownNowOrPost, LatchWait, RunSetupNowOrPost
    <3>3. latch' = latch \/ latch' = FALSE
      BY <1>2 DEF RunTeardownNowOrPost, LatchWait, RunSetupNowOrPost
    <3>4. queue' \in Seq(Task)
      <4>1. CASE queue' = queue
        BY <3>1, <4>1
      <4>2. CASE queue' = Append(queue, task["platform"]) /\ task["platform"] \in Task
        BY <4>2, AppendTyped, Zenon
      <4> QED
        BY <2>1, <3>2, <4>1, <4>2
    <3>5. latch' \in BOOLEAN
      BY <3>1, <3>3, Zenon
    <3> QED
      BY <3>4, <3>5
  <2>3. \E s \in Stages :
          Go("platform", s) /\ (s \in {"idle", "wait"} \/ task["platform"] \in Task)
    BY <1>2, <2>1 DEF RunTeardownNowOrPost, LatchWait, RunSetupNowOrPost, Stages
  <2>4. pc' \in [Threads -> Stages] /\ Tasked'
    BY <2>1, <2>3, StagesTyped DEF Threads
  <2> QED
    BY <2>1, <2>2, <2>4 DEF TypeInv, TypeOK
<1> QED
  BY <1>1, <1>2

LEMMA PostTyped ==
  ASSUME TypeInv, NEW kind \in {"draw", "drawLast"}, NEW r \in Rasterizers,
         NEW layers \in BOOLEAN, PostFrame(kind, r, layers)
  PROVE  TypeInv'
<1>1. NewTask(kind, r, layers) \in Task
  BY DEF NewTask, Task
<1>2. queue' \in Seq(Task) /\ frames' \in Nat
  BY <1>1 DEF PostFrame, TypeInv, TypeOK
<1> QED
  BY <1>2 DEF PostFrame, TypeInv, TypeOK, Tasked

\* The state is well formed, whoever draws platform views and however late the
\* raster thread is.
THEOREM TypeCorrect == Spec => []TypeOK
<1>1. Init => TypeInv
  <2> SUFFICES ASSUME Init
               PROVE  TypeInv
    OBVIOUS
  <2>1. Tasked /\ pc \in [Threads -> Stages]
    BY DEF Init, Tasked, Stages
  <2>2. queue \in Seq(Task) /\ task \in [Threads -> Task \cup {NoTask}]
    BY DEF Init
  <2>3. lease \in [Rasterizers -> 0..LeaseTerm \cup {Absent}]
    BY DEF Init
  <2> QED
    BY <2>1, <2>2, <2>3 DEF Init, TypeInv, TypeOK
<1>2. TypeInv /\ [Next]_vars => TypeInv'
  <2> SUFFICES ASSUME TypeInv, [Next]_vars
               PROVE  TypeInv'
    OBVIOUS
  <2>1. CASE UNCHANGED vars
    BY <2>1 DEF vars, TypeInv, TypeOK, Tasked
  <2>2. CASE \E kind \in {"draw", "drawLast"}, r \in Rasterizers, layers \in BOOLEAN :
               PostFrame(kind, r, layers)
    BY <2>2, PostTyped
  <2>3. CASE \E t \in Threads : RasterTask(t)
    BY <2>3, FrameTyped, PrerollTyped, LeaseTyped, QueueTyped DEF RasterTask
  <2>4. CASE \/ \E r \in Rasterizers : OnPlatformViewDestroyed(r) \/ OnPlatformViewCreated(r)
             \/ RunTeardownNowOrPost \/ LatchWait \/ RunSetupNowOrPost
    BY <2>4, HandlerTyped
  <2> QED
    BY <2>1, <2>2, <2>3, <2>4 DEF Next
<1>3. TypeInv => TypeOK
  BY DEF TypeInv
<1> QED
  BY <1>1, <1>2, <1>3, PTL DEF Spec

-----------------------------------------------------------------------------
(* The theorems *)

\* raster_thread_merger.cc keeps the leases and the task queues in step: however many
\* rasterizers share the merger, if one of them draws platform views and the raster
\* thread is in time, the queues are merged exactly as long as a lease is positive.
THEOREM LeasesMatch ==
  ASSUME NEW r \in Rasterizers, WithViews \subseteq {r}
  PROVE  Spec => []MergerInv
<1>1. MergeInv(r) => LeasesMatchQueues
  BY OneLease DEF LeasesMatchQueues
<1>2. TypeOK /\ (InTime => LeasesMatchQueues) => MergerInv
  BY DEF MergerInv
<1> QED
  BY <1>1, <1>2, TypeCorrect, MergeInvariant, PTL

\* The checks of shared_thread_merger.cc and rasterizer.cc:138 hold, although frames of
\* several rasterizers overlap and the platform thread takes raster tasks while the
\* raster thread still ends the one that merged them: lease terms are positive where
\* they are decremented, leases are extended while merged, and Teardown finds the
\* merger enabled.
THEOREM ChecksHoldAlways ==
  ASSUME NEW r \in Rasterizers, WithViews \subseteq {r}
  PROVE  Spec => []ChecksHold
<1>1. MergeInv(r) => ChecksHold
  <2> SUFFICES ASSUME MergeInv(r), NEW t \in Threads
               PROVE  /\ pc[t] # "aborted"
                      /\ pc[t] = "extend" /\ enabled => IsMerged
                      /\ pc[t] = "unmerge" => enabled
    BY DEF ChecksHold
  <2>1. CASE t = "platform"
    <3>1. P \in PlatformStages /\ (P = "unmerge" => enabled)
      BY DEF MergeInv, StagesMatchQueues, DisabledInBetween
    <3>2. P = "extend" => IsMerged
      BY Busy, OneLease DEF PlatformAtRest
    <3> QED
      BY <2>1, <3>1, <3>2 DEF PlatformStages, PlatformAtRest, P
  <2>2. CASE t = "raster"
    BY <2>2 DEF MergeInv, StagesMatchQueues, RasterStages, R
  <2> QED
    BY <2>1, <2>2 DEF Threads
<1>2. ~InTime => ChecksHold
  BY DEF ChecksHold
<1> QED
  BY <1>1, <1>2, MergeInvariant, PTL

\* A frame with platform views is submitted on the platform thread and while the
\* threads are merged, whatever the other rasterizers' frames and surfaces and the
\* raster thread do to the lease meanwhile.
THEOREM SubmittedOnPlatformThreadAlways ==
  ASSUME NEW r \in Rasterizers, WithViews \subseteq {r}
  PROVE  Spec => []SubmittedOnPlatformThread
<1>1. MergeInv(r) => SubmittedOnPlatformThread
  <2> SUFFICES ASSUME MergeInv(r), NEW t \in Threads, pc[t] = "submit", task[t].layers
               PROVE  t = "platform" /\ IsMerged
    BY DEF SubmittedOnPlatformThread
  <2>1. t = "platform"
    BY DEF MergeInv, StagesMatchQueues, Threads, R
  <2>2. merged
    BY <2>1, Busy DEF PlatformAtRest, P
  <2> QED
    BY <2>1, <2>2, OneLease
<1>2. ~InTime => SubmittedOnPlatformThread
  BY DEF SubmittedOnPlatformThread
<1> QED
  BY <1>1, <1>2, MergeInvariant, PTL

\* raster_thread_merger.h:100: a merger that the shell with platform views disabled
\* neither merges nor unmerges, whatever the other shells do.
THEOREM DisabledKeepsThreadsAlways ==
  ASSUME NEW r \in Rasterizers, WithViews \subseteq {r}
  PROVE  Spec => DisabledKeepsThreads
<1>1. (InTime => MergeInv(r)) /\ [Next]_vars =>
        [(/\ InTime /\ ~enabled
          /\ task["platform"] # NoTask /\ task["platform"].r \in WithViews)
           => merged' = merged]_vars
  BY DisabledStep
<1> QED
  BY <1>1, MergeInvariant, PTL DEF Spec, DisabledKeepsThreads
=============================================================================
