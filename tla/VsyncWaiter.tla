----------------------------- MODULE VsyncWaiter -----------------------------
(***************************************************************************)
(* shell/common/vsync_waiter.cc with its OpenHarmony implementation        *)
(* shell/platform/ohos/vsync_waiter_ohos.cpp.  Two threads: the UI thread  *)
(* asks for vsync callbacks and runs the tasks posted to it; the thread of *)
(* OH_NativeVSync fires them.  callback_mutex_ makes the critical sections *)
(* atomic; both threads act between them.                                  *)
(*                                                                         *)
(* The UI task runner is the FIFO `uiQueue`; what the tasks of its other   *)
(* users do is left open here (module FrameScheduling says).               *)
(***************************************************************************)
EXTENDS Integers, Sequences, FiniteSets

CONSTANTS
  Secondaries,    \* ids of secondary callbacks
  OtherTasks,     \* UI tasks that are not posted by the waiter
  MaxTasks,       \* bound: with this many tasks queued nobody posts more
  RequestMayFail  \* whether OH_NativeVSync_RequestFrame... may return an error

ASSUME VsyncAssumption ==
  /\ {"vsync", "none"} \cap (Secondaries \cup OtherTasks) = {}
  /\ Secondaries \cap OtherTasks = {}
  /\ MaxTasks \in Nat
  /\ RequestMayFail \in BOOLEAN

VARIABLES
  callback,    \* callback_ is set
  secondary,   \* keys of secondary_callbacks_
  requesting,  \* the UI thread is between the critical section and the OS call
  os,          \* frame requests the OS will answer, once each
  fire,        \* what the vsync thread is doing
  taken,       \* what FireCallback moved out and has not posted yet
  paused,      \* pauses of the UI queue's secondary (Dart event loop) source
  uiQueue,     \* tasks of the UI task runner
  running,     \* the task the UI thread runs, or "none"
  alive        \* the waiter has not been destroyed

vars == <<callback, secondary, requesting, os, fire, taken, paused,
          uiQueue, running, alive>>

Tasks == {"vsync"} \cup Secondaries \cup OtherTasks

TypeOK ==
  /\ callback \in BOOLEAN
  /\ secondary \subseteq Secondaries
  /\ requesting \in BOOLEAN
  /\ os \in Nat
  /\ fire \in {"idle", "entered", "pausing", "posting"}
  /\ taken \subseteq {"vsync"} \cup Secondaries
  /\ paused \in Nat
  /\ uiQueue \in Seq(Tasks)
  /\ running \in Tasks \cup {"none"}
  /\ alive \in BOOLEAN

Init ==
  /\ callback = FALSE
  /\ secondary = {}
  /\ requesting = FALSE
  /\ os = 0
  /\ fire = "idle"
  /\ taken = {}
  /\ paused = 0
  /\ uiQueue = << >>
  /\ running = "none"
  /\ alive = TRUE

-----------------------------------------------------------------------------
(* UI thread *)

\* Mutant: the early return for pending secondary callbacks is missing.
AsyncWaitAlwaysRequests ==
  /\ alive
  /\ ~requesting
  /\ callback' = TRUE
  /\ requesting' = ~callback
  /\ UNCHANGED <<secondary, os, fire, taken, paused, uiQueue, running, alive>>

\* A call that finds callback_ or a secondary callback set makes no request:
\* the one already made will fire both.
AsyncWaitForVsync ==
  /\ alive
  /\ ~requesting
  /\ callback' = TRUE
  /\ requesting' = (~callback /\ secondary = {})
  /\ UNCHANGED <<secondary, os, fire, taken, paused, uiQueue, running, alive>>

\* AwaitVSyncForSecondaryCallback is AwaitVSync unless a platform overrides it.
ScheduleSecondaryCallback(id) ==
  /\ alive
  /\ ~requesting
  /\ secondary' = secondary \cup {id}
  /\ requesting' = (~callback /\ secondary = {})
  /\ UNCHANGED <<callback, os, fire, taken, paused, uiQueue, running, alive>>

\* AwaitVSync of the OHOS waiter.  It is called on the UI thread, so
\* RunNowOrPostTask runs the request at once.  A failing request is only logged.
AwaitVSync ==
  /\ requesting
  /\ requesting' = FALSE
  /\ \/ os' = os + 1
     \/ RequestMayFail /\ os' = os
  /\ UNCHANGED <<callback, secondary, fire, taken, paused, uiQueue, running, alive>>

\* The UI message loop takes its next task ...
StartTask ==
  /\ running = "none"
  /\ uiQueue # << >>
  /\ running' = Head(uiQueue)
  /\ uiQueue' = Tail(uiQueue)
  /\ UNCHANGED <<callback, secondary, requesting, os, fire, taken, paused, alive>>

\* Mutant: the vsync task does not resume it.
FinishNeverResumes ==
  /\ running # "none"
  /\ ~requesting
  /\ running' = "none"
  /\ UNCHANGED <<callback, secondary, requesting, os, fire, taken, paused, uiQueue, alive>>

\* ... and the task ends; the task that ran the vsync callback resumes the
\* Dart event loop's task source.
FinishTask ==
  /\ running # "none"
  /\ ~requesting
  /\ running' = "none"
  /\ paused' = IF running = "vsync" THEN paused - 1 ELSE paused
  /\ UNCHANGED <<callback, secondary, requesting, os, fire, taken, uiQueue, alive>>

\* Any thread posts one of the other UI tasks.
PostTask(t) ==
  /\ Len(uiQueue) < MaxTasks
  /\ uiQueue' = Append(uiQueue, t)
  /\ UNCHANGED <<callback, secondary, requesting, os, fire, taken, paused, running, alive>>

\* The owner drops the waiter (on the UI thread, between two calls into it).
Destroy ==
  /\ alive
  /\ ~requesting
  /\ alive' = FALSE
  /\ UNCHANGED <<callback, secondary, requesting, os, fire, taken, paused, uiQueue, running>>

-----------------------------------------------------------------------------
(* vsync thread *)

\* The OS answers one request; the weak pointer it carries may have expired.
OnVsyncFromOHOS ==
  /\ fire = "idle"
  /\ os > 0
  /\ Len(uiQueue) < MaxTasks
  /\ os' = os - 1
  /\ fire' = IF alive THEN "entered" ELSE "idle"
  /\ UNCHANGED <<callback, secondary, requesting, taken, paused, uiQueue, running, alive>>

\* Mutant: the Dart event loop is paused for secondary callbacks too.
FireAlwaysPauses ==
  /\ fire = "entered"
  /\ taken' = (IF callback THEN {"vsync"} ELSE {}) \cup secondary
  /\ callback' = FALSE
  /\ secondary' = {}
  /\ fire' = IF callback \/ secondary # {} THEN "pausing" ELSE "idle"
  /\ UNCHANGED <<requesting, os, paused, uiQueue, running, alive>>

\* FireCallback's critical section.  With nothing to fire ("misbehaving vsync
\* implementations") it returns.
FireCallback ==
  /\ fire = "entered"
  /\ taken' = (IF callback THEN {"vsync"} ELSE {}) \cup secondary
  /\ callback' = FALSE
  /\ secondary' = {}
  /\ fire' = IF callback THEN "pausing" ELSE IF secondary # {} THEN "posting" ELSE "idle"
  /\ UNCHANGED <<requesting, os, paused, uiQueue, running, alive>>

PauseDartEventLoopTasks ==
  /\ fire = "pausing"
  /\ paused' = paused + 1
  /\ fire' = "posting"
  /\ UNCHANGED <<callback, secondary, requesting, os, taken, uiQueue, running, alive>>

\* The vsync task is posted first, then the secondary callbacks one by one.
FirePost ==
  /\ fire = "posting"
  /\ \E t \in taken :
       /\ "vsync" \in taken => t = "vsync"
       /\ uiQueue' = Append(uiQueue, t)
       /\ taken' = taken \ {t}
       /\ fire' = IF taken = {t} THEN "idle" ELSE "posting"
  /\ UNCHANGED <<callback, secondary, requesting, os, paused, running, alive>>

-----------------------------------------------------------------------------
VsyncThread == OnVsyncFromOHOS \/ FireCallback \/ PauseDartEventLoopTasks \/ FirePost

Client ==
  /\ running # "none"
  /\ AsyncWaitForVsync \/ (\E id \in Secondaries : ScheduleSecondaryCallback(id)) \/ Destroy

Next ==
  \/ Client
  \/ AwaitVSync
  \/ StartTask
  \/ FinishTask
  \/ \E t \in OtherTasks : PostTask(t)
  \/ VsyncThread

Spec == Init /\ [][Next]_vars

-----------------------------------------------------------------------------
(* Properties *)

One(b) == IF b THEN 1 ELSE 0

\* As long as a callback waits, exactly one frame request is on its way: being
\* made by the UI thread, accepted by the OS, or fired but not yet collected;
\* without one no vsync is asked for (vsync_waiter.cc:37 "Multiple calls to
\* request frame must result in a single callback per frame interval").
OneRequestOutstanding ==
  alive => One(requesting) + os + One(fire = "entered")
           = One(callback \/ secondary # {})

\* Every pause of the Dart event loop's task source has its resume: the vsync
\* task that will perform it is about to be posted, queued, or running.
PauseHasResume ==
  paused = One(fire = "posting" /\ "vsync" \in taken)
           + Cardinality({i \in DOMAIN uiQueue : uiQueue[i] = "vsync"})
           + One(running = "vsync")
=============================================================================
