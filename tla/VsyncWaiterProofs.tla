-------------------------- MODULE VsyncWaiterProofs --------------------------
(***************************************************************************)
(* One OS frame request backs the callbacks of a vsync waiter, for any     *)
(* number of secondary callbacks, as long as the OS accepts its requests;  *)
(* and every pause of the Dart event loop has the vsync task that ends it. *)
(* The pointer data dispatcher, a client of it, for any number of packets: *)
(* none is skipped or reordered, at most the last one is held back, and    *)
(* the waiter it runs on is the one of VsyncWaiter.                        *)
(***************************************************************************)
EXTENDS PointerDispatcher, FiniteSetTheorems, TLAPS

\* The types the argument needs.
RequestType ==
  /\ callback \in BOOLEAN
  /\ requesting \in BOOLEAN
  /\ os \in Nat
  /\ alive \in BOOLEAN

\* The inductive invariant.
RequestInv == RequestType /\ OneRequestOutstanding

\* A step that neither makes or answers a request nor changes the callbacks.
LEMMA Unrelated ==
  ASSUME RequestInv,
         UNCHANGED <<callback, secondary, requesting, os>>,
         (fire = "entered") <=> (fire' = "entered"),
         alive' \in BOOLEAN, alive' => alive
  PROVE  RequestInv'
<1>1. RequestType'
  BY DEF RequestInv, RequestType
<1>2. OneRequestOutstanding'
  BY DEF RequestInv, OneRequestOutstanding, One
<1> QED
  BY <1>1, <1>2 DEF RequestInv

\* The UI thread's two ways to wait for a vsync.
LEMMA WaitStep ==
  ASSUME RequestInv, alive, ~requesting,
         requesting' = (~callback /\ secondary = {}),
         callback' \in BOOLEAN,
         callback' \/ secondary' # {},
         UNCHANGED <<os, fire, alive>>
  PROVE  RequestInv'
<1>1. RequestType'
  BY DEF RequestInv, RequestType
<1>2. OneRequestOutstanding'
  <2>1. One(requesting) = 0 /\ One(callback' \/ secondary' # {}) = 1
    BY DEF One
  <2>2. One(requesting') + One(callback \/ secondary # {}) = 1
    <3>1. CASE callback \/ secondary # {}
      <4>1. One(callback \/ secondary # {}) = 1 /\ One(requesting') = 0
        BY <3>1 DEF One
      <4> QED
        BY <4>1
    <3>2. CASE ~(callback \/ secondary # {})
      <4>1. One(callback \/ secondary # {}) = 0 /\ One(requesting') = 1
        BY <3>2 DEF One
      <4> QED
        BY <4>1
    <3> QED
      BY <3>1, <3>2
  <2>3. One(requesting) + os + One(fire = "entered") = One(callback \/ secondary # {})
    BY DEF RequestInv, OneRequestOutstanding
  <2>4. /\ One(requesting') \in Int /\ One(callback \/ secondary # {}) \in Int
        /\ One(fire = "entered") \in Int /\ os \in Int
    BY DEF RequestInv, RequestType, One
  <2>5. One(requesting') + os + One(fire = "entered") = 1
    BY <2>1, <2>2, <2>3, <2>4
  <2>6. One(requesting)' = One(requesting') /\ os' = os /\ One(fire = "entered")' = One(fire = "entered")
    BY DEF One
  <2> QED
    BY <2>1, <2>5, <2>6 DEF OneRequestOutstanding, One
<1> QED
  BY <1>1, <1>2 DEF RequestInv

LEMMA RequestStep ==
  ASSUME RequestMayFail = FALSE, RequestInv, [Next]_vars
  PROVE  RequestInv'
<1>1. CASE Client
  <2>1. CASE AsyncWaitForVsync
    BY <2>1, WaitStep DEF AsyncWaitForVsync
  <2>2. CASE \E id \in Secondaries : ScheduleSecondaryCallback(id)
    <3>1. PICK id \in Secondaries : ScheduleSecondaryCallback(id)
      BY <2>2
    <3>2. secondary' # {} /\ callback' \in BOOLEAN
      BY <3>1 DEF ScheduleSecondaryCallback, RequestInv, RequestType
    <3> QED
      BY <3>1, <3>2, WaitStep DEF ScheduleSecondaryCallback
  <2>3. CASE Destroy
    BY <2>3, Unrelated DEF Destroy
  <2> QED
    BY <1>1, <2>1, <2>2, <2>3 DEF Client
<1>2. CASE AwaitVSync
  <2>1. RequestType'
    <3>1. /\ callback' = callback /\ alive' = alive
          /\ requesting' = FALSE
      BY <1>2 DEF AwaitVSync
    <3>2. os' = os + 1
      BY <1>2 DEF AwaitVSync
    <3>3. os' \in Nat
      BY <3>2 DEF RequestInv, RequestType
    <3>4. callback' \in BOOLEAN /\ alive' \in BOOLEAN /\ requesting' \in BOOLEAN
      BY <3>1, Zenon DEF RequestInv, RequestType
    <3> QED
      BY <3>3, <3>4, Zenon DEF RequestType
  <2>2. OneRequestOutstanding'
    <3>1. requesting /\ os' = os + 1 /\ UNCHANGED <<callback, secondary, fire, alive>>
      BY <1>2 DEF AwaitVSync
    <3>2. One(requesting) = 1 /\ One(requesting)' = 0
      BY <1>2 DEF AwaitVSync, One
    <3>3. One(fire = "entered") \in Int /\ os \in Int
      BY DEF One, RequestInv, RequestType
    <3>4. /\ One(fire = "entered")' = One(fire = "entered")
          /\ One(callback \/ secondary # {})' = One(callback \/ secondary # {})
      BY <3>1 DEF One
    <3>5. alive => 1 + os + One(fire = "entered") = One(callback \/ secondary # {})
      BY <3>2 DEF RequestInv, OneRequestOutstanding
    <3>6. alive => 0 + os' + One(fire = "entered") = One(callback \/ secondary # {})
      BY <3>1, <3>3, <3>5
    <3> QED
      BY <3>1, <3>2, <3>4, <3>6 DEF OneRequestOutstanding
  <2> QED
    BY <2>1, <2>2 DEF RequestInv
<1>3. CASE StartTask \/ FinishTask \/ \E t \in OtherTasks : PostTask(t)
  BY <1>3, Unrelated DEF StartTask, FinishTask, PostTask, RequestInv, RequestType
<1>4. CASE OnVsyncFromOHOS
  <2>1. RequestType'
    BY <1>4 DEF OnVsyncFromOHOS, RequestInv, RequestType
  <2>2. OneRequestOutstanding'
    BY <1>4 DEF OnVsyncFromOHOS, RequestInv, RequestType, OneRequestOutstanding, One
  <2> QED
    BY <2>1, <2>2 DEF RequestInv
<1>5. CASE FireCallback
  <2>1. RequestType'
    BY <1>5 DEF FireCallback, RequestInv, RequestType
  <2>2. OneRequestOutstanding'
    BY <1>5 DEF FireCallback, RequestInv, RequestType, OneRequestOutstanding, One
  <2> QED
    BY <2>1, <2>2 DEF RequestInv
<1>6. CASE PauseDartEventLoopTasks \/ FirePost
  BY <1>6, Unrelated DEF PauseDartEventLoopTasks, FirePost, RequestInv, RequestType
<1>7. CASE UNCHANGED vars
  <2>1. UNCHANGED <<callback, secondary, requesting, os, fire, alive>>
    BY <1>7 DEF vars
  <2>2. alive' \in BOOLEAN
    BY <2>1 DEF RequestInv, RequestType
  <2> QED
    BY <2>1, <2>2, Unrelated
<1> QED
  BY <1>1, <1>2, <1>3, <1>4, <1>5, <1>6, <1>7 DEF Next, VsyncThread

\* vsync_waiter.cc never asks the OS twice for one frame interval and never waits
\* without having asked, if no request is refused (AwaitVSync only logs a
\* refusal: the callbacks then wait for ever).
THEOREM OneRequestAlways ==
  ASSUME RequestMayFail = FALSE
  PROVE  Spec => []OneRequestOutstanding
<1>1. Init => RequestInv
  <2> SUFFICES ASSUME Init PROVE RequestInv
    OBVIOUS
  <2>1. RequestType
    BY DEF Init, RequestType
  <2>2. One(requesting) = 0 /\ One(fire = "entered") = 0 /\ One(callback \/ secondary # {}) = 0
    BY DEF Init, One
  <2>3. os = 0
    BY DEF Init
  <2> QED
    BY <2>1, <2>2, <2>3 DEF RequestInv, OneRequestOutstanding
<1>2. RequestInv /\ [Next]_vars => RequestInv'
  BY RequestStep
<1>3. RequestInv => OneRequestOutstanding
  BY DEF RequestInv
<1> QED
  BY <1>1, <1>2, <1>3, PTL DEF Spec

-----------------------------------------------------------------------------
(* How often a value occurs in a queue *)

Places(s, v) == {i \in DOMAIN s : s[i] = v}

\* A sequence has finitely many places.
LEMMA PlacesFinite ==
  ASSUME NEW S, NEW s \in Seq(S), NEW v
  PROVE  IsFiniteSet(Places(s, v)) /\ Cardinality(Places(s, v)) \in Nat
<1>1. DOMAIN s = 1 .. Len(s) /\ Len(s) \in Nat
  OBVIOUS
<1>2. IsFiniteSet(1 .. Len(s))
  BY <1>1, FS_Interval
<1>3. Places(s, v) \in SUBSET (1 .. Len(s))
  BY <1>1 DEF Places
<1>4. IsFiniteSet(Places(s, v))
  BY <1>2, <1>3, FS_Subset
<1> QED
  BY <1>4, FS_CardinalityType

\* Posting a task adds one occurrence of it.
LEMMA CountAppend ==
  ASSUME NEW S, NEW s \in Seq(S), NEW x \in S, NEW v
  PROVE  Cardinality(Places(Append(s, x), v)) = Cardinality(Places(s, v)) + One(x = v)
<1>1. /\ DOMAIN s = 1 .. Len(s) /\ Len(s) \in Nat
      /\ DOMAIN Append(s, x) = 1 .. Len(s) + 1
      /\ \A i \in 1 .. Len(s) : Append(s, x)[i] = s[i]
      /\ Append(s, x)[Len(s) + 1] = x
  OBVIOUS
<1>2. IsFiniteSet(Places(s, v)) /\ Cardinality(Places(s, v)) \in Nat
  BY PlacesFinite
<1>3. CASE x = v
  <2>1. Places(Append(s, x), v) = Places(s, v) \cup {Len(s) + 1}
    BY <1>1, <1>3 DEF Places
  <2>2. Len(s) + 1 \notin Places(s, v)
    BY <1>1 DEF Places
  <2>3. Cardinality(Places(s, v) \cup {Len(s) + 1}) = Cardinality(Places(s, v)) + 1
    BY <1>2, <2>2, FS_AddElement
  <2>4. One(x = v) = 1
    BY <1>3 DEF One
  <2> QED
    BY <2>1, <2>3, <2>4
<1>4. CASE x # v
  <2>1. Places(Append(s, x), v) = Places(s, v)
    BY <1>1, <1>4 DEF Places
  <2>2. One(x = v) = 0
    BY <1>4 DEF One
  <2> QED
    BY <1>2, <2>1, <2>2
<1> QED
  BY <1>3, <1>4

\* Taking the first task takes one occurrence of it away.
LEMMA CountTail ==
  ASSUME NEW S, NEW s \in Seq(S), s # << >>, NEW v
  PROVE  Cardinality(Places(s, v)) = Cardinality(Places(Tail(s), v)) + One(Head(s) = v)
<1> DEFINE T == Places(Tail(s), v)
           P == Places(s, v)
<1>1. /\ DOMAIN s = 1 .. Len(s) /\ Len(s) \in Nat /\ Len(s) >= 1
      /\ Head(s) = s[1]
      /\ Tail(s) \in Seq(S)
      /\ DOMAIN Tail(s) = 1 .. Len(s) - 1
      /\ \A i \in 1 .. Len(s) - 1 : Tail(s)[i] = s[i + 1]
  OBVIOUS
<1>2. /\ IsFiniteSet(T) /\ Cardinality(T) \in Nat
      /\ IsFiniteSet(P) /\ Cardinality(P) \in Nat
  BY <1>1, PlacesFinite
<1>3. Cardinality(P \ {1}) = Cardinality(T)
  <2> DEFINE f == [i \in T |-> i + 1]
  <2>1. \A i \in T : i \in 1 .. Len(s) - 1 /\ s[i + 1] = v
    BY <1>1 DEF Places
  <2>2. \A j \in P \ {1} : j - 1 \in T /\ (j - 1) + 1 = j
    BY <1>1 DEF Places
  <2>3. f \in [T -> P \ {1}]
    BY <1>1, <2>1 DEF Places
  <2>4. \A a, b \in T : f[a] = f[b] => a = b
    BY <2>1
  <2>5. \A j \in P \ {1} : \E i \in T : f[i] = j
    BY <2>2
  <2>6. f \in Bijection(T, P \ {1})
    <3>1. DOMAIN f = T
      OBVIOUS
    <3> HIDE DEF f, T, P
    <3> QED
      BY <2>3, <2>4, <2>5, <3>1 DEF Bijection, Injection, IsInjective, Surjection
  <2>7. ExistsBijection(T, P \ {1})
    BY <2>6 DEF ExistsBijection
  <2> QED
    BY <1>2, <2>7, FS_Bijection
<1>4. 1 \in P <=> Head(s) = v
  BY <1>1 DEF Places
<1>5. Cardinality(P \ {1}) = IF 1 \in P THEN Cardinality(P) - 1 ELSE Cardinality(P)
  BY <1>2, FS_RemoveElement
<1>6. CASE Head(s) = v
  <2>1. One(Head(s) = v) = 1
    BY <1>6 DEF One
  <2> QED
    BY <1>2, <1>3, <1>4, <1>5, <1>6, <2>1
<1>7. CASE Head(s) # v
  <2>1. One(Head(s) = v) = 0
    BY <1>7 DEF One
  <2> QED
    BY <1>2, <1>3, <1>4, <1>5, <1>7, <2>1
<1> QED
  BY <1>6, <1>7

-----------------------------------------------------------------------------
(* Pauses and resumes of the Dart event loop *)

\* What FireCallback holds for the stage it is in.
TakenByStage ==
  /\ fire \in {"idle", "entered"} => taken = {}
  /\ fire = "pausing" => "vsync" \in taken

\* The inductive invariant: PauseHasResume speaks of the moved-out callback only
\* once the pause was made, so what is moved out before that has to be known too.
PauseInv == TypeOK /\ TakenByStage /\ PauseHasResume

\* The vsync tasks in the UI queue.
Queued == Cardinality({i \in DOMAIN uiQueue : uiQueue[i] = "vsync"})

\* "vsync" names no other task.
LEMMA VsyncIsNoOther ==
  "vsync" \notin Secondaries /\ "vsync" \notin OtherTasks /\ "none" \notin Tasks
BY VsyncAssumption DEF Tasks

\* A vsync task or another one is posted.
LEMMA QueuedAppend ==
  ASSUME TypeOK, NEW t \in Tasks, uiQueue' = Append(uiQueue, t)
  PROVE  /\ uiQueue' \in Seq(Tasks)
         /\ Queued \in Nat
         /\ Queued' = Queued + One(t = "vsync")
<1>1. uiQueue \in Seq(Tasks)
  BY DEF TypeOK
<1>2. Queued = Cardinality(Places(uiQueue, "vsync"))
  BY DEF Queued, Places
<1>3. Queued' = Cardinality(Places(Append(uiQueue, t), "vsync"))
  BY DEF Queued, Places
<1>4. uiQueue' \in Seq(Tasks)
  BY <1>1
<1> QED
  BY <1>1, <1>2, <1>3, <1>4, CountAppend, PlacesFinite

\* The first task is taken.
LEMMA QueuedTail ==
  ASSUME TypeOK, uiQueue # << >>, uiQueue' = Tail(uiQueue)
  PROVE  /\ uiQueue' \in Seq(Tasks)
         /\ Queued' \in Nat
         /\ Queued = Queued' + One(Head(uiQueue) = "vsync")
<1>1. uiQueue \in Seq(Tasks)
  BY DEF TypeOK
<1>2. Queued = Cardinality(Places(uiQueue, "vsync"))
  BY DEF Queued, Places
<1>3. Queued' = Cardinality(Places(Tail(uiQueue), "vsync"))
  BY DEF Queued, Places
<1>4. Tail(uiQueue) \in Seq(Tasks)
  BY <1>1
<1> QED
  BY <1>1, <1>2, <1>3, <1>4, CountTail, PlacesFinite

\* A step that leaves the pauses and the vsync tasks alone.
LEMMA PauseUnrelated ==
  ASSUME PauseInv, TypeOK', UNCHANGED <<fire, taken, paused, uiQueue, running>>
  PROVE  PauseInv'
BY DEF PauseInv, TakenByStage, PauseHasResume, One

LEMMA PauseClient ==
  ASSUME PauseInv, Client
  PROVE  PauseInv'
<1>1. UNCHANGED <<fire, taken, paused, uiQueue, running>>
  BY DEF Client, AsyncWaitForVsync, ScheduleSecondaryCallback, Destroy
<1>2. TypeOK'
  BY DEF PauseInv, TypeOK, Client, AsyncWaitForVsync, ScheduleSecondaryCallback, Destroy
<1> QED
  BY <1>1, <1>2, PauseUnrelated

LEMMA PauseAwait ==
  ASSUME PauseInv, AwaitVSync
  PROVE  PauseInv'
<1>1. UNCHANGED <<fire, taken, paused, uiQueue, running>>
  BY DEF AwaitVSync
<1>2. os' \in Nat
  BY DEF AwaitVSync, PauseInv, TypeOK
<1>3. TypeOK'
  BY <1>2, Zenon DEF PauseInv, TypeOK, AwaitVSync
<1> QED
  BY <1>1, <1>3, PauseUnrelated

LEMMA PauseStart ==
  ASSUME PauseInv, StartTask
  PROVE  PauseInv'
<1>1. TypeOK /\ uiQueue # << >> /\ uiQueue' = Tail(uiQueue)
  BY DEF PauseInv, StartTask
<1>2. /\ uiQueue' \in Seq(Tasks) /\ Queued' \in Nat
      /\ Queued = Queued' + One(Head(uiQueue) = "vsync")
  BY <1>1, QueuedTail
<1>3. running' \in Tasks
  BY <1>1 DEF StartTask, TypeOK
<1>4. TypeOK'
  BY <1>2, <1>3 DEF PauseInv, TypeOK, StartTask
<1>5. One(running = "vsync") = 0 /\ One(running = "vsync")' = One(Head(uiQueue) = "vsync")
  BY DEF One, StartTask
<1>6. /\ paused' = paused
      /\ One(fire = "posting" /\ "vsync" \in taken)' = One(fire = "posting" /\ "vsync" \in taken)
      /\ One(fire = "posting" /\ "vsync" \in taken) \in Nat
      /\ One(Head(uiQueue) = "vsync") \in Nat
  BY DEF StartTask, One
<1>7. paused = One(fire = "posting" /\ "vsync" \in taken) + Queued + One(running = "vsync")
  BY DEF PauseInv, PauseHasResume, Queued
<1>8. paused' = One(fire = "posting" /\ "vsync" \in taken)' + Queued' + One(running = "vsync")'
  BY <1>2, <1>5, <1>6, <1>7
<1>9. TakenByStage'
  BY DEF PauseInv, TakenByStage, StartTask
<1> QED
  BY <1>4, <1>8, <1>9 DEF PauseInv, PauseHasResume, Queued

LEMMA PauseFinish ==
  ASSUME PauseInv, FinishTask
  PROVE  PauseInv'
<1>1. paused = One(fire = "posting" /\ "vsync" \in taken) + Queued + One(running = "vsync")
  BY DEF PauseInv, PauseHasResume, Queued
<1>2. Queued \in Nat /\ Queued' = Queued
  <2>1. Queued = Cardinality(Places(uiQueue, "vsync"))
    BY DEF Queued, Places
  <2> QED
    BY <2>1, PlacesFinite DEF PauseInv, TypeOK, FinishTask, Queued
<1>3. /\ One(fire = "posting" /\ "vsync" \in taken)' = One(fire = "posting" /\ "vsync" \in taken)
      /\ One(fire = "posting" /\ "vsync" \in taken) \in Nat
      /\ One(running = "vsync")' = 0
  BY DEF FinishTask, One
<1>4. paused' = paused - One(running = "vsync") /\ One(running = "vsync") \in Nat
  BY DEF FinishTask, One, PauseInv, TypeOK
<1>5. paused' = One(fire = "posting" /\ "vsync" \in taken)' + Queued' + One(running = "vsync")'
  BY <1>1, <1>2, <1>3, <1>4
<1>6. paused' \in Nat
  BY <1>2, <1>3, <1>5
<1>7. TypeOK'
  BY <1>6 DEF PauseInv, TypeOK, FinishTask
<1>8. TakenByStage'
  BY DEF PauseInv, TakenByStage, FinishTask
<1> QED
  BY <1>5, <1>7, <1>8 DEF PauseInv, PauseHasResume, Queued

LEMMA PausePost ==
  ASSUME PauseInv, NEW t \in OtherTasks, PostTask(t)
  PROVE  PauseInv'
<1>1. TypeOK /\ t \in Tasks /\ t # "vsync" /\ uiQueue' = Append(uiQueue, t)
  BY VsyncIsNoOther DEF PauseInv, PostTask, Tasks
<1>2. uiQueue' \in Seq(Tasks) /\ Queued \in Nat /\ Queued' = Queued + One(t = "vsync")
  BY <1>1, QueuedAppend
<1>3. One(t = "vsync") = 0
  BY <1>1 DEF One
<1>4. TypeOK'
  BY <1>2 DEF PauseInv, TypeOK, PostTask
<1>5. Queued' = Queued
  BY <1>2, <1>3
<1>6. UNCHANGED <<fire, taken, paused, running>>
  BY DEF PostTask
<1> QED
  BY <1>4, <1>5, <1>6 DEF PauseInv, TakenByStage, PauseHasResume, Queued, One

LEMMA PauseVsyncThread ==
  ASSUME PauseInv, VsyncThread
  PROVE  PauseInv'
<1> DEFINE mine == One(fire = "posting" /\ "vsync" \in taken)
<1>1. paused = mine + Queued + One(running = "vsync")
  BY DEF PauseInv, PauseHasResume, Queued
<1>2. Queued \in Nat
  <2>1. Queued = Cardinality(Places(uiQueue, "vsync"))
    BY DEF Queued, Places
  <2> QED
    BY <2>1, PlacesFinite DEF PauseInv, TypeOK
<1>3. One(running = "vsync") \in Nat
  BY DEF One
<1>4. CASE OnVsyncFromOHOS
  <2>1. TypeOK'
    BY <1>4 DEF OnVsyncFromOHOS, PauseInv, TypeOK
  <2>2. TakenByStage' /\ mine' = mine /\ Queued' = Queued
    BY <1>4 DEF OnVsyncFromOHOS, PauseInv, TakenByStage, One, Queued
  <2>3. UNCHANGED <<paused, running>>
    BY <1>4 DEF OnVsyncFromOHOS
  <2> QED
    BY <1>1, <2>1, <2>2, <2>3 DEF PauseInv, PauseHasResume, Queued, One
<1>5. CASE FireCallback
  <2>1. TypeOK'
    BY <1>5 DEF FireCallback, PauseInv, TypeOK
  <2>2. TakenByStage' /\ ~(fire' = "posting" /\ "vsync" \in taken')
    BY <1>5, VsyncIsNoOther DEF FireCallback, PauseInv, TypeOK, TakenByStage
  <2>3. mine = 0 /\ mine' = 0 /\ Queued' = Queued
    BY <1>5, <2>2 DEF FireCallback, One, Queued
  <2>4. UNCHANGED <<paused, running>>
    BY <1>5 DEF FireCallback
  <2> QED
    BY <1>1, <2>1, <2>2, <2>3, <2>4 DEF PauseInv, PauseHasResume, Queued, One
<1>6. CASE PauseDartEventLoopTasks
  <2>1. paused' \in Nat
    BY <1>6 DEF PauseDartEventLoopTasks, PauseInv, TypeOK
  <2>2. TypeOK'
    BY <1>6, <2>1 DEF PauseDartEventLoopTasks, PauseInv, TypeOK
  <2>3. TakenByStage' /\ fire' = "posting" /\ "vsync" \in taken'
    BY <1>6 DEF PauseDartEventLoopTasks, PauseInv, TakenByStage
  <2>4. mine = 0 /\ mine' = 1 /\ Queued' = Queued
    BY <1>6, <2>3 DEF PauseDartEventLoopTasks, One, Queued
  <2>5. paused' = paused + 1 /\ One(running = "vsync")' = One(running = "vsync")
    BY <1>6 DEF PauseDartEventLoopTasks, One
  <2>6. paused' = mine' + Queued' + One(running = "vsync")'
    BY <1>1, <1>2, <1>3, <2>4, <2>5
  <2> QED
    BY <2>2, <2>3, <2>6 DEF PauseInv, PauseHasResume, Queued
<1>7. CASE FirePost
  <2>1. PICK t \in taken : /\ "vsync" \in taken => t = "vsync"
                           /\ uiQueue' = Append(uiQueue, t)
                           /\ taken' = taken \ {t}
                           /\ fire' = IF taken = {t} THEN "idle" ELSE "posting"
    BY <1>7 DEF FirePost
  <2>2. TypeOK /\ t \in Tasks
    BY DEF PauseInv, TypeOK, Tasks
  <2>3. uiQueue' \in Seq(Tasks) /\ Queued' = Queued + One(t = "vsync")
    BY <2>1, <2>2, QueuedAppend
  <2>4. fire = "posting" /\ UNCHANGED <<callback, secondary, requesting, os, paused, running, alive>>
    BY <1>7 DEF FirePost
  <2>5. TypeOK'
    BY <2>1, <2>2, <2>3, <2>4 DEF TypeOK
  <2>6. TakenByStage'
    BY <2>1 DEF TakenByStage
  <2>7. mine = One(t = "vsync") /\ mine' = 0 /\ One(t = "vsync") \in Nat
    BY <2>1, <2>4 DEF One
  <2>8. One(running = "vsync")' = One(running = "vsync")
    BY <2>4 DEF One
  <2>9. paused' = mine' + Queued' + One(running = "vsync")'
    BY <1>1, <1>2, <1>3, <2>3, <2>4, <2>7, <2>8
  <2> QED
    BY <2>5, <2>6, <2>9 DEF PauseInv, PauseHasResume, Queued
<1> QED
  BY <1>4, <1>5, <1>6, <1>7 DEF VsyncThread

LEMMA PauseStep ==
  ASSUME PauseInv, [Next]_vars
  PROVE  PauseInv'
<1>1. CASE UNCHANGED vars
  BY <1>1, PauseUnrelated DEF vars, PauseInv, TypeOK
<1> QED
  BY <1>1, PauseClient, PauseAwait, PauseStart, PauseFinish, PausePost, PauseVsyncThread DEF Next

LEMMA PauseInit ==
  Init => PauseInv
<1> SUFFICES ASSUME Init PROVE PauseInv
  OBVIOUS
<1>1. TypeOK /\ TakenByStage
  <2>1. uiQueue \in Seq(Tasks)
    BY DEF Init
  <2>2. TakenByStage
    BY DEF Init, TakenByStage
  <2> QED
    BY <2>1, <2>2 DEF Init, TypeOK
<1>2. {i \in DOMAIN uiQueue : uiQueue[i] = "vsync"} = {}
  BY DEF Init
<1>3. Cardinality({i \in DOMAIN uiQueue : uiQueue[i] = "vsync"}) = 0
  BY <1>2, FS_EmptySet
<1>4. /\ One(fire = "posting" /\ "vsync" \in taken) = 0
      /\ One(running = "vsync") = 0 /\ paused = 0
  BY DEF Init, One
<1> QED
  BY <1>1, <1>3, <1>4 DEF PauseInv, PauseHasResume

\* The waiter's state stays well formed: no count of it drops below zero, nothing
\* but tasks enters the UI queue.
THEOREM TypeCorrect == Spec => []TypeOK
<1>1. PauseInv /\ [Next]_vars => PauseInv'
  BY PauseStep
<1>2. PauseInv => TypeOK
  BY DEF PauseInv
<1> QED
  BY <1>1, <1>2, PauseInit, PTL DEF Spec

\* The secondary task source FireCallback pauses is resumed by exactly one vsync
\* task for each pause, with any number of frames in flight and whether or not
\* the OS refuses requests or the waiter is destroyed in between.
THEOREM PausesAreResumed == Spec => []PauseHasResume
<1>1. PauseInv /\ [Next]_vars => PauseInv'
  BY PauseStep
<1>2. PauseInv => PauseHasResume
  BY DEF PauseInv
<1> QED
  BY <1>1, <1>2, PauseInit, PTL DEF Spec

-----------------------------------------------------------------------------
(* The pointer data dispatcher *)

\* Of n packets all are delivered, or all but the one held back.
HeldBack(n) ==
  /\ pending # 0 => inProgress /\ pending = n
  /\ delivered = IF pending # 0 THEN n - 1 ELSE n

\* The types the argument needs; a dispatcher in the middle of a call is alive and
\* on a UI task.
DispatcherType ==
  /\ pending \in Nat /\ begun \in Nat /\ delivered \in Nat
  /\ inProgress \in BOOLEAN
  /\ step \in {"idle", "dispatch", "store", "vsync"}
  /\ step # "idle" => alive /\ running # "none"

\* What holds at each place of the dispatcher: the packet in its hands is begun.
DispatcherPackets ==
  alive =>
    /\ step \in {"idle", "vsync"} => HeldBack(begun)
    /\ step = "dispatch" => begun >= 1 /\ HeldBack(begun - 1)
    /\ step = "store" => begun >= 1 /\ inProgress /\ pending = 0 /\ delivered = begun - 1

\* The inductive invariant.
DispatcherInv == DispatcherType /\ DispatcherPackets

\* A step of the waiter or of another UI task.
LEMMA PointerUnrelated ==
  ASSUME DispatcherInv,
         UNCHANGED pointerVars,
         alive' => alive,
         step # "idle" => alive' /\ running' # "none"
  PROVE  DispatcherInv'
BY DEF DispatcherInv, DispatcherType, DispatcherPackets, HeldBack, pointerVars

\* What ScheduleSecondaryVsyncCallback leaves alone.
LEMMA ScheduleFrame ==
  ASSUME ScheduleSecondaryVsyncCallback
  PROVE  alive /\ UNCHANGED <<alive, running>>
BY DEF ScheduleSecondaryVsyncCallback, ScheduleSecondaryCallback

LEMMA DispatchStep ==
  ASSUME DispatcherInv, DispatchPacket
  PROVE  DispatcherInv' /\ (delivered' # delivered => delivered' = delivered + 1)
<1>1. alive /\ running # "none" /\ step = "dispatch"
  BY DEF DispatcherInv, DispatcherType, DispatchPacket
<1>2. begun >= 1 /\ HeldBack(begun - 1)
  BY <1>1 DEF DispatcherInv, DispatcherPackets
<1>3. UNCHANGED <<alive, running>>
  BY ScheduleFrame DEF DispatchPacket, DispatchPendingPacket
<1>4. CASE inProgress /\ pending # 0
  <2>1. delivered' = pending /\ pending' = 0 /\ step' = "store" /\ inProgress' = TRUE /\ begun' = begun
    BY <1>4 DEF DispatchPacket, DispatchPendingPacket
  <2>2. pending = begun - 1 /\ delivered = begun - 2
    BY <1>2, <1>4 DEF HeldBack, DispatcherInv, DispatcherType
  <2> QED
    BY <1>1, <1>2, <1>3, <2>1, <2>2 DEF DispatcherInv, DispatcherType, DispatcherPackets, HeldBack
<1>5. CASE inProgress /\ pending = 0
  <2>1. /\ delivered' = delivered /\ pending' = begun /\ step' = "idle"
        /\ inProgress' = TRUE /\ begun' = begun
    BY <1>5 DEF DispatchPacket
  <2>2. delivered = begun - 1
    BY <1>2, <1>5 DEF HeldBack
  <2> QED
    BY <1>1, <1>2, <1>3, <2>1, <2>2 DEF DispatcherInv, DispatcherType, DispatcherPackets, HeldBack
<1>6. CASE ~inProgress
  <2>1. /\ delivered' = begun /\ pending' = pending /\ step' = "idle"
        /\ inProgress' = TRUE /\ begun' = begun
    BY <1>6 DEF DispatchPacket
  <2>2. pending = 0 /\ delivered = begun - 1
    BY <1>2, <1>6 DEF HeldBack
  <2> QED
    BY <1>1, <1>2, <1>3, <2>1, <2>2 DEF DispatcherInv, DispatcherType, DispatcherPackets, HeldBack
<1> QED
  BY <1>4, <1>5, <1>6 DEF DispatcherInv, DispatcherType

LEMMA StoreStep ==
  ASSUME DispatcherInv, StorePacket
  PROVE  DispatcherInv' /\ delivered' = delivered
<1>1. alive /\ UNCHANGED <<alive, running>>
  BY ScheduleFrame DEF StorePacket
<1> QED
  BY <1>1 DEF StorePacket, DispatcherInv, DispatcherType, DispatcherPackets, HeldBack

LEMMA CallbackStep ==
  ASSUME DispatcherInv, VsyncCallback
  PROVE  DispatcherInv' /\ (delivered' # delivered => delivered' = delivered + 1)
<1>1. alive /\ step = "vsync" /\ HeldBack(begun)
  BY DEF DispatcherInv, DispatcherType, DispatcherPackets, VsyncCallback
<1>2. CASE inProgress /\ pending # 0
  <2>1. /\ delivered' = pending /\ pending' = 0 /\ step' = "idle"
        /\ inProgress' = inProgress /\ begun' = begun /\ alive' = alive
    BY <1>2, ScheduleFrame DEF VsyncCallback, DispatchPendingPacket
  <2>2. pending = begun /\ delivered = begun - 1
    BY <1>1, <1>2 DEF HeldBack
  <2> QED
    BY <1>1, <2>1, <2>2 DEF DispatcherInv, DispatcherType, DispatcherPackets, HeldBack
<1>3. CASE ~(inProgress /\ pending # 0)
  <2>1. /\ delivered' = delivered /\ pending' = pending /\ step' = "idle"
        /\ inProgress' = FALSE /\ begun' = begun /\ alive' = alive
    BY <1>3 DEF VsyncCallback, vars
  <2>2. pending = 0 /\ delivered = begun
    BY <1>1, <1>3 DEF HeldBack
  <2> QED
    BY <1>1, <2>1, <2>2 DEF DispatcherInv, DispatcherType, DispatcherPackets, HeldBack
<1> QED
  BY <1>2, <1>3

LEMMA BeginStep ==
  ASSUME DispatcherInv, BeginTask
  PROVE  DispatcherInv' /\ delivered' = delivered
<1>1. /\ running = "none" /\ running' = Head(uiQueue) /\ alive' = alive
      /\ UNCHANGED <<pending, inProgress, delivered>>
  BY DEF BeginTask, StartTask
<1>2. step = "idle" /\ (alive => HeldBack(begun))
  BY <1>1 DEF DispatcherInv, DispatcherType, DispatcherPackets
<1>3. "packet" # "none" /\ "pointer" # "none"
  OBVIOUS
<1>4. CASE ~alive
  BY <1>1, <1>4 DEF BeginTask, DispatcherInv, DispatcherType, DispatcherPackets
<1>5. CASE alive /\ running' = "packet"
  <2>1. step' = "dispatch" /\ begun' = begun + 1
    BY <1>5 DEF BeginTask
  <2>2. (begun + 1) - 1 = begun /\ begun + 1 >= 1 /\ begun + 1 \in Nat
    BY DEF DispatcherInv, DispatcherType
  <2>3. HeldBack(begun - 1)'
    BY <1>1, <1>2, <1>5, <2>1, <2>2 DEF HeldBack, DispatcherInv, DispatcherType
  <2> QED
    BY <1>1, <1>5, <2>1, <2>2, <2>3 DEF DispatcherInv, DispatcherType, DispatcherPackets
<1>6. CASE alive /\ running' # "packet"
  <2>1. begun' = begun /\ step' = IF running' = "pointer" THEN "vsync" ELSE "idle"
    BY <1>6 DEF BeginTask
  <2>2. HeldBack(begun)'
    BY <1>1, <1>2, <1>6, <2>1 DEF HeldBack
  <2> QED
    BY <1>1, <1>3, <1>6, <2>1, <2>2 DEF DispatcherInv, DispatcherType, DispatcherPackets
<1> QED
  BY <1>4, <1>5, <1>6

\* The waiter's steps in the composition are steps of VsyncWaiter.
LEMMA WaiterNext ==
  ASSUME DispatcherInv, [PointerNext]_allVars
  PROVE  [Next]_vars
<1> USE PointerAssumption
<1>1. CASE PostPacket
  BY <1>1 DEF PostPacket, Next
<1>2. CASE BeginTask
  BY <1>2 DEF BeginTask, Next
<1>3. ASSUME ScheduleSecondaryVsyncCallback, step # "idle"
      PROVE  Next
  BY <1>3 DEF ScheduleSecondaryVsyncCallback, Next, Client, DispatcherInv, DispatcherType
<1>4. CASE DispatchPacket \/ StorePacket
  BY <1>3, <1>4 DEF DispatchPacket, DispatchPendingPacket, StorePacket
<1>5. CASE VsyncCallback
  BY <1>3, <1>5 DEF VsyncCallback, DispatchPendingPacket
<1>6. CASE OtherCalls
  BY <1>6 DEF OtherCalls, Next, Client
<1>7. CASE EndTask
  BY <1>7 DEF EndTask, Next
<1>8. CASE DestroyEngine
  BY <1>8 DEF DestroyEngine, Next, Client
<1>9. CASE WaiterStep
  BY <1>9 DEF WaiterStep, Next
<1>10. CASE UNCHANGED allVars
  BY <1>10 DEF allVars
<1> QED
  BY <1>1, <1>2, <1>4, <1>5, <1>6, <1>7, <1>8, <1>9, <1>10 DEF PointerNext

LEMMA PointerStep ==
  ASSUME DispatcherInv, [PointerNext]_allVars
  PROVE  DispatcherInv' /\ (delivered' # delivered => delivered' = delivered + 1)
<1>1. CASE PostPacket
  <2>1. /\ UNCHANGED <<pending, inProgress, begun, delivered, step, alive, running>>
    BY <1>1 DEF PostPacket, PostTask
  <2> QED
    BY <2>1 DEF DispatcherInv, DispatcherType, DispatcherPackets, HeldBack
<1>2. CASE BeginTask
  BY <1>2, BeginStep
<1>3. CASE DispatchPacket
  BY <1>3, DispatchStep
<1>4. CASE StorePacket
  BY <1>4, StoreStep
<1>5. CASE VsyncCallback
  BY <1>5, CallbackStep
<1>6. CASE OtherCalls
  <2>1. UNCHANGED <<alive, running>> /\ UNCHANGED pointerVars
    BY <1>6 DEF OtherCalls, AsyncWaitForVsync, ScheduleSecondaryCallback
  <2>2. step # "idle" => alive /\ running # "none"
    BY DEF DispatcherInv, DispatcherType
  <2> QED
    BY <2>1, <2>2, PointerUnrelated DEF pointerVars
<1>7. CASE EndTask
  <2>1. step = "idle" /\ alive' = alive /\ UNCHANGED pointerVars
    BY <1>7 DEF EndTask, FinishTask
  <2> QED
    BY <2>1, PointerUnrelated DEF pointerVars
<1>8. CASE DestroyEngine
  <2>1. step = "idle" /\ alive /\ UNCHANGED pointerVars
    BY <1>8 DEF DestroyEngine, Destroy
  <2> QED
    BY <2>1, PointerUnrelated DEF pointerVars
<1>9. CASE WaiterStep
  <2>1. UNCHANGED <<alive, running>> /\ UNCHANGED pointerVars
    BY <1>9 DEF WaiterStep, AwaitVSync, VsyncThread, OnVsyncFromOHOS, FireCallback,
                PauseDartEventLoopTasks, FirePost
  <2>2. step # "idle" => alive /\ running # "none"
    BY DEF DispatcherInv, DispatcherType
  <2> QED
    BY <2>1, <2>2, PointerUnrelated DEF pointerVars
<1>10. CASE UNCHANGED allVars
  <2>1. UNCHANGED <<alive, running>> /\ UNCHANGED pointerVars
    BY <1>10 DEF allVars, vars
  <2>2. step # "idle" => alive /\ running # "none"
    BY DEF DispatcherInv, DispatcherType
  <2> QED
    BY <2>1, <2>2, PointerUnrelated DEF pointerVars
<1> QED
  BY <1>1, <1>2, <1>3, <1>4, <1>5, <1>6, <1>7, <1>8, <1>9, <1>10 DEF PointerNext

LEMMA PointerInitially == PointerInit => DispatcherInv
<1> SUFFICES ASSUME PointerInit PROVE DispatcherInv
  OBVIOUS
<1>1. pending = 0 /\ begun = 0 /\ delivered = 0 /\ inProgress = FALSE /\ step = "idle"
  BY DEF PointerInit
<1>2. DispatcherType
  BY <1>1 DEF DispatcherType
<1>3. HeldBack(begun)
  BY <1>1 DEF HeldBack
<1> QED
  BY <1>1, <1>2, <1>3 DEF DispatcherInv, DispatcherPackets

LEMMA DispatcherInvariant == PointerSpec => []DispatcherInv
<1>1. DispatcherInv /\ [PointerNext]_allVars => DispatcherInv'
  BY PointerStep
<1> QED
  BY <1>1, PointerInitially, PTL DEF PointerSpec

\* pointer_data_dispatcher.cc holds back at most the last packet, and only while
\* one is in progress, for any number of packets.
THEOREM OnlyLastHeldBackAlways == PointerSpec => []OnlyLastHeldBack
<1>1. DispatcherInv => OnlyLastHeldBack
  BY DEF DispatcherInv, DispatcherPackets, HeldBack, OnlyLastHeldBack
<1> QED
  BY <1>1, DispatcherInvariant, PTL

\* Packets reach the framework one after another, whichever of DispatchPacket and
\* the vsync callback delivers them.
THEOREM DeliveredInOrderAlways == PointerSpec => DeliveredInOrder
<1>1. DispatcherInv /\ [PointerNext]_allVars => [delivered' = delivered + 1]_delivered
  BY PointerStep
<1> QED
  BY <1>1, DispatcherInvariant, PTL DEF PointerSpec, DeliveredInOrder

\* The dispatcher uses the vsync waiter as VsyncWaiter lets its clients: what holds
\* of every behaviour of the waiter holds of the composition.
THEOREM PointerImplementsWaiter == PointerSpec => Spec
<1>1. PointerInit => Init
  BY DEF PointerInit
<1>2. DispatcherInv /\ [PointerNext]_allVars => [Next]_vars
  BY WaiterNext
<1> QED
  BY <1>1, <1>2, DispatcherInvariant, PTL DEF PointerSpec, Spec

\* ... so one frame request backs the callbacks of the dispatcher, of the animator
\* and of the trace flows together, if the OS refuses no request.
THEOREM PointerOneRequest ==
  ASSUME RequestMayFail = FALSE
  PROVE  PointerSpec => []OneRequestOutstanding
BY PointerImplementsWaiter, OneRequestAlways, PTL

\* ... and every pause of the Dart event loop has its vsync task.
THEOREM PointerPausesAreResumed == PointerSpec => []PauseHasResume
BY PointerImplementsWaiter, PausesAreResumed, PTL

-----------------------------------------------------------------------------
(* Packets on their way *)

Waiting == Cardinality(Places(uiQueue, "packet"))

\* Every packet posted has been begun or waits in the UI queue: the type invariant
\* says no more of begun than that posted bounds it, which is not inductive.
PacketsInv ==
  /\ posted \in 0 .. MaxPackets
  /\ begun \in Nat /\ pending \in 0 .. begun /\ delivered \in 0 .. begun
  /\ posted = begun + Waiting

\* A step that neither posts nor begins a packet.
LEMMA PacketsUnrelated ==
  ASSUME PacketsInv, UNCHANGED <<posted, begun>>, Waiting' = Waiting,
         pending' \in 0 .. begun, delivered' \in 0 .. begun
  PROVE  PacketsInv'
BY DEF PacketsInv

\* No callback of the waiter is a packet.
LEMMA PacketIsNoCallback ==
  "packet" # "vsync" /\ "packet" \notin Secondaries /\ "packet" \in Tasks
BY PointerAssumption, VsyncAssumption DEF Tasks

\* The vsync thread posts callbacks only.
LEMMA PacketsVsyncThread ==
  ASSUME TypeOK, VsyncThread
  PROVE  Waiting' = Waiting
<1>1. CASE FirePost
  <2>1. PICK t \in taken : uiQueue' = Append(uiQueue, t)
    BY <1>1 DEF FirePost
  <2>2. t \in Tasks /\ t # "packet" /\ uiQueue \in Seq(Tasks)
    BY PacketIsNoCallback DEF TypeOK, Tasks
  <2>3. One(t = "packet") = 0
    BY <2>2 DEF One
  <2>4. Waiting \in Nat /\ Cardinality(Places(Append(uiQueue, t), "packet")) = Waiting + One(t = "packet")
    BY <2>2, CountAppend, PlacesFinite DEF Waiting
  <2> QED
    BY <2>1, <2>3, <2>4 DEF Waiting
<1> QED
  BY <1>1 DEF VsyncThread, OnVsyncFromOHOS, FireCallback, PauseDartEventLoopTasks, Waiting

LEMMA PacketsBegin ==
  ASSUME PacketsInv, TypeOK, BeginTask
  PROVE  PacketsInv'
<1>1. /\ uiQueue \in Seq(Tasks) /\ uiQueue # << >> /\ uiQueue' = Tail(uiQueue)
      /\ running' = Head(uiQueue) /\ Tail(uiQueue) \in Seq(Tasks)
      /\ UNCHANGED <<pending, posted, delivered>>
  BY DEF TypeOK, BeginTask, StartTask
<1>2. Waiting = Waiting' + One(Head(uiQueue) = "packet") /\ Waiting' \in Nat
  BY <1>1, CountTail, PlacesFinite DEF Waiting
<1>3. begun' = begun + One(Head(uiQueue) = "packet") /\ One(Head(uiQueue) = "packet") \in Nat
  BY <1>1 DEF BeginTask, One, PacketsInv
<1> QED
  BY SMTT(30), <1>1, <1>2, <1>3 DEF PacketsInv

LEMMA PacketsPost ==
  ASSUME PacketsInv, TypeOK, PostPacket
  PROVE  PacketsInv'
<1>1. /\ uiQueue \in Seq(Tasks) /\ "packet" \in Tasks /\ uiQueue' = Append(uiQueue, "packet")
      /\ posted < MaxPackets /\ posted' = posted + 1
      /\ UNCHANGED <<pending, begun, delivered>>
  BY PacketIsNoCallback DEF TypeOK, PostPacket, PostTask
<1>2. One("packet" = "packet") = 1
  BY DEF One
<1>3. Waiting' = Waiting + 1 /\ Waiting \in Nat
  BY <1>1, <1>2, CountAppend, PlacesFinite DEF Waiting
<1>4. MaxPackets \in Nat
  BY PointerAssumption
<1> QED
  BY <1>1, <1>3, <1>4 DEF PacketsInv

LEMMA PacketsStep ==
  ASSUME PacketsInv, TypeOK, [PointerNext]_allVars
  PROVE  PacketsInv'
<1>1. ASSUME ScheduleSecondaryVsyncCallback PROVE Waiting' = Waiting
  BY <1>1 DEF ScheduleSecondaryVsyncCallback, ScheduleSecondaryCallback, Waiting
<1>2. CASE DispatchPacket
  <2>1. /\ UNCHANGED <<posted, begun>> /\ Waiting' = Waiting
        /\ pending' \in {0, pending, begun} /\ delivered' \in {delivered, pending, begun}
    BY <1>1, <1>2 DEF DispatchPacket, DispatchPendingPacket
  <2> QED
    BY <2>1, PacketsUnrelated DEF PacketsInv
<1>3. CASE StorePacket
  <2>1. UNCHANGED <<posted, begun, delivered>> /\ Waiting' = Waiting /\ pending' = begun
    BY <1>1, <1>3 DEF StorePacket
  <2> QED
    BY <2>1, PacketsUnrelated DEF PacketsInv
<1>4. CASE VsyncCallback
  <2>1. /\ UNCHANGED <<posted, begun>> /\ Waiting' = Waiting
        /\ pending' \in {0, pending} /\ delivered' \in {delivered, pending}
    <3>1. CASE inProgress /\ pending # 0
      BY <1>1, <1>4, <3>1 DEF VsyncCallback, DispatchPendingPacket
    <3>2. CASE ~(inProgress /\ pending # 0)
      BY <1>4, <3>2 DEF VsyncCallback, vars, Waiting
    <3> QED
      BY <3>1, <3>2
  <2> QED
    BY <2>1, PacketsUnrelated DEF PacketsInv
<1>5. CASE OtherCalls \/ EndTask \/ DestroyEngine \/ WaiterStep \/ UNCHANGED allVars
  <2>1. UNCHANGED pointerVars
    BY <1>5 DEF OtherCalls, EndTask, DestroyEngine, WaiterStep, allVars
  <2>2. Waiting' = Waiting
    <3>1. CASE VsyncThread
      BY <3>1, PacketsVsyncThread
    <3>2. CASE ~VsyncThread
      BY <1>5, <3>2 DEF OtherCalls, AsyncWaitForVsync, ScheduleSecondaryCallback, EndTask,
           FinishTask, DestroyEngine, Destroy, WaiterStep, AwaitVSync, allVars, vars, Waiting
    <3> QED
      BY <3>1, <3>2
  <2> QED
    BY <2>1, <2>2, PacketsUnrelated DEF PacketsInv, pointerVars
<1> QED
  BY <1>2, <1>3, <1>4, <1>5, PacketsBegin, PacketsPost DEF PointerNext

LEMMA PacketsInit ==
  PointerInit => PacketsInv
<1> SUFFICES ASSUME PointerInit PROVE PacketsInv
  OBVIOUS
<1>1. Places(uiQueue, "packet") = {}
  BY DEF PointerInit, Init, Places
<1>2. Waiting = 0
  BY <1>1, FS_EmptySet DEF Waiting
<1> QED
  BY <1>2, PointerAssumption DEF PointerInit, PacketsInv

\* The dispatcher's state stays well formed: no packet is begun that was not posted,
\* none is delivered or held back that was not begun.
THEOREM PointerTypeCorrect == PointerSpec => []PointerTypeOK
<1>1. PacketsInv /\ TypeOK /\ [PointerNext]_allVars => PacketsInv'
  BY PacketsStep
<1>2. PointerSpec => []TypeOK
  BY PointerImplementsWaiter, TypeCorrect, PTL
<1>3. PacketsInv /\ TypeOK /\ DispatcherInv => PointerTypeOK
  <2> SUFFICES ASSUME PacketsInv, TypeOK, DispatcherInv PROVE PointerTypeOK
    OBVIOUS
  <2>1. Waiting \in Nat
    BY PlacesFinite DEF TypeOK, Waiting
  <2>2. begun <= posted /\ posted <= MaxPackets /\ MaxPackets \in Nat
    BY <2>1, PointerAssumption DEF PacketsInv
  <2>3. /\ pending \in 0 .. MaxPackets /\ posted \in 0 .. MaxPackets
        /\ begun \in 0 .. posted /\ delivered \in 0 .. begun
    BY <2>2 DEF PacketsInv
  <2> QED
    BY <2>3 DEF PointerTypeOK, DispatcherInv, DispatcherType
<1> QED
  BY <1>1, <1>2, <1>3, PacketsInit, DispatcherInvariant, PTL DEF PointerSpec
=============================================================================
