------------------------ MODULE FrameSchedulingProofs ------------------------
(***************************************************************************)
(* Frames are asked for, built and drawn, for any number of views, frames, *)
(* inputs and resubmitted frames: the threads together use the vsync       *)
(* waiter and the frame pipeline as their specifications say, one frame    *)
(* request is under way whenever the semaphore is taken, and frames are    *)
(* drawn in the order they were committed.                                 *)
(***************************************************************************)
EXTENDS FrameScheduling, FiniteSetTheorems, TLAPS

-----------------------------------------------------------------------------
(* The inductive invariant *)

\* The waiter's state: what FireCallback holds at each stage, and the vsync task
\* that ends each pause (without it `paused` could fall below zero).
WaiterInv ==
  /\ V!TypeOK
  /\ fire \in {"idle", "entered"} => taken = {}
  /\ fire = "pausing" => "vsync" \in taken
  /\ paused = One(fire = "posting" /\ "vsync" \in taken) + Count(uiQueue, "vsync")
              + One(running = "vsync")

\* The pipeline's state: the UI and the raster thread hold or have filled every slot
\* that is not free, and available_ backs the queue.
Slots ==
  empty + One(stage["ui"] = "held") + One(stage["raster"] = "held")
    + Len(queue) + One(cstage["raster"] = "consuming") = Depth
Backed ==
  available + One(stage["ui"] = "pushed") + One(stage["raster"] = "pushed")
    + One(cstage["raster"] = "acquired") = Len(queue)
PipeInv == P!TypeOK /\ Slots /\ Backed

\* The types of the rest.
AnimTypes ==
  /\ ui \in {"start", "dart", "build", "commit", "pushed", "signalled", "end", "finish"}
  /\ back \in {"dart", "build", "finish"}
  /\ sem \in 0..1
  /\ scheduled \in BOOLEAN /\ regenerate \in BOOLEAN
  /\ recorder \in BOOLEAN /\ flows \in BOOLEAN
  /\ trees \subseteq Views /\ rendered \subseteq Views
  /\ frames \in 0..MaxFrames /\ inputs \in 0..MaxInputs
DrawTypes ==
  /\ rasterQueue \in Seq({"draw", "redraw", "drawLast", "reset"})
  /\ raster \in {"idle", "draw", "consume", "resubmit", "complete", "signal",
                 "postMore", "post", "gone", "crashed"}
  /\ resubmit \in Frames \cup {NoFrame} /\ drawn \in Frames \cup {NoFrame}
  /\ resubmits \in 0..MaxResubmits
  /\ shell \in {"up", "ui", "raster", "down"}

\* A destroyed animator runs no more of its code, and what it has rendered it may
\* still commit.
UIPhases ==
  /\ ~alive => ui \in {"start", "finish"}
  /\ trees # {} => frames < MaxFrames

RequestInv ==
  WaiterInv /\ PipeInv /\ AnimTypes /\ DrawTypes /\ UIPhases
  /\ OneFrameRequest /\ RegenerateIsPending

\* Where the raster thread is, its continuation and the frame it holds.
RasterPhases ==
  /\ kind["ui"] = "always" /\ (stage["raster"] = "held" => kind["raster"] = "ifEmpty")
  /\ raster = "complete" <=> stage["raster"] = "held"
  /\ raster = "signal" <=> stage["raster"] = "pushed"
  /\ raster = "consume" => cstage["raster"] # "idle"
  /\ cstage["raster"] # "idle" => raster \in {"consume", "crashed"}
  /\ cstage["raster"] # "consuming" => item["raster"] = NoFrame
  /\ item["raster"] \in {drawn, NoFrame}
  /\ raster \in {"resubmit", "complete"} => resubmit = drawn /\ drawn # NoFrame
  /\ raster \notin {"resubmit", "complete"} => resubmit = NoFrame

\* The frames in the queue are newer than the one drawn last, except for that one
\* itself when it was submitted again.
QueueOrder ==
  /\ drawn <= frames
  /\ \A i \in DOMAIN queue : queue[i] # NoFrame =>
       /\ drawn <= queue[i] /\ queue[i] <= frames
       /\ (resubmit # NoFrame \/ item["raster"] # NoFrame) => drawn < queue[i]
  /\ \A i, j \in DOMAIN queue :
       i < j /\ queue[i] # NoFrame /\ queue[j] # NoFrame => queue[i] < queue[j]

\* Nothing but the engine's destruction puts a null item into the queue.
CleanWhileUp ==
  shell = "up" =>
    /\ running # "shutdown" /\ \A i \in DOMAIN uiQueue : uiQueue[i] # "shutdown"
    /\ \A i \in DOMAIN queue : queue[i] # NoFrame

OrderInv == RequestInv /\ RasterPhases /\ QueueOrder /\ CleanWhileUp

-----------------------------------------------------------------------------
(* How often a task occurs in a queue *)

LEMMA CountFinite ==
  ASSUME NEW S, NEW s \in Seq(S), NEW v
  PROVE  /\ IsFiniteSet({i \in DOMAIN s : s[i] = v})
         /\ Count(s, v) \in Nat
<1>1. DOMAIN s = 1 .. Len(s) /\ Len(s) \in Nat
  OBVIOUS
<1>2. IsFiniteSet(1 .. Len(s))
  BY <1>1, FS_Interval
<1>3. {i \in DOMAIN s : s[i] = v} \in SUBSET (1 .. Len(s))
  BY <1>1
<1>4. IsFiniteSet({i \in DOMAIN s : s[i] = v})
  BY <1>2, <1>3, FS_Subset
<1> QED
  BY <1>4, FS_CardinalityType DEF Count

LEMMA CountAppend ==
  ASSUME NEW S, NEW s \in Seq(S), NEW x \in S, NEW v
  PROVE  Count(Append(s, x), v) = Count(s, v) + One(x = v)
<1> DEFINE at == {i \in DOMAIN s : s[i] = v}
           then == {i \in DOMAIN Append(s, x) : Append(s, x)[i] = v}
<1>1. /\ DOMAIN s = 1 .. Len(s) /\ Len(s) \in Nat
      /\ DOMAIN Append(s, x) = 1 .. Len(s) + 1
      /\ \A i \in 1 .. Len(s) : Append(s, x)[i] = s[i]
      /\ Append(s, x)[Len(s) + 1] = x
  OBVIOUS
<1>2. IsFiniteSet(at) /\ Count(s, v) \in Nat /\ Count(s, v) = Cardinality(at)
  BY CountFinite DEF Count
<1>3. Count(Append(s, x), v) = Cardinality(then)
  BY DEF Count
<1>4. CASE x = v
  <2>1. then = at \cup {Len(s) + 1} /\ Len(s) + 1 \notin at
    BY <1>1, <1>4
  <2>2. Cardinality(at \cup {Len(s) + 1}) = Cardinality(at) + 1
    BY <1>2, <2>1, FS_AddElement
  <2>3. One(x = v) = 1
    BY <1>4 DEF One
  <2> QED
    BY <1>2, <1>3, <2>1, <2>2, <2>3
<1>5. CASE x # v
  <2>1. then = at
    BY <1>1, <1>5
  <2>2. One(x = v) = 0
    BY <1>5 DEF One
  <2> HIDE DEF at, then
  <2> QED
    BY <1>2, <1>3, <2>1, <2>2
<1> QED
  BY <1>4, <1>5

LEMMA CountTail ==
  ASSUME NEW S, NEW s \in Seq(S), s # << >>, NEW v
  PROVE  Count(s, v) = Count(Tail(s), v) + One(Head(s) = v)
<1> DEFINE T == {i \in DOMAIN Tail(s) : Tail(s)[i] = v}
           A == {i \in DOMAIN s : s[i] = v}
<1>1. /\ DOMAIN s = 1 .. Len(s) /\ Len(s) \in Nat /\ Len(s) >= 1
      /\ Head(s) = s[1]
      /\ Tail(s) \in Seq(S)
      /\ DOMAIN Tail(s) = 1 .. Len(s) - 1
      /\ \A i \in 1 .. Len(s) - 1 : Tail(s)[i] = s[i + 1]
  OBVIOUS
<1>2. /\ IsFiniteSet(T) /\ Cardinality(T) \in Nat /\ Cardinality(T) = Count(Tail(s), v)
      /\ IsFiniteSet(A) /\ Cardinality(A) \in Nat /\ Cardinality(A) = Count(s, v)
  BY <1>1, CountFinite DEF Count
<1>3. Cardinality(A \ {1}) = Cardinality(T)
  <2> DEFINE f == [i \in T |-> i + 1]
  <2>1. \A i \in T : i \in 1 .. Len(s) - 1 /\ s[i + 1] = v
    BY <1>1
  <2>2. \A j \in A \ {1} : j - 1 \in T /\ (j - 1) + 1 = j
    BY <1>1
  <2>3. f \in [T -> A \ {1}]
    BY <1>1, <2>1
  <2>4. \A a, b \in T : f[a] = f[b] => a = b
    BY <2>1
  <2>5. \A j \in A \ {1} : \E i \in T : f[i] = j
    BY <2>2
  <2>6. f \in Bijection(T, A \ {1})
    <3>1. DOMAIN f = T
      OBVIOUS
    <3> HIDE DEF f, T, A
    <3> QED
      BY <2>3, <2>4, <2>5, <3>1 DEF Bijection, Injection, IsInjective, Surjection
  <2>7. ExistsBijection(T, A \ {1})
    BY <2>6 DEF ExistsBijection
  <2> QED
    BY <1>2, <2>7, FS_Bijection
<1>4. 1 \in A <=> Head(s) = v
  BY <1>1
<1>5. Cardinality(A \ {1}) = IF 1 \in A THEN Cardinality(A) - 1 ELSE Cardinality(A)
  BY <1>2, FS_RemoveElement
<1> HIDE DEF T, A
<1>6. CASE Head(s) = v
  <2>1. One(Head(s) = v) = 1
    BY <1>6 DEF One
  <2> QED
    BY <1>2, <1>3, <1>4, <1>5, <1>6, <2>1
<1>7. CASE Head(s) # v
  <2>1. One(Head(s) = v) = 0
    BY <1>7 DEF One
  <2> QED
    BY <1>2, <1>3, <1>4, <1>5, <1>7, <2>1
<1> QED
  BY <1>6, <1>7

-----------------------------------------------------------------------------
(* The vsync waiter is used as specified *)

\* A task that another one is not.
LEMMA Names ==
  /\ \A t \in Inputs \cup {"await", "shutdown"} : t \in V!Tasks /\ t # "vsync"
  /\ "vsync" \in V!Tasks /\ FlowIds \in V!Tasks /\ FlowIds # "vsync" /\ FlowIds # "await"
  /\ \A t \in Inputs : t # "await" /\ t # "shutdown" /\ t # "none"
  /\ "none" \notin V!Tasks
BY DEF V!Tasks, Inputs, FlowIds

\* Requests under way but for those the UI thread is working at.
Requests == Count(uiQueue, "await") + One(callback) + One("vsync" \in taken) + Count(uiQueue, "vsync")

LEMMA WaiterTypes ==
  ASSUME WaiterInv
  PROVE  /\ V!TypeOK /\ uiQueue \in Seq(V!Tasks)
         /\ Count(uiQueue, "await") \in Nat /\ Count(uiQueue, "vsync") \in Nat
         /\ Requests \in Nat
<1>1. V!TypeOK /\ uiQueue \in Seq(V!Tasks)
  BY DEF WaiterInv, V!TypeOK
<1>2. Count(uiQueue, "await") \in Nat /\ Count(uiQueue, "vsync") \in Nat
  BY <1>1, CountFinite
<1>3. One(callback) \in Nat /\ One("vsync" \in taken) \in Nat
  BY DEF One
<1> QED
  BY <1>1, <1>2, <1>3 DEF Requests

LEMMA PostKeeps ==
  ASSUME WaiterInv, NEW t \in Inputs \cup {"await", "shutdown"}, V!PostTask(t)
  PROVE  WaiterInv' /\ Requests' = Requests + One(t = "await")
<1>1. /\ uiQueue' = Append(uiQueue, t) /\ t \in V!Tasks /\ t # "vsync"
      /\ UNCHANGED <<callback, secondary, requesting, os, fire, taken, paused, running, alive>>
  BY Names DEF V!PostTask
<1>2. uiQueue' \in Seq(V!Tasks)
  BY <1>1, WaiterTypes
<1>3. /\ Count(uiQueue, "vsync")' = Count(uiQueue, "vsync") + One(t = "vsync")
      /\ Count(uiQueue, "await")' = Count(uiQueue, "await") + One(t = "await")
  <2>1. \A v : Count(Append(uiQueue, t), v) = Count(uiQueue, v) + One(t = v)
    BY <1>1, WaiterTypes, CountAppend
  <2> QED
    BY <1>1, <2>1
<1>4. One(t = "vsync") = 0 /\ One(t = "await") \in Nat
  BY <1>1 DEF One
<1>5. Count(uiQueue, "vsync")' = Count(uiQueue, "vsync")
  BY <1>3, <1>4, WaiterTypes
<1>6. V!TypeOK'
  BY <1>1, <1>2, WaiterTypes DEF V!TypeOK
<1>7. WaiterInv'
  BY <1>1, <1>5, <1>6 DEF WaiterInv, One
<1>8. One(callback)' = One(callback) /\ One("vsync" \in taken)' = One("vsync" \in taken)
  BY <1>1 DEF One
<1>9. One(callback) \in Nat /\ One("vsync" \in taken) \in Nat
  BY DEF One
<1>10. Requests' = Requests + One(t = "await")
  BY <1>3, <1>4, <1>5, <1>8, <1>9, WaiterTypes DEF Requests
<1> QED
  BY <1>7, <1>10

LEMMA StartKeeps ==
  ASSUME WaiterInv, V!StartTask
  PROVE  /\ WaiterInv' /\ running = "none" /\ running' \in V!Tasks /\ running' = Head(uiQueue)
         /\ Requests = Requests' + One(running' = "await") + One(running' = "vsync")
<1>1. /\ running = "none" /\ uiQueue # << >>
      /\ uiQueue' = Tail(uiQueue) /\ running' = Head(uiQueue)
      /\ UNCHANGED <<callback, secondary, requesting, os, fire, taken, paused, alive>>
  BY DEF V!StartTask
<1>2. uiQueue' \in Seq(V!Tasks) /\ running' \in V!Tasks
  BY <1>1, WaiterTypes
<1>3. /\ Count(uiQueue, "vsync") = Count(uiQueue, "vsync")' + One(running' = "vsync")
      /\ Count(uiQueue, "await") = Count(uiQueue, "await")' + One(running' = "await")
  <2>1. \A v : Count(uiQueue, v) = Count(Tail(uiQueue), v) + One(Head(uiQueue) = v)
    BY <1>1, WaiterTypes, CountTail
  <2> QED
    BY <1>1, <2>1
<1>4. Count(uiQueue, "vsync")' \in Nat /\ Count(uiQueue, "await")' \in Nat
  <2>1. \A v : Count(Tail(uiQueue), v) \in Nat
    BY <1>1, <1>2, CountFinite
  <2> QED
    BY <1>1, <2>1
<1>5. /\ One(running' = "vsync") \in Nat /\ One(running' = "await") \in Nat
      /\ One(running = "vsync") = 0 /\ One(running = "vsync")' = One(running' = "vsync")
      /\ One(fire = "posting" /\ "vsync" \in taken) \in Nat
      /\ One(callback) \in Nat /\ One("vsync" \in taken) \in Nat
  BY <1>1 DEF One
<1>6. V!TypeOK'
  BY <1>1, <1>2, WaiterTypes DEF V!TypeOK
<1>7. /\ One(fire = "posting" /\ "vsync" \in taken)' = One(fire = "posting" /\ "vsync" \in taken)
      /\ One(callback)' = One(callback) /\ One("vsync" \in taken)' = One("vsync" \in taken)
  BY <1>1 DEF One
<1>8. paused' = One(fire = "posting" /\ "vsync" \in taken)' + Count(uiQueue, "vsync")'
                + One(running = "vsync")'
  BY <1>1, <1>3, <1>4, <1>5, <1>7 DEF WaiterInv
<1>9. WaiterInv'
  BY <1>1, <1>6, <1>8 DEF WaiterInv
<1>10. Requests = Requests' + One(running' = "await") + One(running' = "vsync")
  BY <1>3, <1>4, <1>5, <1>7 DEF Requests
<1> QED
  BY <1>1, <1>2, <1>9, <1>10

LEMMA FinishKeeps ==
  ASSUME WaiterInv, V!FinishTask
  PROVE  WaiterInv' /\ Requests' = Requests /\ running' = "none" /\ alive' = alive
<1>1. /\ running # "none" /\ running' = "none"
      /\ paused' = IF running = "vsync" THEN paused - 1 ELSE paused
      /\ UNCHANGED <<callback, secondary, requesting, os, fire, taken, uiQueue, alive>>
  BY DEF V!FinishTask
<1>2. Requests' = Requests /\ Count(uiQueue, "vsync")' = Count(uiQueue, "vsync")
  BY <1>1 DEF Requests, Count, One
<1>3. /\ One(fire = "posting" /\ "vsync" \in taken)' = One(fire = "posting" /\ "vsync" \in taken)
      /\ One(fire = "posting" /\ "vsync" \in taken) \in Nat
      /\ One(running = "vsync")' = 0
      /\ paused' = paused - One(running = "vsync") /\ One(running = "vsync") \in Nat
  <2>1. paused \in Nat
    BY DEF WaiterInv, V!TypeOK
  <2> QED
    BY <1>1, <2>1 DEF One
<1>4. paused' = One(fire = "posting" /\ "vsync" \in taken)' + Count(uiQueue, "vsync")'
                + One(running = "vsync")'
  BY <1>2, <1>3, WaiterTypes DEF WaiterInv
<1>5. paused' \in Nat
  BY <1>2, <1>3, <1>4, WaiterTypes
<1>6. V!TypeOK'
  BY <1>1, <1>5, WaiterTypes DEF V!TypeOK
<1> QED
  BY <1>1, <1>2, <1>4, <1>6 DEF WaiterInv

\* Steps that post, take and end no task and leave FireCallback alone.
LEMMA QueueUntouched ==
  ASSUME WaiterInv, V!TypeOK', UNCHANGED <<fire, taken, paused, uiQueue, running>>
  PROVE  WaiterInv' /\ (callback' = callback => Requests' = Requests)
<1>1. WaiterInv'
  BY DEF WaiterInv, One
<1>2. callback' = callback => Requests' = Requests
  BY DEF Requests, One
<1> QED
  BY <1>1, <1>2

LEMMA AsyncKeeps ==
  ASSUME WaiterInv, V!AsyncWaitForVsync
  PROVE  WaiterInv' /\ (~callback => Requests' = Requests + 1) /\ UNCHANGED <<running, alive>>
<1>1. /\ callback' = TRUE
      /\ UNCHANGED <<secondary, os, fire, taken, paused, uiQueue, running, alive>>
  BY DEF V!AsyncWaitForVsync
<1>2. V!TypeOK'
  BY WaiterTypes DEF V!AsyncWaitForVsync, V!TypeOK
<1>3. ~callback => One(callback) = 0 /\ One(callback)' = 1
  BY <1>1 DEF One
<1>4. /\ Count(uiQueue, "await")' = Count(uiQueue, "await")
      /\ Count(uiQueue, "vsync")' = Count(uiQueue, "vsync")
      /\ One("vsync" \in taken)' = One("vsync" \in taken) /\ One("vsync" \in taken) \in Nat
  BY <1>1 DEF One
<1>5. ~callback => Requests' = Requests + 1
  BY <1>3, <1>4, WaiterTypes DEF Requests
<1> QED
  BY <1>1, <1>2, <1>5, QueueUntouched

LEMMA OtherKeeps ==
  ASSUME WaiterInv,
         V!ScheduleSecondaryCallback(FlowIds) \/ V!AwaitVSync \/ V!Destroy \/ UNCHANGED vsyncVars
  PROVE  WaiterInv' /\ Requests' = Requests /\ running' = running
<1>1. UNCHANGED <<callback, fire, taken, paused, uiQueue, running>>
  BY DEF V!ScheduleSecondaryCallback, V!AwaitVSync, V!Destroy, vsyncVars
<1>2. V!TypeOK
  BY WaiterTypes
<1>3. V!TypeOK'
  <2>1. CASE V!ScheduleSecondaryCallback(FlowIds)
    BY <1>2, <2>1 DEF V!TypeOK, V!ScheduleSecondaryCallback
  <2>2. CASE V!AwaitVSync
    <3>1. os' \in Nat
      BY <1>2, <2>2 DEF V!TypeOK, V!AwaitVSync
    <3>2. requesting' \in BOOLEAN /\ UNCHANGED <<secondary, alive>>
      BY <2>2 DEF V!AwaitVSync
    <3> QED
      BY <1>1, <1>2, <3>1, <3>2 DEF V!TypeOK
  <2>3. CASE V!Destroy
    BY <1>2, <2>3 DEF V!TypeOK, V!Destroy
  <2>4. CASE UNCHANGED vsyncVars
    BY <1>2, <2>4 DEF V!TypeOK, vsyncVars
  <2> QED
    BY <2>1, <2>2, <2>3, <2>4
<1> QED
  BY <1>1, <1>3, QueueUntouched

LEMMA VsyncKeeps ==
  ASSUME WaiterInv, V!VsyncThread
  PROVE  WaiterInv' /\ Requests' = Requests /\ UNCHANGED <<running, alive>>
<1> DEFINE mine == One(fire = "posting" /\ "vsync" \in taken)
<1>1. paused = mine + Count(uiQueue, "vsync") + One(running = "vsync") /\ V!TypeOK
  BY DEF WaiterInv
<1>2. /\ One(running = "vsync") \in Nat /\ One(callback) \in Nat
      /\ One("vsync" \in taken) \in Nat /\ mine \in Nat
  BY DEF One
<1>3. UNCHANGED <<running, alive>>
  BY DEF V!VsyncThread, V!OnVsyncFromOHOS, V!FireCallback, V!PauseDartEventLoopTasks, V!FirePost
<1>4. CASE V!OnVsyncFromOHOS
  <2>1. V!TypeOK'
    BY <1>1, <1>4 DEF V!OnVsyncFromOHOS, V!TypeOK
  <2>2. /\ UNCHANGED <<callback, taken, paused, uiQueue>> /\ fire = "idle"
        /\ fire' \in {"idle", "entered"}
    BY <1>4 DEF V!OnVsyncFromOHOS
  <2>3. mine' = mine /\ Requests' = Requests
    BY <2>2 DEF One, Requests
  <2>4. WaiterInv'
    BY <1>1, <1>3, <2>1, <2>2, <2>3 DEF WaiterInv, One
  <2> QED
    BY <1>3, <2>3, <2>4
<1>5. CASE V!FireCallback
  <2>1. V!TypeOK'
    BY <1>1, <1>5 DEF V!FireCallback, V!TypeOK
  <2>2. /\ fire = "entered" /\ callback' = FALSE /\ taken = {}
        /\ taken' = (IF callback THEN {"vsync"} ELSE {}) \cup secondary
        /\ fire' = IF callback THEN "pausing" ELSE IF secondary # {} THEN "posting" ELSE "idle"
        /\ "vsync" \notin secondary
        /\ UNCHANGED <<paused, uiQueue>>
    BY <1>1, <1>5, Names DEF V!FireCallback, WaiterInv, V!TypeOK
  <2>3. mine = 0 /\ mine' = 0
    BY <2>2 DEF One
  <2>4. Requests' = Requests
    <3>1. /\ Count(uiQueue, "await")' = Count(uiQueue, "await")
          /\ Count(uiQueue, "vsync")' = Count(uiQueue, "vsync")
      BY <2>2
    <3>2. /\ One(callback)' = 0 /\ One("vsync" \in taken) = 0
          /\ One("vsync" \in taken)' = One(callback)
      BY <2>2 DEF One
    <3> QED
      BY <1>2, <3>1, <3>2, WaiterTypes DEF Requests
  <2>5. WaiterInv'
    <3>1. /\ fire' \in {"idle", "entered"} => taken' = {}
          /\ fire' = "pausing" => "vsync" \in taken'
      BY <2>2
    <3>2. paused' = mine' + Count(uiQueue, "vsync")' + One(running = "vsync")'
      BY <1>1, <1>3, <2>2, <2>3 DEF One
    <3> QED
      BY <2>1, <3>1, <3>2 DEF WaiterInv
  <2> QED
    BY <1>3, <2>4, <2>5
<1>6. CASE V!PauseDartEventLoopTasks
  <2>1. /\ fire = "pausing" /\ fire' = "posting" /\ paused' = paused + 1 /\ "vsync" \in taken
        /\ UNCHANGED <<callback, secondary, requesting, os, taken, uiQueue>>
    BY <1>6 DEF V!PauseDartEventLoopTasks, WaiterInv
  <2>2. paused' \in Nat
    BY <1>1, <2>1 DEF V!TypeOK
  <2>3. V!TypeOK'
    BY <1>1, <1>3, <2>1, <2>2 DEF V!TypeOK
  <2>4. mine = 0 /\ mine' = 1 /\ One(running = "vsync")' = One(running = "vsync")
    BY <1>3, <2>1 DEF One
  <2>5. paused' = mine' + Count(uiQueue, "vsync")' + One(running = "vsync")'
    BY <1>1, <1>2, <2>1, <2>4, WaiterTypes
  <2>6. Requests' = Requests
    BY <2>1 DEF Requests, One
  <2> QED
    BY <1>3, <2>1, <2>3, <2>5, <2>6 DEF WaiterInv
<1>7. CASE V!FirePost
  <2>1. PICK t \in taken : /\ "vsync" \in taken => t = "vsync"
                           /\ uiQueue' = Append(uiQueue, t)
                           /\ taken' = taken \ {t}
                           /\ fire' = IF taken = {t} THEN "idle" ELSE "posting"
    BY <1>7 DEF V!FirePost
  <2>2. t \in V!Tasks /\ t # "await"
    BY <1>1, Names DEF V!TypeOK, FlowIds
  <2>3. /\ uiQueue' \in Seq(V!Tasks)
        /\ Count(uiQueue, "vsync")' = Count(uiQueue, "vsync") + One(t = "vsync")
        /\ Count(uiQueue, "await")' = Count(uiQueue, "await") + One(t = "await")
    BY <2>1, <2>2, WaiterTypes, CountAppend
  <2>4. fire = "posting" /\ UNCHANGED <<callback, secondary, requesting, os, paused>>
    BY <1>7 DEF V!FirePost
  <2>5. V!TypeOK'
    BY <1>1, <1>3, <2>1, <2>3, <2>4 DEF V!TypeOK
  <2>6. /\ mine = One(t = "vsync") /\ mine' = 0 /\ One(t = "vsync") \in Nat
        /\ One("vsync" \in taken) = One(t = "vsync") /\ One("vsync" \in taken)' = 0
        /\ One(t = "await") = 0 /\ One(callback)' = One(callback)
    BY <2>1, <2>2, <2>4 DEF One
  <2>7. paused' = mine' + Count(uiQueue, "vsync")' + One(running = "vsync")'
    <3>1. One(running = "vsync")' = One(running = "vsync")
      BY <1>3 DEF One
    <3> QED
      BY <1>1, <1>2, <2>3, <2>4, <2>6, <3>1, WaiterTypes
  <2>8. Requests' = Requests
    BY <1>2, <2>3, <2>6, WaiterTypes DEF Requests
  <2>9. WaiterInv'
    <3>1. /\ fire' \in {"idle", "entered"} => taken' = {}
          /\ fire' # "pausing"
      BY <2>1
    <3> QED
      BY <2>5, <2>7, <3>1 DEF WaiterInv
  <2> QED
    BY <1>3, <2>8, <2>9
<1> QED
  BY <1>4, <1>5, <1>6, <1>7 DEF V!VsyncThread

-----------------------------------------------------------------------------
(* The frame pipeline is used as specified *)

LEMMA PipeTypes ==
  ASSUME PipeInv
  PROVE  /\ P!TypeOK /\ empty \in Int /\ available \in Nat
         /\ queue \in Seq(Frames \cup {NoFrame}) /\ Len(queue) \in Nat
         /\ Depth \in Nat /\ Depth \in {1, 2}
<1>1. P!TypeOK /\ empty \in 0..Depth /\ available \in Nat /\ queue \in Seq(Frames \cup {NoFrame})
  BY DEF PipeInv, P!TypeOK, P!Items
<1>2. Depth \in {1, 2} /\ Depth \in Nat
  BY FrameAssumption
<1> QED
  BY <1>1, <1>2

LEMMA ClaimKeeps ==
  ASSUME PipeInv, NEW p \in {"ui", "raster"}, NEW k \in {"always", "ifEmpty"}, P!ClaimSlot(p, k)
  PROVE  PipeInv'
<1>1. /\ stage[p] = "idle" /\ empty > 0 /\ empty' = empty - 1 /\ inflight' = inflight + 1
      /\ stage' = [stage EXCEPT ![p] = "held"] /\ kind' = [kind EXCEPT ![p] = k]
      /\ UNCHANGED <<available, queue, first, cstage, item, more>>
  BY DEF P!ClaimSlot, P!consVars
<1>2. P!TypeOK'
  BY <1>1, PipeTypes DEF P!TypeOK, P!Kinds
<1>3. stage \in [{"ui", "raster"} -> {"idle", "held", "pushed"}]
  BY PipeTypes DEF P!TypeOK
<1>4. /\ stage'[p] = "held" /\ \A q \in {"ui", "raster"} : q # p => stage'[q] = stage[q]
  BY <1>1, <1>3
<1>5. Slots'
  BY <1>1, <1>4, PipeTypes DEF PipeInv, Slots, One
<1>6. Backed'
  BY <1>1, <1>4, PipeTypes DEF PipeInv, Backed, One
<1> QED
  BY <1>2, <1>5, <1>6 DEF PipeInv

LEMMA PushKeeps ==
  ASSUME PipeInv, NEW p \in {"ui", "raster"}, NEW r \in Frames \cup {NoFrame},
         stage[p] = "held", P!Push(p, r)
  PROVE  PipeInv'
<1>1. /\ first' = [first EXCEPT ![p] = (queue = << >>)] /\ queue' = Append(queue, r)
      /\ stage' = [stage EXCEPT ![p] = "pushed"]
      /\ UNCHANGED <<empty, available, inflight, kind, cstage, item, more>>
  BY DEF P!Push, P!consVars
<1>2. queue' \in Seq(Frames \cup {NoFrame}) /\ Len(queue') = Len(queue) + 1
  BY <1>1, PipeTypes
<1>3. P!TypeOK'
  BY <1>1, <1>2, PipeTypes DEF P!TypeOK, P!Items
<1>4. stage \in [{"ui", "raster"} -> {"idle", "held", "pushed"}]
  BY PipeTypes DEF P!TypeOK
<1>5. /\ stage'[p] = "pushed" /\ \A q \in {"ui", "raster"} : q # p => stage'[q] = stage[q]
  BY <1>1, <1>4
<1>6. Slots'
  <2>1. Slots
    BY DEF PipeInv
  <2>2. CASE p = "ui"
    <3>1. /\ One(stage["ui"] = "held") = 1 /\ One(stage["ui"] = "held")' = 0
          /\ One(stage["raster"] = "held")' = One(stage["raster"] = "held")
          /\ One(cstage["raster"] = "consuming")' = One(cstage["raster"] = "consuming")
          /\ One(stage["raster"] = "held") \in Nat /\ One(cstage["raster"] = "consuming") \in Nat
      BY <1>1, <1>2, <1>5, <2>2 DEF One
    <3> QED
      BY <1>1, <1>2, <1>5, <2>1, <3>1, PipeTypes DEF Slots
  <2>3. CASE p = "raster"
    <3>1. /\ One(stage["raster"] = "held") = 1 /\ One(stage["raster"] = "held")' = 0
          /\ One(stage["ui"] = "held")' = One(stage["ui"] = "held")
          /\ One(cstage["raster"] = "consuming")' = One(cstage["raster"] = "consuming")
          /\ One(stage["ui"] = "held") \in Nat /\ One(cstage["raster"] = "consuming") \in Nat
      BY <1>1, <1>2, <1>5, <2>3 DEF One
    <3> QED
      BY <1>1, <1>2, <1>5, <2>1, <3>1, PipeTypes DEF Slots
  <2> QED
    BY <2>2, <2>3
<1>7. Backed'
  BY <1>1, <1>2, <1>5, PipeTypes DEF PipeInv, Backed, One
<1> QED
  BY <1>3, <1>6, <1>7 DEF PipeInv

LEMMA BailKeeps ==
  ASSUME PipeInv, NEW p \in {"ui", "raster"}, P!BailIfNotEmpty(p)
  PROVE  PipeInv'
<1>1. /\ stage[p] = "held" /\ first' = [first EXCEPT ![p] = FALSE] /\ empty' = empty + 1
      /\ stage' = [stage EXCEPT ![p] = "idle"]
      /\ UNCHANGED <<available, inflight, queue, kind, cstage, item, more>>
  BY DEF P!BailIfNotEmpty, P!consVars
<1>2. stage \in [{"ui", "raster"} -> {"idle", "held", "pushed"}]
  BY PipeTypes DEF P!TypeOK
<1>3. /\ stage'[p] = "idle" /\ \A q \in {"ui", "raster"} : q # p => stage'[q] = stage[q]
  BY <1>1, <1>2
<1>4. empty' \in 0..Depth
  BY <1>1, PipeTypes DEF PipeInv, Slots, One, P!TypeOK
<1>5. P!TypeOK'
  BY <1>1, <1>4, PipeTypes DEF P!TypeOK
<1>6. Slots'
  <2>1. Slots
    BY DEF PipeInv
  <2>2. CASE p = "ui"
    <3>1. /\ One(stage["ui"] = "held") = 1 /\ One(stage["ui"] = "held")' = 0
          /\ One(stage["raster"] = "held")' = One(stage["raster"] = "held")
          /\ One(cstage["raster"] = "consuming")' = One(cstage["raster"] = "consuming")
          /\ One(stage["raster"] = "held") \in Nat /\ One(cstage["raster"] = "consuming") \in Nat
      BY <1>1, <1>3, <2>2 DEF One
    <3> QED
      BY <1>1, <1>3, <2>1, <3>1, PipeTypes DEF Slots
  <2>3. CASE p = "raster"
    <3>1. /\ One(stage["raster"] = "held") = 1 /\ One(stage["raster"] = "held")' = 0
          /\ One(stage["ui"] = "held")' = One(stage["ui"] = "held")
          /\ One(cstage["raster"] = "consuming")' = One(cstage["raster"] = "consuming")
          /\ One(stage["ui"] = "held") \in Nat /\ One(cstage["raster"] = "consuming") \in Nat
      BY <1>1, <1>3, <2>3 DEF One
    <3> QED
      BY <1>1, <1>3, <2>1, <3>1, PipeTypes DEF Slots
  <2> QED
    BY <2>2, <2>3
<1>7. Backed'
  BY <1>1, <1>3, PipeTypes DEF PipeInv, Backed, One
<1> QED
  BY <1>5, <1>6, <1>7 DEF PipeInv

LEMMA SignalKeeps ==
  ASSUME PipeInv, NEW p \in {"ui", "raster"}, P!SignalAvailable(p)
  PROVE  PipeInv'
<1>1. /\ stage[p] = "pushed" /\ available' = available + 1
      /\ stage' = [stage EXCEPT ![p] = "idle"]
      /\ UNCHANGED <<empty, inflight, queue, kind, first, cstage, item, more>>
  BY DEF P!SignalAvailable, P!consVars
<1>2. stage \in [{"ui", "raster"} -> {"idle", "held", "pushed"}]
  BY PipeTypes DEF P!TypeOK
<1>3. /\ stage'[p] = "idle" /\ \A q \in {"ui", "raster"} : q # p => stage'[q] = stage[q]
  BY <1>1, <1>2
<1>4. P!TypeOK'
  BY <1>1, PipeTypes DEF P!TypeOK
<1>5. Slots'
  BY <1>1, <1>3, PipeTypes DEF PipeInv, Slots, One
<1>6. Backed'
  BY <1>1, <1>3, PipeTypes DEF PipeInv, Backed, One
<1> QED
  BY <1>4, <1>5, <1>6 DEF PipeInv

LEMMA AcquireKeeps ==
  ASSUME PipeInv, P!ConsumeAcquire("raster")
  PROVE  PipeInv'
<1>1. /\ cstage["raster"] = "idle" /\ available > 0 /\ available' = available - 1
      /\ cstage' = [cstage EXCEPT !["raster"] = "acquired"]
      /\ UNCHANGED <<empty, inflight, queue, item, more, stage, kind, first>>
  BY DEF P!ConsumeAcquire, P!prodVars
<1>2. P!TypeOK' /\ cstage'["raster"] = "acquired"
  BY <1>1, PipeTypes DEF P!TypeOK
<1>3. Slots'
  BY <1>1, <1>2, PipeTypes DEF PipeInv, Slots, One
<1>4. Backed'
  BY <1>1, <1>2, PipeTypes DEF PipeInv, Backed, One
<1> QED
  BY <1>2, <1>3, <1>4 DEF PipeInv

\* The deque is not empty when the rasterizer takes its front.
LEMMA FrontDefined ==
  ASSUME PipeInv, cstage["raster"] = "acquired"
  PROVE  queue # << >> /\ Head(queue) \in Frames \cup {NoFrame}
         /\ Tail(queue) \in Seq(Frames \cup {NoFrame}) /\ Len(Tail(queue)) = Len(queue) - 1
<1>1. Len(queue) # 0
  BY PipeTypes DEF PipeInv, Backed, One
<1>2. queue # << >>
  BY <1>1
<1> QED
  BY <1>2, PipeTypes

LEMMA PopKeeps ==
  ASSUME PipeInv, P!ConsumePop("raster")
  PROVE  PipeInv' /\ item'["raster"] = Head(queue) /\ cstage'["raster"] = "consuming"
<1>1. /\ cstage["raster"] = "acquired" /\ item' = [item EXCEPT !["raster"] = Head(queue)]
      /\ queue' = Tail(queue) /\ more' = [more EXCEPT !["raster"] = Len(queue) > 1]
      /\ cstage' = [cstage EXCEPT !["raster"] = "consuming"]
      /\ UNCHANGED <<empty, available, inflight, stage, kind, first>>
  BY DEF P!ConsumePop, P!prodVars
<1>2. P!TypeOK'
  BY <1>1, FrontDefined, PipeTypes DEF P!TypeOK, P!Items
<1>3. cstage'["raster"] = "consuming" /\ item'["raster"] = Head(queue)
  BY <1>1, PipeTypes DEF P!TypeOK
<1>4. Slots'
  <2>1. Slots /\ Len(queue') = Len(queue) - 1
    BY <1>1, FrontDefined DEF PipeInv
  <2>2. /\ One(cstage["raster"] = "consuming") = 0 /\ One(cstage["raster"] = "consuming")' = 1
        /\ One(stage["ui"] = "held")' = One(stage["ui"] = "held")
        /\ One(stage["raster"] = "held")' = One(stage["raster"] = "held")
        /\ One(stage["ui"] = "held") \in Nat /\ One(stage["raster"] = "held") \in Nat
    BY <1>1, <1>3 DEF One
  <2>3. empty' = empty
    BY <1>1
  <2> QED
    BY <2>1, <2>2, <2>3, PipeTypes DEF Slots
<1>5. Backed'
  BY <1>1, <1>3, PipeTypes, FrontDefined DEF PipeInv, Backed, One
<1> QED
  BY <1>2, <1>3, <1>4, <1>5 DEF PipeInv

LEMMA FinishConsumeKeeps ==
  ASSUME PipeInv, P!ConsumeFinish("raster")
  PROVE  PipeInv' /\ item'["raster"] = NoFrame /\ cstage'["raster"] = "idle"
<1>1. /\ cstage["raster"] = "consuming" /\ item' = [item EXCEPT !["raster"] = NoFrame]
      /\ empty' = empty + 1 /\ inflight' = inflight - 1
      /\ cstage' = [cstage EXCEPT !["raster"] = "idle"]
      /\ UNCHANGED <<available, queue, more, stage, kind, first>>
  BY DEF P!ConsumeFinish, P!prodVars
<1>2. empty' \in 0..Depth
  BY <1>1, PipeTypes DEF PipeInv, Slots, One, P!TypeOK
<1>3. P!TypeOK'
  BY <1>1, <1>2, PipeTypes DEF P!TypeOK, P!Items
<1>4. cstage'["raster"] = "idle" /\ item'["raster"] = NoFrame
  BY <1>1, PipeTypes DEF P!TypeOK
<1>5. Slots'
  BY <1>1, <1>4, PipeTypes DEF PipeInv, Slots, One
<1>6. Backed'
  BY <1>1, <1>4, PipeTypes DEF PipeInv, Backed, One
<1> QED
  BY <1>3, <1>4, <1>5, <1>6 DEF PipeInv

LEMMA PipeUntouched ==
  ASSUME PipeInv, UNCHANGED pipeVars
  PROVE  PipeInv'
BY DEF PipeInv, Slots, Backed, pipeVars, P!TypeOK, One

-----------------------------------------------------------------------------
(* One frame request *)

\* The UI thread is at the start of the task that makes or answers a request.
AtRequest == running \in {"await", "vsync"} /\ ui = "start"
Serving == One(running = "await" /\ ui = "start") + One(running = "vsync" /\ ui = "start")

LEMMA ServingValue ==
  /\ Serving \in Nat /\ (AtRequest => Serving = 1) /\ (~AtRequest => Serving = 0)
  /\ Serving' \in Nat /\ (AtRequest' => Serving' = 1) /\ (~AtRequest' => Serving' = 0)
BY DEF Serving, AtRequest, One

LEMMA RequestFacts ==
  ASSUME RequestInv
  PROVE  /\ WaiterInv /\ PipeInv /\ AnimTypes /\ DrawTypes /\ UIPhases /\ RegenerateIsPending
         /\ Requests \in Nat /\ sem \in Nat /\ alive \in BOOLEAN
         /\ alive => sem + Requests + Serving = 1
<1>1. WaiterInv /\ PipeInv /\ AnimTypes /\ DrawTypes /\ UIPhases /\ RegenerateIsPending
  BY DEF RequestInv
<1>2. Requests \in Nat /\ sem \in Nat /\ alive \in BOOLEAN
  BY <1>1, WaiterTypes DEF AnimTypes, V!TypeOK
<1>3. /\ One(callback) \in Nat /\ One("vsync" \in taken) \in Nat
      /\ One(running = "await" /\ ui = "start") \in Nat
      /\ One(running = "vsync" /\ ui = "start") \in Nat
  BY DEF One
<1>4. alive => sem + Requests + Serving = 1
  <2>1. OneFrameRequest
    BY DEF RequestInv
  <2>2. Count(uiQueue, "await") \in Nat /\ Count(uiQueue, "vsync") \in Nat
    BY <1>1, WaiterTypes
  <2> QED
    BY <1>2, <1>3, <2>1, <2>2 DEF OneFrameRequest, Requests, Serving
<1> QED
  BY <1>1, <1>2, <1>4

\* What has to be shown of a step.
LEMMA Assemble ==
  ASSUME WaiterInv', PipeInv', AnimTypes', DrawTypes', UIPhases', RegenerateIsPending',
         alive' => sem' + Requests' + Serving' = 1
  PROVE  RequestInv'
<1>1. /\ Count(uiQueue, "await")' \in Nat /\ Count(uiQueue, "vsync")' \in Nat
  <2>1. uiQueue' \in Seq(V!Tasks)
    BY DEF WaiterInv, V!TypeOK
  <2> QED
    BY <2>1, CountFinite
<1>2. /\ One(callback)' \in Nat /\ One("vsync" \in taken)' \in Nat
      /\ One(running = "await" /\ ui = "start")' \in Nat
      /\ One(running = "vsync" /\ ui = "start")' \in Nat
      /\ sem' \in Nat
  BY DEF One, AnimTypes
<1>3. OneFrameRequest'
  BY <1>1, <1>2 DEF OneFrameRequest, Requests, Serving
<1> QED
  BY <1>3 DEF RequestInv

\* Steps of the raster thread and of ~Shell that leave the UI thread alone.
LEMMA RasterOnly ==
  ASSUME RequestInv, UNCHANGED <<vsyncVars, uiVars, inputs>>, PipeInv', DrawTypes'
  PROVE  RequestInv'
<1>1. UNCHANGED <<ui, back, sem, scheduled, regenerate, recorder, trees, rendered, flows, frames>>
  BY DEF uiVars, animVars
<1>2. WaiterInv' /\ Requests' = Requests /\ running' = running
  BY RequestFacts, OtherKeeps
<1>3. alive' = alive
  BY DEF vsyncVars
<1>4. AnimTypes' /\ UIPhases' /\ RegenerateIsPending'
  BY <1>1, <1>3, RequestFacts DEF AnimTypes, UIPhases, RegenerateIsPending
<1>5. Serving' = Serving
  BY <1>1, <1>2 DEF Serving, One
<1>6. alive' => sem' + Requests' + Serving' = 1
  BY <1>1, <1>2, <1>3, <1>5, RequestFacts
<1> QED
  BY <1>2, <1>4, <1>6, Assemble

\* Steps of the waiter alone.
LEMMA WaiterOnly ==
  ASSUME RequestInv, UNCHANGED <<pipeVars, uiVars>>, inputs' \in 0 .. MaxInputs, DrawTypes',
         WaiterInv', Requests' = Requests, running' = running, alive' = alive
  PROVE  RequestInv'
<1>1. UNCHANGED <<ui, back, sem, scheduled, regenerate, recorder, trees, rendered, flows, frames>>
  BY DEF uiVars, animVars
<1>2. AnimTypes' /\ UIPhases' /\ RegenerateIsPending'
  BY <1>1, RequestFacts DEF AnimTypes, UIPhases, RegenerateIsPending
<1>3. Serving' = Serving
  BY <1>1 DEF Serving, One
<1>4. alive' => sem' + Requests' + Serving' = 1
  BY <1>1, <1>3, RequestFacts
<1>5. PipeInv'
  BY RequestFacts, PipeUntouched
<1> QED
  BY <1>2, <1>4, <1>5, Assemble

\* Steps of the UI thread that neither ask for a frame nor answer a request.
LEMMA AnimatorOnly ==
  ASSUME RequestInv, UNCHANGED <<vsyncVars, sem, regenerate>>, ~AtRequest, ~AtRequest',
         PipeInv', AnimTypes', DrawTypes', UIPhases'
  PROVE  RequestInv'
<1>1. WaiterInv' /\ Requests' = Requests
  BY RequestFacts, OtherKeeps
<1>2. alive' = alive
  BY DEF vsyncVars
<1>3. RegenerateIsPending'
  BY <1>2, RequestFacts DEF RegenerateIsPending
<1>4. alive' => sem' + Requests' + Serving' = 1
  BY <1>1, <1>2, RequestFacts, ServingValue
<1> QED
  BY <1>1, <1>3, <1>4, Assemble

\* The raster task queue.
LEMMA RasterPostTypes ==
  ASSUME DrawTypes, NEW t \in {"draw", "redraw", "drawLast", "reset"}, RasterPost(t)
  PROVE  rasterQueue' \in Seq({"draw", "redraw", "drawLast", "reset"})
BY DEF DrawTypes, RasterPost

LEMMA RasterTakeTypes ==
  ASSUME DrawTypes, rasterQueue # << >>, rasterQueue' = Tail(rasterQueue)
  PROVE  rasterQueue' \in Seq({"draw", "redraw", "drawLast", "reset"})
BY DEF DrawTypes

-----------------------------------------------------------------------------
(* The raster thread keeps the invariant *)

LEMMA StartDrawStep ==
  ASSUME RequestInv, StartDraw \/ RasterDrawLast \/ DrawPipelineEmpty \/ DrawNullItem \/ RasterizerReset
                     \/ ResubmitPipelineFull \/ DrawDone
  PROVE  RequestInv'
<1>1. UNCHANGED <<vsyncVars, pipeVars, uiVars, inputs>>
  BY DEF StartDraw, RasterDrawLast, DrawPipelineEmpty, DrawNullItem, RasterizerReset,
         ResubmitPipelineFull, DrawDone
<1>2. PipeInv'
  BY <1>1, RequestFacts, PipeUntouched
<1>3. rasterQueue' \in Seq({"draw", "redraw", "drawLast", "reset"})
  BY RequestFacts, RasterPostTypes, RasterTakeTypes
  DEF StartDraw, RasterDrawLast, DrawPipelineEmpty, DrawNullItem, RasterizerReset,
      ResubmitPipelineFull, DrawDone, DrawTypes
<1>4. DrawTypes'
  BY <1>3, RequestFacts
  DEF StartDraw, RasterDrawLast, DrawPipelineEmpty, DrawNullItem, RasterizerReset,
      ResubmitPipelineFull, DrawDone, DrawTypes, rasterVars
<1> QED
  BY <1>1, <1>2, <1>4, RasterOnly

LEMMA DrawStep ==
  ASSUME RequestInv, DrawAcquire \/ DrawPop \/ DoDraw
  PROVE  RequestInv'
<1>1. UNCHANGED <<vsyncVars, uiVars, inputs, rasterQueue, shell>>
  BY DEF DrawAcquire, DrawPop, DoDraw
<1>2. CASE DrawAcquire
  <2>1. PipeInv'
    BY <1>2, RequestFacts, AcquireKeeps DEF DrawAcquire
  <2>2. DrawTypes'
    BY <1>2, RequestFacts DEF DrawAcquire, DrawTypes
  <2> QED
    BY <1>1, <2>1, <2>2, RasterOnly
<1>3. CASE DrawPop
  <2>1. PipeInv' /\ Head(queue) \in Frames \cup {NoFrame}
    BY <1>3, RequestFacts, PopKeeps, FrontDefined DEF DrawPop, P!ConsumePop
  <2>2. DrawTypes'
    BY <1>3, <2>1, RequestFacts DEF DrawPop, DrawTypes
  <2> QED
    BY <1>1, <2>1, <2>2, RasterOnly
<1>4. CASE DoDraw
  <2>1. PipeInv'
    BY <1>4, RequestFacts, FinishConsumeKeeps DEF DoDraw
  <2>2. item["raster"] \in Frames \cup {NoFrame}
    BY RequestFacts, PipeTypes DEF P!TypeOK, P!Items
  <2>3. resubmits' \in 0 .. MaxResubmits
    BY <1>4, RequestFacts, FrameAssumption DEF DoDraw, DrawTypes
  <2>4. DrawTypes'
    BY <1>4, <2>2, <2>3, RequestFacts DEF DoDraw, DrawTypes
  <2> QED
    BY <1>1, <2>1, <2>4, RasterOnly
<1> QED
  BY <1>2, <1>3, <1>4

LEMMA ResubmitStep ==
  ASSUME RequestInv, ResubmitProduce \/ ResubmitComplete \/ ResubmitSignal
  PROVE  RequestInv'
<1>1. UNCHANGED <<vsyncVars, uiVars, inputs, rasterQueue, drawn, resubmits, shell>>
  BY DEF ResubmitProduce, ResubmitComplete, ResubmitSignal
<1>2. PipeInv'
  <2>1. CASE ResubmitProduce
    BY <2>1, RequestFacts, ClaimKeeps DEF ResubmitProduce, P!ProduceIfEmpty
  <2>2. CASE ResubmitComplete
    <3>1. resubmit \in Frames \cup {NoFrame}
      BY RequestFacts DEF DrawTypes
    <3> QED
      BY <2>2, <3>1, RequestFacts, PushKeeps, BailKeeps
      DEF ResubmitComplete, P!Complete, P!ProducerCommit, P!ProducerCommitIfEmpty
  <2>3. CASE ResubmitSignal
    BY <2>3, RequestFacts, SignalKeeps DEF ResubmitSignal
  <2> QED
    BY <2>1, <2>2, <2>3
<1>3. DrawTypes'
  BY RequestFacts DEF ResubmitProduce, ResubmitComplete, ResubmitSignal, DrawTypes
<1> QED
  BY <1>1, <1>2, <1>3, RasterOnly

LEMMA RasterStep ==
  ASSUME RequestInv, RasterThread
  PROVE  RequestInv'
BY StartDrawStep, DrawStep, ResubmitStep DEF RasterThread

-----------------------------------------------------------------------------
(* The other threads *)

LEMMA OutsideStep ==
  ASSUME RequestInv, PostInput \/ RequestVsync \/ VsyncThread \/ ShellDestroyed
  PROVE  RequestInv'
<1>1. UNCHANGED <<pipeVars, uiVars, rasterQueue, rasterVars>>
  BY DEF PostInput, RequestVsync, VsyncThread, ShellDestroyed
<1>2. inputs' \in 0 .. MaxInputs
  BY RequestFacts, FrameAssumption DEF PostInput, RequestVsync, VsyncThread, ShellDestroyed, AnimTypes
<1>3. DrawTypes'
  BY <1>1, RequestFacts DEF PostInput, RequestVsync, VsyncThread, ShellDestroyed, DrawTypes, rasterVars
<1>4. WaiterInv' /\ Requests' = Requests /\ running' = running /\ alive' = alive
  <2>1. ASSUME NEW t \in Inputs \cup {"shutdown"}, V!PostTask(t)
        PROVE  WaiterInv' /\ Requests' = Requests /\ running' = running /\ alive' = alive
    <3>1. WaiterInv' /\ Requests' = Requests + One(t = "await") /\ Requests \in Nat
      BY <2>1, RequestFacts, PostKeeps
    <3>2. One(t = "await") = 0
      BY <2>1, Names DEF One
    <3> QED
      BY <2>1, <3>1, <3>2 DEF V!PostTask
  <2>2. CASE PostInput
    BY <2>1, <2>2 DEF PostInput
  <2>3. CASE ShellDestroyed
    BY <2>1, <2>3 DEF ShellDestroyed
  <2>4. CASE RequestVsync
    BY <2>4, RequestFacts, OtherKeeps DEF RequestVsync, V!AwaitVSync
  <2>5. CASE VsyncThread
    BY <2>5, RequestFacts, VsyncKeeps DEF VsyncThread
  <2> QED
    BY <2>2, <2>3, <2>4, <2>5
<1> QED
  BY <1>1, <1>2, <1>3, <1>4, WaiterOnly

LEMMA LatchStep ==
  ASSUME RequestInv, UILatch
  PROVE  RequestInv'
<1>1. UNCHANGED <<vsyncVars, pipeVars, uiVars, inputs, rasterVars>> /\ RasterPost("reset")
      /\ shell' = "raster"
  BY DEF UILatch
<1>2. PipeInv'
  BY <1>1, RequestFacts, PipeUntouched
<1>3. DrawTypes'
  BY <1>1, RequestFacts, RasterPostTypes DEF DrawTypes, rasterVars
<1> QED
  BY <1>1, <1>2, <1>3, RasterOnly

-----------------------------------------------------------------------------
(* The UI thread *)

\* Only a task of a living animator has left its start.
LEMMA UIAlive ==
  ASSUME RequestInv, ui \notin {"start", "finish"}
  PROVE  alive
BY RequestFacts DEF UIPhases

\* Rendering and committing, up to the notification of the rasterizer.
LEMMA BuildStep ==
  ASSUME RequestInv,
         (\E v \in Views : Render(v)) \/ EndWarmUpFrame \/ DartDone \/ EndFrameEmpty \/ EndFrameDropped
         \/ NotifyDelegate
  PROVE  RequestInv'
<1>1. /\ UNCHANGED <<vsyncVars, pipeVars, sem, regenerate, inputs, rasterVars, shell>>
      /\ ui \in {"dart", "build", "end", "signalled"} /\ ui' # "start"
  BY RequestFacts
  DEF Render, EndWarmUpFrame, DartDone, EndFrameEmpty, EndFrameDropped, NotifyDelegate, animVars,
      AnimTypes
<1>2. alive /\ alive' = alive
  BY <1>1, UIAlive DEF vsyncVars
<1>3. PipeInv'
  BY <1>1, RequestFacts, PipeUntouched
<1>4. DrawTypes'
  <2>1. rasterQueue' \in Seq({"draw", "redraw", "drawLast", "reset"})
    BY RequestFacts, RasterPostTypes
    DEF Render, EndWarmUpFrame, DartDone, EndFrameEmpty, EndFrameDropped, NotifyDelegate, DrawTypes
  <2> QED
    BY <1>1, <2>1, RequestFacts DEF DrawTypes, rasterVars
<1>5. AnimTypes' /\ UIPhases'
  <2>1. CASE \E v \in Views : Render(v)
    BY <1>2, <2>1, RequestFacts DEF Render, AnimTypes, UIPhases
  <2>2. CASE EndWarmUpFrame \/ DartDone \/ EndFrameEmpty \/ EndFrameDropped \/ NotifyDelegate
    BY <1>2, <2>2, RequestFacts
    DEF EndWarmUpFrame, DartDone, EndFrameEmpty, EndFrameDropped, NotifyDelegate, animVars,
        AnimTypes, UIPhases
  <2> QED
    BY <2>1, <2>2
<1> QED
  BY <1>1, <1>3, <1>4, <1>5, AnimatorOnly DEF AtRequest

LEMMA CommitStep ==
  ASSUME RequestInv, EndFrameCommit \/ CommitSignal \/ DropContinuation
  PROVE  RequestInv'
<1>1. /\ UNCHANGED <<vsyncVars, sem, regenerate, inputs, rasterQueue, rasterVars, shell>>
      /\ ui \in {"end", "pushed"} \/ (running = "shutdown" /\ alive)
      /\ ui' # "start" \/ running' = "shutdown"
  BY DEF EndFrameCommit, CommitSignal, DropContinuation, animVars, vsyncVars
<1>2. alive /\ alive' = alive /\ running' = running
  BY <1>1, UIAlive DEF vsyncVars
<1>3. ~AtRequest /\ ~AtRequest'
  BY <1>1, <1>2 DEF AtRequest
<1>4. frames \in Nat /\ frames <= MaxFrames /\ MaxFrames \in Nat
      /\ (EndFrameCommit => frames + 1 \in Frames /\ frames + 1 \in 0 .. MaxFrames)
  BY RequestFacts, FrameAssumption DEF AnimTypes, UIPhases, EndFrameCommit, Frames
<1>5. PipeInv'
  <2>1. CASE EndFrameCommit
    BY <1>4, <2>1, RequestFacts, PushKeeps, BailKeeps
    DEF EndFrameCommit, P!Complete, P!ProducerCommit, P!ProducerCommitIfEmpty
  <2>2. CASE DropContinuation
    BY <2>2, RequestFacts, PushKeeps, BailKeeps
    DEF DropContinuation, P!Complete, P!ProducerCommit, P!ProducerCommitIfEmpty
  <2>3. CASE CommitSignal
    BY <2>3, RequestFacts, SignalKeeps DEF CommitSignal
  <2> QED
    BY <2>1, <2>2, <2>3
<1>6. AnimTypes' /\ UIPhases'
  <2>1. CASE EndFrameCommit
    BY <1>2, <1>4, <2>1, RequestFacts DEF EndFrameCommit, AnimTypes, UIPhases
  <2>2. CASE DropContinuation \/ CommitSignal
    BY <1>2, <2>2, RequestFacts DEF DropContinuation, CommitSignal, animVars, AnimTypes, UIPhases
  <2> QED
    BY <2>1, <2>2
<1>7. DrawTypes'
  BY <1>1, RequestFacts DEF DrawTypes, rasterVars
<1> QED
  BY <1>1, <1>3, <1>5, <1>6, <1>7, AnimatorOnly

\* The vsync task answers the request: the semaphore is signalled.
LEMMA AnswerStep ==
  ASSUME RequestInv, DrawLastLayerTrees \/ BeginFrame
  PROVE  RequestInv'
<1>1. /\ running = "vsync" /\ ui = "start" /\ alive /\ sem' = sem + 1 /\ regenerate' = FALSE
      /\ ui' \in {"build", "finish"}
      /\ UNCHANGED <<vsyncVars, back, frames, inputs, rasterVars, shell>>
  BY RequestFacts DEF DrawLastLayerTrees, BeginFrame, AnimTypes
<1>2. running' = running /\ alive' = alive
  BY <1>1 DEF vsyncVars
<1>3. AtRequest /\ ~AtRequest'
  BY <1>1 DEF AtRequest
<1>4. Serving = 1 /\ Serving' = 0 /\ sem = 0 /\ Requests = 0
  BY <1>1, <1>3, ServingValue, RequestFacts
<1>5. WaiterInv' /\ Requests' = Requests
  BY <1>1, RequestFacts, OtherKeeps
<1>6. sem' = 1 /\ alive' => sem' + Requests' + Serving' = 1
  BY <1>1, <1>4, <1>5
<1>7. PipeInv'
  BY RequestFacts, PipeUntouched, ClaimKeeps DEF DrawLastLayerTrees, BeginFrame, P!Produce
<1>8. AnimTypes' /\ UIPhases'
  <2>1. sem' \in 0 .. 1
    BY <1>1, <1>4
  <2> QED
    BY <1>1, <1>2, <2>1, RequestFacts DEF DrawLastLayerTrees, BeginFrame, AnimTypes, UIPhases
<1>9. DrawTypes'
  <2>1. rasterQueue' \in Seq({"draw", "redraw", "drawLast", "reset"})
    BY RequestFacts, RasterPostTypes DEF DrawLastLayerTrees, BeginFrame, DrawTypes
  <2> QED
    BY <1>1, <2>1, RequestFacts DEF DrawTypes, rasterVars
<1>10. RegenerateIsPending'
  BY <1>1 DEF RegenerateIsPending
<1>11. sem' = 1
  BY <1>1, <1>4
<1> QED
  BY <1>5, <1>6, <1>7, <1>8, <1>9, <1>10, <1>11, Assemble

\* RequestFrame, by code that is not at a request itself.
LEMMA RequestFrameStep ==
  ASSUME RequestInv, NEW regen \in BOOLEAN, RequestFrame(regen), alive, ~AtRequest, ~AtRequest',
         ui' \in {"dart", "build", "finish"},
         UNCHANGED <<pipeVars, back, recorder, trees, rendered, flows, frames, inputs,
                     rasterQueue, rasterVars, shell>>
  PROVE  RequestInv'
<1>1. Serving = 0 /\ Serving' = 0
  BY ServingValue
<1>2. sem \in {0, 1} /\ sem + Requests = 1
  BY <1>1, RequestFacts DEF AnimTypes
<1>3. CASE sem = 1
  <2>1. sem' = 0 /\ scheduled' = TRUE /\ V!PostTask("await")
    BY <1>3 DEF RequestFrame
  <2>2. WaiterInv' /\ Requests' = Requests + One("await" = "await")
    BY <2>1, RequestFacts, PostKeeps
  <2>3. One("await" = "await") = 1 /\ alive' = alive
    BY <2>1 DEF One, V!PostTask
  <2>4. sem' + Requests' + Serving' = 1
    BY <1>1, <1>2, <1>3, <2>1, <2>2, <2>3, RequestFacts
  <2>5. AnimTypes' /\ UIPhases' /\ RegenerateIsPending'
    BY <2>1, <2>3, RequestFacts DEF RequestFrame, AnimTypes, UIPhases, RegenerateIsPending
  <2>6. PipeInv' /\ DrawTypes'
    BY RequestFacts, PipeUntouched DEF DrawTypes, rasterVars
  <2> QED
    BY <2>2, <2>4, <2>5, <2>6, Assemble
<1>4. CASE sem = 0
  <2>1. UNCHANGED <<sem, scheduled, vsyncVars>>
    BY <1>4 DEF RequestFrame
  <2>2. WaiterInv' /\ Requests' = Requests
    BY <2>1, RequestFacts, OtherKeeps
  <2>3. alive' = alive
    BY <2>1 DEF vsyncVars
  <2>4. sem' + Requests' + Serving' = 1
    BY <1>1, <1>2, <2>1, <2>2, RequestFacts
  <2>5. AnimTypes' /\ UIPhases' /\ RegenerateIsPending'
    BY <1>4, <2>1, <2>3, RequestFacts DEF RequestFrame, AnimTypes, UIPhases, RegenerateIsPending
  <2>6. PipeInv' /\ DrawTypes'
    BY RequestFacts, PipeUntouched DEF DrawTypes, rasterVars
  <2> QED
    BY <2>2, <2>4, <2>5, <2>6, Assemble
<1> QED
  BY <1>2, <1>3, <1>4

LEMMA ScheduleStep ==
  ASSUME RequestInv, TextureTask \/ ScheduleFrame
  PROVE  RequestInv'
<1>1. CASE TextureTask
  <2>1. RequestFrame(FALSE) /\ alive /\ running = "texture" /\ ui' = "finish"
    BY <1>1 DEF TextureTask
  <2> QED
    BY <1>1, <2>1, RequestFrameStep DEF TextureTask, AtRequest
<1>2. CASE ScheduleFrame
  <2>1. RequestFrame(TRUE) /\ ui \in {"dart", "build"} /\ ui' = ui
    BY <1>2 DEF ScheduleFrame
  <2>2. alive
    BY <2>1, UIAlive
  <2> QED
    BY <1>2, <2>1, <2>2, RequestFrameStep DEF ScheduleFrame, AtRequest
<1> QED
  BY <1>1, <1>2

\* The request goes to the waiter.
LEMMA AwaitStep ==
  ASSUME RequestInv, AwaitVSync
  PROVE  RequestInv'
<1>1. /\ running = "await" /\ ui = "start" /\ alive /\ ui' = "finish" /\ V!AsyncWaitForVsync
      /\ UNCHANGED <<pipeVars, back, animVars, inputs, rasterQueue, rasterVars, shell>>
  BY DEF AwaitVSync
<1>2. WaiterInv' /\ (~callback => Requests' = Requests + 1) /\ UNCHANGED <<running, alive>>
  BY <1>1, RequestFacts, AsyncKeeps
<1>3. AtRequest /\ ~AtRequest'
  BY <1>1 DEF AtRequest
<1>4. Serving = 1 /\ Serving' = 0 /\ sem = 0 /\ Requests = 0
  BY <1>1, <1>3, ServingValue, RequestFacts
<1>5. ~callback
  <2>1. Count(uiQueue, "await") \in Nat /\ Count(uiQueue, "vsync") \in Nat
    BY RequestFacts, WaiterTypes
  <2>2. One("vsync" \in taken) \in Nat /\ (callback => One(callback) = 1)
    BY DEF One
  <2> QED
    BY <1>4, <2>1, <2>2 DEF Requests
<1>6. UNCHANGED <<sem, scheduled, regenerate, recorder, trees, rendered, flows, frames>>
  BY <1>1 DEF animVars
<1>7. sem' + Requests' + Serving' = 1
  BY <1>2, <1>4, <1>5, <1>6
<1>8. AnimTypes' /\ UIPhases' /\ RegenerateIsPending'
  BY <1>1, <1>2, <1>6, RequestFacts DEF AnimTypes, UIPhases, RegenerateIsPending
<1>9. PipeInv' /\ DrawTypes'
  BY <1>1, RequestFacts, PipeUntouched DEF DrawTypes, rasterVars
<1> QED
  BY <1>2, <1>7, <1>8, <1>9, Assemble

LEMMA FlowIdStep ==
  ASSUME RequestInv, EnqueueTraceFlowId \/ MaybeClearTraceFlowIds
  PROVE  RequestInv'
<1>1. /\ running \in {"pointer", FlowIds} /\ ui = "start" /\ ui' = "finish" /\ flows' \in BOOLEAN
      /\ V!ScheduleSecondaryCallback(FlowIds) \/ UNCHANGED vsyncVars
      /\ UNCHANGED <<pipeVars, back, sem, scheduled, regenerate, recorder, trees, rendered,
                     frames, inputs, rasterQueue, rasterVars, shell>>
  BY RequestFacts DEF EnqueueTraceFlowId, MaybeClearTraceFlowIds, AnimTypes
<1>2. WaiterInv' /\ Requests' = Requests /\ running' = running
  BY <1>1, RequestFacts, OtherKeeps
<1>3. alive' = alive
  BY <1>1 DEF V!ScheduleSecondaryCallback, vsyncVars
<1>4. ~AtRequest /\ ~AtRequest'
  BY <1>1 DEF AtRequest, FlowIds
<1>5. alive' => sem' + Requests' + Serving' = 1
  BY <1>1, <1>2, <1>3, <1>4, ServingValue, RequestFacts
<1>6. AnimTypes' /\ UIPhases' /\ RegenerateIsPending'
  BY <1>1, <1>3, RequestFacts DEF AnimTypes, UIPhases, RegenerateIsPending
<1>7. PipeInv' /\ DrawTypes'
  BY <1>1, RequestFacts, PipeUntouched DEF DrawTypes, rasterVars
<1> QED
  BY <1>2, <1>5, <1>6, <1>7, Assemble

\* The pipeline is full: the request is made again by the task that answers it.
LEMMA PipelineFullStep ==
  ASSUME RequestInv, BeginFramePipelineFull
  PROVE  RequestInv'
<1>1. /\ running = "vsync" /\ ui = "start" /\ alive /\ V!PostTask("await") /\ ui' = "end"
      /\ trees' = {} /\ recorder' = TRUE /\ flows' = FALSE /\ scheduled' = TRUE /\ back' = "finish"
      /\ UNCHANGED <<pipeVars, sem, regenerate, rendered, frames, inputs, rasterQueue, rasterVars,
                     shell>>
  BY DEF BeginFramePipelineFull
<1>2. WaiterInv' /\ Requests' = Requests + One("await" = "await")
  BY <1>1, RequestFacts, PostKeeps
<1>3. One("await" = "await") = 1 /\ UNCHANGED <<running, alive>>
  BY <1>1 DEF One, V!PostTask
<1>4. AtRequest /\ ~AtRequest'
  BY <1>1 DEF AtRequest
<1>5. Serving = 1 /\ Serving' = 0 /\ sem = 0 /\ Requests = 0
  BY <1>1, <1>4, ServingValue, RequestFacts
<1>6. sem' + Requests' + Serving' = 1
  BY <1>1, <1>2, <1>3, <1>5
<1>7. AnimTypes' /\ UIPhases' /\ RegenerateIsPending'
  BY <1>1, <1>3, RequestFacts DEF AnimTypes, UIPhases, RegenerateIsPending
<1>8. PipeInv' /\ DrawTypes'
  BY <1>1, RequestFacts, PipeUntouched DEF DrawTypes, rasterVars
<1> QED
  BY <1>2, <1>6, <1>7, <1>8, Assemble

LEMMA ResetStep ==
  ASSUME RequestInv, EngineReset
  PROVE  RequestInv'
<1>1. /\ V!Destroy /\ ui' = "finish"
      /\ UNCHANGED <<pipeVars, back, animVars, inputs, rasterQueue, rasterVars, shell>>
  BY DEF EngineReset
<1>2. WaiterInv' /\ alive' = FALSE
  BY <1>1, RequestFacts, OtherKeeps DEF V!Destroy
<1>3. AnimTypes' /\ UIPhases' /\ RegenerateIsPending'
  BY <1>1, <1>2, RequestFacts DEF AnimTypes, UIPhases, RegenerateIsPending, animVars
<1>4. PipeInv' /\ DrawTypes'
  BY <1>1, RequestFacts, PipeUntouched DEF DrawTypes, rasterVars
<1> QED
  BY <1>2, <1>3, <1>4, Assemble

LEMMA UILoopStep ==
  ASSUME RequestInv, UIStart \/ UIFinish
  PROVE  RequestInv'
<1>1. /\ ui' \in {"start", "dart"}
      /\ UNCHANGED <<pipeVars, back, animVars, inputs, rasterQueue, rasterVars, shell>>
  BY DEF UIStart, UIFinish
<1>2. UNCHANGED <<sem, scheduled, regenerate, recorder, trees, rendered, flows, frames>>
  BY <1>1 DEF animVars
<1>3. PipeInv' /\ DrawTypes'
  BY <1>1, RequestFacts, PipeUntouched DEF DrawTypes, rasterVars
<1>4. CASE UIStart
  <2>1. V!StartTask /\ ui' = IF Head(uiQueue) = "dart" /\ alive THEN "dart" ELSE "start"
    BY <1>4 DEF UIStart
  <2>2. /\ WaiterInv' /\ running = "none" /\ running' = Head(uiQueue)
        /\ Requests = Requests' + One(running' = "await") + One(running' = "vsync")
    BY <2>1, RequestFacts, StartKeeps
  <2>3. alive' = alive /\ Requests' \in Nat
    <3>1. Requests' \in Nat
      <4>1. uiQueue' \in Seq(V!Tasks)
        BY <2>2 DEF WaiterInv, V!TypeOK
      <4>2. Count(uiQueue, "await")' \in Nat /\ Count(uiQueue, "vsync")' \in Nat
        BY <4>1, CountFinite
      <4>3. One(callback)' \in Nat /\ One("vsync" \in taken)' \in Nat
        BY DEF One
      <4> QED
        BY <4>2, <4>3 DEF Requests
    <3> QED
      BY <2>1, <3>1 DEF V!StartTask
  <2>4. Serving = 0
    BY <2>2, ServingValue DEF AtRequest
  <2>5. Serving' = One(running' = "await") + One(running' = "vsync")
    <3>1. CASE running' \in {"await", "vsync"}
      <4>1. ui' = "start"
        BY <2>1, <2>2, <3>1
      <4> QED
        BY <4>1 DEF Serving, One
    <3>2. CASE running' \notin {"await", "vsync"}
      BY <3>2 DEF Serving, One
    <3> QED
      BY <3>1, <3>2
  <2>6. alive' => sem' + Requests' + Serving' = 1
    <3>1. One(running' = "await") \in Nat /\ One(running' = "vsync") \in Nat
      BY DEF One
    <3> QED
      BY <1>2, <2>2, <2>3, <2>4, <2>5, <3>1, RequestFacts
  <2>7. AnimTypes' /\ UIPhases' /\ RegenerateIsPending'
    BY <1>1, <1>2, <2>1, <2>3, RequestFacts DEF AnimTypes, UIPhases, RegenerateIsPending
  <2> QED
    BY <1>3, <2>2, <2>6, <2>7, Assemble
<1>5. CASE UIFinish
  <2>2. V!FinishTask /\ ui' = "start" /\ (alive => ui = "finish")
    BY <1>5 DEF UIFinish
  <2>3. WaiterInv' /\ Requests' = Requests /\ running' = "none" /\ alive' = alive
    BY <2>2, RequestFacts, FinishKeeps
  <2>4. Serving' = 0 /\ (alive => Serving = 0)
    BY <2>2, <2>3, ServingValue DEF AtRequest
  <2>5. alive' => sem' + Requests' + Serving' = 1
    BY <1>2, <2>3, <2>4, RequestFacts
  <2>6. AnimTypes' /\ UIPhases' /\ RegenerateIsPending'
    BY <1>1, <1>2, <2>2, <2>3, RequestFacts DEF AnimTypes, UIPhases, RegenerateIsPending
  <2> QED
    BY <1>3, <2>3, <2>5, <2>6, Assemble
<1> QED
  BY <1>4, <1>5

LEMMA RequestStep ==
  ASSUME RequestInv, [Next]_vars
  PROVE  RequestInv'
<1>1. CASE UIThread
  BY <1>1, UILoopStep, ScheduleStep, AwaitStep, OutsideStep, FlowIdStep, AnswerStep,
     PipelineFullStep, BuildStep, CommitStep, ResetStep DEF UIThread
<1>2. CASE RasterThread
  BY <1>2, RasterStep
<1>3. CASE PostInput \/ VsyncThread \/ PlatformThread
  BY <1>3, OutsideStep, LatchStep DEF PlatformThread
<1>4. CASE UNCHANGED vars
  <2>1. UNCHANGED <<vsyncVars, pipeVars, uiVars, inputs, rasterQueue, rasterVars, shell>>
    BY <1>4 DEF vars
  <2>2. PipeInv' /\ DrawTypes'
    BY <2>1, RequestFacts, PipeUntouched DEF DrawTypes, rasterVars
  <2> QED
    BY <2>1, <2>2, RasterOnly
<1> QED
  BY <1>1, <1>2, <1>3, <1>4 DEF Next

LEMMA RequestInit ==
  ASSUME Init
  PROVE  RequestInv
<1>1. /\ V!Init /\ P!Init /\ sem = 1 /\ regenerate = FALSE /\ ui = "start" /\ trees = {}
  BY DEF Init
<1>2. /\ callback = FALSE /\ taken = {} /\ fire = "idle" /\ paused = 0 /\ uiQueue = << >>
      /\ running = "none" /\ alive = TRUE
  BY <1>1 DEF V!Init
<1>3. Count(uiQueue, "await") = 0 /\ Count(uiQueue, "vsync") = 0
  <2>1. {i \in DOMAIN uiQueue : uiQueue[i] = "await"} = {}
        /\ {i \in DOMAIN uiQueue : uiQueue[i] = "vsync"} = {}
    BY <1>2
  <2> QED
    BY <2>1, FS_EmptySet DEF Count
<1>4. WaiterInv
  <2>1. V!TypeOK
    <3>1. uiQueue \in Seq(V!Tasks) /\ paused \in Nat
      BY <1>2
    <3> QED
      BY <1>1, <3>1 DEF V!Init, V!TypeOK
  <2>2. One(fire = "posting" /\ "vsync" \in taken) = 0 /\ One(running = "vsync") = 0
    BY <1>2 DEF One
  <2> QED
    BY <1>2, <1>3, <2>1, <2>2 DEF WaiterInv
<1>5. PipeInv
  <2>1. P!TypeOK
    BY <1>1, FrameAssumption DEF P!Init, P!TypeOK, P!Kinds, P!Items
  <2>2. /\ empty = Depth /\ available = 0 /\ queue = << >> /\ Len(queue) = 0
        /\ stage["ui"] = "idle" /\ stage["raster"] = "idle" /\ cstage["raster"] = "idle"
    BY <1>1 DEF P!Init
  <2>3. Depth \in Nat
    BY FrameAssumption
  <2> QED
    BY <2>1, <2>2, <2>3 DEF PipeInv, Slots, Backed, One
<1>6. AnimTypes /\ DrawTypes /\ UIPhases /\ RegenerateIsPending
  <2>1. 0 \in 0..MaxFrames /\ 0 \in 0..MaxInputs /\ 0 \in 0..MaxResubmits /\ 1 \in 0..1
    BY FrameAssumption
  <2>2. AnimTypes
    BY <2>1 DEF Init, AnimTypes
  <2>3. DrawTypes
    BY <2>1 DEF Init, DrawTypes
  <2>4. UIPhases /\ RegenerateIsPending
    BY <1>1, <1>2 DEF UIPhases, RegenerateIsPending
  <2> QED
    BY <2>2, <2>3, <2>4
<1>7. /\ One(callback) = 0 /\ One("vsync" \in taken) = 0
      /\ One(running = "await" /\ ui = "start") = 0
      /\ One(running = "vsync" /\ ui = "start") = 0
  BY <1>2 DEF One
<1>8. OneFrameRequest
  BY <1>1, <1>3, <1>7 DEF OneFrameRequest
<1> QED
  BY <1>4, <1>5, <1>6, <1>8 DEF RequestInv

LEMMA RequestInvariant == Spec => []RequestInv
<1>1. RequestInv /\ [Next]_vars => RequestInv'
  BY RequestStep
<1> QED
  BY <1>1, RequestInit, PTL DEF Spec

\* pending_frame_semaphore_ and the request it stands for agree, on every path of
\* the animator (full pipeline, reused layer trees, a texture's frame) and however
\* its steps interleave with the vsync thread's.
THEOREM OneFrameRequestAlways == Spec => []OneFrameRequest
<1>1. RequestInv => OneFrameRequest
  BY DEF RequestInv
<1> QED
  BY <1>1, RequestInvariant, PTL

\* The composed state is well formed, the waiter's and the pipeline's included, and
\* layer trees that are to be regenerated have a request pending.
THEOREM FrameInvAlways == Spec => []FrameInv
<1>1. RequestInv => FrameInv
  <2> SUFFICES ASSUME RequestInv PROVE FrameInv
    OBVIOUS
  <2>1. V!TypeOK /\ P!TypeOK
    BY RequestFacts, WaiterTypes, PipeTypes
  <2>2. TypeOK
    BY <2>1, RequestFacts DEF TypeOK, AnimTypes, DrawTypes
  <2> QED
    BY <2>2, RequestFacts DEF FrameInv
<1> QED
  BY <1>1, RequestInvariant, PTL

-----------------------------------------------------------------------------
(* The threads use the waiter and the pipeline as their specifications say *)

LEMMA WaiterNext ==
  ASSUME [Next]_vars
  PROVE  [V!Next]_V!vars
<1> DEFINE still == UNCHANGED vsyncVars
<1>1. CASE still
  BY <1>1 DEF vsyncVars, V!vars
<1>2. CASE V!StartTask \/ V!FinishTask \/ V!VsyncThread \/ V!AwaitVSync
  BY <1>2 DEF V!Next
<1>3. CASE \E t \in Inputs \cup {"await", "shutdown"} : V!PostTask(t)
  BY <1>3 DEF V!Next
<1>4. CASE running # "none" /\ (V!AsyncWaitForVsync \/ V!ScheduleSecondaryCallback(FlowIds)
                                 \/ V!Destroy)
  BY <1>4 DEF V!Next, V!Client
<1>5. CASE PostInput \/ ShellDestroyed \/ BeginFramePipelineFull
  BY <1>3, <1>5 DEF PostInput, ShellDestroyed, BeginFramePipelineFull
<1>6. CASE UIStart \/ UIFinish \/ RequestVsync \/ VsyncThread
  BY <1>2, <1>6 DEF UIStart, UIFinish, RequestVsync, VsyncThread
<1>7. CASE TextureTask \/ ScheduleFrame
  BY <1>1, <1>3, <1>7 DEF TextureTask, ScheduleFrame, RequestFrame
<1>8. CASE AwaitVSync \/ EnqueueTraceFlowId \/ EngineReset
  BY <1>4, <1>8 DEF AwaitVSync, EnqueueTraceFlowId, EngineReset
<1>9. CASE MaybeClearTraceFlowIds \/ DrawLastLayerTrees \/ BeginFrame \/ EndWarmUpFrame
           \/ DartDone \/ EndFrameEmpty \/ EndFrameCommit \/ EndFrameDropped
  BY <1>1, <1>9 DEF MaybeClearTraceFlowIds, DrawLastLayerTrees, BeginFrame, EndWarmUpFrame,
     DartDone, EndFrameEmpty, EndFrameCommit, EndFrameDropped
<1>10. CASE CommitSignal \/ NotifyDelegate \/ DropContinuation \/ UILatch
            \/ \E v \in Views : Render(v)
  BY <1>1, <1>10 DEF CommitSignal, NotifyDelegate, DropContinuation, UILatch, Render
<1>11. CASE RasterThread
  BY <1>1, <1>11 DEF RasterThread, StartDraw, RasterDrawLast, DrawPipelineEmpty, DrawAcquire,
     DrawPop, DrawNullItem, DoDraw, ResubmitProduce, ResubmitPipelineFull, ResubmitComplete,
     ResubmitSignal, DrawDone, RasterizerReset
<1>12. CASE UNCHANGED vars
  BY <1>1, <1>12 DEF vars
<1> QED
  BY <1>5, <1>6, <1>7, <1>8, <1>9, <1>10, <1>11, <1>12
  DEF Next, UIThread, PlatformThread

\* Whatever the animator, the runtime controller and the rasterizer do, they call
\* the waiter only on the UI thread, inside a task, and between two of its critical
\* sections: what is proved of VsyncWaiter holds of the waiter in the shell.
THEOREM UsesVsyncWaiter == Spec => V!Spec
<1>1. Init => V!Init
  BY DEF Init
<1> QED
  BY <1>1, WaiterNext, PTL DEF Spec, V!Spec

LEMMA PipelineNext ==
  ASSUME RequestInv, [Next]_vars
  PROVE  [P!Next]_P!vars
<1> DEFINE still == UNCHANGED pipeVars
<1>1. CASE still
  BY <1>1 DEF pipeVars, P!vars
<1>2. CASE P!Produce("ui") \/ P!ProduceIfEmpty("raster") \/ P!SignalAvailable("ui")
           \/ P!SignalAvailable("raster")
  BY <1>2 DEF P!Next, P!ProducerStep
<1>3. ASSUME NEW p \in {"ui", "raster"}, NEW f \in P!Items, P!Complete(p, f)
      PROVE  P!Next
  BY <1>3 DEF P!Next, P!ProducerStep
<1>4. CASE P!ConsumeAcquire("raster") \/ P!ConsumePop("raster") \/ P!ConsumeFinish("raster")
  BY <1>4 DEF P!Next, P!ConsumerStep
<1>5. CASE EndFrameCommit
  <2>1. P!Complete("ui", frames + 1) /\ trees # {}
    BY <1>5 DEF EndFrameCommit
  <2>2. frames \in 0..MaxFrames /\ frames < MaxFrames /\ MaxFrames \in Nat
    BY <2>1, RequestFacts, FrameAssumption DEF AnimTypes, UIPhases
  <2>3. frames + 1 \in P!Items
    BY <2>2 DEF P!Items, Frames
  <2> QED
    BY <1>3, <2>1, <2>3
<1>6. CASE DropContinuation \/ ResubmitComplete
  <2>1. NoFrame \in P!Items /\ resubmit \in P!Items
    BY RequestFacts DEF DrawTypes, P!Items
  <2> QED
    BY <1>3, <1>6, <2>1 DEF DropContinuation, ResubmitComplete
<1>7. CASE BeginFrame \/ CommitSignal \/ ResubmitProduce \/ ResubmitSignal
  BY <1>1, <1>2, <1>7 DEF BeginFrame, CommitSignal, ResubmitProduce, ResubmitSignal
<1>8. CASE DrawAcquire \/ DrawPop \/ DoDraw
  BY <1>4, <1>8 DEF DrawAcquire, DrawPop, DoDraw
<1>9. CASE PostInput \/ VsyncThread \/ PlatformThread \/ UNCHANGED vars
  BY <1>1, <1>9 DEF PostInput, VsyncThread, PlatformThread, ShellDestroyed, UILatch, vars
<1>10. CASE UIStart \/ UIFinish \/ TextureTask \/ ScheduleFrame \/ AwaitVSync \/ RequestVsync
            \/ EnqueueTraceFlowId \/ MaybeClearTraceFlowIds \/ DrawLastLayerTrees
  BY <1>1, <1>10 DEF UIStart, UIFinish, TextureTask, ScheduleFrame, AwaitVSync, RequestVsync,
     EnqueueTraceFlowId, MaybeClearTraceFlowIds, DrawLastLayerTrees
<1>11. CASE BeginFramePipelineFull \/ (\E v \in Views : Render(v)) \/ EndWarmUpFrame
            \/ DartDone \/ EndFrameEmpty \/ EndFrameDropped \/ NotifyDelegate \/ EngineReset
  BY <1>1, <1>11 DEF BeginFramePipelineFull, Render, EndWarmUpFrame, DartDone, EndFrameEmpty,
     EndFrameDropped, NotifyDelegate, EngineReset
<1>12. CASE StartDraw \/ RasterDrawLast \/ DrawPipelineEmpty \/ DrawNullItem
            \/ ResubmitPipelineFull \/ DrawDone \/ RasterizerReset
  BY <1>1, <1>12 DEF StartDraw, RasterDrawLast, DrawPipelineEmpty, DrawNullItem,
     ResubmitPipelineFull, DrawDone, RasterizerReset
<1> QED
  BY <1>5, <1>6, <1>7, <1>8, <1>9, <1>10, <1>11, <1>12
  DEF Next, UIThread, RasterThread

\* The UI thread and the raster thread use the pipeline as its specification says,
\* two producers and one consumer: what is proved of Pipeline (no slot is lost, the
\* front exists when it is taken, it implements a bounded FIFO queue) holds of the
\* pipeline between animator and rasterizer.
THEOREM UsesPipeline == Spec => P!Spec
<1>1. Init => P!Init
  BY DEF Init
<1>2. RequestInv /\ [Next]_vars => [P!Next]_P!vars
  BY PipelineNext
<1> QED
  BY <1>1, <1>2, RequestInvariant, PTL DEF Spec, P!Spec

-----------------------------------------------------------------------------
(* Frames are drawn in the order they were committed *)

NoShutdown == running # "shutdown" /\ \A i \in DOMAIN uiQueue : uiQueue[i] # "shutdown"
NoNull == \A i \in DOMAIN queue : queue[i] # NoFrame

LEMMA OrderFacts ==
  ASSUME OrderInv
  PROVE  /\ RequestInv /\ PipeInv /\ RasterPhases /\ QueueOrder
         /\ shell = "up" => NoShutdown /\ NoNull
         /\ stage \in [{"ui", "raster"} -> {"idle", "held", "pushed"}]
         /\ kind \in [{"ui", "raster"} -> {"always", "ifEmpty"}]
         /\ cstage \in [{"raster"} -> {"idle", "acquired", "consuming"}]
         /\ item \in [{"raster"} -> Frames \cup {NoFrame}]
         /\ queue \in Seq(Frames \cup {NoFrame})
         /\ Frames \subseteq Nat /\ NoFrame = 0
         /\ drawn \in Nat /\ frames \in Nat /\ resubmit \in Nat
<1>1. RequestInv /\ PipeInv /\ RasterPhases /\ QueueOrder /\ CleanWhileUp
  BY RequestFacts DEF OrderInv
<1>2. P!TypeOK /\ AnimTypes /\ DrawTypes
  BY <1>1, RequestFacts, PipeTypes
<1>3. Frames \subseteq Nat /\ NoFrame = 0
  BY FrameAssumption DEF Frames, NoFrame
<1>4. drawn \in Nat /\ frames \in Nat /\ resubmit \in Nat
  BY <1>2, <1>3, FrameAssumption DEF AnimTypes, DrawTypes
<1> QED
  BY <1>1, <1>2, <1>3, <1>4
  DEF CleanWhileUp, NoShutdown, NoNull, P!TypeOK, P!Kinds, P!Items

\* The tasks of the waiter carry callbacks, never the engine's destruction.
LEMMA NoShutdownKept ==
  ASSUME RequestInv, [Next]_vars, NoShutdown, shell = "up", shell' = "up"
  PROVE  NoShutdown'
<1>1. /\ uiQueue \in Seq(V!Tasks) /\ taken \subseteq {"vsync", FlowIds}
      /\ DOMAIN uiQueue = 1 .. Len(uiQueue) /\ Len(uiQueue) \in Nat
  BY RequestFacts, WaiterTypes DEF V!TypeOK
<1>2. CASE UNCHANGED <<uiQueue, running>>
  BY <1>2 DEF NoShutdown
<1>3. ASSUME NEW t \in V!Tasks, t # "shutdown", uiQueue' = Append(uiQueue, t),
             UNCHANGED running
      PROVE  NoShutdown'
  <2>1. /\ DOMAIN uiQueue' = 1 .. Len(uiQueue) + 1
        /\ \A i \in 1 .. Len(uiQueue) : uiQueue'[i] = uiQueue[i]
        /\ uiQueue'[Len(uiQueue) + 1] = t
    BY <1>1, <1>3
  <2>2. \A i \in DOMAIN uiQueue' : uiQueue'[i] # "shutdown"
    BY <1>1, <1>3, <2>1 DEF NoShutdown
  <2> QED
    BY <1>3, <2>2 DEF NoShutdown
<1>4. Inputs \cup {"await", "shutdown"} \subseteq V!Tasks /\ taken \subseteq V!Tasks
      /\ "shutdown" \notin Inputs /\ "shutdown" \notin taken
  BY <1>1 DEF Inputs, FlowIds, V!Tasks
<1>5. CASE V!StartTask
  <2>1. uiQueue # << >> /\ running' = Head(uiQueue) /\ uiQueue' = Tail(uiQueue)
    BY <1>5 DEF V!StartTask
  <2>2. /\ Head(uiQueue) = uiQueue[1] /\ 1 \in DOMAIN uiQueue
        /\ DOMAIN Tail(uiQueue) = 1 .. Len(uiQueue) - 1
        /\ \A i \in 1 .. Len(uiQueue) - 1 :
             Tail(uiQueue)[i] = uiQueue[i + 1] /\ i + 1 \in DOMAIN uiQueue
    BY <1>1, <2>1
  <2> QED
    BY <2>1, <2>2 DEF NoShutdown
<1>6. CASE V!FinishTask
  BY <1>6 DEF V!FinishTask, NoShutdown
<1>7. ASSUME NEW t \in Inputs \cup {"await"}, V!PostTask(t)
      PROVE  NoShutdown'
  BY <1>3, <1>4, <1>7 DEF V!PostTask
<1>8. CASE V!VsyncThread
  <2>1. CASE V!FirePost
    BY <1>3, <1>4, <2>1 DEF V!FirePost
  <2> QED
    BY <1>2, <1>8, <2>1 DEF V!VsyncThread, V!OnVsyncFromOHOS, V!FireCallback,
       V!PauseDartEventLoopTasks
<1>9. CASE UNCHANGED vsyncVars
  BY <1>2, <1>9 DEF vsyncVars
<1>10. CASE PostInput \/ BeginFramePipelineFull \/ TextureTask \/ ScheduleFrame
  BY <1>7, <1>9, <1>10 DEF PostInput, BeginFramePipelineFull, TextureTask, ScheduleFrame,
     RequestFrame
<1>11. CASE UIStart \/ UIFinish \/ VsyncThread
  BY <1>5, <1>6, <1>8, <1>11 DEF UIStart, UIFinish, VsyncThread
<1>12. CASE AwaitVSync \/ EnqueueTraceFlowId \/ EngineReset \/ RequestVsync
  BY <1>2, <1>12 DEF AwaitVSync, EnqueueTraceFlowId, EngineReset, RequestVsync,
     V!AsyncWaitForVsync, V!ScheduleSecondaryCallback, V!Destroy, V!AwaitVSync
<1>13. CASE MaybeClearTraceFlowIds \/ DrawLastLayerTrees \/ BeginFrame \/ EndWarmUpFrame
            \/ DartDone \/ EndFrameEmpty \/ EndFrameCommit \/ EndFrameDropped
  BY <1>9, <1>13 DEF MaybeClearTraceFlowIds, DrawLastLayerTrees, BeginFrame, EndWarmUpFrame,
     DartDone, EndFrameEmpty, EndFrameCommit, EndFrameDropped
<1>14. CASE CommitSignal \/ NotifyDelegate \/ DropContinuation \/ PlatformThread
            \/ \E v \in Views : Render(v)
  BY <1>9, <1>14 DEF CommitSignal, NotifyDelegate, DropContinuation, PlatformThread,
     ShellDestroyed, UILatch, Render
<1>15. CASE RasterThread \/ UNCHANGED vars
  BY <1>9, <1>15 DEF RasterThread, StartDraw, RasterDrawLast, DrawPipelineEmpty, DrawAcquire,
     DrawPop, DrawNullItem, DoDraw, ResubmitProduce, ResubmitPipelineFull, ResubmitComplete,
     ResubmitSignal, DrawDone, RasterizerReset, vars
<1> QED
  BY <1>10, <1>11, <1>12, <1>13, <1>14, <1>15 DEF Next, UIThread

LEMMA UpBefore ==
  ASSUME [Next]_vars, shell' = "up"
  PROVE  shell = "up"
<1>1. CASE UNCHANGED shell
  BY <1>1
<1>2. CASE PostInput \/ VsyncThread \/ PlatformThread \/ UNCHANGED vars
  BY <1>2 DEF PostInput, VsyncThread, PlatformThread, ShellDestroyed, UILatch, vars
<1>3. CASE RasterThread
  BY <1>3 DEF RasterThread, StartDraw, RasterDrawLast, DrawPipelineEmpty, DrawAcquire,
     DrawPop, DrawNullItem, DoDraw, ResubmitProduce, ResubmitPipelineFull, ResubmitComplete,
     ResubmitSignal, DrawDone, RasterizerReset
<1>4. CASE UIThread
  BY <1>4 DEF UIThread, UIStart, UIFinish, TextureTask, ScheduleFrame, AwaitVSync,
     RequestVsync, EnqueueTraceFlowId, MaybeClearTraceFlowIds, DrawLastLayerTrees, BeginFrame,
     BeginFramePipelineFull, Render, EndWarmUpFrame, DartDone, EndFrameEmpty, EndFrameCommit,
     EndFrameDropped, CommitSignal, NotifyDelegate, DropContinuation, EngineReset
<1> QED
  BY <1>2, <1>3, <1>4 DEF Next

LEMMA OrderAssembled ==
  ASSUME OrderInv, [Next]_vars, RasterPhases', QueueOrder', shell' = "up" => NoNull'
  PROVE  OrderInv'
<1>1. RequestInv'
  BY OrderFacts, RequestStep
<1>2. ASSUME shell' = "up" PROVE NoShutdown' /\ NoNull'
  BY <1>2, OrderFacts, UpBefore, NoShutdownKept
<1> QED
  BY <1>1, <1>2 DEF OrderInv, CleanWhileUp, NoShutdown, NoNull

LEMMA NoNullKept ==
  ASSUME OrderInv, [Next]_vars, UNCHANGED queue
  PROVE  shell' = "up" => NoNull'
BY OrderFacts, UpBefore DEF NoNull

\* Steps that leave the pipeline and the rasterizer's frame alone.
LEMMA OrderQuiet ==
  ASSUME OrderInv, [Next]_vars, UNCHANGED <<pipeVars, rasterVars, frames>>
  PROVE  OrderInv'
<1>1. UNCHANGED <<queue, stage, kind, cstage, item, raster, resubmit, drawn, frames>>
  BY DEF pipeVars, rasterVars
<1>2. RasterPhases'
  BY <1>1, OrderFacts DEF RasterPhases
<1>3. QueueOrder'
  BY <1>1, OrderFacts DEF QueueOrder
<1> QED
  BY <1>1, <1>2, <1>3, NoNullKept, OrderAssembled

\* Steps of the rasterizer outside the pipeline and away from a frame.
LEMMA OrderRaster ==
  ASSUME OrderInv, [Next]_vars, UNCHANGED <<pipeVars, frames, drawn, resubmit>>,
         raster \notin {"consume", "resubmit", "complete", "signal", "crashed"},
         raster' \notin {"consume", "resubmit", "complete", "signal"}
  PROVE  OrderInv'
<1>1. UNCHANGED <<queue, stage, kind, cstage, item>>
  BY DEF pipeVars
<1>2. RasterPhases'
  BY <1>1, OrderFacts DEF RasterPhases
<1>3. QueueOrder'
  BY <1>1, OrderFacts DEF QueueOrder
<1> QED
  BY <1>1, <1>2, <1>3, NoNullKept, OrderAssembled

\* A continuation of the UI thread is claimed, or its commit is signalled.
LEMMA OrderUISlot ==
  ASSUME OrderInv, [Next]_vars, UNCHANGED <<rasterVars, frames>>,
         P!Produce("ui") \/ P!SignalAvailable("ui")
  PROVE  OrderInv'
<1>1. /\ UNCHANGED <<queue, cstage, item, raster, resubmit, drawn, frames>>
      /\ \E g \in {"held", "idle"} : stage' = [stage EXCEPT !["ui"] = g]
      /\ kind' = [kind EXCEPT !["ui"] = "always"] \/ kind' = kind
  BY DEF P!Produce, P!ClaimSlot, P!SignalAvailable, P!consVars, rasterVars
<1>2. kind'["ui"] = "always" /\ kind'["raster"] = kind["raster"]
      /\ stage'["raster"] = stage["raster"]
  BY <1>1, OrderFacts DEF RasterPhases
<1>3. RasterPhases'
  BY <1>1, <1>2, OrderFacts DEF RasterPhases
<1>4. QueueOrder'
  BY <1>1, OrderFacts DEF QueueOrder
<1> QED
  BY <1>1, <1>3, <1>4, NoNullKept, OrderAssembled

LEMMA AppendFacts ==
  ASSUME NEW S, NEW s \in Seq(S), NEW x \in S
  PROVE  /\ DOMAIN s = 1 .. Len(s) /\ Len(s) \in Nat
         /\ DOMAIN Append(s, x) = 1 .. Len(s) + 1
         /\ \A i \in 1 .. Len(s) : Append(s, x)[i] = s[i]
         /\ Append(s, x)[Len(s) + 1] = x
OBVIOUS

\* The UI thread's continuation is bound to ProducerCommit, which always pushes.
LEMMA UICompletes ==
  ASSUME OrderInv, NEW f, P!Complete("ui", f)
  PROVE  /\ stage["ui"] = "held" /\ queue' = Append(queue, f)
         /\ stage' = [stage EXCEPT !["ui"] = "pushed"]
         /\ UNCHANGED <<kind, cstage, item>>
BY OrderFacts DEF P!Complete, P!ProducerCommit, P!ProducerCommitIfEmpty, P!BailIfNotEmpty,
   P!Push, P!consVars, RasterPhases

\* A committed frame is the newest; a dropped continuation of a shell that goes
\* down leaves a null item, which is no frame.
LEMMA OrderCommit ==
  ASSUME OrderInv, [Next]_vars, EndFrameCommit \/ DropContinuation
  PROVE  OrderInv'
<1> DEFINE Newest(f) == /\ queue' = Append(queue, f) /\ f \in Frames \cup {NoFrame}
                        /\ frames \in Nat /\ frames' \in Nat
                        /\ \/ f = NoFrame /\ frames' = frames
                           \/ f = frames + 1 /\ frames' = frames + 1
<1>1. /\ UNCHANGED <<raster, resubmit, drawn, kind, cstage, item>>
      /\ stage' = [stage EXCEPT !["ui"] = "pushed"]
      /\ \E f \in Frames \cup {NoFrame} : Newest(f)
  <2>1. CASE EndFrameCommit
    <3>1. P!Complete("ui", frames + 1) /\ frames' = frames + 1 /\ trees # {}
          /\ UNCHANGED rasterVars
      BY <2>1 DEF EndFrameCommit
    <3>2. frames \in Nat /\ frames + 1 \in Frames
      BY <3>1, OrderFacts, RequestFacts, FrameAssumption DEF AnimTypes, UIPhases, Frames
    <3>3. queue' = Append(queue, frames + 1) /\ UNCHANGED <<kind, cstage, item>>
          /\ stage' = [stage EXCEPT !["ui"] = "pushed"]
      BY <3>1, UICompletes
    <3>4. Newest(frames + 1)
      BY <3>1, <3>2, <3>3
    <3> QED
      BY <3>1, <3>2, <3>3, <3>4 DEF rasterVars
  <2>2. CASE DropContinuation
    <3>1. P!Complete("ui", NoFrame) /\ frames' = frames /\ UNCHANGED rasterVars
      BY <2>2 DEF DropContinuation, animVars
    <3>2. queue' = Append(queue, NoFrame) /\ UNCHANGED <<kind, cstage, item>>
          /\ stage' = [stage EXCEPT !["ui"] = "pushed"]
      BY <3>1, UICompletes
    <3>3. frames \in Nat /\ frames' \in Nat
      BY <3>1, OrderFacts
    <3>4. Newest(NoFrame)
      BY <3>1, <3>2, <3>3
    <3> QED
      BY <3>1, <3>2, <3>4 DEF rasterVars
  <2> QED
    BY <2>1, <2>2
<1>2. PICK f \in Frames \cup {NoFrame} : Newest(f)
  BY <1>1
<1>3. /\ DOMAIN queue = 1 .. Len(queue) /\ Len(queue) \in Nat
      /\ DOMAIN queue' = 1 .. Len(queue) + 1
      /\ \A i \in 1 .. Len(queue) : queue'[i] = queue[i] /\ queue[i] \in Nat
      /\ queue'[Len(queue) + 1] = f
  BY <1>2, OrderFacts, AppendFacts
<1>4. RasterPhases'
  <2>1. stage'["raster"] = stage["raster"]
    BY <1>1, OrderFacts
  <2> QED
    BY <1>1, <2>1, OrderFacts DEF RasterPhases
<1>5. QueueOrder'
  <2>1. drawn \in Nat /\ drawn' = drawn /\ drawn <= frames /\ frames <= frames'
        /\ frames \in Nat /\ frames' \in Nat
        /\ (f # NoFrame => f = frames' /\ frames < f)
        /\ resubmit' = resubmit /\ item' = item
    BY <1>1, <1>2, OrderFacts DEF QueueOrder
  <2>2. ASSUME NEW i \in DOMAIN queue', queue'[i] # NoFrame
        PROVE  /\ drawn <= queue'[i] /\ queue'[i] <= frames'
               /\ (resubmit # NoFrame \/ item["raster"] # NoFrame) => drawn < queue'[i]
    <3>1. CASE i \in 1 .. Len(queue)
      BY <1>3, <2>1, <2>2, <3>1, OrderFacts DEF QueueOrder
    <3>2. CASE i = Len(queue) + 1
      BY <1>3, <2>1, <2>2, <3>2
    <3> QED
      BY <1>3, <3>1, <3>2
  <2>3. ASSUME NEW i \in DOMAIN queue', NEW j \in DOMAIN queue', i < j,
               queue'[i] # NoFrame, queue'[j] # NoFrame
        PROVE  queue'[i] < queue'[j]
    <3>1. i \in 1 .. Len(queue)
      BY <1>3, <2>3
    <3>2. CASE j \in 1 .. Len(queue)
      BY <1>3, <2>3, <3>1, <3>2, OrderFacts DEF QueueOrder
    <3>3. CASE j = Len(queue) + 1
      <4>1. queue[i] <= frames /\ queue[i] \in Nat /\ queue'[i] = queue[i]
        BY <1>3, <2>3, <3>1, OrderFacts DEF QueueOrder
      <4> QED
        BY <1>3, <2>1, <2>3, <3>3, <4>1
    <3> QED
      BY <1>3, <3>2, <3>3
  <2> QED
    BY <2>1, <2>2, <2>3 DEF QueueOrder
<1>6. ASSUME shell' = "up" PROVE NoNull'
  <2>1. shell = "up" /\ NoShutdown /\ NoNull
    BY <1>6, UpBefore, OrderFacts
  <2>2. EndFrameCommit
    BY <2>1 DEF DropContinuation, NoShutdown
  <2>3. f # NoFrame
    <3>1. frames' = frames + 1
      BY <2>2 DEF EndFrameCommit
    <3> QED
      BY <1>2, <3>1, OrderFacts
  <2> QED
    BY <1>3, <2>1, <2>3 DEF NoNull
<1> QED
  BY <1>4, <1>5, <1>6, OrderAssembled

LEMMA OrderAcquire ==
  ASSUME OrderInv, [Next]_vars, DrawAcquire \/ DrawNullItem
  PROVE  OrderInv'
<1>1. /\ UNCHANGED <<queue, stage, kind, item, frames, drawn, resubmit>>
      /\ \/ /\ raster = "draw" /\ raster' = "consume" /\ cstage["raster"] = "idle"
            /\ cstage' = [cstage EXCEPT !["raster"] = "acquired"]
         \/ /\ raster = "consume" /\ raster' = "crashed" /\ cstage["raster"] = "consuming"
            /\ cstage' = cstage
  BY DEF DrawAcquire, DrawNullItem, P!ConsumeAcquire, P!prodVars, pipeVars, uiVars, animVars
<1>2. RasterPhases'
  <2>1. cstage'["raster"] = (IF raster = "draw" THEN "acquired" ELSE "consuming")
    BY <1>1, OrderFacts
  <2> QED
    BY <1>1, <2>1, OrderFacts DEF RasterPhases
<1>3. QueueOrder'
  BY <1>1, OrderFacts DEF QueueOrder
<1> QED
  BY <1>1, <1>2, <1>3, NoNullKept, OrderAssembled

LEMMA TailFacts ==
  ASSUME NEW S, NEW s \in Seq(S), s # << >>
  PROVE  /\ DOMAIN s = 1 .. Len(s) /\ Len(s) \in Nat /\ 1 \in DOMAIN s /\ Head(s) = s[1]
         /\ DOMAIN Tail(s) = 1 .. Len(s) - 1
         /\ \A i \in 1 .. Len(s) - 1 : Tail(s)[i] = s[i + 1] /\ i + 1 \in DOMAIN s
OBVIOUS

\* The front is the oldest frame of the queue and not older than the last one drawn.
LEMMA OrderPop ==
  ASSUME OrderInv, [Next]_vars, DrawPop
  PROVE  OrderInv' /\ drawn <= drawn'
<1>1. /\ raster = "consume" /\ UNCHANGED <<frames, raster, resubmit, stage, kind>>
      /\ drawn' = IF Head(queue) = NoFrame THEN drawn ELSE Head(queue)
      /\ cstage["raster"] = "acquired" /\ queue' = Tail(queue)
      /\ cstage' = [cstage EXCEPT !["raster"] = "consuming"]
      /\ item' = [item EXCEPT !["raster"] = Head(queue)]
  BY DEF DrawPop, P!ConsumePop, P!prodVars, uiVars, animVars
<1>2. queue # << >> /\ cstage'["raster"] = "consuming" /\ item'["raster"] = Head(queue)
  BY <1>1, OrderFacts, FrontDefined
<1>3. /\ DOMAIN queue = 1 .. Len(queue) /\ Len(queue) \in Nat /\ 1 \in DOMAIN queue
      /\ Head(queue) = queue[1] /\ DOMAIN queue' = 1 .. Len(queue) - 1
      /\ \A i \in 1 .. Len(queue) - 1 : queue'[i] = queue[i + 1] /\ i + 1 \in DOMAIN queue
  BY <1>1, <1>2, OrderFacts, TailFacts
<1>4. /\ \A i \in DOMAIN queue : queue[i] \in Nat
      /\ drawn \in Nat /\ drawn' \in Nat /\ frames \in Nat /\ NoFrame = 0
      /\ resubmit' = NoFrame /\ drawn <= drawn' /\ drawn' <= frames
  <2>1. \A i \in DOMAIN queue : queue[i] \in Nat
    BY <1>3, OrderFacts
  <2>2. resubmit' = NoFrame
    BY <1>1, OrderFacts DEF RasterPhases
  <2>3. queue[1] # NoFrame => drawn <= queue[1] /\ queue[1] <= frames
    BY <1>3, OrderFacts DEF QueueOrder
  <2>4. drawn <= frames
    BY OrderFacts DEF QueueOrder
  <2> QED
    BY <1>1, <1>3, <2>1, <2>2, <2>3, <2>4, OrderFacts
<1>5. RasterPhases'
  <2>1. item'["raster"] \in {drawn', NoFrame}
    BY <1>1, <1>2
  <2> QED
    BY <1>1, <1>2, <2>1, OrderFacts DEF RasterPhases
<1>6. QueueOrder'
  <2>1. ASSUME NEW i \in DOMAIN queue', queue'[i] # NoFrame
        PROVE  /\ drawn' <= queue'[i] /\ queue'[i] <= frames'
               /\ (resubmit' # NoFrame \/ item'["raster"] # NoFrame) => drawn' < queue'[i]
    <3>1. /\ i \in Nat /\ i + 1 \in DOMAIN queue /\ queue'[i] = queue[i + 1]
          /\ 1 < i + 1 /\ queue[i + 1] \in Nat
      BY <1>3, <1>4, <2>1
    <3>2. drawn <= queue[i + 1] /\ queue[i + 1] <= frames
      BY <2>1, <3>1, OrderFacts DEF QueueOrder
    <3>3. queue[1] # NoFrame => queue[1] < queue[i + 1]
      BY <1>3, <2>1, <3>1, OrderFacts DEF QueueOrder
    <3>4. CASE queue[1] = NoFrame
      BY <1>1, <1>2, <1>3, <1>4, <3>1, <3>2, <3>4
    <3>5. CASE queue[1] # NoFrame
      BY <1>1, <1>2, <1>3, <1>4, <3>1, <3>2, <3>3, <3>5
    <3> QED
      BY <3>4, <3>5
  <2>2. ASSUME NEW i \in DOMAIN queue', NEW j \in DOMAIN queue', i < j,
               queue'[i] # NoFrame, queue'[j] # NoFrame
        PROVE  queue'[i] < queue'[j]
    <3>1. /\ i + 1 \in DOMAIN queue /\ queue'[i] = queue[i + 1]
          /\ j + 1 \in DOMAIN queue /\ queue'[j] = queue[j + 1] /\ i + 1 < j + 1
      BY <1>3, <2>2
    <3> QED
      BY <2>2, <3>1, OrderFacts DEF QueueOrder
  <2> QED
    BY <1>1, <1>4, <2>1, <2>2 DEF QueueOrder
<1>7. ASSUME shell' = "up" PROVE NoNull'
  BY <1>3, <1>7, UpBefore, OrderFacts DEF NoNull
<1> QED
  BY <1>4, <1>5, <1>6, <1>7, OrderAssembled

LEMMA OrderDoDraw ==
  ASSUME OrderInv, [Next]_vars, DoDraw
  PROVE  OrderInv'
<1>1. /\ raster = "consume" /\ item["raster"] # NoFrame
      /\ UNCHANGED <<queue, stage, kind, frames, drawn>>
      /\ cstage' = [cstage EXCEPT !["raster"] = "idle"]
      /\ item' = [item EXCEPT !["raster"] = NoFrame]
      /\ \/ raster' = "post" /\ resubmit' = resubmit
         \/ raster' = "resubmit" /\ resubmit' = item["raster"]
  BY DEF DoDraw, P!ConsumeFinish, P!prodVars, uiVars, animVars
<1>2. /\ item["raster"] = drawn /\ drawn # NoFrame /\ resubmit = NoFrame
      /\ cstage'["raster"] = "idle" /\ item'["raster"] = NoFrame
  BY <1>1, OrderFacts DEF RasterPhases
<1>3. RasterPhases'
  BY <1>1, <1>2, OrderFacts DEF RasterPhases
<1>4. QueueOrder'
  BY <1>1, OrderFacts DEF QueueOrder
<1> QED
  BY <1>1, <1>3, <1>4, NoNullKept, OrderAssembled

\* A resubmitted frame goes into an empty queue only.
LEMMA OrderResubmit ==
  ASSUME OrderInv, [Next]_vars,
         ResubmitProduce \/ ResubmitPipelineFull \/ ResubmitComplete \/ ResubmitSignal
  PROVE  OrderInv'
<1>1. UNCHANGED <<frames, drawn>>
  BY DEF ResubmitProduce, ResubmitPipelineFull, ResubmitComplete, ResubmitSignal, uiVars,
     animVars
<1>2. CASE ResubmitProduce
  <2>1. /\ raster = "resubmit" /\ raster' = "complete" /\ resubmit' = resubmit
        /\ UNCHANGED <<queue, cstage, item>>
        /\ stage' = [stage EXCEPT !["raster"] = "held"]
        /\ kind' = [kind EXCEPT !["raster"] = "ifEmpty"]
    BY <1>2 DEF ResubmitProduce, P!ProduceIfEmpty, P!ClaimSlot, P!consVars
  <2>2. /\ stage'["raster"] = "held" /\ kind'["raster"] = "ifEmpty"
        /\ kind'["ui"] = kind["ui"]
    BY <2>1, OrderFacts
  <2>3. RasterPhases'
    BY <1>1, <2>1, <2>2, OrderFacts DEF RasterPhases
  <2>4. QueueOrder'
    BY <1>1, <2>1, OrderFacts DEF QueueOrder
  <2> QED
    BY <2>1, <2>3, <2>4, NoNullKept, OrderAssembled
<1>3. CASE ResubmitPipelineFull
  <2>1. /\ raster = "resubmit" /\ raster' = "post" /\ resubmit' = NoFrame
        /\ UNCHANGED <<queue, stage, kind, cstage, item>>
    BY <1>3 DEF ResubmitPipelineFull, pipeVars
  <2>2. RasterPhases'
    BY <1>1, <2>1, OrderFacts DEF RasterPhases
  <2>3. QueueOrder'
    BY <1>1, <2>1, OrderFacts DEF QueueOrder
  <2> QED
    BY <2>1, <2>2, <2>3, NoNullKept, OrderAssembled
<1>4. CASE ResubmitComplete
  <2>1. /\ raster = "complete" /\ P!Complete("raster", resubmit) /\ resubmit' = NoFrame
        /\ raster' = IF queue = << >> THEN "signal" ELSE "post"
    BY <1>4 DEF ResubmitComplete
  <2>2. /\ stage["raster"] = "held" /\ kind["raster"] = "ifEmpty"
        /\ resubmit = drawn /\ drawn # NoFrame /\ item["raster"] = NoFrame
    BY <2>1, OrderFacts DEF RasterPhases
  <2>3. /\ UNCHANGED <<kind, cstage, item>>
        /\ \/ /\ queue = << >> /\ queue' = Append(queue, resubmit)
              /\ stage' = [stage EXCEPT !["raster"] = "pushed"]
           \/ /\ queue # << >> /\ queue' = queue
              /\ stage' = [stage EXCEPT !["raster"] = "idle"]
    BY <2>1, <2>2 DEF P!Complete, P!ProducerCommit, P!ProducerCommitIfEmpty,
       P!BailIfNotEmpty, P!Push, P!consVars
  <2>4. stage'["raster"] = IF queue = << >> THEN "pushed" ELSE "idle"
    BY <2>3, OrderFacts
  <2>5. RasterPhases'
    BY <1>1, <2>1, <2>2, <2>3, <2>4, OrderFacts DEF RasterPhases
  <2>6. CASE queue = << >>
    <3>1. DOMAIN queue' = 1 .. 1 /\ queue'[1] = drawn
      BY <2>2, <2>3, <2>6
    <3>2. drawn <= drawn /\ drawn <= frames
      BY OrderFacts DEF QueueOrder
    <3>3. QueueOrder'
      BY <1>1, <2>1, <2>2, <2>3, <3>1, <3>2 DEF QueueOrder
    <3>4. NoNull'
      BY <2>2, <3>1 DEF NoNull
    <3> QED
      BY <2>5, <3>3, <3>4, OrderAssembled
  <2>7. CASE queue # << >>
    <3>1. UNCHANGED queue
      BY <2>3, <2>7
    <3>2. QueueOrder'
      BY <1>1, <2>1, <2>2, <2>3, <3>1, OrderFacts DEF QueueOrder
    <3> QED
      BY <2>5, <3>1, <3>2, NoNullKept, OrderAssembled
  <2> QED
    BY <2>6, <2>7
<1>5. CASE ResubmitSignal
  <2>1. /\ raster = "signal" /\ raster' = "postMore" /\ resubmit' = resubmit
        /\ UNCHANGED <<queue, kind, cstage, item>>
        /\ stage' = [stage EXCEPT !["raster"] = "idle"]
    BY <1>5 DEF ResubmitSignal, P!SignalAvailable, P!consVars
  <2>2. stage'["raster"] = "idle"
    BY <2>1, OrderFacts
  <2>3. RasterPhases'
    BY <1>1, <2>1, <2>2, OrderFacts DEF RasterPhases
  <2>4. QueueOrder'
    BY <1>1, <2>1, OrderFacts DEF QueueOrder
  <2> QED
    BY <2>1, <2>3, <2>4, NoNullKept, OrderAssembled
<1> QED
  BY <1>2, <1>3, <1>4, <1>5

LEMMA OrderStep ==
  ASSUME OrderInv, [Next]_vars
  PROVE  OrderInv'
<1>1. CASE UNCHANGED <<pipeVars, rasterVars, frames>>
  BY <1>1, OrderQuiet
<1>2. CASE PostInput \/ VsyncThread \/ PlatformThread \/ UNCHANGED vars
  BY <1>1, <1>2
  DEF PostInput, VsyncThread, PlatformThread, ShellDestroyed, UILatch, vars, uiVars, animVars
<1>3. CASE UIStart \/ UIFinish \/ TextureTask \/ ScheduleFrame \/ AwaitVSync \/ RequestVsync
           \/ EnqueueTraceFlowId \/ MaybeClearTraceFlowIds \/ DrawLastLayerTrees
  BY <1>1, <1>3 DEF UIStart, UIFinish, TextureTask, ScheduleFrame, AwaitVSync, RequestVsync,
     EnqueueTraceFlowId, MaybeClearTraceFlowIds, DrawLastLayerTrees, uiVars, animVars
<1>4. CASE BeginFramePipelineFull \/ (\E v \in Views : Render(v)) \/ EndWarmUpFrame
           \/ DartDone \/ EndFrameEmpty \/ EndFrameDropped \/ NotifyDelegate \/ EngineReset
  BY <1>1, <1>4 DEF BeginFramePipelineFull, Render, EndWarmUpFrame, DartDone, EndFrameEmpty,
     EndFrameDropped, NotifyDelegate, EngineReset, animVars
<1>5. CASE BeginFrame \/ CommitSignal
  BY <1>1, <1>5, OrderUISlot DEF BeginFrame, CommitSignal, animVars
<1>6. CASE StartDraw \/ RasterDrawLast \/ DrawPipelineEmpty \/ DrawDone \/ RasterizerReset
  <2>1. /\ UNCHANGED <<pipeVars, frames, drawn, resubmit>>
        /\ raster \in {"idle", "draw", "post", "postMore"}
        /\ raster' \in {"idle", "draw", "gone"}
    BY <1>6 DEF StartDraw, RasterDrawLast, DrawPipelineEmpty, DrawDone, RasterizerReset,
       rasterVars, uiVars, animVars
  <2> QED
    BY <2>1, OrderRaster
<1> QED
  BY <1>2, <1>3, <1>4, <1>5, <1>6, OrderCommit, OrderAcquire, OrderPop, OrderDoDraw,
     OrderResubmit
  DEF Next, UIThread, RasterThread

LEMMA OrderInit ==
  ASSUME Init
  PROVE  OrderInv
<1>1. /\ P!Init /\ V!Init /\ raster = "idle" /\ resubmit = NoFrame /\ drawn = NoFrame
      /\ frames = 0 /\ NoFrame = 0
  BY DEF Init, NoFrame
<1>2. /\ kind["ui"] = "always" /\ stage["raster"] = "idle" /\ cstage["raster"] = "idle"
      /\ item["raster"] = NoFrame /\ queue = << >>
  BY <1>1 DEF P!Init
<1>3. RasterPhases
  BY <1>1, <1>2 DEF RasterPhases
<1>4. QueueOrder
  BY <1>1, <1>2 DEF QueueOrder
<1>5. CleanWhileUp
  BY <1>1, <1>2 DEF V!Init, CleanWhileUp
<1> QED
  BY <1>3, <1>4, <1>5, RequestInit DEF OrderInv

LEMMA OrderInvariant == Spec => []OrderInv
<1>1. OrderInv /\ [Next]_vars => OrderInv'
  BY OrderStep
<1> QED
  BY <1>1, OrderInit, PTL DEF Spec

LEMMA DrawnKept ==
  ASSUME [Next]_vars, ~DrawPop
  PROVE  UNCHANGED drawn
<1>1. CASE PostInput \/ VsyncThread \/ PlatformThread \/ UNCHANGED vars
  BY <1>1 DEF PostInput, VsyncThread, PlatformThread, ShellDestroyed, UILatch, vars, rasterVars
<1>2. CASE RasterThread
  BY <1>2 DEF RasterThread, StartDraw, RasterDrawLast, DrawPipelineEmpty, DrawAcquire,
     DrawNullItem, DoDraw, ResubmitProduce, ResubmitPipelineFull, ResubmitComplete,
     ResubmitSignal, DrawDone, RasterizerReset, rasterVars
<1>3. CASE UIThread
  BY <1>3 DEF UIThread, UIStart, UIFinish, TextureTask, ScheduleFrame, AwaitVSync,
     RequestVsync, EnqueueTraceFlowId, MaybeClearTraceFlowIds, DrawLastLayerTrees, BeginFrame,
     BeginFramePipelineFull, Render, EndWarmUpFrame, DartDone, EndFrameEmpty, EndFrameCommit,
     EndFrameDropped, CommitSignal, NotifyDelegate, DropContinuation, EngineReset, rasterVars
<1> QED
  BY <1>1, <1>2, <1>3 DEF Next

\* Frames reach DoDraw in the order the animator committed them: a frame submitted
\* again goes only into an empty queue and so is never drawn after a newer one.
THEOREM DrawnInOrderAlways == Spec => DrawnInOrder
<1>1. OrderInv /\ [Next]_vars => [drawn' >= drawn]_vars
  <2> SUFFICES ASSUME OrderInv, [Next]_vars PROVE drawn' >= drawn
    OBVIOUS
  <2>1. drawn \in Nat /\ drawn' \in Nat
    <3>1. RequestInv'
      BY OrderFacts, RequestStep
    <3>2. drawn' \in Frames \cup {NoFrame}
      BY <3>1 DEF RequestInv, DrawTypes
    <3> QED
      BY <3>2, OrderFacts
  <2>2. CASE DrawPop
    BY <2>1, <2>2, OrderPop
  <2>3. CASE ~DrawPop
    BY <2>1, <2>3, DrawnKept
  <2> QED
    BY <2>2, <2>3
<1> QED
  BY <1>1, OrderInvariant, PTL DEF Spec, DrawnInOrder

\* The rasterizer gives up a frame it was to submit again only for a newer one that
\* is already queued, in a pipeline of two slots and as long as the shell is up.
THEOREM DroppedOnlyWhenSupersededAlways ==
  ASSUME Depth = 2
  PROVE  Spec => DroppedOnlyWhenSuperseded
<1> DEFINE Superseded ==
      raster \in {"resubmit", "complete"} /\ raster' = "post" /\ shell = "up"
        => queue # << >> /\ Head(queue) > resubmit
<1>1. OrderInv /\ [Next]_vars => Superseded
  <2> SUFFICES ASSUME OrderInv, [Next]_vars, raster \in {"resubmit", "complete"},
                      raster' = "post", shell = "up"
               PROVE  queue # << >> /\ Head(queue) > resubmit
    OBVIOUS
  <2>1. /\ resubmit = drawn /\ drawn # NoFrame /\ cstage["raster"] = "idle"
        /\ raster = "resubmit" => stage["raster"] # "held"
    BY OrderFacts DEF RasterPhases
  <2>2. queue # << >>
    <3>1. CASE ResubmitPipelineFull
      <4>1. empty = 0 /\ raster = "resubmit"
        BY <3>1 DEF ResubmitPipelineFull
      <4>2. /\ One(stage["raster"] = "held") = 0 /\ One(cstage["raster"] = "consuming") = 0
            /\ One(stage["ui"] = "held") \in 0..1
        BY <2>1, <4>1 DEF One
      <4>3. Len(queue) # 0
        BY <4>1, <4>2, OrderFacts, PipeTypes DEF PipeInv, Slots
      <4> QED
        BY <4>3
    <3>2. CASE ResubmitComplete
      BY <3>2 DEF ResubmitComplete
    <3>3. CASE UNCHANGED raster
      BY <3>3
    <3>4. CASE RasterThread
      BY <3>1, <3>2, <3>4 DEF RasterThread, StartDraw, RasterDrawLast, DrawPipelineEmpty,
         DrawAcquire, DrawPop, DrawNullItem, DoDraw, ResubmitProduce, ResubmitSignal,
         DrawDone, RasterizerReset
    <3>5. CASE PostInput \/ VsyncThread \/ PlatformThread \/ UNCHANGED vars
      BY <3>3, <3>5 DEF PostInput, VsyncThread, PlatformThread, ShellDestroyed, UILatch,
         vars, rasterVars
    <3>6. CASE UIThread
      BY <3>3, <3>6 DEF UIThread, UIStart, UIFinish, TextureTask, ScheduleFrame, AwaitVSync,
         RequestVsync, EnqueueTraceFlowId, MaybeClearTraceFlowIds, DrawLastLayerTrees,
         BeginFrame, BeginFramePipelineFull, Render, EndWarmUpFrame, DartDone, EndFrameEmpty,
         EndFrameCommit, EndFrameDropped, CommitSignal, NotifyDelegate, DropContinuation,
         EngineReset, rasterVars
    <3> QED
      BY <3>4, <3>5, <3>6 DEF Next
  <2>3. 1 \in DOMAIN queue /\ Head(queue) = queue[1] /\ queue[1] \in Nat /\ NoFrame = 0
    BY <2>2, OrderFacts, TailFacts
  <2>4. drawn < queue[1]
    BY <2>1, <2>3, OrderFacts DEF QueueOrder, NoNull
  <2> QED
    BY <2>1, <2>2, <2>3, <2>4, OrderFacts
<1>2. OrderInv /\ [Next]_vars => [Superseded]_vars
  BY <1>1
<1>3. Spec => [][Superseded]_vars
  BY <1>2, OrderInvariant, PTL DEF Spec
<1> QED
  BY <1>3, PTL DEF DroppedOnlyWhenSuperseded
====
