------------------------ MODULE SurfaceLifecycleProofs ------------------------
(***************************************************************************)
(* The window an engine draws on, for any set of views and sizes and any   *)
(* number of attachments, preloads and size changes: nothing refers to a   *)
(* window that is gone, a rasterizer's surface has something to draw on, a *)
(* detached engine keeps no window, and no first frame is reported early.  *)
(***************************************************************************)
EXTENDS SurfaceLifecycle, TLAPS

Called(op) == \E i \in DOMAIN calls : calls[i].op = op
Posted(op) == \E i \in DOMAIN raster : raster[i].op = op

\* The callback the platform thread is in: a NotifyDestroyed or the rest of one,
\* then the window is freed or the engine attached.
CallsShape ==
  \A i \in DOMAIN calls :
    /\ calls[i].op = "teardown" => i = 1 /\ Len(calls) >= 2 /\ calls[2].op = "clear"
    /\ calls[i].op = "clear" => i = 1 \/ (i = 2 /\ calls[1].op = "teardown")
    /\ calls[i].op \in {"free", "attach"} => i = Len(calls) /\ calls[i].view \in Views

\* The platform thread waits for a latched task: only the UI thread posts after it.
LatchedLast ==
  \A i, j \in DOMAIN raster : i < j /\ raster[i].op \in Latched => raster[j].op = "draw"

\* What the raster tasks carry.
TasksCarry ==
  \A i \in DOMAIN raster :
    /\ raster[i].op \in {"display", "change"} => raster[i].view \in Views
    /\ raster[i].op = "preload" => raster[i].size \in Sizes /\ predrawn

\* XComponentBase knows the windows there are; the one about to be freed it has
\* forgotten.
WindowsKnown ==
  /\ \A v \in Views : base[v].window => v \in alive
  /\ \A v \in Views : v \in alive =>
       base[v].window \/ \E i \in DOMAIN calls : calls[i].op = "free" /\ calls[i].view = v
  /\ \A i \in DOMAIN calls : calls[i].op = "free" =>
       /\ ~base[calls[i].view].window /\ ~base[calls[i].view].attached

\* The raster thread or one of its tasks uses the window of v ...
Refers(v) ==
  \/ native = v
  \/ \E i \in DOMAIN raster : raster[i].op \in {"display", "change"} /\ raster[i].view = v

\* ... which is there, and will be told when it goes, or is being told already.
RefersToLive ==
  \A v \in Views : Refers(v) =>
    /\ v \in alive
    /\ \/ base[v].attached /\ base[v].window
       \/ Called("clear") \/ Posted("clear")

\* Between the two raster tasks of NotifyDestroyed nothing is set up again.
TornDown ==
  \/ Posted("clear")
  \/ calls # << >> /\ Head(calls).op = "clear" /\ ~Posted("teardown")
  => ~surface /\ \A i \in DOMAIN raster : raster[i].op \in {"draw", "clear"}

\* Only a predraw makes the engine preload or draw off screen; without one a first
\* frame is reported for a frame that was rendered.
PreloadedByPredraw ==
  /\ preload \/ native = "off" => predrawn
  /\ (firing \/ displayed) /\ ~predrawn => rendered

\* The inductive invariant.
WindowInv ==
  /\ TypeOK
  /\ CallsShape /\ LatchedLast /\ TasksCarry
  /\ WindowsKnown /\ RefersToLive /\ TornDown
  /\ SurfaceHasWindow /\ PreloadedByPredraw

-----------------------------------------------------------------------------
(* The raster thread takes a task *)

LEMMA TailOfRaster ==
  ASSUME TypeOK, raster # << >>, raster' = Tail(raster)
  PROVE  /\ raster' \in Seq(RasterTasks) /\ Head(raster) \in RasterTasks
         /\ 1 \in DOMAIN raster /\ raster[1] = Head(raster)
         /\ \A i \in DOMAIN raster : i \in Nat /\ i >= 1
         /\ \A i \in DOMAIN raster' : i \in Nat /\ i >= 1
         /\ \A i \in DOMAIN raster' : i + 1 \in DOMAIN raster /\ raster'[i] = raster[i + 1]
         /\ \A i \in DOMAIN raster : i # 1 => i - 1 \in DOMAIN raster' /\ raster'[i - 1] = raster[i]
<1>1. raster \in Seq(RasterTasks)
  BY DEF TypeOK
<1>2. Len(raster) \in Nat /\ Len(raster) >= 1 /\ DOMAIN raster = 1 .. Len(raster)
  BY <1>1
<1>3. /\ Tail(raster) \in Seq(RasterTasks) /\ Len(Tail(raster)) = Len(raster) - 1
      /\ DOMAIN Tail(raster) = 1 .. Len(raster) - 1
      /\ \A i \in 1 .. Len(raster) - 1 : Tail(raster)[i] = raster[i + 1]
  BY <1>1, <1>2
<1> QED
  BY <1>1, <1>2, <1>3

\* What the rest of the tasks inherits.
LEMMA Pops ==
  ASSUME WindowInv, raster # << >>, raster' = Tail(raster),
         UNCHANGED <<componentVars, calls, predrawn>>
  PROVE  /\ CallsShape' /\ LatchedLast' /\ TasksCarry' /\ WindowsKnown'
         /\ \A op : Posted(op)' => Posted(op)
         /\ \A op : Posted(op) => Posted(op)' \/ Head(raster).op = op
         /\ \A op : Called(op)' <=> Called(op)
<1>1. TypeOK
  BY DEF WindowInv
<1>2. CallsShape'
  BY DEF WindowInv, CallsShape
<1>3. LatchedLast'
  BY <1>1, TailOfRaster DEF WindowInv, LatchedLast
<1>4. TasksCarry'
  BY <1>1, TailOfRaster DEF WindowInv, TasksCarry
<1>5. WindowsKnown'
  BY DEF WindowInv, WindowsKnown, componentVars
<1>6. \A op : Posted(op)' => Posted(op)
  BY <1>1, TailOfRaster DEF Posted
<1>7. \A op : Posted(op) => Posted(op)' \/ Head(raster).op = op
  BY <1>1, TailOfRaster DEF Posted
<1>8. \A op : Called(op)' <=> Called(op)
  BY DEF Called
<1> QED
  BY <1>2, <1>3, <1>4, <1>5, <1>6, <1>7, <1>8

\* No task but TeardownOnScreenContext gives a promise to clear up.
LEMMA PopKeepsReferences ==
  ASSUME WindowInv, raster # << >>, raster' = Tail(raster),
         UNCHANGED <<componentVars, calls, predrawn>>,
         Head(raster).op # "clear",
         \/ native' = native \/ native' \notin Views
         \/ Head(raster).op \in {"display", "change"} /\ native' = Head(raster).view
  PROVE  RefersToLive'
<1>1. TypeOK /\ RefersToLive
  BY DEF WindowInv
<1>2. \A v \in Views : Refers(v)' => Refers(v)
  BY <1>1, TailOfRaster DEF Refers
<1>3. Posted("clear") => Posted("clear")'
  BY Pops
<1>4. Called("clear") => Called("clear")'
  BY DEF Called
<1> QED
  BY <1>1, <1>2, <1>3, <1>4 DEF RefersToLive, componentVars

\* Whoever sets a surface up is no task between the two of NotifyDestroyed.
LEMMA PopKeepsTornDown ==
  ASSUME WindowInv, raster # << >>, raster' = Tail(raster),
         UNCHANGED <<componentVars, calls, predrawn>>,
         Head(raster).op # "teardown",
         surface' => surface \/ Head(raster).op \notin {"draw", "clear"},
         surface' \in BOOLEAN
  PROVE  TornDown'
<1>1. TypeOK /\ TornDown /\ surface \in BOOLEAN
  BY DEF WindowInv, TypeOK
<1>2. Posted("clear")' => Posted("clear")
  BY Pops
<1>3. ~Posted("teardown")' => ~Posted("teardown")
  BY Pops
<1>4. SUFFICES ASSUME \/ Posted("clear")
                      \/ calls # << >> /\ Head(calls).op = "clear" /\ ~Posted("teardown")
               PROVE  ~surface' /\ \A i \in DOMAIN raster' : raster'[i].op \in {"draw", "clear"}
  BY <1>2, <1>3 DEF TornDown
<1>5. ~surface /\ \A i \in DOMAIN raster : raster[i].op \in {"draw", "clear"}
  BY <1>1, <1>4 DEF TornDown
<1>6. Head(raster).op \in {"draw", "clear"}
  BY <1>1, <1>5, TailOfRaster
<1> QED
  BY <1>1, <1>5, <1>6, TailOfRaster

-----------------------------------------------------------------------------
(* Raster tasks *)

\* The variables that TypeOK only says are Boolean.
LEMMA Flags ==
  {displayed, rendered, firing, preload, surface, wanted, disturbed, predrawn} \subseteq BOOLEAN
  <=> /\ displayed \in BOOLEAN /\ rendered \in BOOLEAN /\ firing \in BOOLEAN
      /\ preload \in BOOLEAN /\ surface \in BOOLEAN /\ wanted \in BOOLEAN
      /\ disturbed \in BOOLEAN /\ predrawn \in BOOLEAN
OBVIOUS

\* The types of what a raster task may change.
LEMMA RasterTypes ==
  ASSUME WindowInv, raster # << >>, raster' = Tail(raster),
         UNCHANGED <<viewVars, componentVars, display, calls, displayed, historyVars>>,
         native' \in Views \cup {"none", "off"}, offscreen' \in Sizes \cup {0},
         hook' \in {"none", "first", "preload"},
         rendered' \in BOOLEAN, firing' \in BOOLEAN, preload' \in BOOLEAN,
         surface' \in BOOLEAN, wanted' \in BOOLEAN
  PROVE  TypeOK'
<1>1. TypeOK
  BY DEF WindowInv
<1>2. raster' \in Seq(RasterTasks)
  BY <1>1, TailOfRaster
<1>3. displayed \in BOOLEAN /\ disturbed \in BOOLEAN /\ predrawn \in BOOLEAN
  BY <1>1, Flags DEF TypeOK
<1>4. {displayed, rendered, firing, preload, surface, wanted, disturbed, predrawn}' \subseteq BOOLEAN
  BY <1>3 DEF historyVars
<1> QED
  BY <1>1, <1>2, <1>4 DEF TypeOK, viewVars, componentVars, historyVars

LEMMA RasterState ==
  ASSUME WindowInv
  PROVE  /\ TypeOK /\ SurfaceHasWindow /\ PreloadedByPredraw
         /\ native \in Views \cup {"none", "off"} /\ offscreen \in Sizes \cup {0}
         /\ hook \in {"none", "first", "preload"}
         /\ rendered \in BOOLEAN /\ firing \in BOOLEAN /\ preload \in BOOLEAN
         /\ surface \in BOOLEAN /\ wanted \in BOOLEAN
         /\ "none" \notin Views /\ "off" \notin Views /\ Sizes \subseteq Nat \ {0}
<1>1. TypeOK /\ SurfaceHasWindow /\ PreloadedByPredraw
  BY DEF WindowInv
<1>2. {displayed, rendered, firing, preload, surface, wanted, disturbed, predrawn} \subseteq BOOLEAN
  BY <1>1 DEF TypeOK
<1> QED
  BY <1>1, <1>2, Flags, SurfaceAssumption DEF TypeOK

LEMMA HookStep ==
  ASSUME WindowInv, SetNextFrameCallback
  PROVE  WindowInv'
<1>1. /\ raster # << >> /\ raster' = Tail(raster) /\ Head(raster).op \in {"hook", "hookPreload"}
      /\ UNCHANGED <<viewVars, componentVars, platformVars, preload, native, offscreen,
                     surface, rendered, wanted, historyVars>>
      /\ hook' \in {"none", "first", "preload"}
  BY DEF SetNextFrameCallback, Run
<1>2. UNCHANGED <<display, calls, firing, displayed, predrawn>>
  BY <1>1 DEF platformVars, historyVars
<1>3. TypeOK'
  BY <1>1, <1>2, RasterState, RasterTypes
<1>4. RefersToLive'
  BY <1>1, <1>2, PopKeepsReferences
<1>5. TornDown'
  BY <1>1, <1>2, RasterState, PopKeepsTornDown
<1>6. SurfaceHasWindow' /\ PreloadedByPredraw'
  BY <1>1, <1>2, RasterState DEF SurfaceHasWindow, PreloadedByPredraw
<1> QED
  BY <1>1, <1>2, <1>3, <1>4, <1>5, <1>6, Pops DEF WindowInv

\* What the task at the head carries.
LEMMA HeadCarries ==
  ASSUME WindowInv, raster # << >>, raster' = Tail(raster)
  PROVE  /\ Head(raster).op \in {"display", "change"} => Head(raster).view \in Views
         /\ Head(raster).op = "preload" => Head(raster).size \in Sizes /\ predrawn
<1>1. TypeOK /\ TasksCarry
  BY DEF WindowInv
<1> QED
  BY <1>1, TailOfRaster DEF TasksCarry

LEMMA DisplayStep ==
  ASSUME WindowInv, DisplayTask \/ ChangeTask
  PROVE  WindowInv'
<1>1. /\ raster # << >> /\ raster' = Tail(raster) /\ Head(raster).op \in {"display", "change"}
      /\ native' = Head(raster).view
      /\ offscreen' \in {offscreen, 0}
      /\ UNCHANGED <<viewVars, componentVars, display, calls, displayed, preload, hook, rendered,
                     historyVars>>
  BY DEF DisplayTask, ChangeTask, Run, SetDisplayWindow, platformVars
<1>2. /\ surface' \in {surface, TRUE} /\ wanted' \in {wanted, TRUE}
      /\ firing' = firing \/ (preload /\ firing' = TRUE)
  BY DEF DisplayTask, ChangeTask, platformVars
<1>3. Head(raster).view \in Views
  BY <1>1, HeadCarries
<1>4. predrawn' = predrawn
  BY <1>1 DEF historyVars
<1>5. TypeOK'
  BY <1>1, <1>2, <1>3, RasterState, RasterTypes
<1>6. RefersToLive'
  BY <1>1, <1>4, PopKeepsReferences
<1>7. TornDown'
  BY <1>1, <1>2, <1>4, RasterState, PopKeepsTornDown
<1>8. SurfaceHasWindow'
  BY <1>1, <1>3, RasterState DEF SurfaceHasWindow
<1>9. PreloadedByPredraw'
  BY <1>1, <1>2, <1>3, <1>4, RasterState DEF PreloadedByPredraw
<1> QED
  BY <1>1, <1>4, <1>5, <1>6, <1>7, <1>8, <1>9, Pops DEF WindowInv

LEMMA PreloadStep ==
  ASSUME WindowInv, PreloadTask
  PROVE  WindowInv'
<1>1. /\ raster # << >> /\ raster' = Tail(raster) /\ Head(raster).op = "preload"
      /\ UNCHANGED <<viewVars, componentVars, platformVars, hook, rendered, historyVars>>
  BY DEF PreloadTask, Run
<1>2. UNCHANGED <<display, calls, firing, displayed, predrawn>>
  BY <1>1 DEF platformVars, historyVars
<1>3. Head(raster).size \in Sizes /\ predrawn
  BY <1>1, HeadCarries
<1>4. \/ UNCHANGED <<preload, native, offscreen, surface, wanted>>
      \/ /\ preload' = TRUE /\ surface' = TRUE /\ wanted' = TRUE
         /\ offscreen' = Head(raster).size /\ native' \in {native, "off"}
  BY DEF PreloadTask
<1>5. TypeOK'
  BY <1>1, <1>2, <1>3, <1>4, RasterState, RasterTypes
<1>6. RefersToLive'
  BY <1>1, <1>2, <1>4, RasterState, PopKeepsReferences
<1>7. TornDown'
  BY <1>1, <1>2, <1>4, RasterState, PopKeepsTornDown
<1>8. SurfaceHasWindow' /\ PreloadedByPredraw'
  BY <1>1, <1>2, <1>3, <1>4, RasterState DEF SurfaceHasWindow, PreloadedByPredraw
<1> QED
  BY <1>1, <1>2, <1>5, <1>6, <1>7, <1>8, Pops DEF WindowInv

LEMMA DrawStep ==
  ASSUME WindowInv, Draw
  PROVE  WindowInv'
<1>1. /\ raster # << >> /\ raster' = Tail(raster) /\ Head(raster).op = "draw"
      /\ UNCHANGED <<viewVars, componentVars, display, calls, displayed, preload, native, offscreen,
                     surface, wanted, historyVars>>
  BY DEF Draw, Run
<1>2. predrawn' = predrawn
  BY <1>1 DEF historyVars
<1>3. \/ UNCHANGED <<rendered, firing, hook>>
      \/ /\ surface /\ rendered' = (rendered \/ native # "none")
         /\ firing' = (firing \/ hook = "first") /\ hook' = "none"
  BY DEF Draw
<1>4. TypeOK'
  <2>1. rendered' \in BOOLEAN /\ firing' \in BOOLEAN /\ hook' \in {"none", "first", "preload"}
    BY <1>3, RasterState
  <2> QED
    BY <1>1, <2>1, RasterState, RasterTypes
<1>5. RefersToLive'
  BY <1>1, <1>2, PopKeepsReferences
<1>6. TornDown'
  BY <1>1, <1>2, RasterState, PopKeepsTornDown
<1>7. SurfaceHasWindow' /\ PreloadedByPredraw'
  BY <1>1, <1>2, <1>3, RasterState DEF SurfaceHasWindow, PreloadedByPredraw
<1> QED
  BY <1>1, <1>2, <1>4, <1>5, <1>6, <1>7, Pops DEF WindowInv

\* After the teardown the raster thread has frames to draw at most.
LEMMA AfterLatched ==
  ASSUME WindowInv, raster # << >>, raster' = Tail(raster), Head(raster).op \in Latched
  PROVE  \A i \in DOMAIN raster' : raster'[i].op = "draw"
<1>1. TypeOK /\ LatchedLast
  BY DEF WindowInv
<1> QED
  BY <1>1, TailOfRaster DEF LatchedLast

LEMMA TeardownStep ==
  ASSUME WindowInv, TeardownTask
  PROVE  WindowInv'
<1>1. /\ raster # << >> /\ raster' = Tail(raster) /\ Head(raster).op = "teardown"
      /\ preload' = FALSE /\ surface' = FALSE
      /\ UNCHANGED <<viewVars, componentVars, platformVars, native, offscreen, hook,
                     rendered, wanted, historyVars>>
  BY DEF TeardownTask, Run
<1>2. UNCHANGED <<display, calls, firing, displayed, predrawn>>
  BY <1>1 DEF platformVars, historyVars
<1>3. TypeOK'
  BY <1>1, <1>2, RasterState, RasterTypes
<1>4. RefersToLive'
  BY <1>1, <1>2, PopKeepsReferences
<1>5. TornDown'
  BY <1>1, AfterLatched DEF TornDown, Latched
<1>6. SurfaceHasWindow' /\ PreloadedByPredraw'
  BY <1>1, <1>2, RasterState DEF SurfaceHasWindow, PreloadedByPredraw
<1> QED
  BY <1>1, <1>2, <1>3, <1>4, <1>5, <1>6, Pops DEF WindowInv

LEMMA ClearStep ==
  ASSUME WindowInv, TeardownOnScreenContext
  PROVE  WindowInv'
<1>1. /\ raster # << >> /\ raster' = Tail(raster) /\ Head(raster).op = "clear"
      /\ native' = "none"
      /\ UNCHANGED <<viewVars, componentVars, platformVars, preload, offscreen, surface,
                     hook, rendered, wanted, historyVars>>
  BY DEF TeardownOnScreenContext, Run
<1>2. UNCHANGED <<display, calls, firing, displayed, predrawn>>
  BY <1>1 DEF platformVars, historyVars
<1>3. TypeOK'
  BY <1>1, <1>2, RasterState, RasterTypes
<1>4. ~surface
  <2>1. Posted("clear")
    BY <1>1, RasterState, TailOfRaster DEF Posted
  <2> QED
    BY <2>1 DEF WindowInv, TornDown
<1>5. \A i \in DOMAIN raster' : raster'[i].op = "draw"
  BY <1>1, AfterLatched DEF Latched
<1>6. RefersToLive'
  BY <1>1, <1>5, RasterState DEF RefersToLive, Refers
<1>7. TornDown'
  BY <1>1, <1>4, <1>5 DEF TornDown
<1>8. SurfaceHasWindow' /\ PreloadedByPredraw'
  BY <1>1, <1>2, <1>4, RasterState DEF SurfaceHasWindow, PreloadedByPredraw
<1> QED
  BY <1>1, <1>2, <1>3, <1>6, <1>7, <1>8, Pops DEF WindowInv

-----------------------------------------------------------------------------
(* Tasks are posted *)

\* Tasks of N, and only such, are put behind those of the raster thread.
Grows(N) ==
  /\ raster' \in Seq(RasterTasks)
  /\ \A i \in DOMAIN raster : i \in DOMAIN raster' /\ raster'[i] = raster[i]
  /\ \A i \in DOMAIN raster' : i \in DOMAIN raster \/ (raster'[i] \in N /\ \A k \in DOMAIN raster : k < i)

LEMMA GrowsByNone ==
  ASSUME TypeOK, raster' = raster
  PROVE  Grows({})
BY DEF TypeOK, Grows

LEMMA GrowsByOne ==
  ASSUME TypeOK, NEW x \in RasterTasks, raster' = Append(raster, x)
  PROVE  Grows({x}) /\ \E i \in DOMAIN raster' : raster'[i] = x
<1>1. raster \in Seq(RasterTasks) /\ Len(raster) \in Nat /\ DOMAIN raster = 1 .. Len(raster)
  BY DEF TypeOK
<1>2. /\ raster' \in Seq(RasterTasks) /\ DOMAIN raster' = 1 .. Len(raster) + 1
      /\ \A i \in 1 .. Len(raster) : raster'[i] = raster[i]
      /\ raster'[Len(raster) + 1] = x
  BY <1>1
<1> QED
  BY <1>1, <1>2 DEF Grows

LEMMA GrowsByTwo ==
  ASSUME TypeOK, NEW x \in RasterTasks, NEW y \in RasterTasks, raster' = raster \o <<x, y>>
  PROVE  Grows({x, y})
<1>1. raster \in Seq(RasterTasks) /\ Len(raster) \in Nat /\ DOMAIN raster = 1 .. Len(raster)
  BY DEF TypeOK
<1>2. <<x, y>> \in Seq(RasterTasks) /\ Len(<<x, y>>) = 2
  OBVIOUS
<1>3. /\ raster' \in Seq(RasterTasks) /\ Len(raster') = Len(raster) + 2
      /\ DOMAIN raster' = 1 .. Len(raster) + 2
      /\ \A i \in 1 .. Len(raster) : raster'[i] = raster[i]
      /\ \A i \in Len(raster) + 1 .. Len(raster) + 2 : raster'[i] = <<x, y>>[i - Len(raster)]
  BY <1>1, <1>2
<1>4. \A i \in Len(raster) + 1 .. Len(raster) + 2 : raster'[i] \in {x, y}
  BY <1>1, <1>3
<1> QED
  BY <1>1, <1>3, <1>4 DEF Grows

\* Behind tasks that nobody waits for, or by somebody who does not wait, anything
\* may be posted that is not latched itself ...
LEMMA GrowsLatched ==
  ASSUME WindowInv, NEW N, Grows(N), \A x \in N : x.op \notin Latched,
         ~Waiting \/ \A x \in N : x.op = "draw"
  PROVE  LatchedLast'
<1>1. LatchedLast
  BY DEF WindowInv
<1>2. SUFFICES ASSUME NEW i \in DOMAIN raster', NEW j \in DOMAIN raster', i < j,
                      raster'[i].op \in Latched
               PROVE  raster'[j].op = "draw"
  BY DEF LatchedLast
<1>3. i \in DOMAIN raster /\ raster'[i] = raster[i]
  BY <1>2 DEF Grows
<1>4. CASE j \in DOMAIN raster
  BY <1>1, <1>2, <1>3, <1>4 DEF Grows, LatchedLast
<1>5. CASE j \notin DOMAIN raster
  BY <1>2, <1>3, <1>5 DEF Grows, Waiting
<1> QED
  BY <1>4, <1>5

\* ... or one task that is.
LEMMA OneLatched ==
  ASSUME WindowInv, NEW x \in RasterTasks, raster' = Append(raster, x), ~Waiting
  PROVE  LatchedLast'
<1>1. raster \in Seq(RasterTasks) /\ Len(raster) \in Nat /\ DOMAIN raster = 1 .. Len(raster)
  BY DEF WindowInv, TypeOK
<1>2. /\ DOMAIN raster' = 1 .. Len(raster) + 1
      /\ \A i \in 1 .. Len(raster) : raster'[i] = raster[i]
  BY <1>1
<1>3. SUFFICES ASSUME NEW i \in DOMAIN raster', NEW j \in DOMAIN raster', i < j
               PROVE  raster'[i].op \notin Latched
  BY DEF LatchedLast
<1>4. i \in 1 .. Len(raster)
  BY <1>1, <1>2, <1>3
<1> QED
  BY <1>1, <1>2, <1>4 DEF Waiting

\* What the tasks posted before keep.
LEMMA GrowsKeeps ==
  ASSUME WindowInv, NEW N, Grows(N), predrawn => predrawn',
         \A x \in N : /\ x.op \in {"display", "change"} => x.view \in Views
                      /\ x.op = "preload" => x.size \in Sizes /\ predrawn'
  PROVE  /\ TasksCarry'
         /\ \A op : Posted(op) => Posted(op)'
         /\ \A op : Posted(op)' => Posted(op) \/ \E x \in N : x.op = op
         /\ native' = native =>
              \A v \in Views : Refers(v)' =>
                Refers(v) \/ \E x \in N : x.op \in {"display", "change"} /\ x.view = v
<1>1. TasksCarry
  BY DEF WindowInv
<1>2. TasksCarry'
  BY <1>1 DEF Grows, TasksCarry
<1>3. \A op : Posted(op) => Posted(op)'
  BY DEF Grows, Posted
<1>4. \A op : Posted(op)' => Posted(op) \/ \E x \in N : x.op = op
  BY DEF Grows, Posted
<1>5. ASSUME native' = native, NEW v \in Views, Refers(v)'
      PROVE  Refers(v) \/ \E x \in N : x.op \in {"display", "change"} /\ x.view = v
  BY <1>5 DEF Grows, Refers
<1> QED
  BY <1>2, <1>3, <1>4, <1>5

LEMMA DrawFrameStep ==
  ASSUME WindowInv, DrawFrame
  PROVE  WindowInv'
<1>1. /\ raster' = Append(raster, Simple("draw")) /\ wanted' = FALSE
      /\ UNCHANGED <<viewVars, componentVars, platformVars, surfaceVars, historyVars>>
  BY DEF DrawFrame
<1>2. UNCHANGED <<display, calls, firing, displayed, predrawn, preload, native, offscreen, surface,
                  hook, rendered, disturbed, events>>
  BY <1>1 DEF platformVars, historyVars, surfaceVars
<1>3. Simple("draw") \in RasterTasks /\ Simple("draw").op = "draw"
  BY DEF Simple, Task, RasterTasks
<1>4. TypeOK
  BY DEF WindowInv
<1>5. Grows({Simple("draw")})
  BY <1>1, <1>3, <1>4, GrowsByOne
<1>6. LatchedLast'
  BY <1>3, <1>5, GrowsLatched DEF Latched
<1>7. /\ TasksCarry'
      /\ \A op : Posted(op) => Posted(op)'
      /\ \A op : Posted(op)' => Posted(op) \/ op = "draw"
      /\ \A v \in Views : Refers(v)' => Refers(v)
  BY <1>2, <1>3, <1>5, GrowsKeeps
<1>8. TypeOK'
  <2>1. raster' \in Seq(RasterTasks)
    BY <1>5 DEF Grows
  <2>2. {displayed, rendered, firing, preload, surface, wanted, disturbed, predrawn}' \subseteq BOOLEAN
    BY <1>1, <1>2, <1>4 DEF TypeOK
  <2> QED
    BY <1>1, <1>2, <1>4, <2>1, <2>2 DEF TypeOK, viewVars, componentVars
<1>9. CallsShape' /\ WindowsKnown'
  BY <1>1, <1>2 DEF WindowInv, CallsShape, WindowsKnown, componentVars
<1>10. RefersToLive'
  BY <1>1, <1>2, <1>7 DEF WindowInv, RefersToLive, componentVars, Called
<1>11. TornDown'
  <2>1. ASSUME \/ Posted("clear")
               \/ calls # << >> /\ Head(calls).op = "clear" /\ ~Posted("teardown")
        PROVE  ~surface' /\ \A i \in DOMAIN raster' : raster'[i].op \in {"draw", "clear"}
    <3>1. ~surface /\ \A i \in DOMAIN raster : raster[i].op \in {"draw", "clear"}
      BY <2>1 DEF WindowInv, TornDown
    <3> QED
      BY <1>2, <1>3, <1>5, <3>1 DEF Grows
  <2> QED
    BY <1>2, <1>7, <2>1 DEF TornDown
<1>12. SurfaceHasWindow' /\ PreloadedByPredraw'
  BY <1>2 DEF WindowInv, SurfaceHasWindow, PreloadedByPredraw
<1> QED
  BY <1>6, <1>7, <1>8, <1>9, <1>10, <1>11, <1>12 DEF WindowInv

-----------------------------------------------------------------------------
(* Platform thread: a callback that tells the engine of a window *)

\* Nobody waits, so no window is being given up.
LEMMA NotWaiting ==
  ASSUME WindowInv, ~Waiting
  PROVE  ~Posted("clear") /\ ~Posted("teardown")
BY DEF Waiting, Posted, Latched

LEMMA WhenIdle ==
  ASSUME WindowInv, Idle
  PROVE  /\ calls = << >> /\ ~Waiting
         /\ \A op : ~Called(op)
         /\ \A v \in Views : v \in alive => base[v].window
         /\ \A v \in Views : Refers(v) => v \in alive /\ base[v].attached /\ base[v].window
<1>1. calls = << >> /\ ~Waiting /\ \A op : ~Called(op)
  BY DEF Idle, Called
<1>2. \A v \in Views : v \in alive => base[v].window
  BY <1>1 DEF WindowInv, WindowsKnown
<1>3. \A v \in Views : Refers(v) => v \in alive /\ base[v].attached /\ base[v].window
  BY <1>1, NotWaiting DEF WindowInv, RefersToLive
<1> QED
  BY <1>1, <1>2, <1>3

\* UpdateDisplaySize and the tasks of a notification: a rest of calls that is empty
\* stays so, the raster thread gets tasks for the window of v only.
LEMMA NotifyStep ==
  ASSUME WindowInv, ~Waiting, NEW N, Grows(N), LatchedLast',
         NEW v \in Views,
         \A x \in N : /\ x.op \in {"hook", "hookPreload", "display", "preload", "change"}
                      /\ x.op \in {"display", "change"} =>
                           x.view = v /\ v \in alive' /\ base'[v].attached /\ base'[v].window
                      /\ x.op = "preload" => x.size \in Sizes /\ predrawn',
         TypeOK', WindowsKnown', calls' = << >>, ~Called("clear"),
         predrawn => predrawn',
         \A w \in Views : /\ w \in alive => w \in alive'
                          /\ base[w].attached => base'[w].attached
                          /\ base[w].window => base'[w].window,
         UNCHANGED <<firing, displayed, surfaceVars>>
  PROVE  WindowInv'
<1>1. UNCHANGED <<preload, native, offscreen, surface, rendered>>
  BY DEF surfaceVars
<1>2. /\ TasksCarry'
      /\ \A op : Posted(op)' => Posted(op) \/ \E x \in N : x.op = op
      /\ \A w \in Views : Refers(w)' =>
           Refers(w) \/ \E x \in N : x.op \in {"display", "change"} /\ x.view = w
  BY <1>1, GrowsKeeps
<1>3. ~Posted("clear") /\ ~Posted("clear")'
  BY <1>2, NotWaiting
<1>4. RefersToLive'
  <2> SUFFICES ASSUME NEW w \in Views, Refers(w)'
               PROVE  w \in alive' /\ base'[w].attached /\ base'[w].window
    BY DEF RefersToLive
  <2>1. CASE Refers(w)
    BY <1>3, <2>1 DEF WindowInv, RefersToLive
  <2>2. CASE \E x \in N : x.op \in {"display", "change"} /\ x.view = w
    BY <2>2
  <2> QED
    BY <1>2, <2>1, <2>2
<1>5. CallsShape' /\ TornDown'
  BY <1>3 DEF CallsShape, TornDown
<1>6. SurfaceHasWindow' /\ PreloadedByPredraw'
  BY <1>1 DEF WindowInv, SurfaceHasWindow, PreloadedByPredraw
<1> QED
  BY <1>2, <1>4, <1>5, <1>6 DEF WindowInv

\* The types such a callback leaves.
LEMMA NotifyTypes ==
  ASSUME WindowInv, raster' \in Seq(RasterTasks), base' \in [Views -> Bases],
         alive' \subseteq Views,
         calls' \in Seq(PlatformCalls),
         display' \in Sizes \cup {0}, wanted' \in BOOLEAN, events' \in 0 .. MaxEvents,
         firing' \in BOOLEAN, displayed' \in BOOLEAN, disturbed' \in BOOLEAN, predrawn' \in BOOLEAN,
         engine' \subseteq Views, available' \subseteq Views, exclusive' \in Views \cup {"none"},
         UNCHANGED surfaceVars
  PROVE  TypeOK'
<1>1. UNCHANGED <<preload, native, offscreen, surface, hook, rendered>>
  BY DEF surfaceVars
<1>2. /\ native \in Views \cup {"none", "off"} /\ offscreen \in Sizes \cup {0}
      /\ hook \in {"none", "first", "preload"} /\ rendered \in BOOLEAN
      /\ preload \in BOOLEAN /\ surface \in BOOLEAN
  BY RasterState
<1>3. {displayed, rendered, firing, preload, surface, wanted, disturbed, predrawn}' \subseteq BOOLEAN
  BY <1>1, <1>2
<1> QED
  BY <1>1, <1>2, <1>3 DEF TypeOK

\* The types of the platform thread's state.
LEMMA PlatformState ==
  ASSUME WindowInv
  PROVE  /\ engine \subseteq Views /\ available \subseteq Views /\ exclusive \in Views \cup {"none"}
         /\ alive \subseteq Views
         /\ base \in [Views -> Bases] /\ display \in Sizes \cup {0}
         /\ calls \in Seq(PlatformCalls) /\ raster \in Seq(RasterTasks)
         /\ events \in 0 .. MaxEvents /\ MaxEvents \in Nat
         /\ firing \in BOOLEAN /\ displayed \in BOOLEAN /\ wanted \in BOOLEAN
         /\ disturbed \in BOOLEAN /\ predrawn \in BOOLEAN
         /\ WindowSize \in Sizes
<1>1. TypeOK
  BY DEF WindowInv
<1>2. {displayed, rendered, firing, preload, surface, wanted, disturbed, predrawn} \subseteq BOOLEAN
  BY <1>1 DEF TypeOK
<1> QED
  BY <1>1, <1>2, Flags, SurfaceAssumption DEF TypeOK

\* The tasks of the notifications.
LEMMA NotifyTasks ==
  ASSUME NEW v \in Views, NEW size \in Sizes \cup {0}, NEW op \in {"display", "change"}
  PROVE  /\ Task(op, v, size) \in RasterTasks /\ Task(op, v, size).op = op
         /\ Task(op, v, size).view = v
         /\ Task("preload", "none", size) \in RasterTasks
         /\ Task("preload", "none", size).op = "preload"
         /\ Task("preload", "none", size).size = size
         /\ Simple("hook") \in RasterTasks /\ Simple("hook").op = "hook"
         /\ Simple("hookPreload") \in RasterTasks /\ Simple("hookPreload").op = "hookPreload"
BY DEF Task, Simple, RasterTasks

\* The record of a view's XComponent after one field was set.
LEMMA BaseFields ==
  ASSUME WindowInv, NEW v \in Views
  PROVE  base[v] \in Bases /\ base[v].size \in Sizes \cup {0}
         /\ base[v].window \in BOOLEAN /\ base[v].attached \in BOOLEAN /\ base[v].preloaded \in BOOLEAN
BY PlatformState DEF Bases

LEMMA CreatedStep ==
  ASSUME WindowInv, NEW v \in Views, OnSurfaceCreated(v)
  PROVE  WindowInv'
<1>1. /\ Idle /\ v \notin alive
      /\ alive' = alive \cup {v}
      /\ base' = [base EXCEPT ![v].window = TRUE, ![v].size = WindowSize]
      /\ UNCHANGED <<viewVars, calls, firing, displayed, surfaceVars, historyVars>>
  BY DEF OnSurfaceCreated
<1>2. /\ UNCHANGED <<engine, available, exclusive, events, disturbed, predrawn>>
  BY <1>1 DEF viewVars, historyVars
<1>3. base[v] \in Bases /\ base \in [Views -> Bases] /\ WindowSize \in Sizes
  BY BaseFields, PlatformState
<1>4. /\ base' \in [Views -> Bases]
      /\ base'[v].window /\ (base'[v].attached <=> base[v].attached)
      /\ \A w \in Views \ {v} : base'[w] = base[w]
  BY <1>1, <1>3 DEF Bases
<1>5. /\ calls = << >> /\ ~Waiting /\ ~Called("clear")
      /\ \A w \in Views : w \in alive => base[w].window
  BY <1>1, WhenIdle
<1>6. v \in alive' /\ \A w \in Views \ {v} : w \in alive' <=> w \in alive
  BY <1>1, PlatformState
<1>7. WindowsKnown'
  BY <1>1, <1>4, <1>5, <1>6 DEF WindowInv, WindowsKnown
<1>8. display' \in Sizes \cup {0} /\ wanted' \in BOOLEAN
  BY <1>3, PlatformState DEF OnSurfaceCreated, NotifyCreate, UpdateDisplaySize, NoCall
<1>9. PICK N \in SUBSET RasterTasks :
        /\ Grows(N)
        /\ \A x \in N : /\ x.op \in {"hook", "display"}
                        /\ x.op = "display" => x.view = v /\ base[v].attached
  <2>1. CASE base[v].attached
    <3>1. raster' = raster \o <<Simple("hook"), Task("display", v, WindowSize)>>
      BY <2>1 DEF OnSurfaceCreated, NotifyCreate
    <3>2. Grows({Simple("hook"), Task("display", v, WindowSize)})
      BY <1>3, <3>1, NotifyTasks, GrowsByTwo, RasterState
    <3> QED
      BY <1>3, <2>1, <3>2, NotifyTasks
  <2>2. CASE ~base[v].attached
    <3>1. raster' = raster
      BY <2>2 DEF OnSurfaceCreated, NoCall
    <3> QED
      BY <3>1, GrowsByNone, RasterState
  <2> QED
    BY <2>1, <2>2
<1>10. LatchedLast'
  <2>1. \A x \in N : x.op \notin Latched
    BY <1>9 DEF Latched
  <2> QED
    BY <1>5, <1>9, <2>1, GrowsLatched
<1>11. TypeOK'
  <2>1. raster' \in Seq(RasterTasks)
    BY <1>9 DEF Grows
  <2>2. alive' \subseteq Views /\ calls' \in Seq(PlatformCalls)
    BY <1>1, PlatformState
  <2> QED
    BY <1>1, <1>2, <1>4, <1>8, <2>1, <2>2, PlatformState, NotifyTypes
<1>12. \A w \in Views : /\ w \in alive => w \in alive'
                        /\ base[w].attached => base'[w].attached
                        /\ base[w].window => base'[w].window
  BY <1>4, <1>6
<1>13. \A x \in N :
         /\ x.op \in {"hook", "hookPreload", "display", "preload", "change"}
         /\ x.op \in {"display", "change"} =>
              x.view = v /\ v \in alive' /\ base'[v].attached /\ base'[v].window
         /\ x.op = "preload" => x.size \in Sizes /\ predrawn'
  BY <1>4, <1>6, <1>9
<1> QED
  BY <1>1, <1>2, <1>5, <1>7, <1>9, <1>10, <1>11, <1>12, <1>13, NotifyStep

LEMMA ChangedStep ==
  ASSUME WindowInv, NEW v \in Views, NEW size \in Sizes, OnSurfaceChanged(v, size)
  PROVE  WindowInv'
<1>1. /\ Idle /\ v \in alive /\ events < MaxEvents /\ events' = events + 1
      /\ base' = [base EXCEPT ![v].size = size]
      /\ UNCHANGED <<viewVars, alive, calls, firing, displayed, surfaceVars, disturbed, predrawn>>
  BY DEF OnSurfaceChanged
<1>2. /\ UNCHANGED <<engine, available, exclusive>>
  BY <1>1 DEF viewVars
<1>3. base[v] \in Bases /\ base \in [Views -> Bases]
  BY BaseFields, PlatformState
<1>4. /\ base' \in [Views -> Bases]
      /\ base'[v].window = base[v].window /\ base'[v].attached = base[v].attached
      /\ \A w \in Views \ {v} : base'[w] = base[w]
  BY <1>1, <1>3 DEF Bases
<1>5. /\ calls = << >> /\ ~Waiting /\ ~Called("clear")
      /\ \A w \in Views : w \in alive => base[w].window
  BY <1>1, WhenIdle
<1>6. \A w \in Views : w \in alive' <=> w \in alive
  BY <1>1
<1>7. WindowsKnown'
  BY <1>1, <1>4, <1>5, <1>6 DEF WindowInv, WindowsKnown
<1>8. /\ display' \in Sizes \cup {0} /\ wanted' \in BOOLEAN /\ events' \in 0 .. MaxEvents
  <2>1. display' \in Sizes \cup {0} /\ wanted' \in BOOLEAN
    BY PlatformState DEF OnSurfaceChanged, NotifySurfaceWindowChanged, UpdateDisplaySize, NoCall
  <2>2. events' \in 0 .. MaxEvents
    BY <1>1, PlatformState
  <2> QED
    BY <2>1, <2>2
<1>9. PICK N \in SUBSET RasterTasks :
        /\ Grows(N) /\ LatchedLast'
        /\ \A x \in N : x.op = "change" /\ x.view = v /\ base[v].attached
  <2>1. CASE base[v].attached
    <3>1. raster' = Append(raster, Task("change", v, size))
      BY <2>1 DEF OnSurfaceChanged, NotifySurfaceWindowChanged
    <3>2. Task("change", v, size) \in RasterTasks
      BY NotifyTasks
    <3>3. Grows({Task("change", v, size)})
      BY <3>1, <3>2, GrowsByOne, RasterState
    <3>4. LatchedLast'
      BY <1>5, <3>1, <3>2, OneLatched
    <3> QED
      BY <2>1, <3>2, <3>3, <3>4, NotifyTasks
  <2>2. CASE ~base[v].attached
    <3>1. raster' = raster
      BY <2>2 DEF OnSurfaceChanged, NoCall
    <3>2. LatchedLast'
      BY <3>1 DEF WindowInv, LatchedLast
    <3> QED
      BY <3>1, <3>2, GrowsByNone, RasterState
  <2> QED
    BY <2>1, <2>2
<1>10. TypeOK'
  <2>1. raster' \in Seq(RasterTasks)
    BY <1>9 DEF Grows
  <2> QED
    BY <1>1, <1>2, <1>4, <1>8, <2>1, PlatformState, NotifyTypes
<1>11. \A w \in Views : /\ w \in alive => w \in alive'
                        /\ base[w].attached => base'[w].attached
                        /\ base[w].window => base'[w].window
  BY <1>4, <1>6
<1>12. \A x \in N :
         /\ x.op \in {"hook", "hookPreload", "display", "preload", "change"}
         /\ x.op \in {"display", "change"} =>
              x.view = v /\ v \in alive' /\ base'[v].attached /\ base'[v].window
         /\ x.op = "preload" => x.size \in Sizes /\ predrawn'
  BY <1>1, <1>4, <1>5, <1>6, <1>9
<1> QED
  BY <1>1, <1>5, <1>7, <1>9, <1>10, <1>11, <1>12, NotifyStep

LEMMA PreDrawStep ==
  ASSUME WindowInv, NEW v \in Views, NEW size \in Sizes, PreDraw(v, size)
  PROVE  WindowInv'
<1>1. /\ Idle /\ events < MaxEvents /\ events' = events + 1 /\ predrawn' = TRUE
      /\ base' = [base EXCEPT ![v].attached = TRUE, ![v].preloaded = TRUE]
      /\ disturbed' = (disturbed \/ OthersAttached(v) \/ base[v].window)
      /\ UNCHANGED <<viewVars, alive, calls, firing, displayed, surfaceVars>>
  BY DEF PreDraw
<1>2. /\ UNCHANGED <<engine, available, exclusive>>
  BY <1>1 DEF viewVars
<1>3. base[v] \in Bases /\ base \in [Views -> Bases]
  BY BaseFields, PlatformState
<1>4. /\ base' \in [Views -> Bases]
      /\ base'[v].window = base[v].window /\ base'[v].attached
      /\ \A w \in Views \ {v} : base'[w] = base[w]
  BY <1>1, <1>3 DEF Bases
<1>5. /\ calls = << >> /\ ~Waiting /\ ~Called("clear")
      /\ \A w \in Views : w \in alive => base[w].window
  BY <1>1, WhenIdle
<1>6. \A w \in Views : w \in alive' <=> w \in alive
  BY <1>1
<1>7. WindowsKnown'
  BY <1>1, <1>4, <1>5, <1>6 DEF WindowInv, WindowsKnown
<1>8. /\ display' \in Sizes \cup {0} /\ wanted' \in BOOLEAN /\ events' \in 0 .. MaxEvents
  <2>1. display' \in Sizes \cup {0} /\ wanted' \in BOOLEAN
    BY PlatformState DEF PreDraw, Preload, UpdateDisplaySize, NoCall
  <2>2. events' \in 0 .. MaxEvents
    BY <1>1, PlatformState
  <2> QED
    BY <2>1, <2>2
<1>9. PICK N \in SUBSET RasterTasks :
        /\ Grows(N)
        /\ \A x \in N : /\ x.op \in {"hookPreload", "preload"}
                        /\ x.op = "preload" => x.size \in Sizes
  <2>1. CASE raster' = raster
    BY <2>1, GrowsByNone, RasterState
  <2>2. CASE raster' = raster \o <<Simple("hookPreload"), Task("preload", "none", size)>>
    <3>1. /\ Simple("hookPreload") \in RasterTasks /\ Simple("hookPreload").op = "hookPreload"
          /\ Task("preload", "none", size) \in RasterTasks
          /\ Task("preload", "none", size).op = "preload"
          /\ Task("preload", "none", size).size = size
      BY NotifyTasks
    <3>2. Grows({Simple("hookPreload"), Task("preload", "none", size)})
      BY <2>2, <3>1, GrowsByTwo, RasterState
    <3> QED
      BY <3>1, <3>2
  <2> QED
    BY <2>1, <2>2 DEF PreDraw, Preload, NoCall
<1>10. LatchedLast'
  <2>1. \A x \in N : x.op \notin Latched
    BY <1>9 DEF Latched
  <2> QED
    BY <1>5, <1>9, <2>1, GrowsLatched
<1>11. TypeOK'
  <2>1. raster' \in Seq(RasterTasks)
    BY <1>9 DEF Grows
  <2> QED
    BY <1>1, <1>2, <1>4, <1>8, <2>1, PlatformState, NotifyTypes
<1>12. \A w \in Views : /\ w \in alive => w \in alive'
                        /\ base[w].attached => base'[w].attached
                        /\ base[w].window => base'[w].window
  BY <1>4, <1>6
<1>13. \A x \in N :
         /\ x.op \in {"hook", "hookPreload", "display", "preload", "change"}
         /\ x.op \in {"display", "change"} =>
              x.view = v /\ v \in alive' /\ base'[v].attached /\ base'[v].window
         /\ x.op = "preload" => x.size \in Sizes /\ predrawn'
  BY <1>1, <1>9
<1> QED
  BY <1>1, <1>5, <1>7, <1>9, <1>10, <1>11, <1>12, <1>13, NotifyStep

-----------------------------------------------------------------------------
(* Platform thread: the rest of a callback *)

LEMMA TailOfCalls ==
  ASSUME WindowInv, calls # << >>, calls' = Tail(calls)
  PROVE  /\ calls' \in Seq(PlatformCalls) /\ Head(calls) \in PlatformCalls
         /\ 1 \in DOMAIN calls /\ calls[1] = Head(calls)
         /\ Len(calls) \in Nat /\ Len(calls') = Len(calls) - 1
         /\ \A i \in DOMAIN calls : i \in Nat /\ i >= 1
         /\ \A i \in DOMAIN calls' : i \in Nat /\ i >= 1
         /\ \A i \in DOMAIN calls' : i + 1 \in DOMAIN calls /\ calls'[i] = calls[i + 1]
         /\ \A i \in DOMAIN calls : i # 1 => i - 1 \in DOMAIN calls' /\ calls'[i - 1] = calls[i]
         /\ \A i \in Nat : i >= 1 /\ i <= Len(calls) => i \in DOMAIN calls
         /\ Len(calls) = 1 => calls' = << >> /\ \A i \in DOMAIN calls : i = 1
<1>1. calls \in Seq(PlatformCalls)
  BY PlatformState
<1>2. Len(calls) \in Nat /\ Len(calls) >= 1 /\ DOMAIN calls = 1 .. Len(calls)
  BY <1>1
<1>3. /\ Tail(calls) \in Seq(PlatformCalls) /\ Len(Tail(calls)) = Len(calls) - 1
      /\ DOMAIN Tail(calls) = 1 .. Len(calls) - 1
      /\ \A i \in 1 .. Len(calls) - 1 : Tail(calls)[i] = calls[i + 1]
  BY <1>1, <1>2
<1>4. Len(calls) = 1 => calls' = << >>
  BY <1>3
<1> QED
  BY <1>1, <1>2, <1>3, <1>4

\* Freeing a window and attaching an engine end the callback.
LEMMA LastCall ==
  ASSUME WindowInv, calls # << >>, calls' = Tail(calls), ~Waiting,
         Head(calls).op \in {"free", "attach"}
  PROVE  /\ calls' = << >> /\ Head(calls).view \in Views
         /\ \A i \in DOMAIN calls : i = 1 /\ calls[i] = Head(calls)
         /\ ~Called("clear") /\ \A op : ~Called(op)'
         /\ ~Posted("clear")
         /\ \A v \in Views : Refers(v) => v \in alive /\ base[v].attached /\ base[v].window
<1>1. Len(calls) = 1 /\ Head(calls).view \in Views
  BY TailOfCalls DEF WindowInv, CallsShape
<1>2. calls' = << >> /\ \A i \in DOMAIN calls : i = 1 /\ calls[i] = Head(calls)
  BY <1>1, TailOfCalls
<1>3. ~Called("clear") /\ \A op : ~Called(op)'
  BY <1>2 DEF Called
<1>4. ~Posted("clear")
  BY NotWaiting
<1> QED
  BY <1>1, <1>2, <1>3, <1>4 DEF WindowInv, RefersToLive

LEMMA FreeStep ==
  ASSUME WindowInv, FreeWindow
  PROVE  WindowInv'
<1>1. /\ calls # << >> /\ Head(calls).op = "free" /\ ~Waiting
      /\ alive' = alive \ {Head(calls).view} /\ calls' = Tail(calls)
      /\ UNCHANGED <<viewVars, base, display, firing, displayed, raster, surfaceVars,
                     wanted, historyVars>>
  BY DEF FreeWindow
<1>2. UNCHANGED <<engine, available, exclusive, events, disturbed, predrawn>>
  BY <1>1 DEF viewVars, historyVars
<1>3. UNCHANGED <<preload, native, offscreen, surface, rendered>>
  BY <1>1 DEF surfaceVars
<1>4. /\ calls' = << >> /\ Head(calls).view \in Views
      /\ \A i \in DOMAIN calls : i = 1 /\ calls[i] = Head(calls)
      /\ ~Posted("clear")
      /\ \A v \in Views : Refers(v) => v \in alive /\ base[v].attached /\ base[v].window
  BY <1>1, LastCall
<1>5. ~base[Head(calls).view].window
  BY <1>1, TailOfCalls DEF WindowInv, WindowsKnown
<1>6. \A v \in Views : v \in alive' <=> v \in alive /\ v # Head(calls).view
  BY <1>1
<1>7. TypeOK'
  <2>1. alive' \subseteq Views /\ calls' \in Seq(PlatformCalls)
    BY <1>1, <1>4, <1>5, PlatformState
  <2> QED
    BY <1>1, <1>2, <2>1, PlatformState, NotifyTypes
<1>8. WindowsKnown'
  BY <1>1, <1>4, <1>5, <1>6 DEF WindowInv, WindowsKnown
<1>9. RefersToLive'
  BY <1>1, <1>3, <1>4, <1>5, <1>6 DEF RefersToLive, Refers
<1>10. CallsShape' /\ TornDown'
  BY <1>1, <1>4 DEF CallsShape, TornDown, Posted
<1>11. LatchedLast' /\ TasksCarry'
  BY <1>1, <1>2 DEF WindowInv, LatchedLast, TasksCarry
<1>12. SurfaceHasWindow' /\ PreloadedByPredraw'
  BY <1>1, <1>2, <1>3 DEF WindowInv, SurfaceHasWindow, PreloadedByPredraw
<1> QED
  BY <1>7, <1>8, <1>9, <1>10, <1>11, <1>12 DEF WindowInv

LEMMA AttachStep ==
  ASSUME WindowInv, AttachFlutterEngine
  PROVE  WindowInv'
<1> DEFINE v == Head(calls).view
<1>1. /\ calls # << >> /\ Head(calls).op = "attach" /\ ~Waiting /\ calls' = Tail(calls)
      /\ base' = [base EXCEPT ![v].attached = TRUE]
      /\ disturbed' = OthersAttached(v)
      /\ UNCHANGED <<viewVars, alive, firing, displayed, surfaceVars, events, predrawn>>
  BY DEF AttachFlutterEngine
<1>2. UNCHANGED <<engine, available, exclusive>>
  BY <1>1 DEF viewVars
<1>3. /\ calls' = << >> /\ v \in Views
      /\ \A i \in DOMAIN calls : i = 1 /\ calls[i] = Head(calls)
      /\ ~Called("clear")
  BY <1>1, LastCall
<1>4. base[v] \in Bases /\ base \in [Views -> Bases] /\ base[v].size \in Sizes \cup {0}
  BY <1>3, BaseFields, PlatformState
<1>5. IF base[v].window THEN NotifyCreate(v, base[v].size) ELSE NoCall
  BY DEF AttachFlutterEngine
<1> HIDE DEF v
<1>6. /\ base' \in [Views -> Bases]
      /\ base'[v].attached /\ base'[v].window = base[v].window
      /\ \A w \in Views \ {v} : base'[w] = base[w]
  BY <1>1, <1>3, <1>4 DEF Bases
<1>7. \A w \in Views : w \in alive' <=> w \in alive
  BY <1>1
<1>8. /\ WindowsKnown'
      /\ \A w \in Views : base[w].window => w \in alive
  BY <1>1, <1>3, <1>6, <1>7 DEF WindowInv, WindowsKnown
<1>9. display' \in Sizes \cup {0} /\ wanted' \in BOOLEAN
  BY <1>4, <1>5, PlatformState DEF NotifyCreate, UpdateDisplaySize, NoCall
<1>10. PICK N \in SUBSET RasterTasks :
         /\ Grows(N)
         /\ \A x \in N : /\ x.op \in {"hook", "display"}
                         /\ x.op = "display" => x.view = v /\ base[v].window
  <2>1. CASE base[v].window
    <3>1. raster' = raster \o <<Simple("hook"), Task("display", v, base[v].size)>>
      BY <1>5, <2>1 DEF NotifyCreate
    <3>2. Grows({Simple("hook"), Task("display", v, base[v].size)})
      BY <1>3, <1>4, <3>1, NotifyTasks, GrowsByTwo, RasterState
    <3> QED
      BY <1>3, <1>4, <2>1, <3>2, NotifyTasks
  <2>2. CASE ~base[v].window
    <3>1. raster' = raster
      BY <1>5, <2>2 DEF NoCall
    <3> QED
      BY <3>1, GrowsByNone, RasterState
  <2> QED
    BY <2>1, <2>2
<1>11. LatchedLast'
  <2>1. \A x \in N : x.op \notin Latched
    BY <1>10 DEF Latched
  <2> QED
    BY <1>1, <1>10, <2>1, GrowsLatched
<1>12. TypeOK'
  <2>1. raster' \in Seq(RasterTasks)
    BY <1>10 DEF Grows
  <2>2. calls' \in Seq(PlatformCalls)
    BY <1>3
  <2>3. disturbed' \in BOOLEAN
    BY <1>1 DEF OthersAttached
  <2> QED
    BY <1>1, <1>2, <1>6, <1>9, <2>1, <2>2, <2>3, PlatformState, NotifyTypes
<1>13. \A w \in Views : /\ w \in alive => w \in alive'
                        /\ base[w].attached => base'[w].attached
                        /\ base[w].window => base'[w].window
  BY <1>6, <1>7
<1>14. \A x \in N :
         /\ x.op \in {"hook", "hookPreload", "display", "preload", "change"}
         /\ x.op \in {"display", "change"} =>
              x.view = v /\ v \in alive' /\ base'[v].attached /\ base'[v].window
         /\ x.op = "preload" => x.size \in Sizes /\ predrawn'
  BY <1>3, <1>6, <1>7, <1>8, <1>10
<1> QED
  BY <1>1, <1>2, <1>3, <1>8, <1>10, <1>11, <1>12, <1>13, <1>14, NotifyStep

\* NotifyDestroyed posts its second task when the first has been executed.
LEMMA PostStep ==
  ASSUME WindowInv, PostLatched
  PROVE  WindowInv'
<1> DEFINE x == Simple(Head(calls).op)
<1>1. /\ calls # << >> /\ Head(calls).op \in {"teardown", "clear"} /\ ~Waiting
      /\ raster' = Append(raster, x) /\ calls' = Tail(calls)
      /\ UNCHANGED <<viewVars, componentVars, display, firing, displayed, surfaceVars, wanted,
                     historyVars>>
  BY DEF PostLatched
<1>2. UNCHANGED <<engine, available, exclusive, alive, base, events, disturbed, predrawn>>
  BY <1>1 DEF viewVars, componentVars, historyVars
<1>3. UNCHANGED <<preload, native, offscreen, surface, rendered>>
  BY <1>1 DEF surfaceVars
<1>4. x \in RasterTasks /\ x.op = Head(calls).op
  BY <1>1 DEF Simple, Task, RasterTasks
<1> HIDE DEF x
<1>5. Grows({x}) /\ \E i \in DOMAIN raster' : raster'[i] = x
  BY <1>1, <1>4, GrowsByOne, RasterState
<1>6. LatchedLast'
  BY <1>1, <1>4, OneLatched
<1>7. /\ TasksCarry'
      /\ \A op : Posted(op)' => Posted(op) \/ op = x.op
      /\ \A v \in Views : Refers(v)' => Refers(v)
  BY <1>1, <1>2, <1>3, <1>4, <1>5, GrowsKeeps
<1>8. \A op : op = x.op => Posted(op)'
  BY <1>5 DEF Posted
<1>9. ~Posted("clear") /\ ~Posted("teardown")
  BY <1>1, NotWaiting
<1>10. TypeOK'
  <2>1. raster' \in Seq(RasterTasks)
    BY <1>5 DEF Grows
  <2>2. calls' \in Seq(PlatformCalls)
    BY <1>1, TailOfCalls
  <2> QED
    BY <1>1, <1>2, <2>1, <2>2, PlatformState, NotifyTypes
<1>11. CallsShape'
  BY <1>1, TailOfCalls DEF WindowInv, CallsShape
<1>12. WindowsKnown'
  <2>1. WindowsKnown
    BY DEF WindowInv
  <2>2. \A i \in DOMAIN calls : calls[i].op = "free" => \E j \in DOMAIN calls' : calls'[j] = calls[i]
    BY <1>1, TailOfCalls
  <2>3. \A j \in DOMAIN calls' : \E i \in DOMAIN calls : calls[i] = calls'[j]
    BY <1>1, TailOfCalls
  <2> QED
    BY <1>2, <2>1, <2>2, <2>3 DEF WindowsKnown
<1>13. Called("clear") => Called("clear")' \/ Posted("clear")'
  BY ZenonT(40), <1>1, <1>4, <1>8, TailOfCalls DEF Called
<1>14. RefersToLive'
  BY <1>2, <1>7, <1>9, <1>13 DEF WindowInv, RefersToLive
<1>15. TornDown'
  <2>1. CASE Head(calls).op = "teardown"
    <3>1. ~Posted("clear")' /\ Posted("teardown")'
      BY <1>4, <1>7, <1>8, <1>9, <2>1
    <3> QED
      BY <3>1 DEF TornDown
  <2>2. CASE Head(calls).op = "clear"
    <3>1. ~surface /\ \A i \in DOMAIN raster : raster[i].op \in {"draw", "clear"}
      BY <1>1, <1>9, <2>2 DEF WindowInv, TornDown
    <3>2. \A i \in DOMAIN raster' : raster'[i].op \in {"draw", "clear"}
      BY <1>4, <1>5, <2>2, <3>1 DEF Grows
    <3> QED
      BY <1>3, <3>1, <3>2 DEF TornDown
  <2> QED
    BY <1>1, <2>1, <2>2
<1>16. SurfaceHasWindow' /\ PreloadedByPredraw'
  BY <1>1, <1>2, <1>3 DEF WindowInv, SurfaceHasWindow, PreloadedByPredraw
<1> QED
  BY <1>6, <1>7, <1>10, <1>11, <1>12, <1>14, <1>15, <1>16 DEF WindowInv

-----------------------------------------------------------------------------
(* Platform thread: a callback that takes the window from the engine *)

\* The calls such a callback may have left, those of C after a NotifyDestroyed or
\* alone.
LEMMA CallsLeft ==
  ASSUME NEW c \in PlatformCalls, c.op \in {"free", "attach"}, c.view \in Views,
         \/ calls' = << >> \/ calls' = NotifyDestroyed
         \/ calls' = <<c>> \/ calls' = NotifyDestroyed \o <<c>>
  PROVE  /\ calls' \in Seq(PlatformCalls) /\ CallsShape'
         /\ \A i \in DOMAIN calls' : calls'[i].op \in {"free", "attach"} => calls'[i] = c
         /\ calls' # << >> => Head(calls').op # "clear"
         /\ calls' = NotifyDestroyed \/ calls' = NotifyDestroyed \o <<c>> => Called("clear")'
         /\ calls' = <<c>> \/ calls' = NotifyDestroyed \o <<c>> =>
              \E i \in DOMAIN calls' : calls'[i] = c
<1> DEFINE t == [op |-> "teardown", view |-> "none"]
           k == [op |-> "clear", view |-> "none"]
<1>1. t \in PlatformCalls /\ k \in PlatformCalls /\ t.op = "teardown" /\ k.op = "clear"
  BY DEF PlatformCalls
<1>2. NotifyDestroyed = <<t, k>>
  BY DEF NotifyDestroyed
<1> HIDE DEF t, k
<1>3. LET s == NotifyDestroyed \o <<c>>
      IN  /\ s \in Seq(PlatformCalls) /\ Len(s) = 3 /\ DOMAIN s = 1 .. 3
          /\ s[1] = t /\ s[2] = k /\ s[3] = c
  <2>1. /\ <<t, k>> \in Seq(PlatformCalls) /\ Len(<<t, k>>) = 2
        /\ <<c>> \in Seq(PlatformCalls) /\ Len(<<c>>) = 1
    BY <1>1
  <2>2. /\ <<t, k>>[1] = t /\ <<t, k>>[2] = k /\ <<c>>[1] = c
    OBVIOUS
  <2> QED
    BY <1>2, <2>1, <2>2
<1>4. CASE calls' = << >>
  BY <1>2, <1>3, <1>4 DEF CallsShape, Called
<1>5. CASE calls' = <<t, k>>
  <2>1. Len(calls') = 2 /\ DOMAIN calls' = 1 .. 2 /\ calls'[1] = t /\ calls'[2] = k
    BY <1>5
  <2> QED
    BY <1>1, <1>2, <1>3, <1>5, <2>1 DEF CallsShape, Called
<1>6. CASE calls' = <<c>>
  <2>1. Len(calls') = 1 /\ DOMAIN calls' = 1 .. 1 /\ calls'[1] = c
    BY <1>6
  <2> QED
    BY <1>1, <1>2, <1>3, <1>6, <2>1 DEF CallsShape, Called
<1>7. CASE calls' = NotifyDestroyed \o <<c>>
  <2>1. /\ Len(calls') = 3 /\ DOMAIN calls' = 1 .. 3
        /\ calls'[1] = t /\ calls'[2] = k /\ calls'[3] = c
        /\ calls' \in Seq(PlatformCalls)
    BY <1>3, <1>7
  <2> QED
    BY <1>1, <1>2, <1>3, <1>7, <2>1 DEF CallsShape, Called
<1> QED
  BY <1>2, <1>3, <1>4, <1>5, <1>6, <1>7

\* Those of a callback that ends the program, c alone or after it.
LEMMA AbortLeft ==
  ASSUME NEW c \in PlatformCalls, c.op = "attach", c.view \in Views,
         NEW a \in PlatformCalls, a.op = "abort",
         calls' = <<a>> \/ calls' = <<a, c>>
  PROVE  /\ calls' \in Seq(PlatformCalls) /\ CallsShape'
         /\ \A i \in DOMAIN calls' : calls'[i].op # "free"
         /\ Head(calls').op # "clear"
<1>1. CASE calls' = <<a>>
  <2>1. Len(calls') = 1 /\ DOMAIN calls' = 1 .. 1 /\ calls'[1] = a
    BY <1>1
  <2> QED
    BY <1>1, <2>1 DEF CallsShape
<1>2. CASE calls' = <<a, c>>
  <2>1. Len(calls') = 2 /\ DOMAIN calls' = 1 .. 2 /\ calls'[1] = a /\ calls'[2] = c
    BY <1>2
  <2> QED
    BY <1>2, <2>1 DEF CallsShape
<1> QED
  BY <1>1, <1>2

\* Every window in use stays attached or will be cleared from the context.
LEMMA GiveUpStep ==
  ASSUME WindowInv, Idle, TypeOK', CallsShape', WindowsKnown',
         calls' # << >> => Head(calls').op # "clear",
         \A v \in Views : Refers(v) =>
           (base'[v].attached /\ base'[v].window) \/ Called("clear")',
         UNCHANGED <<alive, raster, surfaceVars, firing, displayed, predrawn>>
  PROVE  WindowInv'
<1>1. UNCHANGED <<preload, native, offscreen, surface, rendered>>
  BY DEF surfaceVars
<1>2. ~Posted("clear")
  BY WhenIdle, NotWaiting
<1>3. LatchedLast' /\ TasksCarry'
  BY DEF WindowInv, LatchedLast, TasksCarry
<1>4. RefersToLive'
  <2>1. \A v \in Views : Refers(v)' => Refers(v)
    BY <1>1 DEF Refers
  <2>2. \A v \in Views : Refers(v) => v \in alive'
    BY WhenIdle
  <2> QED
    BY <2>1, <2>2 DEF RefersToLive
<1>5. TornDown'
  BY <1>2 DEF TornDown, Posted
<1>6. SurfaceHasWindow' /\ PreloadedByPredraw'
  BY <1>1 DEF WindowInv, SurfaceHasWindow, PreloadedByPredraw
<1> QED
  BY <1>3, <1>4, <1>5, <1>6 DEF WindowInv

LEMMA DestroyedStep ==
  ASSUME WindowInv, NEW v \in Views, OnSurfaceDestroyed(v)
  PROVE  WindowInv'
<1> DEFINE c == [op |-> "free", view |-> v]
<1>1. /\ Idle /\ v \in alive /\ base' = [base EXCEPT ![v] = NoBase]
      /\ UNCHANGED <<viewVars, alive, display, firing, displayed, raster, surfaceVars,
                     wanted, historyVars>>
  BY DEF OnSurfaceDestroyed
<1>2. UNCHANGED <<engine, available, exclusive, events, disturbed, predrawn>>
  BY <1>1 DEF viewVars, historyVars
<1>3. calls' = IF base[v].attached THEN NotifyDestroyed \o <<c>> ELSE << >> \o <<c>>
  BY DEF OnSurfaceDestroyed
<1>4. c.op = "free" /\ c.view = v /\ c \in PlatformCalls
  BY DEF PlatformCalls
<1> HIDE DEF c
<1>5. calls' = IF base[v].attached THEN NotifyDestroyed \o <<c>> ELSE <<c>>
  BY <1>3
<1>6. /\ calls' \in Seq(PlatformCalls) /\ CallsShape'
      /\ \A i \in DOMAIN calls' : calls'[i].op \in {"free", "attach"} => calls'[i] = c
      /\ calls' # << >> => Head(calls').op # "clear"
      /\ base[v].attached => Called("clear")'
      /\ \E i \in DOMAIN calls' : calls'[i] = c
  BY <1>4, <1>5, CallsLeft
<1>7. /\ base' \in [Views -> Bases] /\ ~base'[v].window /\ ~base'[v].attached
      /\ \A w \in Views \ {v} : base'[w] = base[w]
  BY <1>1, PlatformState DEF NoBase, Bases
<1>8. /\ \A w \in Views : w \in alive => base[w].window
      /\ \A w \in Views : Refers(w) => base[w].attached /\ base[w].window
  BY <1>1, WhenIdle
<1>9. WindowsKnown'
  <2>1. \A w \in Views : w \in alive' <=> w \in alive
    BY <1>1
  <2>2. \A w \in Views : base[w].window => w \in alive
    BY DEF WindowInv, WindowsKnown
  <2> QED
    BY <1>4, <1>6, <1>7, <1>8, <2>1, <2>2 DEF WindowsKnown
<1>10. TypeOK'
  BY <1>1, <1>2, <1>6, <1>7, PlatformState, NotifyTypes
<1>11. \A w \in Views : Refers(w) =>
         (base'[w].attached /\ base'[w].window) \/ Called("clear")'
  BY <1>6, <1>7, <1>8
<1> QED
  BY <1>1, <1>2, <1>6, <1>9, <1>10, <1>11, GiveUpStep

\* What DetachFlutterEngine leaves of an XComponent.
LEMMA DetachedBase ==
  ASSUME NEW b \in Bases
  PROVE  Detached(b) \in Bases /\ Detached(b).window = b.window /\ ~Detached(b).attached
BY DEF Detached, Bases

\* XComponents lose their engine; a window in use is taken from it.
LEMMA DetachStep ==
  ASSUME WindowInv, Idle, TypeOK', CallsShape',
         \A w \in Views : base'[w] = base[w] \/ base'[w] = Detached(base[w]),
         \A w \in Views : base[w].window /\ base[w].attached /\ base'[w] # base[w] => Called("clear")',
         \A i \in DOMAIN calls' : calls'[i].op # "free",
         calls' # << >> => Head(calls').op # "clear",
         UNCHANGED <<alive, raster, surfaceVars, firing, displayed, predrawn>>
  PROVE  WindowInv'
<1>1. /\ \A w \in Views : w \in alive => base[w].window
      /\ \A w \in Views : Refers(w) => base[w].attached /\ base[w].window
  BY WhenIdle
<1>2. \A w \in Views : base'[w].window = base[w].window
  BY BaseFields, DetachedBase
<1>3. WindowsKnown'
  <2>1. \A w \in Views : w \in alive' <=> w \in alive
    OBVIOUS
  <2>2. \A w \in Views : base[w].window => w \in alive
    BY DEF WindowInv, WindowsKnown
  <2> QED
    BY <1>1, <1>2, <2>1, <2>2 DEF WindowsKnown
<1>4. \A w \in Views : Refers(w) =>
        (base'[w].attached /\ base'[w].window) \/ Called("clear")'
  BY <1>1
<1> QED
  BY <1>3, <1>4, GiveUpStep

\* What DetachFlutterEngine calls.
LEMMA DetachCallsOf ==
  ASSUME NEW v \in Views
  PROVE  /\ DetachCalls(v) \in {<< >>, NotifyDestroyed, <<[op |-> "abort", view |-> v]>>}
         /\ base[v].window /\ base[v].attached => DetachCalls(v) = NotifyDestroyed
<1>1. CASE ~base[v].window
  BY <1>1 DEF DetachCalls
<1>2. CASE base[v].window /\ base[v].attached
  BY <1>2 DEF DetachCalls
<1>3. CASE base[v].window /\ ~base[v].attached
  BY <1>3 DEF DetachCalls
<1> QED
  BY <1>1, <1>2, <1>3

\* The XComponent of v loses its engine, or none does; u may be attached afterwards.
LEMMA DetachOne ==
  ASSUME WindowInv, Idle, NEW v \in Views, NEW u \in Views,
         NEW a, a = [op |-> "abort", view |-> v],
         NEW c, c = [op |-> "attach", view |-> u],
         \/ base' = base
         \/ /\ base' = [base EXCEPT ![v] = Detached(@)]
            /\ base[v].window /\ base[v].attached =>
                 calls' = NotifyDestroyed \/ calls' = NotifyDestroyed \o <<c>>,
         \/ calls' = << >> \/ calls' = NotifyDestroyed
         \/ calls' = <<c>> \/ calls' = NotifyDestroyed \o <<c>>
         \/ calls' = <<a>> \/ calls' = <<a, c>>,
         engine' \subseteq Views, available' \subseteq Views, exclusive' \in Views \cup {"none"},
         events' \in 0 .. MaxEvents,
         UNCHANGED <<alive, display, firing, displayed, raster, surfaceVars, wanted, disturbed,
                     predrawn>>
  PROVE  WindowInv'
<1>1. /\ c.op = "attach" /\ c.view = u /\ c \in PlatformCalls
      /\ a.op = "abort" /\ a \in PlatformCalls
  BY DEF PlatformCalls
<1>2. base \in [Views -> Bases]
  BY PlatformState
<1>3. /\ base' \in [Views -> Bases]
      /\ \A w \in Views : base'[w] = base[w] \/ base'[w] = Detached(base[w])
      /\ \A w \in Views \ {v} : base'[w] = base[w]
  BY <1>2, DetachedBase
<1>4. /\ calls' \in Seq(PlatformCalls) /\ CallsShape'
      /\ calls' # << >> => Head(calls').op # "clear"
      /\ \A i \in DOMAIN calls' : calls'[i].op # "free"
      /\ calls' = NotifyDestroyed \/ calls' = NotifyDestroyed \o <<c>> => Called("clear")'
  <2>1. CASE calls' = <<a>> \/ calls' = <<a, c>>
    <3>1. /\ calls' \in Seq(PlatformCalls) /\ CallsShape'
          /\ calls' # << >> => Head(calls').op # "clear"
          /\ \A i \in DOMAIN calls' : calls'[i].op # "free"
      BY <1>1, <2>1, AbortLeft
    <3>2. calls'[1] = a /\ a.op # "teardown"
      BY <1>1, <2>1
    <3>3. calls' # NotifyDestroyed /\ calls' # NotifyDestroyed \o <<c>>
      BY <3>2 DEF NotifyDestroyed
    <3> QED
      BY <3>1, <3>3
  <2>2. CASE ~(calls' = <<a>> \/ calls' = <<a, c>>)
    <3>1. /\ calls' \in Seq(PlatformCalls) /\ CallsShape'
          /\ calls' # << >> => Head(calls').op # "clear"
          /\ \A i \in DOMAIN calls' : calls'[i].op \in {"free", "attach"} => calls'[i] = c
          /\ calls' = NotifyDestroyed \/ calls' = NotifyDestroyed \o <<c>> => Called("clear")'
      BY <1>1, <2>2, CallsLeft
    <3> QED
      BY <1>1, <3>1
  <2> QED
    BY <2>1, <2>2
<1>5. TypeOK'
  BY <1>3, <1>4, PlatformState, NotifyTypes
<1>6. \A w \in Views : base[w].window /\ base[w].attached /\ base'[w] # base[w] => Called("clear")'
  BY <1>3, <1>4
<1> QED
  BY <1>3, <1>4, <1>5, <1>6, DetachStep

LEMMA OnDestroyStep ==
  ASSUME WindowInv, NEW v \in Views, OnDestroy(v)
  PROVE  WindowInv'
<1>1. /\ Idle /\ calls = << >> /\ available' = available \ {v}
      /\ UNCHANGED <<engine, exclusive, alive, display, firing, displayed, raster, surfaceVars,
                     wanted, historyVars>>
  BY WhenIdle DEF OnDestroy
<1>2. UNCHANGED <<events, disturbed, predrawn>>
  BY <1>1 DEF historyVars
<1>3. \/ base' = base /\ calls' = << >>
      \/ base' = [base EXCEPT ![v] = Detached(@)] /\ calls' = DetachCalls(v)
  BY <1>1 DEF OnDestroy
<1>4. \/ base' = base
      \/ /\ base' = [base EXCEPT ![v] = Detached(@)]
         /\ base[v].window /\ base[v].attached => calls' = NotifyDestroyed
  BY <1>3, DetachCallsOf
<1>5. calls' = << >> \/ calls' = NotifyDestroyed \/ calls' = <<[op |-> "abort", view |-> v]>>
  BY <1>3, DetachCallsOf
<1> QED
  BY <1>1, <1>2, <1>4, <1>5, PlatformState, DetachOne

LEMMA DetachFromStep ==
  ASSUME WindowInv, NEW v \in Views, NEW hosted \in BOOLEAN, DetachFromFlutterEngine(v, hosted)
  PROVE  WindowInv'
<1>1. /\ Idle /\ engine' = engine \ {v} /\ exclusive' \in {exclusive, "none"}
      /\ UNCHANGED <<available, alive, display, firing, displayed, raster, surfaceVars,
                     wanted, historyVars>>
  BY DEF DetachFromFlutterEngine
<1>2. UNCHANGED <<events, disturbed, predrawn>>
  BY <1>1 DEF historyVars
<1>3. \/ base' = base /\ calls' = << >>
      \/ base' = [base EXCEPT ![v] = Detached(@)] /\ calls' = DetachCalls(v)
  BY DEF DetachFromFlutterEngine, DetachXComponent, CallsToDetach
<1>4. \/ base' = base
      \/ /\ base' = [base EXCEPT ![v] = Detached(@)]
         /\ base[v].window /\ base[v].attached => calls' = NotifyDestroyed
  BY <1>3, DetachCallsOf
<1>5. calls' = << >> \/ calls' = NotifyDestroyed \/ calls' = <<[op |-> "abort", view |-> v]>>
  BY <1>3, DetachCallsOf
<1>6. engine' \subseteq Views /\ exclusive' \in Views \cup {"none"}
  BY <1>1, PlatformState
<1> QED
  BY <1>1, <1>2, <1>4, <1>5, <1>6, PlatformState, DetachOne

LEMMA AttachToStep ==
  ASSUME WindowInv, NEW v \in Views, AttachToFlutterEngine(v)
  PROVE  WindowInv'
<1>1. /\ Idle /\ events < MaxEvents /\ events' = events + 1 /\ engine' = engine \cup {v}
      /\ calls' = <<[op |-> "attach", view |-> v]>>
      /\ UNCHANGED <<available, exclusive, componentVars, display, firing, displayed, raster,
                     surfaceVars, wanted, disturbed, predrawn>>
  BY DEF AttachToFlutterEngine
<1>2. UNCHANGED <<alive, base>>
  BY <1>1 DEF componentVars
<1>3. engine' \subseteq Views /\ events' \in 0 .. MaxEvents
  BY <1>1, PlatformState
<1> QED
  BY <1>1, <1>2, <1>3, PlatformState, DetachOne

\* Two sequences of one element each, one after the other.
LEMMA TwoInTurn ==
  ASSUME NEW x, NEW y
  PROVE  <<x>> \o <<y>> = <<x, y>>
<1>1. <<x>> \in Seq({x, y}) /\ <<y>> \in Seq({x, y})
  OBVIOUS
<1>2. Len(<<x>>) = 1 /\ Len(<<y>>) = 1 /\ <<x>>[1] = x /\ <<y>>[1] = y
  OBVIOUS
<1>3. <<x>> \o <<y>> = [i \in 1 .. 2 |-> IF i <= 1 THEN <<x>>[i] ELSE <<y>>[i - 1]]
  BY <1>1, <1>2
<1>4. <<x, y>> = [i \in 1 .. 2 |-> IF i <= 1 THEN <<x>>[i] ELSE <<y>>[i - 1]]
  BY <1>2
<1> QED
  BY <1>3, <1>4

LEMMA OnAttachStep ==
  ASSUME WindowInv, NEW v \in Views, OnAttach(v)
  PROVE  WindowInv'
<1> DEFINE c == [op |-> "attach", view |-> v]
           w == exclusive
           a == [op |-> "abort", view |-> w]
<1>1. /\ Idle /\ events < MaxEvents /\ events' = events + 1 /\ exclusive' = v
      /\ engine' = (engine \ {w}) \cup {v}
      /\ UNCHANGED <<available, alive, display, firing, displayed, raster, surfaceVars,
                     wanted, disturbed, predrawn>>
  BY DEF OnAttach
<1>2. engine' \subseteq Views /\ events' \in 0 .. MaxEvents /\ exclusive' \in Views \cup {"none"}
  BY <1>1, PlatformState
<1>3. PICK rest \in {<< >>, <<c>>} : calls' = CallsToDetach(w) \o rest
  BY DEF OnAttach
<1>4. CASE ~XComponentDetaches(w)
  <2>1. base' = base
    BY <1>4 DEF OnAttach, DetachXComponent
  <2>2. calls' = << >> \/ calls' = <<c>>
    BY <1>3, <1>4 DEF CallsToDetach
  <2> QED
    BY <1>1, <1>2, <2>1, <2>2, PlatformState, DetachOne
<1>5. CASE XComponentDetaches(w)
  <2>1. w \in Views
    BY <1>5, PlatformState DEF XComponentDetaches
  <2>2. base' = [base EXCEPT ![w] = Detached(@)] /\ calls' = DetachCalls(w) \o rest
    BY <1>3, <1>5 DEF OnAttach, DetachXComponent, CallsToDetach
  <2>3. /\ DetachCalls(w) \in {<< >>, NotifyDestroyed, <<a>>}
        /\ base[w].window /\ base[w].attached => DetachCalls(w) = NotifyDestroyed
    BY <2>1, DetachCallsOf
  <2>4. NotifyDestroyed \o << >> = NotifyDestroyed
    BY DEF NotifyDestroyed
  <2>5. calls' \in {<< >>, <<c>>, NotifyDestroyed, NotifyDestroyed \o <<c>>, <<a>>, <<a, c>>}
    <3> HIDE DEF a, c
    <3>1. CASE rest = << >>
      <4>1. << >> \o << >> = << >> /\ <<a>> \o << >> = <<a>>
        OBVIOUS
      <4> QED
        BY <2>2, <2>3, <2>4, <3>1, <4>1
    <3>2. CASE rest = <<c>>
      <4>1. << >> \o <<c>> = <<c>> /\ <<a>> \o <<c>> = <<a, c>>
        BY TwoInTurn
      <4> QED
        BY <2>2, <2>3, <3>2, <4>1
    <3> QED
      BY <1>3, <3>1, <3>2
  <2>6. base[w].window /\ base[w].attached =>
          calls' = NotifyDestroyed \/ calls' = NotifyDestroyed \o <<c>>
    BY <2>2, <2>3, <2>4
  <2> HIDE DEF w
  <2> QED
    BY <1>1, <1>2, <2>1, <2>2, <2>5, <2>6, PlatformState, DetachOne
<1> QED
  BY <1>4, <1>5

\* Steps that leave the windows alone.
LEMMA QuietStep ==
  ASSUME WindowInv, TypeOK', PreloadedByPredraw',
         UNCHANGED <<componentVars, calls, raster, surfaceVars, predrawn>>
  PROVE  WindowInv'
<1>1. UNCHANGED <<alive, base, preload, native, offscreen, surface, rendered>>
  BY DEF componentVars, surfaceVars
<1>2. CallsShape' /\ LatchedLast' /\ TasksCarry'
  BY <1>1 DEF WindowInv, CallsShape, LatchedLast, TasksCarry
<1>3. WindowsKnown'
  BY <1>1 DEF WindowInv, WindowsKnown
<1>4. RefersToLive'
  BY <1>1 DEF WindowInv, RefersToLive, Refers, Called, Posted
<1>5. TornDown' /\ SurfaceHasWindow'
  BY <1>1 DEF WindowInv, TornDown, SurfaceHasWindow, Posted
<1> QED
  BY <1>2, <1>3, <1>4, <1>5 DEF WindowInv

LEMMA OnLoadStep ==
  ASSUME WindowInv, NEW v \in Views, OnLoad(v)
  PROVE  WindowInv'
<1>1. /\ available' = available \cup {v}
      /\ UNCHANGED <<engine, exclusive, componentVars, platformVars, raster, surfaceVars, wanted,
                     historyVars>>
  BY DEF OnLoad
<1>2. UNCHANGED <<alive, base, display, calls, firing, displayed, events, disturbed, predrawn,
                  preload, native, rendered>>
  BY <1>1 DEF componentVars, platformVars, historyVars, surfaceVars
<1>3. TypeOK'
  BY <1>1, <1>2, PlatformState, NotifyTypes
<1>4. PreloadedByPredraw'
  BY <1>2 DEF WindowInv, PreloadedByPredraw
<1> QED
  BY <1>1, <1>2, <1>3, <1>4, QuietStep

LEMMA FireStep ==
  ASSUME WindowInv, FireFirstFrameCallback
  PROVE  WindowInv'
<1>1. /\ firing /\ firing' = FALSE /\ displayed' = TRUE
      /\ UNCHANGED <<viewVars, componentVars, display, calls, raster, surfaceVars, wanted, historyVars>>
  BY DEF FireFirstFrameCallback
<1>2. UNCHANGED <<engine, available, exclusive, alive, base, events, disturbed, predrawn,
                  preload, native, rendered>>
  BY <1>1 DEF viewVars, componentVars, historyVars, surfaceVars
<1>3. TypeOK'
  BY <1>1, <1>2, PlatformState, NotifyTypes
<1>4. PreloadedByPredraw'
  BY <1>1, <1>2 DEF WindowInv, PreloadedByPredraw
<1> QED
  BY <1>1, <1>2, <1>3, <1>4, QuietStep

LEMMA StutterStep ==
  ASSUME WindowInv, UNCHANGED vars
  PROVE  WindowInv'
<1>1. /\ UNCHANGED <<engine, available, exclusive, alive, base, display, calls, firing,
                     displayed, events, disturbed, predrawn, preload, native, rendered, raster, wanted>>
      /\ UNCHANGED <<componentVars, surfaceVars>>
  BY DEF vars, viewVars, componentVars, platformVars, historyVars, surfaceVars
<1>2. TypeOK'
  BY <1>1, PlatformState, NotifyTypes
<1>3. PreloadedByPredraw'
  BY <1>1 DEF WindowInv, PreloadedByPredraw
<1> QED
  BY <1>1, <1>2, <1>3, QuietStep

-----------------------------------------------------------------------------
(* Theorems *)

LEMMA InitWindowInv ==
  ASSUME Init
  PROVE  WindowInv
<1>1. /\ calls = << >> /\ raster = << >> /\ alive = {} /\ native = "none"
      /\ surface = FALSE /\ preload = FALSE /\ firing = FALSE /\ displayed = FALSE
      /\ base = [v \in Views |-> NoBase]
  BY DEF Init
<1>2. TypeOK
  <2>1. base \in [Views -> Bases]
    BY <1>1 DEF NoBase, Bases
  <2>2. {displayed, rendered, firing, preload, surface, wanted, disturbed, predrawn} \subseteq BOOLEAN
    BY DEF Init
  <2> QED
    BY <2>1, <2>2, SurfaceAssumption DEF Init, TypeOK
<1>3. CallsShape /\ LatchedLast /\ TasksCarry
  BY <1>1 DEF CallsShape, LatchedLast, TasksCarry
<1>4. WindowsKnown /\ RefersToLive
  BY <1>1, SurfaceAssumption DEF WindowsKnown, RefersToLive, Refers, NoBase
<1>5. TornDown /\ SurfaceHasWindow /\ PreloadedByPredraw
  BY <1>1 DEF TornDown, SurfaceHasWindow, PreloadedByPredraw, Posted
<1> QED
  BY <1>2, <1>3, <1>4, <1>5 DEF WindowInv

LEMMA NextWindowInv ==
  ASSUME WindowInv, [Next]_vars
  PROVE  WindowInv'
<1>1. CASE PlatformThread
  BY <1>1, PostStep, FreeStep, AttachStep, FireStep DEF PlatformThread
<1>2. CASE RasterThread
  BY <1>2, HookStep, DisplayStep, PreloadStep, TeardownStep, ClearStep, DrawStep DEF RasterThread
<1>3. CASE DrawFrame
  BY <1>3, DrawFrameStep
<1>4. CASE Application
  <2>1. PICK v \in Views :
          \/ OnSurfaceCreated(v) \/ OnSurfaceDestroyed(v) \/ OnLoad(v) \/ OnDestroy(v)
          \/ AttachToFlutterEngine(v) \/ OnAttach(v)
          \/ \E hosted \in BOOLEAN : DetachFromFlutterEngine(v, hosted)
          \/ \E size \in Sizes : OnSurfaceChanged(v, size) \/ PreDraw(v, size)
    BY <1>4 DEF Application
  <2>2. CASE OnSurfaceCreated(v)
    BY <2>2, CreatedStep
  <2>3. CASE OnSurfaceDestroyed(v)
    BY <2>3, DestroyedStep
  <2>4. CASE OnLoad(v)
    BY <2>4, OnLoadStep
  <2>5. CASE OnDestroy(v)
    BY <2>5, OnDestroyStep
  <2>6. CASE AttachToFlutterEngine(v) \/ OnAttach(v)
    BY <2>6, AttachToStep, OnAttachStep
  <2>8. ASSUME NEW hosted \in BOOLEAN, DetachFromFlutterEngine(v, hosted)
        PROVE  WindowInv'
    BY <2>8, DetachFromStep
  <2>7. ASSUME NEW size \in Sizes, OnSurfaceChanged(v, size) \/ PreDraw(v, size)
        PROVE  WindowInv'
    BY <2>7, ChangedStep, PreDrawStep
  <2> QED
    BY <2>1, <2>2, <2>3, <2>4, <2>5, <2>6, <2>7, <2>8
<1>5. CASE UNCHANGED vars
  BY <1>5, StutterStep
<1> QED
  BY <1>1, <1>2, <1>3, <1>4, <1>5 DEF Next

LEMMA WindowInvariant == Spec => []WindowInv
<1>1. WindowInv /\ [Next]_vars => WindowInv'
  BY NextWindowInv
<1> QED
  BY <1>1, InitWindowInv, PTL DEF Spec

\* A window that is in use is there: it is not freed before the raster thread has
\* let go of it, in whatever order views and windows come and go.
THEOREM NoDeadWindowAlways == Spec => []NoDeadWindow
<1>1. WindowInv => NoDeadWindow
  <2> SUFFICES ASSUME WindowInv, native \in Views
               PROVE  native \in alive
    BY DEF NoDeadWindow
  <2> QED
    BY DEF WindowInv, RefersToLive, Refers
<1> QED
  BY <1>1, WindowInvariant, PTL

\* The state is well formed, a rasterizer with a surface has something to draw on,
\* a detached engine keeps no window, and no first frame is reported before one
\* was rendered.
THEOREM SurfaceCorrect == Spec => []SurfaceInv
<1>1. WindowInv => SurfaceInv
  <2> SUFFICES ASSUME WindowInv
               PROVE  SurfaceInv
    OBVIOUS
  <2>1. TypeOK /\ SurfaceHasWindow /\ PreloadedByPredraw
    BY DEF WindowInv
  <2>2. ReportedIsRendered
    BY <2>1 DEF PreloadedByPredraw, ReportedIsRendered
  <2>3. DetachedReleasesWindow
    <3> SUFFICES ASSUME Idle, raster = << >>, \A v \in Views : ~base[v].attached
                 PROVE  /\ native \in {"none"} \cup (IF predrawn THEN {"off"} ELSE {})
                        /\ surface => predrawn
      BY DEF DetachedReleasesWindow
    <3>1. native \notin Views
      BY WhenIdle DEF Refers
    <3>2. native = "none" \/ (native = "off" /\ predrawn)
      BY <2>1, <3>1 DEF TypeOK, PreloadedByPredraw
    <3>3. surface => predrawn
      BY <2>1, <3>2 DEF SurfaceHasWindow, PreloadedByPredraw
    <3> QED
      BY <3>2, <3>3
  <2> QED
    BY <2>1, <2>2, <2>3 DEF SurfaceInv
<1> QED
  BY <1>1, WindowInvariant, PTL
=============================================================================
