--------------------------- MODULE SurfaceLifecycle ---------------------------
(***************************************************************************)
(* The window an engine draws on, in the OpenHarmony embedding: FlutterView*)
(* objects attach to the engine and detach from it (FlutterView.ets), the  *)
(* system creates and destroys the windows of their XComponents            *)
(* (ohos_xcomponent_adapter.cpp), and both end in NotifyCreate, Preload,   *)
(* NotifySurfaceWindowChanged and NotifyDestroyed of PlatformViewOHOS,     *)
(* which post to the raster thread and, the last two, wait for it.         *)
(*                                                                         *)
(* The surface is the Vulkan one.  A raster task is one step: the IO thread*)
(* it waits for in OnPlatformViewCreated and OnPlatformViewDestroyed waits *)
(* for nobody.  A view's XComponent has one window at a time; once it is    *)
(* gone, the system may create the XComponent again, with the same id.     *)
(***************************************************************************)
EXTENDS Integers, Sequences

CONSTANTS
  Views,       \* FlutterViews, with their XComponents and windows
  Sizes,       \* sizes of windows
  WindowSize,  \* the size a window is created with
  MaxEvents    \* bound: attachments, predraws and size changes

ASSUME SurfaceAssumption ==
  /\ "off" \notin Views /\ "none" \notin Views
  /\ Sizes \subseteq Nat \ {0} /\ WindowSize \in Sizes
  /\ MaxEvents \in Nat

VARIABLES
  \* FlutterView.ets
  engine,     \* views whose flutterEngine is set
  available,  \* views with isSurfaceAvailableForRendering
  exclusive,  \* the view whose host is exclusiveAbility (FlutterEngineConnectionRegistry)
  \* XComponentAdapter
  alive,      \* views whose window is there
  base,       \* XComponentBase of each view
  \* PlatformViewOHOS and the platform thread
  display,    \* display_width_, display_height_
  calls,      \* rest of the platform thread's current callback
  firing,     \* a FireFirstFrameCallback task has been posted
  displayed,  \* isDisplayingFlutterUi: the first frame was reported
  \* raster thread
  raster,     \* its tasks
  preload,    \* window_is_preload_
  native,     \* native_window_, with its swapchain
  offscreen,  \* size of the off-screen window, 0 if there is none
  surface,    \* the rasterizer has a surface
  hook,       \* next_frame_callback_
  rendered,   \* a frame has been rendered
  \* UI thread
  wanted,     \* a frame has been asked for
  \* what has happened so far
  events,
  disturbed,  \* another XComponent was attached too, or a window taken off screen
  predrawn    \* PreDraw was called

viewVars == <<engine, available, exclusive>>
componentVars == <<alive, base>>
platformVars == <<display, calls, firing, displayed>>
surfaceVars == <<preload, native, offscreen, surface, hook, rendered>>
historyVars == <<events, disturbed, predrawn>>
vars == <<viewVars, componentVars, platformVars, raster, surfaceVars, wanted, historyVars>>

NoBase == [window |-> FALSE, attached |-> FALSE, preloaded |-> FALSE, size |-> 0]
Bases == [window : BOOLEAN, attached : BOOLEAN, preloaded : BOOLEAN, size : Sizes \cup {0}]
Task(op, view, size) == [op |-> op, view |-> view, size |-> size]
Simple(op) == Task(op, "none", 0)
RasterTasks ==
  [op : {"hook", "hookPreload", "display", "preload", "change", "teardown", "clear", "draw"},
   view : Views \cup {"none"}, size : Sizes \cup {0}]
PlatformCalls == [op : {"teardown", "clear", "free", "attach", "abort"}, view : Views \cup {"none"}]

TypeOK ==
  /\ engine \subseteq Views /\ available \subseteq Views /\ exclusive \in Views \cup {"none"}
  /\ alive \subseteq Views
  /\ base \in [Views -> Bases]
  /\ display \in Sizes \cup {0}
  /\ calls \in Seq(PlatformCalls)
  /\ raster \in Seq(RasterTasks)
  /\ native \in Views \cup {"none", "off"}
  /\ offscreen \in Sizes \cup {0}
  /\ {displayed, rendered, firing, preload, surface, wanted, disturbed, predrawn} \subseteq BOOLEAN
  /\ hook \in {"none", "first", "preload"}
  /\ events \in 0 .. MaxEvents

Init ==
  /\ engine = {} /\ available = {} /\ exclusive = "none"
  /\ alive = {}
  /\ base = [v \in Views |-> NoBase]
  /\ display = 0 /\ calls = << >> /\ firing = FALSE /\ displayed = FALSE
  /\ raster = << >>
  /\ preload = FALSE /\ native = "none" /\ offscreen = 0
  /\ surface = FALSE /\ hook = "none" /\ rendered = FALSE
  /\ wanted = FALSE
  /\ events = 0 /\ disturbed = FALSE /\ predrawn = FALSE

-----------------------------------------------------------------------------
(* Platform thread: PlatformViewOHOS *)

Latched == {"teardown", "clear", "change"}
Waiting == \E k \in DOMAIN raster : raster[k].op \in Latched
Idle == calls = << >> /\ ~Waiting

\* UpdateDisplaySize: a new size goes to the framework, which draws a frame.
UpdateDisplaySize(size) ==
  /\ display' = size
  /\ wanted' = (wanted \/ size # display)

\* Mutant: the first-frame callback is not installed.
NotifyCreateWithoutHook(v, size) ==
  /\ UpdateDisplaySize(size)
  /\ raster' = Append(raster, Task("display", v, size))

\* NotifyCreate, with the InstallFirstFrameCallback it begins with.
NotifyCreate(v, size) ==
  /\ UpdateDisplaySize(size)
  /\ raster' = raster \o <<Simple("hook"), Task("display", v, size)>>

Preload(size) ==
  /\ UpdateDisplaySize(size)
  /\ raster' = IF preload THEN raster
               ELSE raster \o <<Simple("hookPreload"), Task("preload", "none", size)>>

NotifySurfaceWindowChanged(v, size) ==
  /\ UpdateDisplaySize(size)
  /\ raster' = Append(raster, Task("change", v, size))

NoCall == UNCHANGED <<display, wanted, raster>>

\* Mutant: the on-screen context is left as it is.
NotifyDestroyedKeepsContext == <<[op |-> "teardown", view |-> "none"]>>

\* NotifyDestroyed waits for both of its raster tasks.
NotifyDestroyed == <<[op |-> "teardown", view |-> "none"], [op |-> "clear", view |-> "none"]>>

PostLatched ==
  /\ calls # << >> /\ Head(calls).op \in {"teardown", "clear"} /\ ~Waiting
  /\ raster' = Append(raster, Simple(Head(calls).op))
  /\ calls' = Tail(calls)
  /\ UNCHANGED <<viewVars, componentVars, display, firing, displayed, surfaceVars, wanted, historyVars>>

\* FlutterNapi.onFirstFrame
FireFirstFrameCallback ==
  /\ Idle /\ firing
  /\ firing' = FALSE
  /\ displayed' = TRUE
  /\ UNCHANGED <<viewVars, componentVars, display, calls, raster, surfaceVars, wanted, historyVars>>

-----------------------------------------------------------------------------
(* Platform thread: XComponentBase and its callbacks *)

\* Mutant: a window that comes after the engine is not handed to it.
OnSurfaceCreatedUnnoticed(v) ==
  /\ Idle /\ v \notin alive
  /\ alive' = alive \cup {v}
  /\ base' = [base EXCEPT ![v].window = TRUE, ![v].size = WindowSize]
  /\ NoCall
  /\ UNCHANGED <<viewVars, calls, firing, displayed, surfaceVars, historyVars>>

\* SetNativeXComponent and OnSurfaceCreated
OnSurfaceCreated(v) ==
  /\ Idle /\ v \notin alive
  /\ alive' = alive \cup {v}
  /\ base' = [base EXCEPT ![v].window = TRUE, ![v].size = WindowSize]
  /\ IF base[v].attached THEN NotifyCreate(v, WindowSize) ELSE NoCall
  /\ UNCHANGED <<viewVars, calls, firing, displayed, surfaceVars, historyVars>>

OnSurfaceChanged(v, size) ==
  /\ Idle /\ v \in alive /\ events < MaxEvents
  /\ events' = events + 1
  /\ base' = [base EXCEPT ![v].size = size]
  /\ IF base[v].attached THEN NotifySurfaceWindowChanged(v, size) ELSE NoCall
  /\ UNCHANGED <<viewVars, alive, calls, firing, displayed, surfaceVars, disturbed, predrawn>>

\* OnSurfaceDestroyed, after which the XComponentBase is deleted; the window is
\* freed when the callback returns.
OnSurfaceDestroyed(v) ==
  /\ Idle /\ v \in alive
  /\ base' = [base EXCEPT ![v] = NoBase]
  /\ calls' = (IF base[v].attached THEN NotifyDestroyed ELSE << >>)
              \o <<[op |-> "free", view |-> v]>>
  /\ UNCHANGED <<viewVars, alive, display, firing, displayed, raster, surfaceVars,
                 wanted, historyVars>>

FreeWindow ==
  /\ calls # << >> /\ Head(calls).op = "free" /\ ~Waiting
  /\ alive' = alive \ {Head(calls).view}
  /\ calls' = Tail(calls)
  /\ UNCHANGED <<viewVars, base, display, firing, displayed, raster, surfaceVars,
                 wanted, historyVars>>

\* Mutant: the window is not looked at.
DetachCallsWithoutWindow(v) == << >>

\* XComponentAdapter::DetachFlutterEngine: what it calls, what it leaves behind.  An
\* XComponentBase with a window but no engine (that of an XComponent created again)
\* has no shellholderId_, and std::stoll("") ends the program.
DetachCalls(v) ==
  CASE ~base[v].window -> << >>
    [] base[v].window /\ base[v].attached -> NotifyDestroyed
    [] base[v].window /\ ~base[v].attached -> <<[op |-> "abort", view |-> v]>>
Detached(b) == [b EXCEPT !.attached = FALSE, !.preloaded = FALSE]
Crashed == calls # << >> /\ Head(calls).op = "abort"

-----------------------------------------------------------------------------
(* Platform thread: FlutterView and the hosts of the views *)

OnLoad(v) ==
  /\ Idle /\ v \notin available
  /\ available' = available \cup {v}
  /\ UNCHANGED <<engine, exclusive, componentVars, platformVars, raster, surfaceVars, wanted, historyVars>>

\* FlutterView.onSurfaceDestroyed, before or after OnSurfaceDestroyed.
OnDestroy(v) ==
  /\ Idle /\ v \in available
  /\ available' = available \ {v}
  /\ IF v \in engine
     THEN base' = [base EXCEPT ![v] = Detached(@)] /\ calls' = DetachCalls(v)
     ELSE UNCHANGED <<base, calls>>
  /\ UNCHANGED <<engine, exclusive, alive, display, firing, displayed, raster, surfaceVars,
                 wanted, historyVars>>

\* detachFromFlutterEngine of v, if it is attached: its XComponent is only detached if
\* the surface is available.
XComponentDetaches(v) == v \in engine \cap available
DetachXComponent(v) ==
  base' = IF XComponentDetaches(v) THEN [base EXCEPT ![v] = Detached(@)] ELSE base
CallsToDetach(v) == IF XComponentDetaches(v) THEN DetachCalls(v) ELSE << >>

\* attachToFlutterEngine, which does nothing for a view that is attached, and nothing
\* to the other views.
AttachToFlutterEngine(v) ==
  /\ Idle /\ v \notin engine /\ events < MaxEvents
  /\ events' = events + 1
  /\ engine' = engine \cup {v}
  /\ calls' = <<[op |-> "attach", view |-> v]>>
  /\ UNCHANGED <<available, exclusive, componentVars, display, firing, displayed, raster,
                 surfaceVars, wanted, disturbed, predrawn>>

\* onAttach of v's host: attachToAbility has the exclusive host detach its view
\* before it is v's.
OnAttach(v) ==
  /\ Idle /\ events < MaxEvents
  /\ events' = events + 1
  /\ exclusive' = v
  /\ engine' = (engine \ {exclusive}) \cup {v}
  /\ DetachXComponent(exclusive)
  /\ calls' = CallsToDetach(exclusive)
              \o (IF v \in engine \ {exclusive} THEN << >> ELSE <<[op |-> "attach", view |-> v]>>)
  /\ UNCHANGED <<available, alive, display, firing, displayed, raster, surfaceVars,
                 wanted, disturbed, predrawn>>

\* Another view's XComponent is attached to the engine.
OthersAttached(v) == \E w \in Views \ {v} : base[w].attached

\* XComponentAdapter::AttachFlutterEngine
AttachFlutterEngine ==
  /\ calls # << >> /\ Head(calls).op = "attach" /\ ~Waiting
  /\ LET v == Head(calls).view
     IN /\ base' = [base EXCEPT ![v].attached = TRUE]
        /\ IF base[v].window THEN NotifyCreate(v, base[v].size) ELSE NoCall
        /\ disturbed' = OthersAttached(v)
  /\ calls' = Tail(calls)
  /\ UNCHANGED <<viewVars, alive, firing, displayed, surfaceVars, events, predrawn>>

\* detachFromFlutterEngine, or with hosted onDetach of v's host, after which no host
\* is the exclusive one, v's or not.
DetachFromFlutterEngine(v, hosted) ==
  /\ Idle /\ (hosted \/ v \in engine)
  /\ engine' = engine \ {v}
  /\ exclusive' = IF hosted THEN "none" ELSE exclusive
  /\ DetachXComponent(v)
  /\ calls' = CallsToDetach(v)
  /\ UNCHANGED <<available, alive, display, firing, displayed, raster, surfaceVars,
                 wanted, historyVars>>

\* XComponentBase::PreDraw, which FlutterEnginePreload calls for any view it is given,
\* and FlutterView.preDraw for its own.
PreDraw(v, size) ==
  /\ Idle /\ events < MaxEvents
  /\ events' = events + 1
  /\ predrawn' = TRUE
  /\ disturbed' = (disturbed \/ OthersAttached(v) \/ base[v].window)
  /\ base' = [base EXCEPT ![v].attached = TRUE, ![v].preloaded = TRUE]
  /\ IF base[v].preloaded THEN NoCall ELSE Preload(size)
  /\ UNCHANGED <<viewVars, alive, calls, firing, displayed, surfaceVars>>

-----------------------------------------------------------------------------
(* Raster and UI threads *)

Run(op) == raster # << >> /\ Head(raster).op = op /\ raster' = Tail(raster)

SetNextFrameCallback ==
  /\ \/ Run("hook") /\ hook' = "first"
     \/ Run("hookPreload") /\ hook' = "preload"
  /\ UNCHANGED <<viewVars, componentVars, platformVars, preload, native, offscreen,
                 surface, rendered, wanted, historyVars>>

\* OHOSSurface::SetDisplayWindow.  PaintOffscreenData paints nothing.
SetDisplayWindow(v) ==
  /\ native' = v
  /\ offscreen' = IF native = v THEN offscreen ELSE 0

\* need_schedule_frame_, as SetDisplayWindow leaves it.
NeedNewFrame(v, size) == native # v /\ offscreen = size

\* The task of NotifyCreate: a preloaded engine keeps its rendering surface.
DisplayTask ==
  /\ raster # << >> /\ Run("display")
  /\ SetDisplayWindow(Head(raster).view)
  /\ \/ /\ ~preload
        /\ surface' = TRUE /\ wanted' = TRUE /\ UNCHANGED firing
     \/ /\ preload /\ NeedNewFrame(Head(raster).view, Head(raster).size)
        /\ wanted' = TRUE /\ UNCHANGED <<surface, firing>>
     \/ /\ preload /\ ~NeedNewFrame(Head(raster).view, Head(raster).size)
        /\ firing' = TRUE /\ UNCHANGED <<surface, wanted>>
  /\ UNCHANGED <<viewVars, componentVars, display, calls, displayed, preload, hook, rendered,
                 historyVars>>

ChangeTask ==
  /\ raster # << >> /\ Run("change")
  /\ SetDisplayWindow(Head(raster).view)
  /\ UNCHANGED <<viewVars, componentVars, platformVars, preload, surface, hook, rendered,
                 wanted, historyVars>>

\* PrepareOffscreenWindow and NotifyCreated, unless another task has done so.
PreloadTask ==
  /\ raster # << >> /\ Run("preload")
  /\ IF preload THEN UNCHANGED <<preload, native, offscreen, surface, wanted>>
     ELSE /\ preload' = TRUE /\ surface' = TRUE /\ wanted' = TRUE
          /\ offscreen' = Head(raster).size
          /\ native' = IF offscreen = offscreen' THEN native ELSE "off"
  /\ UNCHANGED <<viewVars, componentVars, platformVars, hook, rendered, historyVars>>

\* OnPlatformViewDestroyed and Rasterizer::Teardown
TeardownTask ==
  /\ Run("teardown")
  /\ preload' = FALSE
  /\ surface' = FALSE
  /\ UNCHANGED <<viewVars, componentVars, platformVars, native, offscreen, hook,
                 rendered, wanted, historyVars>>

TeardownOnScreenContext ==
  /\ Run("clear")
  /\ native' = "none"
  /\ UNCHANGED <<viewVars, componentVars, platformVars, preload, offscreen, surface,
                 hook, rendered, wanted, historyVars>>

\* One frame is drawn at a time (module FrameScheduling).
DrawFrame ==
  /\ wanted /\ \A k \in DOMAIN raster : raster[k].op # "draw"
  /\ wanted' = FALSE
  /\ raster' = Append(raster, Simple("draw"))
  /\ UNCHANGED <<viewVars, componentVars, platformVars, surfaceVars, historyVars>>

\* Rasterizer::Draw: without a swapchain the frame is lost, but the next-frame
\* callback is called all the same.
Draw ==
  /\ Run("draw")
  /\ IF surface
     THEN /\ rendered' = (rendered \/ native # "none")
          /\ firing' = (firing \/ hook = "first")
          /\ hook' = "none"
     ELSE UNCHANGED <<rendered, firing, hook>>
  /\ UNCHANGED <<viewVars, componentVars, display, calls, displayed, preload, native, offscreen,
                 surface, wanted, historyVars>>

-----------------------------------------------------------------------------
PlatformThread ==
  PostLatched \/ FreeWindow \/ AttachFlutterEngine \/ FireFirstFrameCallback
RasterThread ==
  \/ SetNextFrameCallback \/ DisplayTask \/ ChangeTask \/ PreloadTask
  \/ TeardownTask \/ TeardownOnScreenContext \/ Draw
Application ==
  \E v \in Views :
    \/ OnSurfaceCreated(v) \/ OnSurfaceDestroyed(v) \/ OnLoad(v) \/ OnDestroy(v)
    \/ AttachToFlutterEngine(v) \/ OnAttach(v)
    \/ \E hosted \in BOOLEAN : DetachFromFlutterEngine(v, hosted)
    \/ \E size \in Sizes : OnSurfaceChanged(v, size) \/ PreDraw(v, size)

Next == PlatformThread \/ RasterThread \/ DrawFrame \/ Application

Spec == Init /\ [][Next]_vars

\* The threads keep running; the application and the system do as they like, but the
\* message loop takes a posted task in its turn however often they call.
FairSpec ==
  /\ Spec
  /\ WF_vars(PlatformThread) /\ WF_vars(RasterThread) /\ WF_vars(DrawFrame)
  /\ SF_vars(FireFirstFrameCallback)

-----------------------------------------------------------------------------
(* Properties *)

\* Nothing refers to a window once OnSurfaceDestroyed has returned.
NoDeadWindow == native \in Views => native \in alive

\* A rasterizer with a surface has a swapchain to draw on, or is preloaded a
\* second time at the size of an off-screen window that was left behind
\* (PrepareOffscreenWindow returns at once, ohos_surface.cpp:49).
SurfaceHasWindow == surface => native # "none" \/ (preload /\ offscreen # 0)

\* ohos_surface_vulkan_impeller.cpp:73: once the engine has been detached from
\* its view it keeps no swapchain of a window, which would stall the next
\* engine's (nor of an off-screen one, if none was made), and no surface: only a
\* preloaded engine may, since DetachFlutterEngine tells an engine whose window is
\* yet to be created nothing (ohos_xcomponent_adapter.cpp:469).
DetachedReleasesWindow ==
  Idle /\ raster = << >> /\ (\A v \in Views : ~base[v].attached) =>
    native \in {"none"} \cup (IF predrawn THEN {"off"} ELSE {}) /\ (surface => predrawn)

\* The first frame is reported after a frame was rendered on a window.
ReportedIsRendered == displayed /\ ~predrawn => rendered

\* The state is well formed, a surface has something to draw on, a detached engine
\* holds no window, and no first frame is reported too early.
SurfaceInv ==
  TypeOK /\ SurfaceHasWindow /\ DetachedReleasesWindow /\ ReportedIsRendered

Shown(v) == v \in engine /\ v \in alive /\ surface /\ native = v

\* A view is to be shown if it, its XComponent and its window are attached to each
\* other (an XComponent created again is not attached to its view's engine, since
\* attachToFlutterEngine returns at once) and the engine is this view's alone: no other
\* XComponent has been attached since it was, and no PreDraw took its window off screen.
ToBeShown(v) == v \in engine /\ v \in alive /\ base[v].attached /\ ~disturbed /\ ~Crashed

\* A view that is attached and has its window is drawn on, whichever of the two
\* came first and whatever was shown, detached, preloaded or destroyed before.
AttachedIsShown ==
  (\E v \in Views : ToBeShown(v)) ~> (\A v \in Views : ToBeShown(v) => Shown(v))

\* For such a view FlutterNapi.onFirstFrame is called (FireFirstFrameCallback),
\* on every path from NotifyCreate to it: a drawn frame or a preloaded one.
FirstFrameIsReported ==
  (\E v \in Views : ToBeShown(v)) ~> (displayed \/ \A v \in Views : ~ToBeShown(v))
=============================================================================
