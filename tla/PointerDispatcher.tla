-------------------------- MODULE PointerDispatcher --------------------------
(***************************************************************************)
(* SmoothPointerDataDispatcher of shell/common/pointer_data_dispatcher.cc  *)
(* (the one PlatformViewOHOS makes), on the vsync waiter.  The platform    *)
(* thread posts packets of touch events to the UI thread; while one is in  *)
(* progress the latest is held back until a secondary vsync callback.      *)
(*                                                                         *)
(* Packets are numbered in the order they are posted.  The vsync thread    *)
(* may fire between any two steps of the dispatcher.                       *)
(***************************************************************************)
EXTENDS VsyncWaiter

CONSTANT MaxPackets  \* bound: packets posted

ASSUME PointerAssumption ==
  /\ {"pointer", "flow"} \subseteq Secondaries
  /\ "packet" \in OtherTasks
  /\ MaxPackets \in Nat

VARIABLES
  pending,     \* pending_packet_, 0 if null
  inProgress,  \* is_pointer_data_in_progress_
  posted,      \* packets posted to the UI thread
  begun,       \* packets given to DispatchPacket
  delivered,   \* the packet given to the framework last
  step         \* where the UI thread is in the dispatcher

pointerVars == <<pending, inProgress, posted, begun, delivered, step>>
allVars == <<vars, pointerVars>>

PointerTypeOK ==
  /\ TypeOK
  /\ pending \in 0 .. MaxPackets
  /\ inProgress \in BOOLEAN
  /\ posted \in 0 .. MaxPackets
  /\ begun \in 0 .. posted
  /\ delivered \in 0 .. begun
  /\ step \in {"idle", "dispatch", "store", "vsync"}

PointerInit ==
  /\ Init
  /\ pending = 0
  /\ inProgress = FALSE
  /\ posted = 0
  /\ begun = 0
  /\ delivered = 0
  /\ step = "idle"

-----------------------------------------------------------------------------
\* Shell::OnPlatformViewDispatchPointerDataPacket on the platform thread.
PostPacket ==
  /\ posted < MaxPackets
  /\ PostTask("packet")
  /\ posted' = posted + 1
  /\ UNCHANGED <<pending, inProgress, begun, delivered, step>>

\* Mutant: a vsync callback is taken for a packet.
BeginCountsCallbacks ==
  /\ StartTask
  /\ step' = IF alive /\ running' = "packet" THEN "dispatch" ELSE "idle"
  /\ begun' = begun + 1
  /\ UNCHANGED <<pending, inProgress, posted, delivered>>

\* The UI thread takes a task: a packet (lost if the engine is gone), the
\* dispatcher's vsync callback, or another one.
BeginTask ==
  /\ StartTask
  /\ step' = IF ~alive THEN "idle"
             ELSE IF running' = "packet" THEN "dispatch"
             ELSE IF running' = "pointer" THEN "vsync" ELSE "idle"
  /\ begun' = IF running' = "packet" THEN begun + 1 ELSE begun
  /\ UNCHANGED <<pending, inProgress, posted, delivered>>

ScheduleSecondaryVsyncCallback == ScheduleSecondaryCallback("pointer")

\* Mutant: the packet held back is overwritten by the next one.
DispatchPendingLoses ==
  /\ pending' = 0
  /\ UNCHANGED delivered
  /\ ScheduleSecondaryVsyncCallback

DispatchPendingPacket ==
  /\ delivered' = pending
  /\ pending' = 0
  /\ ScheduleSecondaryVsyncCallback

\* DispatchPacket up to the first call that schedules a callback.
DispatchPacket ==
  /\ step = "dispatch"
  /\ \/ /\ inProgress /\ pending # 0
        /\ DispatchPendingPacket
        /\ step' = "store"
     \/ /\ inProgress /\ pending = 0
        /\ pending' = begun
        /\ ScheduleSecondaryVsyncCallback
        /\ step' = "idle"
        /\ UNCHANGED delivered
     \/ /\ ~inProgress
        /\ delivered' = begun
        /\ ScheduleSecondaryVsyncCallback
        /\ step' = "idle"
        /\ UNCHANGED pending
  /\ inProgress' = TRUE
  /\ UNCHANGED <<posted, begun>>

\* Its end, after DispatchPendingPacket.
StorePacket ==
  /\ step = "store"
  /\ pending' = begun
  /\ ScheduleSecondaryVsyncCallback
  /\ step' = "idle"
  /\ UNCHANGED <<inProgress, posted, begun, delivered>>

\* Mutant: the flag is cleared with a packet still held back.
CallbackClearsFlag ==
  /\ step = "vsync"
  /\ step' = "idle"
  /\ inProgress' = FALSE
  /\ UNCHANGED <<vars, pending, posted, begun, delivered>>

\* Mutant: the callback leaves a packet for the next packet to push out.
CallbackKeepsPacket ==
  /\ step = "vsync"
  /\ step' = "idle"
  /\ inProgress' = (pending # 0)
  /\ UNCHANGED <<vars, pending, posted, begun, delivered>>

\* The secondary vsync callback.
VsyncCallback ==
  /\ step = "vsync"
  /\ step' = "idle"
  /\ \/ /\ inProgress /\ pending # 0
        /\ DispatchPendingPacket
        /\ UNCHANGED inProgress
     \/ /\ ~(inProgress /\ pending # 0)
        /\ inProgress' = FALSE
        /\ UNCHANGED <<vars, pending, delivered>>
  /\ UNCHANGED <<posted, begun>>

\* What the framework and the animator do in a UI task: request a frame, or
\* schedule the callback that clears trace flow ids.
OtherCalls ==
  /\ running # "none"
  /\ AsyncWaitForVsync \/ ScheduleSecondaryCallback("flow")
  /\ UNCHANGED pointerVars

EndTask ==
  /\ step = "idle"
  /\ FinishTask
  /\ UNCHANGED pointerVars

DestroyEngine ==
  /\ step = "idle" /\ running # "none"
  /\ Destroy
  /\ UNCHANGED pointerVars

WaiterStep == (AwaitVSync \/ VsyncThread) /\ UNCHANGED pointerVars

PointerNext ==
  \/ PostPacket \/ BeginTask \/ DispatchPacket \/ StorePacket \/ VsyncCallback
  \/ OtherCalls \/ EndTask \/ DestroyEngine \/ WaiterStep

PointerSpec == PointerInit /\ [][PointerNext]_allVars

\* Each thread keeps running, the OS answers every request it accepted, and a UI
\* task, the dispatcher's steps in it included, comes to its end.
PointerFairness ==
  /\ WF_allVars(VsyncThread /\ UNCHANGED pointerVars)
  /\ WF_allVars(AwaitVSync /\ UNCHANGED pointerVars)
  /\ WF_allVars(BeginTask)
  /\ WF_allVars(DispatchPacket \/ StorePacket \/ VsyncCallback)
  /\ WF_allVars(EndTask)

FairPointerSpec == PointerSpec /\ PointerFairness

-----------------------------------------------------------------------------
(* Properties *)

\* Packets reach the framework in order and none is skipped, whichever of
\* DispatchPacket and the vsync callback delivers them.
DeliveredInOrder == [][delivered' = delivered + 1]_delivered

\* pointer_data_dispatcher.h: at most the last packet received is held back, and
\* only while one is in progress (the FML_DCHECKs of DispatchPacket and
\* DispatchPendingPacket).
OnlyLastHeldBack ==
  alive /\ step \in {"idle", "vsync"} =>
    /\ pending # 0 => inProgress /\ pending = begun
    /\ delivered = IF pending # 0 THEN begun - 1 ELSE begun

\* Every packet posted is delivered, unless the engine is destroyed.
PacketsDelivered == \A n \in 1 .. MaxPackets : (posted >= n) ~> (delivered >= n \/ ~alive)
=============================================================================
