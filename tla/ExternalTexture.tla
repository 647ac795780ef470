--------------------------- MODULE ExternalTexture ---------------------------
(***************************************************************************)
(* An external texture of the OpenHarmony embedding:                       *)
(* shell/platform/ohos/ohos_external_texture.cpp with the texture calls of *)
(* platform_view_ohos.cpp and shell.cc.  A producer (camera, decoder, web  *)
(* view) flushes buffers into the buffer queue of a native image; its      *)
(* thread calls the image's frame listener, which posts to the platform    *)
(* thread, which posts to the raster thread, where the texture counts the  *)
(* frames it was told of and acquires one of them per Paint.               *)
(*                                                                         *)
(* A buffer is its frame number and size.  A Paint, or a Mark, acquires    *)
(* several buffers in one step: a flush between two of them commutes with  *)
(* the first, since the queue is FIFO and nothing follows a failed acquire.*)
(***************************************************************************)
EXTENDS Integers, Sequences, FiniteSets

CONSTANTS
  QueueSizes,              \* numbers of buffers a native image may have
  MAX_DELAYED_FRAMES,
  MAX_SIZE_CHANGE_FRAMES,
  MaxFrames,               \* bound: frames flushed
  MaxEvents                \* bound: detachments, switches of image, size changes

ASSUME TextureAssumption ==
  /\ QueueSizes \subseteq Nat \ {0}
  /\ MAX_DELAYED_FRAMES \in Nat /\ MAX_SIZE_CHANGE_FRAMES \in Nat
  /\ MaxFrames \in Nat /\ MaxEvents \in Nat

\* The image the texture creates, one given to it by SetExternalNativeImage.
Images == {"own", "ext"}
Sizes == 1 .. MaxEvents + 1
NoBuffer == [n |-> 0, size |-> 0]
Buffers == [n : 1 .. MaxFrames, size : Sizes]

VARIABLES
  \* native images and their producers
  capacity,   \* buffers of a native image (GET_BUFFERQUEUE_SIZE)
  queue,      \* flushed, not acquired buffers of each image
  listener,   \* the frame listener of each image
  notifying,  \* images whose producer has flushed and not yet called it
  flushed,    \* frames flushed so far
  window,     \* size of the producer's window
  \* OHOSExternalTexture
  source,     \* native_image_source_
  external,   \* source_is_external_
  last,       \* last_native_window_buffer_
  parked,     \* size_change_buffer_
  newSeq,     \* now_new_frame_seq_num_
  paintSeq,   \* now_paint_frame_seq_num_
  hasFrame,   \* producer_has_frame_
  image,      \* old_dl_image_
  size,       \* [changing, frames, buffer, draw, bufferChanged]
  drawn,      \* the buffer and bounds of the latest Paint
  \* embedder and engine
  owned,      \* the texture is in all_external_texture_
  inMap,      \* ... in g_texture_platformview_map
  registered, \* ... in the texture registry
  surface,    \* the rasterizer has a surface
  attached,   \* NotifyCreate came after the latest NotifyDestroyed
  platform,   \* where the platform thread is
  marks,      \* tasks posted by OnNativeImageFrameAvailable
  raster,     \* tasks of the raster thread
  asked,      \* a frame has been asked for
  layout,     \* bounds of the texture in the layer tree
  frozen,     \* the layer tree freezes the texture
  \* what has happened so far
  detaches, switches, resizes

imageVars == <<capacity, queue, listener, notifying, flushed, window>>
textureVars == <<source, external, last, parked, newSeq, paintSeq, hasFrame, image, size, drawn>>
viewVars == <<owned, inMap, registered, surface, attached, platform, layout, frozen>>
taskVars == <<marks, raster, asked>>
eventVars == <<detaches, switches, resizes>>
vars == <<imageVars, textureVars, viewVars, taskVars, eventVars>>

\* Mutant: UnRegisterExternalTexture does not wait for the raster thread.
LatchedButUnregister == {"teardown", "setImage", "reset", "resetNew"}

\* Raster tasks the platform thread waits for.
Latched == {"teardown", "unregister", "setImage", "reset", "resetNew"}
RasterTasks == {"teardown", "unregister", "setImage", "reset", "resetNew",
                "register", "setup", "mark", "draw"}

TypeOK ==
  /\ capacity \in QueueSizes
  /\ queue \in [Images -> Seq(Buffers)] /\ \A i \in Images : Len(queue[i]) <= capacity
  /\ listener \in [Images -> {"frame", "default"}]
  /\ notifying \subseteq Images
  /\ flushed \in 0 .. MaxFrames
  /\ window \in Sizes /\ layout \in Sizes
  /\ source \in Images \cup {"none"}
  /\ {last, parked, image} \subseteq Buffers \cup {NoBuffer}
  /\ newSeq \in Int /\ paintSeq \in Nat /\ marks \in Nat
  /\ size \in [changing : BOOLEAN, frames : 0 .. MAX_SIZE_CHANGE_FRAMES,
               buffer : Sizes \cup {0}, draw : Sizes \cup {0}, bufferChanged : BOOLEAN]
  /\ drawn \in [buffer : Buffers \cup {NoBuffer}, bounds : Sizes \cup {0}]
  /\ {external, hasFrame, owned, inMap, registered, surface, attached, asked, frozen} \subseteq BOOLEAN
  /\ platform \in {"idle", "detaching", "dropping"}
  /\ raster \in Seq(RasterTasks)

\* After CreateExternalTexture, with the surface set up.
Init ==
  /\ capacity \in QueueSizes
  /\ queue = [i \in Images |-> << >>]
  /\ listener = [own |-> "frame", ext |-> "default"]
  /\ notifying = {} /\ flushed = 0 /\ window = 1
  /\ source = "own" /\ external = FALSE
  /\ last = NoBuffer /\ parked = NoBuffer
  /\ newSeq = 0 /\ paintSeq = 0 /\ hasFrame = FALSE
  /\ image = NoBuffer
  /\ size = [changing |-> FALSE, frames |-> 0, buffer |-> 0, draw |-> 0, bufferChanged |-> TRUE]
  /\ drawn = [buffer |-> NoBuffer, bounds |-> 0]
  /\ owned = TRUE /\ inMap = TRUE /\ registered = FALSE
  /\ surface = TRUE /\ attached = TRUE
  /\ platform = "idle" /\ marks = 0
  /\ raster = <<"register">>
  /\ asked = FALSE /\ layout = 1 /\ frozen = FALSE
  /\ detaches = 0 /\ switches = 0 /\ resizes = 0

One(b) == IF b THEN 1 ELSE 0
Max0(n) == IF n > 0 THEN n ELSE 0
AtMost(m, n) == IF m < n THEN m ELSE n
DropFirst(n, s) == SubSeq(s, n + 1, Len(s))

-----------------------------------------------------------------------------
(* Producers *)

\* Buffers of image i that its producer cannot dequeue.
InUse(i) == Len(queue[i]) + IF source = i THEN One(last # NoBuffer) + One(parked # NoBuffer) ELSE 0

CanProduce(i) == i = "own" => source = "own"

Stalled(i) == CanProduce(i) /\ InUse(i) >= capacity

Flush(i) ==
  /\ CanProduce(i) /\ ~Stalled(i) /\ i \notin notifying
  /\ flushed < MaxFrames
  /\ flushed' = flushed + 1
  /\ queue' = [queue EXCEPT ![i] = Append(@, [n |-> flushed', size |-> window])]
  /\ notifying' = notifying \cup {i}
  /\ UNCHANGED <<capacity, listener, window, textureVars, viewVars, taskVars, eventVars>>

\* The producer's thread calls OnNativeImageFrameAvailable, which posts only
\* while the texture is in the map, or DefaultOnFrameAvailable, which gives the
\* oldest buffer back.
FrameAvailable(i) ==
  /\ i \in notifying
  /\ notifying' = notifying \ {i}
  /\ \/ /\ listener[i] = "frame"
        /\ marks' = marks + One(inMap)
        /\ UNCHANGED queue
     \/ /\ listener[i] = "default"
        /\ queue' = [queue EXCEPT ![i] = DropFirst(1, @)]
        /\ UNCHANGED marks
  /\ UNCHANGED <<capacity, listener, flushed, window, textureVars, viewVars, raster, asked, eventVars>>

-----------------------------------------------------------------------------
(* Platform thread *)

Queued(task) == \E k \in DOMAIN raster : raster[k] = task
NoLatch == \A task \in Latched : ~Queued(task)
PlatformFree == platform = "idle" /\ NoLatch

MoreEvents == detaches + switches + resizes < MaxEvents

PostRaster(tasks) == raster' = raster \o tasks

\* The task posted by OnNativeImageFrameAvailable, with MarkTextureFrameAvailable.
MarkTask ==
  /\ PlatformFree /\ marks > 0
  /\ marks' = marks - 1
  /\ PostRaster(IF inMap THEN <<"mark">> ELSE << >>)
  /\ asked' = (asked \/ inMap)
  /\ UNCHANGED <<imageVars, textureVars, viewVars, eventVars>>

\* NotifyDestroyed: the raster thread tears the surface down; then the texture
\* leaves the registry and the map.
NotifyDestroyed ==
  /\ PlatformFree /\ attached /\ MoreEvents
  /\ detaches' = detaches + 1
  /\ attached' = FALSE
  /\ platform' = "detaching"
  /\ PostRaster(<<"teardown">>)
  /\ UNCHANGED <<imageVars, textureVars, owned, inMap, registered, surface, layout, frozen,
                 marks, asked, switches, resizes>>

UnregisterAll ==
  /\ platform = "detaching" /\ NoLatch
  /\ platform' = "idle"
  /\ PostRaster(IF owned THEN <<"unregister">> ELSE << >>)
  /\ inMap' = FALSE
  /\ UNCHANGED <<imageVars, textureVars, owned, registered, surface, attached, layout, frozen,
                 marks, asked, eventVars>>

\* NotifyCreate, without a preloaded window.
NotifyCreate ==
  /\ PlatformFree /\ ~attached
  /\ attached' = TRUE
  /\ inMap' = owned
  /\ PostRaster(IF owned THEN <<"register", "setup">> ELSE <<"setup">>)
  /\ UNCHANGED <<imageVars, textureVars, owned, registered, surface, platform, layout, frozen,
                 marks, asked, eventVars>>

\* SetExternalNativeImage and ResetExternalTexture wait for the raster thread.
SwitchImage(task) ==
  /\ PlatformFree /\ owned /\ MoreEvents
  /\ switches' = switches + 1
  /\ PostRaster(<<task>>)
  /\ UNCHANGED <<imageVars, textureVars, viewVars, marks, asked, detaches, resizes>>

\* DestroyNativeImageSource: the held buffers go back; an image of its own is
\* destroyed, another gets the default listener.  Image `next` takes its place
\* with an empty queue (SetExternalNativeImage has drained it).
ReplaceSource(next) ==
  /\ source' = next
  /\ last' = NoBuffer /\ parked' = NoBuffer
  /\ newSeq' = 0 /\ paintSeq' = 0
  /\ queue' = [i \in Images |->
                IF i = next \/ (i = source /\ ~external) THEN << >> ELSE queue[i]]
  /\ listener' = [i \in Images |->
                   IF i = next THEN "frame"
                   ELSE IF i = source /\ external THEN "default" ELSE listener[i]]

\* UnRegisterExternalTexture.  The registry holds the last reference, if the
\* texture is registered.
UnRegisterExternalTexture ==
  /\ PlatformFree /\ owned /\ MoreEvents
  /\ switches' = switches + 1
  /\ owned' = FALSE
  /\ platform' = "dropping"
  /\ PostRaster(<<"unregister">>)
  /\ IF registered \/ Queued("register")
     THEN UNCHANGED <<queue, listener, source, last, parked, newSeq, paintSeq>>
     ELSE ReplaceSource("none")
  /\ UNCHANGED <<capacity, notifying, flushed, window, external, hasFrame, image, size, drawn,
                 inMap, registered, surface, attached, layout, frozen, marks, asked,
                 detaches, resizes>>

EraseFromMap ==
  /\ platform = "dropping" /\ NoLatch
  /\ platform' = "idle"
  /\ inMap' = FALSE
  /\ UNCHANGED <<imageVars, textureVars, owned, registered, surface, attached, layout, frozen,
                 taskVars, eventVars>>

\* NotifyTextureResizing; the producer's window and the layout of the texture
\* follow in either order.
NotifyResizing ==
  /\ PlatformFree /\ owned /\ MoreEvents
  /\ resizes' = resizes + 1
  /\ size' = [size EXCEPT !.changing = TRUE]
  /\ UNCHANGED <<imageVars, source, external, last, parked, newSeq, paintSeq, hasFrame,
                 image, drawn, viewVars, taskVars, detaches, switches>>

SetProducerWindowSize ==
  /\ PlatformFree /\ owned /\ window <= resizes
  /\ window' = resizes + 1
  /\ UNCHANGED <<capacity, queue, listener, notifying, flushed, textureVars, viewVars, taskVars, eventVars>>

-----------------------------------------------------------------------------
(* UI thread: frames asked for by texture updates and by anything else.    *)

ScheduleFrame ==
  /\ ~asked /\ registered
  /\ asked' = TRUE
  /\ UNCHANGED <<imageVars, textureVars, viewVars, marks, raster, eventVars>>

Layout ==
  /\ layout <= resizes
  /\ layout' = resizes + 1
  /\ asked' = TRUE
  /\ UNCHANGED <<imageVars, textureVars, owned, inMap, registered, surface, attached,
                 platform, frozen, marks, raster, eventVars>>

\* The Texture widget is frozen from now on.
Freeze ==
  /\ ~frozen
  /\ frozen' = TRUE
  /\ asked' = TRUE
  /\ UNCHANGED <<imageVars, textureVars, owned, inMap, registered, surface, attached,
                 platform, layout, marks, raster, eventVars>>

\* One frame is drawn at a time (module FrameScheduling).
DrawFrame ==
  /\ asked /\ ~Queued("draw")
  /\ asked' = FALSE
  /\ PostRaster(<<"draw">>)
  /\ UNCHANGED <<imageVars, textureVars, viewVars, marks, eventVars>>

-----------------------------------------------------------------------------
(* Raster thread *)

Run(task) == raster # << >> /\ Head(raster) = task /\ raster' = Tail(raster)

RegisterTexture ==
  /\ Run("register")
  /\ registered' = TRUE
  /\ UNCHANGED <<imageVars, textureVars, owned, inMap, surface, attached, platform,
                 layout, frozen, marks, asked, eventVars>>

\* TextureRegistry::UnregisterTexture; the texture is destroyed with its last
\* reference.
UnregisterTexture ==
  /\ Run("unregister")
  /\ registered' = FALSE
  /\ image' = NoBuffer
  /\ IF owned \/ ~registered
     THEN UNCHANGED <<queue, listener, source, last, parked, newSeq, paintSeq>>
     ELSE ReplaceSource("none")
  /\ UNCHANGED <<capacity, notifying, flushed, window, external, hasFrame, size, drawn, owned,
                 inMap, surface, attached, platform, layout, frozen, marks, asked, eventVars>>

SetListener(l) ==
  listener' = [i \in Images |-> IF registered /\ i = source THEN l ELSE listener[i]]

\* Rasterizer::Setup, with OnGrContextCreated of the registered textures; the
\* engine is told to draw a frame.
Setup ==
  /\ Run("setup")
  /\ surface' = TRUE
  /\ SetListener("frame")
  /\ asked' = TRUE
  /\ UNCHANGED <<capacity, queue, notifying, flushed, window, textureVars, owned, inMap,
                 registered, attached, platform, layout, frozen, marks, eventVars>>

\* Rasterizer::Teardown, with OnGrContextDestroyed.
Teardown ==
  /\ Run("teardown")
  /\ surface' = FALSE
  /\ SetListener("default")
  /\ image' = IF registered /\ source # "none" THEN NoBuffer ELSE image
  /\ UNCHANGED <<capacity, queue, notifying, flushed, window, source, external, last, parked,
                 newSeq, paintSeq, hasFrame, size, drawn, owned, inMap, registered,
                 attached, platform, layout, frozen, marks, asked, eventVars>>

SetExternalNativeImage ==
  /\ Run("setImage")
  /\ IF source = "ext"
     THEN UNCHANGED <<queue, listener, source, external, last, parked, newSeq, paintSeq>>
     ELSE ReplaceSource("ext") /\ external' = TRUE
  /\ UNCHANGED <<capacity, notifying, flushed, window, hasFrame, image, size, drawn, viewVars,
                 marks, asked, eventVars>>

Reset ==
  /\ \/ Run("reset") /\ ReplaceSource("none")
     \/ Run("resetNew") /\ ReplaceSource("own")
  /\ image' = NoBuffer
  /\ UNCHANGED <<capacity, notifying, flushed, window, external, hasFrame, size, drawn, viewVars,
                 marks, asked, eventVars>>

\* Mutant: frames wait until they fill the queue.
JankFillsQueue == capacity

MaxJankFrame == (capacity * 2) \div 3

\* MarkNewFrameAvailable: frames the consumer is too slow for are released, the
\* oldest first; an empty queue brings the two counters together.
MarkNewFrameAvailable ==
  /\ Run("mark")
  /\ IF ~registered THEN UNCHANGED <<queue, newSeq, paintSeq, hasFrame>> ELSE
     LET late == newSeq + 1 - paintSeq - MaxJankFrame + 1
         skipping == source # "none" /\ MaxJankFrame > 1 /\ late > 0
     IN /\ newSeq' = newSeq + 1
        /\ hasFrame' = TRUE
        /\ queue' = IF skipping THEN [queue EXCEPT ![source] = DropFirst(late, @)] ELSE queue
        /\ paintSeq' = IF ~skipping THEN paintSeq
                       ELSE IF late > Len(queue[source]) THEN newSeq + 1 ELSE paintSeq + late
  /\ UNCHANGED <<capacity, listener, notifying, flushed, window, source, external, last, parked,
                 image, size, drawn, viewVars, marks, asked, eventVars>>

\* The end of Paint: `picture` is drawn, in the old bounds as long as only the
\* layout has changed size; then the state of the size change advances.
FinishPaint(picture, bufferSize, bufferChanged) ==
  LET drawChanged == layout # size.draw
      keepOld == size.changing /\ drawChanged /\ ~bufferChanged
      frames == size.frames + 1
      done == (bufferChanged /\ drawChanged) \/ frames > MAX_SIZE_CHANGE_FRAMES
  IN /\ drawn' = [buffer |-> picture, bounds |-> IF keepOld THEN size.draw ELSE layout]
     /\ size' = [changing |-> size.changing /\ ~done,
                 frames |-> IF size.changing /\ ~done THEN frames ELSE
                            IF size.changing THEN 0 ELSE size.frames,
                 buffer |-> bufferSize,
                 draw |-> IF keepOld THEN size.draw ELSE layout,
                 bufferChanged |-> bufferChanged]

Waiting == IF source = "none" THEN << >> ELSE queue[source]

OldImage == IF image = NoBuffer THEN last ELSE image

\* Frozen, or nothing to acquire: the old image is drawn again.
PaintOld ==
  /\ frozen \/ ~hasFrame \/ source = "none" \/ (Waiting = << >> /\ parked = NoBuffer)
  /\ paintSeq' = IF frozen \/ ~hasFrame \/ source = "none" THEN paintSeq ELSE newSeq
  /\ image' = OldImage
  /\ FinishPaint(OldImage, size.buffer, size.bufferChanged)
  /\ UNCHANGED <<queue, last, parked, newSeq, marks>>

\* The buffer GetConsumerNativeBuffer acquires: the next one, which replaces a
\* parked one, or the parked one.
Acquired == IF Waiting = << >> THEN parked ELSE Head(Waiting)
SeqAfterAcquire == paintSeq + One(Waiting # << >> /\ parked # NoBuffer)
Differs == Acquired.size # size.buffer
MustPark == size.changing /\ layout = size.draw /\ Differs

\* Only the buffer has changed size: it is put aside.
PaintAndPark ==
  /\ ~frozen /\ hasFrame /\ source # "none"
  /\ Acquired # NoBuffer /\ MustPark
  /\ parked' = Acquired
  /\ queue' = [queue EXCEPT ![source] = DropFirst(1, @)]
  /\ paintSeq' = SeqAfterAcquire
  /\ image' = OldImage
  /\ FinishPaint(OldImage, size.buffer, TRUE)
  /\ UNCHANGED <<last, newSeq, marks>>

\* Mutant: a freshly drawn image is not remembered.
KeepOldDlImage(picture) == image' = OldImage

SetOldDlImage(picture) == image' = picture

\* Mutant: the listener is not called.
RescheduleNothing(seq) == newSeq' = newSeq - One(seq < newSeq) /\ UNCHANGED marks

\* "Reschedule new frame": the announcement is taken back and made again.
Reschedule(seq) ==
  /\ newSeq' = newSeq - One(seq < newSeq)
  /\ marks' = marks + One(seq < newSeq /\ inMap)

\* The buffer is drawn, or a later one if too many wait; another frame is asked
\* for if one is left.
PaintNext ==
  /\ ~frozen /\ hasFrame /\ source # "none"
  /\ Acquired # NoBuffer /\ ~MustPark
  /\ LET rest == DropFirst(1, Waiting)
         late == Max0(newSeq - (SeqAfterAcquire + 1 + MAX_DELAYED_FRAMES))
         skipped == AtMost(late, Len(rest))
         next == IF skipped = 0 THEN Acquired ELSE rest[skipped]
         seq == IF late > Len(rest) THEN newSeq ELSE SeqAfterAcquire + 1 + skipped
     IN /\ queue' = [queue EXCEPT ![source] = DropFirst(skipped, rest)]
        /\ last' = next
        /\ SetOldDlImage(next)
        /\ paintSeq' = seq
        /\ Reschedule(seq)
        /\ FinishPaint(next, Acquired.size, Differs)
  /\ parked' = NoBuffer

Paint ==
  /\ Run("draw")
  /\ IF surface /\ registered
     THEN PaintOld \/ PaintAndPark \/ PaintNext
     ELSE UNCHANGED <<queue, last, parked, newSeq, paintSeq, image, size, drawn, marks>>
  /\ UNCHANGED <<capacity, listener, notifying, flushed, window, source, external, hasFrame,
                 viewVars, asked, eventVars>>

-----------------------------------------------------------------------------
Producer(i) == Flush(i) \/ FrameAvailable(i)
PlatformTask == MarkTask \/ UnregisterAll \/ EraseFromMap
Client ==
  \/ NotifyDestroyed \/ NotifyCreate
  \/ \E task \in {"setImage", "reset", "resetNew"} : SwitchImage(task)
  \/ UnRegisterExternalTexture
  \/ NotifyResizing \/ SetProducerWindowSize
  \/ ScheduleFrame \/ Layout \/ Freeze
RasterThread ==
  \/ RegisterTexture \/ UnregisterTexture \/ Setup \/ Teardown
  \/ SetExternalNativeImage \/ Reset \/ MarkNewFrameAvailable \/ Paint

Next == (\E i \in Images : Producer(i)) \/ PlatformTask \/ Client \/ DrawFrame \/ RasterThread

Spec == Init /\ [][Next]_vars

\* Threads keep running; a producer that has flushed calls the listener.
Fairness ==
  /\ \A i \in Images : WF_vars(FrameAvailable(i))
  /\ WF_vars(PlatformTask)
  /\ WF_vars(RasterThread)
  /\ WF_vars(DrawFrame)

FairSpec == Spec /\ Fairness

-----------------------------------------------------------------------------
(* Properties *)

\* The buffers the texture holds and those still queued are different ones, in
\* the order of production: none is released twice or used after its release.
BuffersInOrder ==
  /\ parked # NoBuffer => last.n < parked.n
  /\ \A k \in DOMAIN Waiting : last.n < Waiting[k].n /\ parked.n < Waiting[k].n
  /\ \A j, k \in DOMAIN Waiting : j < k => Waiting[j].n < Waiting[k].n

\* Pending announcements of frames.
Announcements ==
  marks + Cardinality({k \in DOMAIN raster : raster[k] = "mark"}) + One(source \in notifying)

\* Every queued buffer is accounted for by the sequence numbers or by an
\* announcement on its way, so that a frame will be drawn for it (as long as the
\* surface has not gone away and no size change has put a buffer aside).
WaitingIsAnnounced ==
  owned /\ detaches = 0 /\ resizes = 0 => Len(Waiting) <= newSeq - paintSeq + Announcements

\* Once UnRegisterExternalTexture has returned nothing refers to the texture
\* and a native image given to it can be given to another.
UnregisteredLetsGo ==
  ~owned /\ PlatformFree =>
    source = "none" /\ ~inMap /\ ~registered /\ listener["ext"] = "default"

\* The state is well formed, no buffer is held twice, and a texture that was
\* unregistered holds nothing.
TextureInv == TypeOK /\ BuffersInOrder /\ UnregisteredLetsGo

\* The picture never goes back to an earlier frame.
DrawnInOrder ==
  [][drawn'.buffer # NoBuffer => drawn'.buffer.n >= drawn.buffer.n]_drawn

\* The producer of the texture's image waits for a buffer (with two buffers or
\* less max_jank_frame switches the release of late frames off).
Starved(i) == source = i /\ Stalled(i) /\ MaxJankFrame > 1

\* ohos_external_texture.cpp:183 "to ensure there is always space in the queue":
\* a producer waiting for a buffer gets one, also when nothing is painted (as
\* long as the surface has not gone away in between).
ProducerProceeds ==
  \A i \in Images : (Starved(i) /\ detaches = 0) ~> (~Starved(i) \/ detaches > 0)

\* The same, also when the surface goes away and comes back.
ProducerNeverStalls == \A i \in Images : Starved(i) ~> ~Starved(i)
=============================================================================
