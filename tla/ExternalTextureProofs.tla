------------------------ MODULE ExternalTextureProofs ------------------------
(***************************************************************************)
(* External textures, for native images of any size and any number of      *)
(* frames, detachments, switches of the image and size changes: buffers    *)
(* are used and drawn in the order they were produced, every queued buffer *)
(* is announced, and a texture that was unregistered lets go of its image. *)
(***************************************************************************)
EXTENDS ExternalTexture, FiniteSetTheorems, TLAPS

-----------------------------------------------------------------------------
(* The inductive invariant *)

\* The types; now_new_frame_seq_num_ is taken back only after it was counted up.
TextureTypes ==
  /\ TypeOK /\ newSeq \in Nat
  /\ detaches \in Nat /\ switches \in Nat /\ resizes \in Nat
  /\ detaches + switches + resizes <= MaxEvents

\* Buffers of every image are queued in the order they were flushed.
QueuesInOrder ==
  \A i \in Images :
    /\ \A k \in DOMAIN queue[i] : queue[i][k].n <= flushed
    /\ \A j, k \in DOMAIN queue[i] : j < k => queue[i][j].n < queue[i][k].n

\* What has been taken from the queue, or shown, is older than what is parked, and
\* that is older than what is queued.  The old image is the buffer still held,
\* unless one of the two is gone.
Precedes(b) ==
  /\ b.n <= flushed
  /\ parked # NoBuffer => b.n < parked.n
  /\ \A k \in DOMAIN Waiting : b.n < Waiting[k].n
HeldInOrder ==
  /\ Precedes(last) /\ Precedes(image) /\ Precedes(drawn.buffer)
  /\ parked.n <= flushed /\ \A k \in DOMAIN Waiting : parked.n < Waiting[k].n
  /\ source = "none" => last = NoBuffer /\ parked = NoBuffer
  /\ last # NoBuffer /\ image # NoBuffer => image = last
  /\ last # NoBuffer => drawn.buffer.n <= last.n
  /\ image # NoBuffer => drawn.buffer.n <= image.n

\* The platform thread waits for one task at a time, and the image that was given
\* to the texture calls its listener only as long as it is the source.
LatchedOnce ==
  \A j, k \in DOMAIN raster : raster[j] \in Latched /\ raster[k] \in Latched => j = k
ListenerFollows ==
  /\ source = "ext" => external
  /\ listener["ext"] = "frame" => source = "ext"

\* The tasks queued for the raster thread, and that a registration is followed by its
\* end.
Pending == {raster[k] : k \in DOMAIN raster}
RegisterEnds ==
  \A j \in DOMAIN raster :
    raster[j] = "register" => \E k \in DOMAIN raster : j < k /\ raster[k] = "unregister"

\* Once the embedder has dropped the texture the registry's reference goes with the
\* task that is queued behind its registration.
Leaving ==
  /\ platform = "dropping" => ~owned
  /\ ~owned =>
       /\ Pending \cap {"setImage", "reset", "resetNew"} = {}
       /\ RegisterEnds
       /\ registered => "unregister" \in Pending
       /\ source # "none" => registered \/ "register" \in Pending
       /\ platform # "dropping" => ~inMap /\ "unregister" \notin Pending

\* As long as the surface has not gone away a frame announced reaches the texture:
\* the map, the listener and the registry have it, and nothing unregisters it.
Connected ==
  owned /\ detaches = 0 =>
    /\ inMap /\ attached /\ platform = "idle"
    /\ registered \/ (raster # << >> /\ Head(raster) = "register")
    /\ Pending \cap {"teardown", "unregister"} = {}
    /\ source # "none" => listener[source] = "frame"
Unresized == resizes = 0 => ~size.changing /\ parked = NoBuffer

OrderInv == TextureTypes /\ QueuesInOrder /\ HeldInOrder
LifeInv == LatchedOnce /\ ListenerFollows /\ Leaving
AnnounceInv == Connected /\ Unresized /\ WaitingIsAnnounced

-----------------------------------------------------------------------------
(* Sequences *)

LEMMA DropFirstFacts ==
  ASSUME NEW S, NEW s \in Seq(S), NEW n \in Nat
  PROVE  /\ DropFirst(n, s) \in Seq(S)
         /\ Len(DropFirst(n, s)) = IF n <= Len(s) THEN Len(s) - n ELSE 0
         /\ \A k \in DOMAIN DropFirst(n, s) :
              k \in Nat /\ n + k \in DOMAIN s /\ DropFirst(n, s)[k] = s[n + k]
BY DEF DropFirst

LEMMA AppendFacts ==
  ASSUME NEW S, NEW s \in Seq(S), NEW x \in S
  PROVE  /\ Append(s, x) \in Seq(S) /\ Len(Append(s, x)) = Len(s) + 1
         /\ \A k \in DOMAIN s : k \in DOMAIN Append(s, x) /\ Append(s, x)[k] = s[k]
         /\ \A k \in DOMAIN Append(s, x) : (k \in DOMAIN s /\ Append(s, x)[k] = s[k])
                                           \/ (k = Len(s) + 1 /\ Append(s, x)[k] = x)
OBVIOUS

LEMMA TailFacts ==
  ASSUME NEW S, NEW s \in Seq(S), s # << >>
  PROVE  /\ Tail(s) \in Seq(S) /\ Head(s) = s[1] /\ 1 \in DOMAIN s
         /\ \A k \in DOMAIN Tail(s) : k \in Nat \ {0} /\ k + 1 \in DOMAIN s /\ Tail(s)[k] = s[k + 1]
         /\ \A k \in DOMAIN s : k = 1 \/ (k - 1 \in DOMAIN Tail(s) /\ s[k] = Tail(s)[k - 1])
OBVIOUS

LEMMA ConcatFacts ==
  ASSUME NEW S, NEW s \in Seq(S), NEW t \in Seq(S)
  PROVE  /\ s \o t \in Seq(S)
         /\ \A k \in DOMAIN s : k \in DOMAIN (s \o t) /\ (s \o t)[k] = s[k]
         /\ \A k \in DOMAIN (s \o t) :
              \/ k \in DOMAIN s /\ (s \o t)[k] = s[k]
              \/ k > Len(s) /\ k - Len(s) \in DOMAIN t /\ (s \o t)[k] = t[k - Len(s)]
OBVIOUS

-----------------------------------------------------------------------------
(* Types *)

ImageTypes ==
  /\ capacity \in QueueSizes
  /\ queue \in [Images -> Seq(Buffers)] /\ \A i \in Images : Len(queue[i]) <= capacity
  /\ listener \in [Images -> {"frame", "default"}]
  /\ notifying \subseteq Images
  /\ flushed \in 0 .. MaxFrames
  /\ window \in Sizes
SourceTypes ==
  /\ source \in Images \cup {"none"} /\ external \in BOOLEAN
  /\ last \in Buffers \cup {NoBuffer} /\ parked \in Buffers \cup {NoBuffer}
  /\ newSeq \in Nat /\ paintSeq \in Nat /\ hasFrame \in BOOLEAN
PaintTypes ==
  /\ image \in Buffers \cup {NoBuffer}
  /\ size \in [changing : BOOLEAN, frames : 0 .. MAX_SIZE_CHANGE_FRAMES,
               buffer : Sizes \cup {0}, draw : Sizes \cup {0}, bufferChanged : BOOLEAN]
  /\ drawn \in [buffer : Buffers \cup {NoBuffer}, bounds : Sizes \cup {0}]
ViewTypes ==
  /\ owned \in BOOLEAN /\ inMap \in BOOLEAN /\ registered \in BOOLEAN /\ surface \in BOOLEAN
  /\ attached \in BOOLEAN /\ platform \in {"idle", "detaching", "dropping"}
  /\ layout \in Sizes /\ frozen \in BOOLEAN
TaskTypes == marks \in Nat /\ raster \in Seq(RasterTasks) /\ asked \in BOOLEAN
EventTypes ==
  /\ detaches \in Nat /\ switches \in Nat /\ resizes \in Nat
  /\ detaches + switches + resizes <= MaxEvents

LEMMA TypesSplit ==
  TextureTypes <=> ImageTypes /\ SourceTypes /\ PaintTypes /\ ViewTypes /\ TaskTypes /\ EventTypes
<1>1. {last, parked, image} \subseteq Buffers \cup {NoBuffer} <=>
        /\ last \in Buffers \cup {NoBuffer} /\ parked \in Buffers \cup {NoBuffer}
        /\ image \in Buffers \cup {NoBuffer}
  OBVIOUS
<1>2. {external, hasFrame, owned, inMap, registered, surface, attached, asked, frozen}
        \subseteq BOOLEAN <=>
        /\ external \in BOOLEAN /\ hasFrame \in BOOLEAN /\ owned \in BOOLEAN
        /\ inMap \in BOOLEAN /\ registered \in BOOLEAN /\ surface \in BOOLEAN
        /\ attached \in BOOLEAN /\ asked \in BOOLEAN /\ frozen \in BOOLEAN
  OBVIOUS
<1>3. newSeq \in Nat => newSeq \in Int
  OBVIOUS
<1> QED
  BY <1>1, <1>2, <1>3
  DEF TextureTypes, TypeOK, ImageTypes, SourceTypes, PaintTypes, ViewTypes, TaskTypes, EventTypes

LEMMA TypesSplitNext ==
  ASSUME ImageTypes', SourceTypes', PaintTypes', ViewTypes', TaskTypes', EventTypes'
  PROVE  TextureTypes'
BY TypesSplit, PTL

LEMMA ImagesKept == ASSUME ImageTypes, UNCHANGED imageVars PROVE ImageTypes'
BY DEF ImageTypes, imageVars
LEMMA SourceKept ==
  ASSUME SourceTypes, UNCHANGED <<source, external, last, parked, newSeq, paintSeq, hasFrame>>
  PROVE  SourceTypes'
BY DEF SourceTypes
LEMMA PaintKept == ASSUME PaintTypes, UNCHANGED <<image, size, drawn>> PROVE PaintTypes'
BY DEF PaintTypes
LEMMA ViewKept == ASSUME ViewTypes, UNCHANGED viewVars PROVE ViewTypes'
BY DEF ViewTypes, viewVars
LEMMA TasksKept == ASSUME TaskTypes, UNCHANGED taskVars PROVE TaskTypes'
BY DEF TaskTypes, taskVars
LEMMA EventsKept == ASSUME EventTypes, UNCHANGED eventVars PROVE EventTypes'
BY DEF EventTypes, eventVars

\* The numbers of buffers, frames and sizes.
LEMMA BufferFacts ==
  /\ NoBuffer.n = 0 /\ NoBuffer.size = 0 /\ NoBuffer \notin Buffers
  /\ \A b \in Buffers \cup {NoBuffer} : b.n \in Nat /\ b.size \in Sizes \cup {0}
  /\ \A b \in Buffers : b.n \in Nat \ {0} /\ b.size \in Sizes
  /\ QueueSizes \subseteq Nat /\ MaxFrames \in Nat /\ MaxEvents \in Nat
  /\ \A i \in Sizes : i \in Nat \ {0}
<1>1. QueueSizes \subseteq Nat /\ MaxFrames \in Nat /\ MaxEvents \in Nat
  BY TextureAssumption
<1>2. \A i \in Sizes : i \in Nat \ {0}
  BY <1>1 DEF Sizes
<1>3. \A b \in Buffers : b.n \in Nat \ {0} /\ b.size \in Sizes
  BY <1>1 DEF Buffers
<1>4. NoBuffer.n = 0 /\ NoBuffer.size = 0
  BY DEF NoBuffer
<1> QED
  BY <1>1, <1>2, <1>3, <1>4

LEMMA RunTypes ==
  ASSUME TaskTypes, NEW task, Run(task), marks' \in Nat, asked' \in BOOLEAN
  PROVE  TaskTypes'
BY TailFacts DEF TaskTypes, Run

LEMMA PostTypes ==
  ASSUME TaskTypes, NEW tasks \in Seq(RasterTasks), PostRaster(tasks),
         marks' \in Nat, asked' \in BOOLEAN
  PROVE  TaskTypes'
BY ConcatFacts DEF TaskTypes, PostRaster

LEMMA ReplaceTypes ==
  ASSUME ImageTypes, SourceTypes, NEW next \in Images \cup {"none"}, ReplaceSource(next),
         UNCHANGED <<capacity, notifying, flushed, window, hasFrame>>, external' \in BOOLEAN
  PROVE  ImageTypes' /\ SourceTypes'
<1>1. << >> \in Seq(Buffers) /\ Len(<< >>) = 0 /\ capacity \in Nat
  BY BufferFacts DEF ImageTypes
<1>2. queue' \in [Images -> Seq(Buffers)] /\ \A i \in Images : Len(queue'[i]) <= capacity
  BY <1>1 DEF ImageTypes, ReplaceSource
<1>3. listener' \in [Images -> {"frame", "default"}]
  BY DEF ImageTypes, ReplaceSource
<1>4. ImageTypes'
  BY <1>2, <1>3 DEF ImageTypes
<1>5. SourceTypes'
  BY DEF SourceTypes, ReplaceSource
<1> QED
  BY <1>4, <1>5

\* A queue after some of its oldest buffers are gone.
LEMMA DropTypes ==
  ASSUME ImageTypes, NEW i \in Images, NEW n \in Nat,
         queue' = [queue EXCEPT ![i] = DropFirst(n, @)],
         UNCHANGED <<capacity, listener, flushed, window>>, notifying' \subseteq Images
  PROVE  ImageTypes'
<1>1. queue[i] \in Seq(Buffers) /\ Len(queue[i]) <= capacity /\ Len(queue[i]) \in Nat
      /\ capacity \in Nat
  BY BufferFacts DEF ImageTypes
<1>2. DropFirst(n, queue[i]) \in Seq(Buffers) /\ Len(DropFirst(n, queue[i])) <= capacity
  <2>1. /\ DropFirst(n, queue[i]) \in Seq(Buffers)
        /\ Len(DropFirst(n, queue[i])) =
             IF n <= Len(queue[i]) THEN Len(queue[i]) - n ELSE 0
    BY <1>1, DropFirstFacts
  <2> QED
    BY <1>1, <2>1
<1>3. queue' \in [Images -> Seq(Buffers)] /\ \A j \in Images : Len(queue'[j]) <= capacity
  BY <1>2 DEF ImageTypes
<1> QED
  BY <1>3 DEF ImageTypes

LEMMA ProducerTypes ==
  ASSUME TextureTypes, NEW i \in Images, Producer(i)
  PROVE  TextureTypes'
<1>1. ImageTypes /\ SourceTypes /\ PaintTypes /\ ViewTypes /\ TaskTypes /\ EventTypes
  BY TypesSplit
<1>2. CASE Flush(i)
  <2>1. /\ ~Stalled(i) /\ CanProduce(i) /\ flushed < MaxFrames /\ flushed' = flushed + 1
        /\ queue' = [queue EXCEPT ![i] = Append(@, [n |-> flushed', size |-> window])]
        /\ notifying' = notifying \cup {i}
        /\ UNCHANGED <<capacity, listener, window, textureVars, viewVars, taskVars, eventVars>>
    BY <1>2 DEF Flush
  <2>2. [n |-> flushed', size |-> window] \in Buffers /\ flushed' \in 0 .. MaxFrames
    BY <1>1, <2>1, BufferFacts DEF ImageTypes, Buffers
  <2>3. queue[i] \in Seq(Buffers) /\ Len(queue[i]) < capacity
    <3>1. InUse(i) >= Len(queue[i]) /\ capacity \in Nat /\ InUse(i) \in Nat
          /\ Len(queue[i]) \in Nat /\ queue[i] \in Seq(Buffers)
      BY <1>1, BufferFacts DEF ImageTypes, InUse, One
    <3> QED
      BY <2>1, <3>1 DEF Stalled
  <2>4. queue' \in [Images -> Seq(Buffers)] /\ \A j \in Images : Len(queue'[j]) <= capacity
    <3>1. /\ Append(queue[i], [n |-> flushed', size |-> window]) \in Seq(Buffers)
          /\ Len(Append(queue[i], [n |-> flushed', size |-> window])) <= capacity
      BY <1>1, <2>2, <2>3, AppendFacts, BufferFacts DEF ImageTypes
    <3> QED
      BY <1>1, <2>1, <3>1 DEF ImageTypes
  <2>5. ImageTypes'
    BY <1>1, <2>1, <2>2, <2>4 DEF ImageTypes
  <2> QED
    BY <1>1, <2>1, <2>5, SourceKept, PaintKept, ViewKept, TasksKept, EventsKept, TypesSplitNext
    DEF textureVars
<1>3. CASE FrameAvailable(i)
  <2>1. /\ notifying' = notifying \ {i}
        /\ UNCHANGED <<capacity, listener, flushed, window, textureVars, viewVars, raster,
                       asked, eventVars>>
        /\ \/ marks' = marks + One(inMap) /\ UNCHANGED queue
           \/ queue' = [queue EXCEPT ![i] = DropFirst(1, @)] /\ UNCHANGED marks
    BY <1>3 DEF FrameAvailable
  <2>2. notifying' \subseteq Images
    BY <1>1, <2>1 DEF ImageTypes
  <2>3. ImageTypes'
    <3>1. CASE UNCHANGED queue
      BY <1>1, <2>1, <2>2, <3>1 DEF ImageTypes
    <3> QED
      BY <1>1, <2>1, <2>2, <3>1, DropTypes
  <2>4. TaskTypes'
    BY <1>1, <2>1 DEF TaskTypes, One
  <2> QED
    BY <1>1, <2>1, <2>3, <2>4, SourceKept, PaintKept, ViewKept, EventsKept, TypesSplitNext
    DEF textureVars
<1> QED
  BY <1>2, <1>3 DEF Producer

LEMMA PlatformTypes ==
  ASSUME TextureTypes, PlatformTask \/ NotifyDestroyed \/ NotifyCreate
  PROVE  TextureTypes'
<1>1. ImageTypes /\ SourceTypes /\ PaintTypes /\ ViewTypes /\ TaskTypes /\ EventTypes
  BY TypesSplit
<1>2. UNCHANGED <<imageVars, textureVars>>
  BY DEF PlatformTask, MarkTask, UnregisterAll, EraseFromMap, NotifyDestroyed, NotifyCreate
<1>3. ImageTypes' /\ SourceTypes' /\ PaintTypes'
  BY <1>1, <1>2, ImagesKept, SourceKept, PaintKept DEF textureVars
<1>4. ViewTypes'
  BY <1>1 DEF PlatformTask, MarkTask, UnregisterAll, EraseFromMap, NotifyDestroyed,
     NotifyCreate, ViewTypes, viewVars
<1>5. EventTypes'
  BY <1>1, TextureAssumption DEF PlatformTask, MarkTask, UnregisterAll, EraseFromMap,
     NotifyDestroyed, NotifyCreate, EventTypes, eventVars, MoreEvents
<1>6. TaskTypes'
  <2>1. /\ <<"mark">> \in Seq(RasterTasks) /\ << >> \in Seq(RasterTasks)
        /\ <<"teardown">> \in Seq(RasterTasks) /\ <<"unregister">> \in Seq(RasterTasks)
        /\ <<"register", "setup">> \in Seq(RasterTasks) /\ <<"setup">> \in Seq(RasterTasks)
    BY DEF RasterTasks
  <2>2. CASE MarkTask
    <3>1. marks' \in Nat /\ asked' \in BOOLEAN
      BY <1>1, <2>2 DEF MarkTask, TaskTypes
    <3> QED
      BY <1>1, <2>1, <2>2, <3>1, PostTypes DEF MarkTask
  <2>3. CASE NotifyDestroyed \/ UnregisterAll \/ NotifyCreate
    <3>1. marks' \in Nat /\ asked' \in BOOLEAN
      BY <1>1, <2>3 DEF NotifyDestroyed, UnregisterAll, NotifyCreate, TaskTypes
    <3> QED
      BY <1>1, <2>1, <2>3, <3>1, PostTypes DEF NotifyDestroyed, UnregisterAll, NotifyCreate
  <2>4. CASE EraseFromMap
    BY <1>1, <2>4, TasksKept DEF EraseFromMap
  <2> QED
    BY <2>2, <2>3, <2>4 DEF PlatformTask
<1> QED
  BY <1>3, <1>4, <1>5, <1>6, TypesSplitNext

LEMMA ClientTypes ==
  ASSUME TextureTypes, Client \/ DrawFrame
  PROVE  TextureTypes'
<1>1. ImageTypes /\ SourceTypes /\ PaintTypes /\ ViewTypes /\ TaskTypes /\ EventTypes
  BY TypesSplit
<1>2. resizes + 1 \in Sizes
  BY <1>1, BufferFacts DEF EventTypes, Sizes
<1>3. CASE NotifyDestroyed \/ NotifyCreate
  BY <1>3, PlatformTypes
<1>4. CASE \E task \in {"setImage", "reset", "resetNew"} : SwitchImage(task)
  <2>1. PICK task \in {"setImage", "reset", "resetNew"} : SwitchImage(task)
    BY <1>4
  <2>2. TaskTypes'
    <3>1. <<task>> \in Seq(RasterTasks)
      BY DEF RasterTasks
    <3>2. PostRaster(<<task>>) /\ marks' \in Nat /\ asked' \in BOOLEAN
      BY <1>1, <2>1 DEF SwitchImage, TaskTypes
    <3> QED
      BY <1>1, <3>1, <3>2, PostTypes
  <2>3. EventTypes'
    BY <1>1, <2>1, BufferFacts DEF SwitchImage, MoreEvents, EventTypes
  <2> QED
    BY <1>1, <2>1, <2>2, <2>3, ImagesKept, SourceKept, PaintKept, ViewKept, TypesSplitNext
    DEF SwitchImage, textureVars
<1>5. CASE UnRegisterExternalTexture
  <2>1. /\ switches' = switches + 1 /\ MoreEvents /\ UNCHANGED <<detaches, resizes>>
        /\ PostRaster(<<"unregister">>) /\ UNCHANGED <<marks, asked>>
        /\ owned' = FALSE /\ platform' = "dropping"
        /\ UNCHANGED <<inMap, registered, surface, attached, layout, frozen>>
        /\ UNCHANGED <<image, size, drawn>>
        /\ UNCHANGED <<capacity, notifying, flushed, window, external, hasFrame>>
        /\ \/ UNCHANGED <<queue, listener, source, last, parked, newSeq, paintSeq>>
           \/ ReplaceSource("none")
    BY <1>5 DEF UnRegisterExternalTexture
  <2>2. ImageTypes' /\ SourceTypes'
    <3>1. CASE UNCHANGED <<queue, listener, source, last, parked, newSeq, paintSeq>>
      BY <1>1, <2>1, <3>1, ImagesKept, SourceKept DEF imageVars
    <3>2. external' \in BOOLEAN
      BY <1>1, <2>1 DEF SourceTypes
    <3> QED
      BY <1>1, <2>1, <3>1, <3>2, ReplaceTypes
  <2>3. TaskTypes'
    <3>1. <<"unregister">> \in Seq(RasterTasks)
      BY DEF RasterTasks
    <3>2. marks' \in Nat /\ asked' \in BOOLEAN
      BY <1>1, <2>1 DEF TaskTypes
    <3> QED
      BY <1>1, <2>1, <3>1, <3>2, PostTypes
  <2>4. EventTypes'
    BY <1>1, <2>1, BufferFacts DEF MoreEvents, EventTypes
  <2>5. ViewTypes'
    BY <1>1, <2>1 DEF ViewTypes
  <2> QED
    BY <1>1, <2>1, <2>2, <2>3, <2>4, <2>5, PaintKept, TypesSplitNext
<1>6. CASE NotifyResizing
  <2>1. PaintTypes'
    BY <1>1, <1>6 DEF NotifyResizing, PaintTypes
  <2>2. EventTypes'
    BY <1>1, <1>6, BufferFacts DEF NotifyResizing, MoreEvents, EventTypes
  <2> QED
    BY <1>1, <1>6, <2>1, <2>2, ImagesKept, SourceKept, ViewKept, TasksKept, TypesSplitNext
    DEF NotifyResizing
<1>7. CASE SetProducerWindowSize
  <2>1. ImageTypes'
    BY <1>1, <1>2, <1>7 DEF SetProducerWindowSize, ImageTypes
  <2> QED
    BY <1>1, <1>7, <2>1, SourceKept, PaintKept, ViewKept, TasksKept, EventsKept, TypesSplitNext
    DEF SetProducerWindowSize, textureVars
<1>8. CASE ScheduleFrame \/ Layout \/ Freeze
  <2>1. ViewTypes'
    BY <1>1, <1>2, <1>8 DEF ScheduleFrame, Layout, Freeze, ViewTypes, viewVars
  <2>2. TaskTypes'
    BY <1>1, <1>8 DEF ScheduleFrame, Layout, Freeze, TaskTypes
  <2> QED
    BY <1>1, <1>8, <2>1, <2>2, ImagesKept, SourceKept, PaintKept, EventsKept, TypesSplitNext
    DEF ScheduleFrame, Layout, Freeze, textureVars
<1>9. CASE DrawFrame
  <2>1. <<"draw">> \in Seq(RasterTasks)
    BY DEF RasterTasks
  <2>2. PostRaster(<<"draw">>) /\ marks' \in Nat /\ asked' \in BOOLEAN
    BY <1>1, <1>9 DEF DrawFrame, TaskTypes
  <2>3. TaskTypes'
    BY <1>1, <2>1, <2>2, PostTypes
  <2> QED
    BY <1>1, <1>9, <2>3, ImagesKept, SourceKept, PaintKept, ViewKept, EventsKept, TypesSplitNext
    DEF DrawFrame, textureVars
<1> QED
  BY <1>3, <1>4, <1>5, <1>6, <1>7, <1>8, <1>9 DEF Client

LEMMA RegistryTypes ==
  ASSUME TextureTypes,
         RegisterTexture \/ UnregisterTexture \/ Setup \/ Teardown \/ SetExternalNativeImage \/ Reset
  PROVE  TextureTypes'
<1>1. ImageTypes /\ SourceTypes /\ PaintTypes /\ ViewTypes /\ TaskTypes /\ EventTypes
  BY TypesSplit
<1>2. EventTypes'
  BY <1>1, EventsKept DEF RegisterTexture, UnregisterTexture, Setup, Teardown,
     SetExternalNativeImage, Reset
<1>3. TaskTypes'
  <2>1. marks' \in Nat /\ asked' \in BOOLEAN
    BY <1>1 DEF RegisterTexture, UnregisterTexture, Setup, Teardown, SetExternalNativeImage,
       Reset, TaskTypes
  <2>2. \E task : Run(task)
    BY DEF RegisterTexture, UnregisterTexture, Setup, Teardown, SetExternalNativeImage, Reset
  <2> QED
    BY <1>1, <2>1, <2>2, RunTypes
<1>4. ViewTypes'
  BY ZenonT(40), <1>1 DEF RegisterTexture, UnregisterTexture, Setup, Teardown, SetExternalNativeImage,
     Reset, ViewTypes, viewVars
<1>5. PaintTypes'
  BY <1>1 DEF RegisterTexture, UnregisterTexture, Setup, Teardown, SetExternalNativeImage,
     Reset, PaintTypes, textureVars
<1>6. ImageTypes' /\ SourceTypes'
  <2>1. CASE RegisterTexture
    BY <1>1, <2>1, ImagesKept, SourceKept DEF RegisterTexture, textureVars
  <2>2. CASE Setup \/ Teardown
    <3>1. listener' \in [Images -> {"frame", "default"}]
      BY <1>1, <2>2 DEF Setup, Teardown, SetListener, ImageTypes
    <3>2. ImageTypes'
      BY <1>1, <2>2, <3>1 DEF Setup, Teardown, ImageTypes
    <3> QED
      BY <1>1, <2>2, <3>2, SourceKept DEF Setup, Teardown, textureVars
  <2>3. CASE UnregisterTexture \/ SetExternalNativeImage \/ Reset
    <3>1. UNCHANGED <<capacity, notifying, flushed, window, hasFrame>> /\ external' \in BOOLEAN
      BY <1>1, <2>3 DEF UnregisterTexture, SetExternalNativeImage, Reset, SourceTypes
    <3>2. \/ \E next \in Images \cup {"none"} : ReplaceSource(next)
          \/ UNCHANGED <<queue, listener, source, external, last, parked, newSeq, paintSeq>>
      BY <2>3 DEF UnregisterTexture, SetExternalNativeImage, Reset, Images
    <3>3. CASE UNCHANGED <<queue, listener, source, external, last, parked, newSeq, paintSeq>>
      BY <1>1, <3>1, <3>3, ImagesKept, SourceKept DEF imageVars
    <3> QED
      BY <1>1, <3>1, <3>2, <3>3, ReplaceTypes
  <2> QED
    BY <2>1, <2>2, <2>3
<1> QED
  BY <1>2, <1>3, <1>4, <1>5, <1>6, TypesSplitNext

LEMMA WaitingTypes ==
  ASSUME TextureTypes
  PROVE  /\ Waiting \in Seq(Buffers) /\ Len(Waiting) \in Nat
         /\ source \in Images => Waiting = queue[source] /\ source # "none"
         /\ source # "none" => source \in Images
         /\ source = "none" => Waiting = << >>
<1>1. ImageTypes /\ SourceTypes
  BY TypesSplit
<1>2. "none" \notin Images
  BY DEF Images
<1> QED
  BY <1>1, <1>2 DEF ImageTypes, SourceTypes, Waiting

\* What MarkNewFrameAvailable does to the queue and the sequence numbers.
LEMMA MarkFacts ==
  ASSUME TextureTypes, MarkNewFrameAvailable
  PROVE  \/ ~registered /\ UNCHANGED <<queue, newSeq, paintSeq, hasFrame>>
         \/ /\ newSeq' = newSeq + 1 /\ hasFrame' = TRUE
            /\ UNCHANGED <<queue, paintSeq>>
         \/ \E n \in Nat \ {0} :
              /\ newSeq' = newSeq + 1 /\ hasFrame' = TRUE /\ source \in Images
              /\ queue' = [queue EXCEPT ![source] = DropFirst(n, @)]
              /\ paintSeq' = IF n > Len(queue[source]) THEN newSeq + 1 ELSE paintSeq + n
<1>1. CASE ~registered
  BY <1>1 DEF MarkNewFrameAvailable
<1>2. CASE registered
  <2> DEFINE late == newSeq + 1 - paintSeq - MaxJankFrame + 1
             skipping == source # "none" /\ MaxJankFrame > 1 /\ late > 0
  <2>1. /\ newSeq' = newSeq + 1 /\ hasFrame' = TRUE
        /\ queue' = IF skipping THEN [queue EXCEPT ![source] = DropFirst(late, @)] ELSE queue
        /\ paintSeq' = IF ~skipping THEN paintSeq
                       ELSE IF late > Len(queue[source]) THEN newSeq + 1 ELSE paintSeq + late
    BY <1>2 DEF MarkNewFrameAvailable
  <2>2. late \in Int
    <3>1. newSeq \in Int /\ paintSeq \in Int /\ capacity \in Int
      <4>1. newSeq \in Nat /\ paintSeq \in Nat /\ capacity \in Nat
        BY TypesSplit, BufferFacts DEF SourceTypes, ImageTypes
      <4> QED
        BY <4>1
    <3>2. MaxJankFrame \in Int
      BY <3>1 DEF MaxJankFrame
    <3> QED
      BY <3>1, <3>2
  <2> HIDE DEF late
  <2>3. CASE skipping
    <3>1. late \in Nat \ {0} /\ source \in Images
      BY <2>2, <2>3, WaitingTypes
    <3> QED
      BY <2>1, <2>3, <3>1
  <2>4. CASE ~skipping
    BY <2>1, <2>4
  <2> QED
    BY <2>3, <2>4
<1> QED
  BY <1>1, <1>2, TypesSplit DEF ViewTypes

LEMMA FinishFacts ==
  ASSUME TextureTypes, NEW picture \in Buffers \cup {NoBuffer}, NEW bufferSize \in Sizes \cup {0},
         NEW bufferChanged \in BOOLEAN, FinishPaint(picture, bufferSize, bufferChanged)
  PROVE  /\ drawn' \in [buffer : Buffers \cup {NoBuffer}, bounds : Sizes \cup {0}]
         /\ size' \in [changing : BOOLEAN, frames : 0 .. MAX_SIZE_CHANGE_FRAMES,
                       buffer : Sizes \cup {0}, draw : Sizes \cup {0}, bufferChanged : BOOLEAN]
         /\ drawn'.buffer = picture
         /\ ~size.changing => ~size'.changing
<1>1. /\ layout \in Sizes /\ size.draw \in Sizes \cup {0} /\ size.changing \in BOOLEAN
      /\ size.frames \in 0 .. MAX_SIZE_CHANGE_FRAMES /\ MAX_SIZE_CHANGE_FRAMES \in Nat
  BY TypesSplit, TextureAssumption DEF ViewTypes, PaintTypes
<1>2. PICK drawChanged \in BOOLEAN, keepOld \in BOOLEAN, frames \in Nat, done \in BOOLEAN :
        /\ frames = size.frames + 1
        /\ ~done => frames <= MAX_SIZE_CHANGE_FRAMES
        /\ drawn' = [buffer |-> picture, bounds |-> IF keepOld THEN size.draw ELSE layout]
        /\ size' = [changing |-> size.changing /\ ~done,
                    frames |-> IF size.changing /\ ~done THEN frames ELSE
                               IF size.changing THEN 0 ELSE size.frames,
                    buffer |-> bufferSize,
                    draw |-> IF keepOld THEN size.draw ELSE layout,
                    bufferChanged |-> bufferChanged]
  <2> DEFINE drawChanged == layout # size.draw
             keepOld == size.changing /\ drawChanged /\ ~bufferChanged
             frames == size.frames + 1
             done == (bufferChanged /\ drawChanged) \/ frames > MAX_SIZE_CHANGE_FRAMES
  <2>1. drawChanged \in BOOLEAN /\ keepOld \in BOOLEAN /\ frames \in Nat /\ done \in BOOLEAN
    BY <1>1
  <2>2. ~done => frames <= MAX_SIZE_CHANGE_FRAMES
    BY <1>1
  <2> QED
    BY <2>1, <2>2 DEF FinishPaint
<1>3. (IF size.changing /\ ~done THEN frames ELSE IF size.changing THEN 0 ELSE size.frames)
        \in 0 .. MAX_SIZE_CHANGE_FRAMES
  BY <1>1, <1>2
<1> QED
  BY <1>1, <1>2, <1>3

\* What Paint acquires, and what it draws when it acquires nothing.
LEMMA AcquiredTypes ==
  ASSUME TextureTypes
  PROVE  /\ Acquired \in Buffers \cup {NoBuffer} /\ Acquired.size \in Sizes \cup {0}
         /\ OldImage \in Buffers \cup {NoBuffer} /\ Differs \in BOOLEAN
         /\ size.buffer \in Sizes \cup {0} /\ size.bufferChanged \in BOOLEAN
         /\ SeqAfterAcquire \in Nat
<1>1. Waiting \in Seq(Buffers) /\ SourceTypes /\ PaintTypes
  BY TypesSplit, WaitingTypes
<1>2. Acquired \in Buffers \cup {NoBuffer}
  BY <1>1 DEF Acquired, SourceTypes
<1>3. OldImage \in Buffers \cup {NoBuffer} /\ SeqAfterAcquire \in Nat
  BY <1>1 DEF OldImage, SeqAfterAcquire, One, SourceTypes, PaintTypes
<1> QED
  BY <1>1, <1>2, <1>3, BufferFacts DEF Differs, PaintTypes

\* PaintNext takes m buffers from the queue and draws the last of them, or with an
\* empty queue the parked one.
Shown(m, next, seq) ==
  /\ queue' \in [Images -> Seq(Buffers)]
  /\ \A i \in Images \ {source} : queue'[i] = queue[i]
  /\ Len(queue'[source]) = Len(Waiting) - m
  /\ \A k \in DOMAIN queue'[source] :
       k \in Nat /\ m + k \in DOMAIN Waiting /\ queue'[source][k] = Waiting[m + k]
  /\ m = 0 => Waiting = << >> /\ next = parked
  /\ m > 0 => m \in DOMAIN Waiting /\ next = Waiting[m]
  /\ last' = next /\ image' = next /\ parked' = NoBuffer
  /\ paintSeq' = seq /\ Reschedule(seq)
  /\ \/ seq = newSeq /\ m = Len(Waiting)
     \/ m > 0 /\ seq = SeqAfterAcquire + m
     \/ m = 0 /\ seq = SeqAfterAcquire + 1
  /\ FinishPaint(next, Acquired.size, Differs)

LEMMA ShowFacts ==
  ASSUME TextureTypes, PaintNext
  PROVE  /\ source \in Images
         /\ \E m \in Nat, next \in Buffers, seq \in Nat : Shown(m, next, seq)
<1> DEFINE rest == DropFirst(1, Waiting)
           late == Max0(newSeq - (SeqAfterAcquire + 1 + MAX_DELAYED_FRAMES))
           skipped == AtMost(late, Len(rest))
           next == IF skipped = 0 THEN Acquired ELSE rest[skipped]
           seq == IF late > Len(rest) THEN newSeq ELSE SeqAfterAcquire + 1 + skipped
<1>1. /\ source # "none" /\ Acquired # NoBuffer /\ parked' = NoBuffer
      /\ queue' = [queue EXCEPT ![source] = DropFirst(skipped, rest)]
      /\ last' = next /\ image' = next /\ paintSeq' = seq /\ Reschedule(seq)
      /\ FinishPaint(next, Acquired.size, Differs)
  BY DEF PaintNext, SetOldDlImage
<1>2. /\ source \in Images /\ Waiting = queue[source] /\ Waiting \in Seq(Buffers)
      /\ Len(Waiting) \in Nat
  BY <1>1, WaitingTypes
<1>3. /\ rest \in Seq(Buffers) /\ Len(rest) \in Nat
      /\ Len(rest) = IF 1 <= Len(Waiting) THEN Len(Waiting) - 1 ELSE 0
      /\ \A k \in DOMAIN rest : k \in Nat /\ 1 + k \in DOMAIN Waiting /\ rest[k] = Waiting[1 + k]
  <2>1. Waiting \in Seq(Buffers) /\ 1 \in Nat
    BY <1>2
  <2> HIDE DEF rest
  <2>2. /\ DropFirst(1, Waiting) \in Seq(Buffers)
        /\ Len(DropFirst(1, Waiting)) = IF 1 <= Len(Waiting) THEN Len(Waiting) - 1 ELSE 0
        /\ \A k \in DOMAIN DropFirst(1, Waiting) :
             k \in Nat /\ 1 + k \in DOMAIN Waiting /\ DropFirst(1, Waiting)[k] = Waiting[1 + k]
    BY ONLY <2>1, DropFirstFacts
  <2>3. rest = DropFirst(1, Waiting)
    BY DEF rest
  <2> QED
    BY <2>2, <2>3
<1>4. newSeq \in Nat /\ SeqAfterAcquire \in Nat /\ MAX_DELAYED_FRAMES \in Nat
  BY TypesSplit, AcquiredTypes, TextureAssumption DEF SourceTypes
<1>5. late \in Nat
  BY <1>4 DEF Max0
<1> HIDE DEF rest, late
<1>6. skipped \in Nat /\ skipped <= Len(rest) /\ (late > Len(rest) => skipped = Len(rest))
  BY <1>3, <1>5 DEF AtMost
<1> HIDE DEF skipped
<1>7. /\ DropFirst(skipped, rest) \in Seq(Buffers)
      /\ Len(DropFirst(skipped, rest)) = Len(rest) - skipped
      /\ \A k \in DOMAIN DropFirst(skipped, rest) :
           /\ k \in Nat /\ skipped + k \in DOMAIN rest
           /\ DropFirst(skipped, rest)[k] = rest[skipped + k]
  <2>1. /\ DropFirst(skipped, rest) \in Seq(Buffers)
        /\ Len(DropFirst(skipped, rest)) = IF skipped <= Len(rest) THEN Len(rest) - skipped ELSE 0
        /\ \A k \in DOMAIN DropFirst(skipped, rest) :
             /\ k \in Nat /\ skipped + k \in DOMAIN rest
             /\ DropFirst(skipped, rest)[k] = rest[skipped + k]
    BY <1>3, <1>6, DropFirstFacts
  <2> QED
    BY <1>6, <2>1
<1>8. /\ queue' \in [Images -> Seq(Buffers)] /\ queue'[source] = DropFirst(skipped, rest)
      /\ \A i \in Images \ {source} : queue'[i] = queue[i]
  BY <1>1, <1>2, <1>7, TypesSplit DEF ImageTypes
<1>9. CASE Waiting = << >>
  <2>1. Len(Waiting) = 0 /\ Len(rest) = 0 /\ skipped = 0
    BY <1>3, <1>6, <1>9
  <2>2. next = parked /\ next = Acquired
    BY <1>9, <2>1 DEF Acquired
  <2>3. next \in Buffers
    BY <1>1, <2>2, AcquiredTypes
  <2>4. seq \in Nat /\ (seq = newSeq \/ seq = SeqAfterAcquire + 1)
    BY <1>4, <2>1
  <2> HIDE DEF next, seq
  <2>5. Len(queue'[source]) = 0 /\ queue'[source] = << >>
    BY <1>7, <1>8, <2>1
  <2>6. Shown(0, next, seq)
    BY <1>1, <1>2, <1>8, <1>9, <2>1, <2>2, <2>4, <2>5 DEF Shown
  <2> QED
    BY <1>2, <2>3, <2>4, <2>6
<1>10. CASE Waiting # << >>
  <2>1. Len(Waiting) >= 1 /\ Len(rest) = Len(Waiting) - 1 /\ Acquired = Waiting[1]
        /\ 1 \in DOMAIN Waiting
    BY <1>2, <1>3, <1>10 DEF Acquired
  <2>2. 1 + skipped \in DOMAIN Waiting /\ 1 + skipped \in Nat /\ next = Waiting[1 + skipped]
    <3>1. CASE skipped = 0
      BY <2>1, <3>1
    <3>2. CASE skipped # 0
      <4>1. skipped \in DOMAIN rest
        BY <1>3, <1>6, <3>2
      <4> QED
        BY <1>3, <3>2, <4>1
    <3> QED
      BY <3>1, <3>2
  <2>3. next \in Buffers
    BY <1>2, <2>2
  <2>4. /\ seq \in Nat
        /\ \/ seq = newSeq /\ 1 + skipped = Len(Waiting)
           \/ seq = SeqAfterAcquire + (1 + skipped)
    BY <1>2, <1>4, <1>6, <2>1
  <2> HIDE DEF next, seq
  <2>5. Len(queue'[source]) = Len(Waiting) - (1 + skipped)
    BY <1>2, <1>6, <1>7, <1>8, <2>1
  <2>6. \A k \in DOMAIN queue'[source] :
          /\ k \in Nat /\ (1 + skipped) + k \in DOMAIN Waiting
          /\ queue'[source][k] = Waiting[(1 + skipped) + k]
    <3> SUFFICES ASSUME NEW k \in DOMAIN queue'[source]
                 PROVE  /\ k \in Nat /\ (1 + skipped) + k \in DOMAIN Waiting
                        /\ queue'[source][k] = Waiting[(1 + skipped) + k]
      OBVIOUS
    <3>1. /\ k \in Nat /\ skipped + k \in DOMAIN rest
          /\ queue'[source][k] = rest[skipped + k]
      BY <1>7, <1>8
    <3>2. 1 + (skipped + k) \in DOMAIN Waiting /\ rest[skipped + k] = Waiting[1 + (skipped + k)]
      BY <1>3, <3>1
    <3>3. 1 + (skipped + k) = (1 + skipped) + k
      BY <1>6, <3>1
    <3> QED
      BY <3>1, <3>2, <3>3
  <2>7. 1 + skipped > 0
    BY <1>6
  <2>8. Shown(1 + skipped, next, seq)
    BY <1>1, <1>8, <1>10, <2>2, <2>4, <2>5, <2>6, <2>7 DEF Shown
  <2> QED
    BY <1>2, <2>2, <2>3, <2>4, <2>8
<1> QED
  BY <1>9, <1>10

\* What is known of the three ways to paint.
LEMMA OldFacts ==
  ASSUME TextureTypes, PaintOld
  PROVE  /\ UNCHANGED <<queue, last, parked, newSeq, marks>> /\ image' = OldImage
         /\ paintSeq' = paintSeq \/ (paintSeq' = newSeq /\ Waiting = << >>)
         /\ FinishPaint(OldImage, size.buffer, size.bufferChanged)
BY DEF PaintOld

LEMMA ParkFacts ==
  ASSUME TextureTypes, PaintAndPark
  PROVE  /\ UNCHANGED <<last, newSeq, marks>> /\ image' = OldImage
         /\ source \in Images /\ size.changing
         /\ Acquired \in Buffers /\ parked' = Acquired
         /\ queue' = [queue EXCEPT ![source] = DropFirst(1, @)]
         /\ paintSeq' \in Nat /\ FinishPaint(OldImage, size.buffer, TRUE)
BY WaitingTypes, AcquiredTypes DEF PaintAndPark, MustPark

LEMMA PaintStepTypes ==
  ASSUME TextureTypes, Paint
  PROVE  TextureTypes'
<1>1. ImageTypes /\ SourceTypes /\ PaintTypes /\ ViewTypes /\ TaskTypes /\ EventTypes
  BY TypesSplit
<1>2. /\ Run("draw") /\ UNCHANGED <<viewVars, asked, eventVars, source, external, hasFrame>>
      /\ UNCHANGED <<capacity, listener, notifying, flushed, window>>
      /\ \/ PaintOld \/ PaintAndPark \/ PaintNext
         \/ UNCHANGED <<queue, last, parked, newSeq, paintSeq, image, size, drawn, marks>>
  BY DEF Paint
<1>3. ViewTypes' /\ EventTypes'
  BY <1>1, <1>2, ViewKept, EventsKept
<1>4. asked' \in BOOLEAN
  BY <1>1, <1>2 DEF TaskTypes
<1>5. ASSUME ImageTypes', SourceTypes', PaintTypes', marks' \in Nat
      PROVE  TextureTypes'
  BY <1>1, <1>2, <1>3, <1>4, <1>5, RunTypes, TypesSplitNext
<1>6. CASE UNCHANGED <<queue, last, parked, newSeq, paintSeq, image, size, drawn, marks>>
  <2>1. ImageTypes' /\ SourceTypes' /\ PaintTypes'
    BY <1>1, <1>2, <1>6, ImagesKept, SourceKept, PaintKept DEF imageVars
  <2>2. marks' \in Nat
    BY <1>1, <1>6 DEF TaskTypes
  <2> QED
    BY <1>5, <2>1, <2>2
<1>7. CASE PaintOld
  <2>1. /\ UNCHANGED <<queue, last, parked, newSeq, marks>> /\ image' = OldImage
        /\ paintSeq' = paintSeq \/ paintSeq' = newSeq
        /\ FinishPaint(OldImage, size.buffer, size.bufferChanged)
    BY <1>7, OldFacts
  <2>2. PaintTypes'
    BY <2>1, AcquiredTypes, FinishFacts DEF PaintTypes
  <2>3. ImageTypes'
    BY <1>1, <1>2, <2>1, ImagesKept DEF imageVars
  <2>4. SourceTypes' /\ marks' \in Nat
    BY <1>1, <1>2, <2>1 DEF SourceTypes, TaskTypes
  <2> QED
    BY <1>5, <2>2, <2>3, <2>4
<1>8. CASE PaintAndPark
  <2>1. /\ UNCHANGED <<last, newSeq, marks>> /\ image' = OldImage
        /\ source \in Images /\ Acquired \in Buffers /\ parked' = Acquired
        /\ queue' = [queue EXCEPT ![source] = DropFirst(1, @)]
        /\ paintSeq' \in Nat /\ FinishPaint(OldImage, size.buffer, TRUE)
    BY <1>8, ParkFacts
  <2>2. PaintTypes'
    BY <2>1, AcquiredTypes, FinishFacts DEF PaintTypes
  <2>3. ImageTypes'
    <3>1. notifying' \subseteq Images /\ 1 \in Nat
      BY <1>1, <1>2 DEF ImageTypes
    <3> QED
      BY <1>1, <1>2, <2>1, <3>1, DropTypes
  <2>4. SourceTypes' /\ marks' \in Nat
    BY <1>1, <1>2, <2>1 DEF SourceTypes, TaskTypes
  <2> QED
    BY <1>5, <2>2, <2>3, <2>4
<1>9. CASE PaintNext
  <2>1. PICK m \in Nat, next \in Buffers, seq \in Nat : Shown(m, next, seq)
    BY <1>9, ShowFacts
  <2>2. source \in Images /\ Waiting = queue[source]
    BY <1>9, ShowFacts, WaitingTypes
  <2>3. PaintTypes'
    <3>1. FinishPaint(next, Acquired.size, Differs) /\ image' = next
      BY <2>1 DEF Shown
    <3> QED
      BY <3>1, AcquiredTypes, FinishFacts DEF PaintTypes
  <2>4. ImageTypes'
    <3>1. /\ queue' \in [Images -> Seq(Buffers)]
          /\ \A i \in Images \ {source} : queue'[i] = queue[i]
          /\ Len(queue'[source]) = Len(queue[source]) - m
      BY <2>1, <2>2 DEF Shown
    <3>2. Len(queue[source]) <= capacity /\ Len(queue[source]) \in Nat /\ capacity \in Nat
      BY <1>1, <2>2, BufferFacts DEF ImageTypes
    <3>3. \A i \in Images : Len(queue'[i]) <= capacity
      <4>1. Len(queue'[source]) <= capacity
        BY <3>1, <3>2
      <4>2. \A i \in Images \ {source} : Len(queue'[i]) <= capacity
        BY <1>1, <3>1 DEF ImageTypes
      <4> QED
        BY <4>1, <4>2
    <3> QED
      BY <1>1, <1>2, <3>1, <3>3 DEF ImageTypes
  <2>5. SourceTypes' /\ marks' \in Nat
    <3>1. /\ last' = next /\ parked' = NoBuffer /\ paintSeq' = seq
          /\ newSeq' = newSeq - One(seq < newSeq) /\ marks' = marks + One(seq < newSeq /\ inMap)
      BY <2>1 DEF Shown, Reschedule
    <3>2. newSeq \in Nat /\ marks \in Nat
      BY <1>1 DEF SourceTypes, TaskTypes
    <3>3. newSeq' \in Nat /\ marks' \in Nat
      BY <3>1, <3>2 DEF One
    <3> QED
      BY <1>1, <1>2, <3>1, <3>3 DEF SourceTypes
  <2> QED
    BY <1>5, <2>3, <2>4, <2>5
<1> QED
  BY <1>2, <1>6, <1>7, <1>8, <1>9

LEMMA MarkTypes ==
  ASSUME TextureTypes, MarkNewFrameAvailable
  PROVE  TextureTypes'
<1>1. ImageTypes /\ SourceTypes /\ PaintTypes /\ ViewTypes /\ TaskTypes /\ EventTypes
  BY TypesSplit
<1>2. /\ Run("mark") /\ UNCHANGED <<viewVars, marks, asked, eventVars>>
      /\ UNCHANGED <<source, external, last, parked, image, size, drawn>>
      /\ UNCHANGED <<capacity, listener, notifying, flushed, window>>
  BY DEF MarkNewFrameAvailable
<1>3. PaintTypes' /\ ViewTypes' /\ EventTypes'
  BY <1>1, <1>2, PaintKept, ViewKept, EventsKept
<1>4. TaskTypes'
  BY <1>1, <1>2, RunTypes DEF TaskTypes
<1>5. newSeq' \in Nat /\ paintSeq' \in Nat /\ hasFrame' \in BOOLEAN
  <2>1. newSeq \in Nat /\ paintSeq \in Nat /\ hasFrame \in BOOLEAN
    BY <1>1 DEF SourceTypes
  <2>2. hasFrame' \in BOOLEAN
    BY <2>1, MarkFacts
  <2>3. newSeq' = newSeq \/ newSeq' = newSeq + 1
    BY MarkFacts
  <2>4. \/ paintSeq' = paintSeq \/ paintSeq' = newSeq + 1
        \/ \E n \in Nat : paintSeq' = paintSeq + n
    BY MarkFacts
  <2> QED
    BY <2>1, <2>2, <2>3, <2>4
<1>6. SourceTypes'
  BY <1>1, <1>2, <1>5 DEF SourceTypes
<1>7. ImageTypes'
  <2>1. notifying' \subseteq Images
    BY <1>1, <1>2 DEF ImageTypes
  <2>2. CASE UNCHANGED queue
    BY <1>1, <1>2, <2>2, ImagesKept DEF imageVars
  <2>3. CASE \E n \in Nat : source \in Images /\ queue' = [queue EXCEPT ![source] = DropFirst(n, @)]
    BY <1>1, <1>2, <2>1, <2>3, DropTypes
  <2> QED
    BY <2>2, <2>3, MarkFacts
<1> QED
  BY <1>3, <1>4, <1>6, <1>7, TypesSplitNext

LEMMA TypeStep ==
  ASSUME TextureTypes, [Next]_vars
  PROVE  TextureTypes'
<1>1. CASE UNCHANGED vars
  <2>1. ImageTypes /\ SourceTypes /\ PaintTypes /\ ViewTypes /\ TaskTypes /\ EventTypes
    BY TypesSplit
  <2> QED
    BY <1>1, <2>1, ImagesKept, SourceKept, PaintKept, ViewKept, TasksKept, EventsKept,
       TypesSplitNext
    DEF vars, textureVars
<1>2. CASE RasterThread
  BY <1>2, RegistryTypes, MarkTypes, PaintStepTypes DEF RasterThread
<1> QED
  BY <1>1, <1>2, ProducerTypes, PlatformTypes, ClientTypes DEF Next

LEMMA TypeInit ==
  ASSUME Init
  PROVE  TextureTypes
<1>1. 0 \in 0 .. MaxFrames /\ 1 \in Sizes /\ 0 \in 0 .. MAX_SIZE_CHANGE_FRAMES
      /\ 0 + 0 + 0 <= MaxEvents
  BY TextureAssumption DEF Sizes
<1>2. ImageTypes
  <2>1. queue \in [Images -> Seq(Buffers)] /\ capacity \in Nat
        /\ \A i \in Images : Len(queue[i]) <= capacity
    BY BufferFacts DEF Init
  <2>2. listener \in [Images -> {"frame", "default"}]
    BY DEF Init, Images
  <2> QED
    BY <1>1, <2>1, <2>2 DEF Init, ImageTypes
<1>3. SourceTypes /\ ViewTypes
  BY <1>1 DEF Init, SourceTypes, ViewTypes, Images
<1>4. PaintTypes
  BY <1>1 DEF Init, PaintTypes
<1>5. TaskTypes
  <2>1. <<"register">> \in Seq(RasterTasks)
    BY DEF RasterTasks
  <2> QED
    BY <2>1 DEF Init, TaskTypes
<1>6. EventTypes
  BY <1>1 DEF Init, EventTypes
<1> QED
  BY <1>2, <1>3, <1>4, <1>5, <1>6, TypesSplit

-----------------------------------------------------------------------------
(* Buffers stay in order *)

LEMMA OrderTypes ==
  ASSUME TextureTypes
  PROVE  /\ flushed \in Nat /\ last \in Buffers \cup {NoBuffer} /\ image \in Buffers \cup {NoBuffer}
         /\ parked \in Buffers \cup {NoBuffer} /\ drawn.buffer \in Buffers \cup {NoBuffer}
         /\ \A i \in Images : queue[i] \in Seq(Buffers)
         /\ queue \in [Images -> Seq(Buffers)]
         /\ \A i \in Images : \A k \in DOMAIN queue[i] : k \in Nat /\ queue[i][k].n \in Nat \ {0}
         /\ \A k \in DOMAIN Waiting : k \in Nat \ {0} /\ Waiting[k].n \in Nat \ {0}
<1>1. flushed \in Nat /\ queue \in [Images -> Seq(Buffers)]
  BY TypesSplit, BufferFacts DEF ImageTypes
<1>2. /\ last \in Buffers \cup {NoBuffer} /\ image \in Buffers \cup {NoBuffer}
      /\ parked \in Buffers \cup {NoBuffer} /\ drawn.buffer \in Buffers \cup {NoBuffer}
  BY TypesSplit DEF SourceTypes, PaintTypes
<1>3. \A i \in Images : \A k \in DOMAIN queue[i] : k \in Nat /\ queue[i][k].n \in Nat \ {0}
  BY <1>1, BufferFacts
<1>4. \A k \in DOMAIN Waiting : k \in Nat \ {0} /\ Waiting[k].n \in Nat \ {0}
  BY WaitingTypes, BufferFacts
<1> QED
  BY <1>1, <1>2, <1>3, <1>4

\* What is left of the queue of image i when its d oldest buffers are gone.
Suffix(i, d) ==
  \A k \in DOMAIN queue'[i] :
    k \in Nat /\ d + k \in DOMAIN queue[i] /\ queue'[i][k] = queue[i][d + k]

LEMMA SuffixOrder ==
  ASSUME TextureTypes, QueuesInOrder, UNCHANGED flushed,
         \A i \in Images : \E d \in Nat : Suffix(i, d)
  PROVE  QueuesInOrder'
<1> SUFFICES ASSUME NEW i \in Images
             PROVE  /\ \A k \in DOMAIN queue'[i] : queue'[i][k].n <= flushed
                    /\ \A j, k \in DOMAIN queue'[i] : j < k => queue'[i][j].n < queue'[i][k].n
  BY DEF QueuesInOrder
<1>1. PICK d \in Nat : Suffix(i, d)
  OBVIOUS
<1>2. ASSUME NEW k \in DOMAIN queue'[i] PROVE queue'[i][k].n <= flushed
  BY <1>1 DEF Suffix, QueuesInOrder
<1>3. ASSUME NEW j \in DOMAIN queue'[i], NEW k \in DOMAIN queue'[i], j < k
      PROVE  queue'[i][j].n < queue'[i][k].n
  <2>1. /\ j \in Nat /\ k \in Nat /\ d + j \in DOMAIN queue[i] /\ d + k \in DOMAIN queue[i]
        /\ queue'[i][j] = queue[i][d + j] /\ queue'[i][k] = queue[i][d + k]
    BY <1>1, <1>3 DEF Suffix
  <2>2. d + j < d + k
    BY <1>3, <2>1
  <2> QED
    BY <2>1, <2>2 DEF QueuesInOrder
<1> QED
  BY <1>2, <1>3

LEMMA SuffixCases ==
  ASSUME TextureTypes, NEW i \in Images
  PROVE  /\ queue'[i] = queue[i] => Suffix(i, 0)
         /\ queue'[i] = << >> => Suffix(i, 0)
         /\ \A n \in Nat : queue'[i] = DropFirst(n, queue[i]) => Suffix(i, n)
<1>1. queue[i] \in Seq(Buffers)
  BY OrderTypes
<1>2. ASSUME NEW n \in Nat, queue'[i] = DropFirst(n, queue[i]) PROVE Suffix(i, n)
  <2>1. \A k \in DOMAIN DropFirst(n, queue[i]) :
          k \in Nat /\ n + k \in DOMAIN queue[i] /\ DropFirst(n, queue[i])[k] = queue[i][n + k]
    BY <1>1, DropFirstFacts
  <2> QED
    BY <1>2, <2>1 DEF Suffix
<1> QED
  BY <1>1, <1>2 DEF Suffix

\* Fewer buffers wait, and the old image may be gone.
LEMMA HeldKept ==
  ASSUME TextureTypes, HeldInOrder, UNCHANGED <<flushed, source, last, parked, drawn>>,
         image' = image \/ image' = NoBuffer,
         source \in Images => \E d \in Nat : Suffix(source, d)
  PROVE  HeldInOrder'
<1>1. \A k \in DOMAIN Waiting' : \E j \in DOMAIN Waiting : Waiting'[k] = Waiting[j]
  <2>1. CASE source = "none"
    BY <2>1 DEF Waiting
  <2>2. CASE source # "none"
    <3>1. source \in Images /\ Waiting = queue[source] /\ Waiting' = queue'[source]
      BY <2>2, WaitingTypes DEF Waiting
    <3> QED
      BY <3>1 DEF Suffix
  <2> QED
    BY <2>1, <2>2
<1>2. \A k \in DOMAIN Waiting' : Waiting'[k].n \in Nat \ {0}
  BY <1>1, OrderTypes
<1>3. \A b : Precedes(b) => Precedes(b)'
  BY <1>1 DEF Precedes
<1>4. Precedes(NoBuffer)'
  BY <1>2, OrderTypes, BufferFacts DEF Precedes
<1>5. Precedes(last)' /\ Precedes(image)' /\ Precedes(drawn.buffer)'
  BY <1>3, <1>4 DEF HeldInOrder, Precedes
<1>6. parked'.n <= flushed' /\ \A k \in DOMAIN Waiting' : parked'.n < Waiting'[k].n
  BY <1>1 DEF HeldInOrder
<1> QED
  BY <1>5, <1>6 DEF HeldInOrder

LEMMA OrderKept ==
  ASSUME OrderInv, UNCHANGED <<queue, flushed, source, last, parked, drawn>>,
         image' = image \/ image' = NoBuffer
  PROVE  QueuesInOrder' /\ HeldInOrder'
<1>1. TextureTypes /\ QueuesInOrder /\ HeldInOrder
  BY DEF OrderInv
<1>2. \A i \in Images : \E d \in Nat : Suffix(i, d)
  BY <1>1, SuffixCases
<1> QED
  BY <1>1, <1>2, SuffixOrder, HeldKept

LEMMA OrderReplaced ==
  ASSUME OrderInv, NEW next \in Images \cup {"none"}, ReplaceSource(next),
         UNCHANGED <<flushed, drawn>>, image' = image \/ image' = NoBuffer
  PROVE  QueuesInOrder' /\ HeldInOrder'
<1>1. TextureTypes /\ QueuesInOrder /\ HeldInOrder
  BY DEF OrderInv
<1>2. /\ \A i \in Images : queue'[i] = << >> \/ queue'[i] = queue[i]
      /\ source' = next /\ (next \in Images => queue'[next] = << >>)
      /\ last' = NoBuffer /\ parked' = NoBuffer
  BY DEF ReplaceSource
<1>3. QueuesInOrder'
  BY <1>1, <1>2, SuffixCases, SuffixOrder
<1>4. Waiting' = << >>
  BY <1>2 DEF Waiting
<1>5. flushed \in Nat /\ image.n <= flushed /\ drawn.buffer.n <= flushed /\ NoBuffer.n <= flushed
  BY <1>1, OrderTypes, BufferFacts DEF HeldInOrder, Precedes
<1>6. Precedes(last)' /\ Precedes(image)' /\ Precedes(drawn.buffer)'
  BY <1>2, <1>4, <1>5 DEF Precedes
<1>7. image' # NoBuffer => drawn'.buffer.n <= image'.n
  BY <1>1 DEF HeldInOrder
<1> QED
  BY <1>2, <1>3, <1>4, <1>5, <1>6, <1>7 DEF HeldInOrder

\* A buffer just flushed is the newest of all.
LEMMA OrderFlush ==
  ASSUME OrderInv, NEW i \in Images, Flush(i)
  PROVE  QueuesInOrder' /\ HeldInOrder'
<1> DEFINE new == [n |-> flushed + 1, size |-> window]
<1>1. /\ flushed' = flushed + 1 /\ queue' = [queue EXCEPT ![i] = Append(@, new)]
      /\ flushed < MaxFrames
      /\ UNCHANGED <<source, last, parked, image, drawn>>
  BY DEF Flush, textureVars
<1>2. TextureTypes /\ QueuesInOrder /\ HeldInOrder
  BY DEF OrderInv
<1>3. new \in Buffers /\ new.n = flushed + 1 /\ flushed \in Nat
  <2>1. window \in Sizes /\ flushed \in Nat
    BY <1>2, TypesSplit, OrderTypes DEF ImageTypes
  <2> QED
    BY <1>1, <2>1, BufferFacts DEF Buffers
<1> HIDE DEF new
<1>4. \A j \in Images \ {i} : queue'[j] = queue[j]
  BY <1>1, <1>2, OrderTypes
<1>5. /\ queue'[i] = Append(queue[i], new)
      /\ Len(queue[i]) \in Nat /\ DOMAIN queue[i] = 1 .. Len(queue[i])
      /\ DOMAIN queue'[i] = 1 .. Len(queue[i]) + 1
      /\ \A k \in DOMAIN queue[i] : queue'[i][k] = queue[i][k]
      /\ queue'[i][Len(queue[i]) + 1] = new
  <2>1. queue'[i] = Append(queue[i], new) /\ queue[i] \in Seq(Buffers)
    BY <1>1, <1>2, OrderTypes
  <2> QED
    BY <1>3, <2>1
<1>6. \A k \in DOMAIN queue'[i] : k \in DOMAIN queue[i] \/ k = Len(queue[i]) + 1
  BY <1>5
<1>7. \A j \in Images : \A k \in DOMAIN queue[j] :
        queue[j][k].n \in Nat /\ queue[j][k].n <= flushed
  BY <1>2, OrderTypes DEF QueuesInOrder
<1>8. QueuesInOrder'
  <2> SUFFICES ASSUME NEW j \in Images
               PROVE  /\ \A k \in DOMAIN queue'[j] : queue'[j][k].n <= flushed'
                      /\ \A h, k \in DOMAIN queue'[j] : h < k => queue'[j][h].n < queue'[j][k].n
    BY DEF QueuesInOrder
  <2>1. CASE j # i
    <3>1. queue'[j] = queue[j]
      BY <1>4, <2>1
    <3>2. \A k \in DOMAIN queue[j] : queue[j][k].n <= flushed'
      BY <1>1, <1>3, <1>7
    <3> QED
      BY <1>2, <3>1, <3>2 DEF QueuesInOrder
  <2>2. CASE j = i
    <3>1. ASSUME NEW k \in DOMAIN queue'[i] PROVE queue'[i][k].n <= flushed'
      BY <1>1, <1>3, <1>5, <1>6, <1>7
    <3>2. ASSUME NEW h \in DOMAIN queue'[i], NEW k \in DOMAIN queue'[i], h < k
          PROVE  queue'[i][h].n < queue'[i][k].n
      <4>1. h \in DOMAIN queue[i] /\ queue'[i][h] = queue[i][h]
        BY <1>5, <3>2
      <4>2. CASE k \in DOMAIN queue[i]
        BY <1>2, <1>5, <3>2, <4>1, <4>2 DEF QueuesInOrder
      <4>3. CASE k = Len(queue[i]) + 1
        <5>1. queue[i][h].n \in Nat /\ queue[i][h].n <= flushed
          BY <1>7, <4>1
        <5> QED
          BY <1>3, <1>5, <4>1, <4>3, <5>1
      <4> QED
        BY <1>6, <4>2, <4>3
    <3> QED
      BY <2>2, <3>1, <3>2
  <2> QED
    BY <2>1, <2>2
<1>9. \A k \in DOMAIN Waiting' :
        (k \in DOMAIN Waiting /\ Waiting'[k] = Waiting[k]) \/ Waiting'[k] = new
  <2>1. CASE source = i
    <3>1. Waiting' = queue'[i] /\ Waiting = queue[i]
      BY <1>1, <1>2, <2>1, WaitingTypes DEF Waiting
    <3> QED
      BY <1>5, <1>6, <3>1
  <2>2. CASE source # i
    <3>1. Waiting' = Waiting
      BY <1>1, <1>2, <1>4, <2>2, WaitingTypes DEF Waiting
    <3> QED
      BY <3>1
  <2> QED
    BY <2>1, <2>2
<1>10. ASSUME NEW b \in Buffers \cup {NoBuffer}, Precedes(b) PROVE Precedes(b)'
  <2>1. b.n \in Nat /\ b.n <= flushed
    BY <1>10, BufferFacts DEF Precedes
  <2>2. b.n <= flushed' /\ b.n < new.n
    BY <1>1, <1>3, <2>1
  <2> QED
    BY <1>1, <1>9, <1>10, <2>2 DEF Precedes
<1>11. /\ parked.n \in Nat /\ parked.n <= flushed
       /\ \A k \in DOMAIN Waiting : parked.n < Waiting[k].n
  BY <1>2, OrderTypes, BufferFacts DEF HeldInOrder
<1>12. parked'.n <= flushed' /\ \A k \in DOMAIN Waiting' : parked'.n < Waiting'[k].n
  <2>1. parked.n <= flushed' /\ parked.n < new.n
    BY <1>1, <1>3, <1>11
  <2> QED
    BY <1>1, <1>9, <1>11, <2>1
<1>13. Precedes(last)' /\ Precedes(image)' /\ Precedes(drawn.buffer)'
  <2>1. Precedes(last) /\ Precedes(image) /\ Precedes(drawn.buffer)
    BY <1>2 DEF HeldInOrder
  <2> QED
    BY <1>1, <1>2, <1>10, <2>1, OrderTypes DEF Precedes
<1> QED
  BY <1>1, <1>2, <1>8, <1>12, <1>13 DEF HeldInOrder

\* The picture drawn when nothing new is acquired.
LEMMA OldPicture ==
  ASSUME OrderInv
  PROVE  /\ Precedes(OldImage)
         /\ last # NoBuffer => OldImage = last
         /\ OldImage # NoBuffer => drawn.buffer.n <= OldImage.n
         /\ OldImage \in Buffers \cup {NoBuffer}
BY AcquiredTypes DEF OrderInv, HeldInOrder, OldImage

LEMMA OrderPaintOld ==
  ASSUME OrderInv, PaintOld, UNCHANGED <<source, flushed>>
  PROVE  /\ QueuesInOrder' /\ HeldInOrder'
         /\ drawn'.buffer # NoBuffer => drawn.buffer.n <= drawn'.buffer.n
<1>1. TextureTypes /\ QueuesInOrder /\ HeldInOrder
  BY DEF OrderInv
<1>2. /\ UNCHANGED <<queue, last, parked>> /\ image' = OldImage /\ drawn'.buffer = OldImage
  <2>1. FinishPaint(OldImage, size.buffer, size.bufferChanged)
    BY <1>1, OldFacts
  <2> QED
    BY <1>1, <2>1, OldFacts, AcquiredTypes, FinishFacts
<1>3. QueuesInOrder'
  BY <1>1, <1>2, SuffixCases, SuffixOrder
<1>4. Waiting' = Waiting
  BY <1>2 DEF Waiting
<1>5. Precedes(last)' /\ Precedes(image)' /\ Precedes(drawn.buffer)'
  BY <1>1, <1>2, <1>4, OldPicture DEF HeldInOrder, Precedes
<1>6. OldImage.n <= OldImage.n
  BY OldPicture, BufferFacts
<1>7. HeldInOrder'
  BY <1>1, <1>2, <1>4, <1>5, <1>6, OldPicture DEF HeldInOrder
<1> QED
  BY <1>2, <1>3, <1>7, OldPicture

\* The buffer put aside is older than those still queued.
LEMMA OrderPaintPark ==
  ASSUME OrderInv, PaintAndPark, UNCHANGED <<source, flushed>>
  PROVE  /\ QueuesInOrder' /\ HeldInOrder'
         /\ drawn'.buffer # NoBuffer => drawn.buffer.n <= drawn'.buffer.n
<1>1. TextureTypes /\ QueuesInOrder /\ HeldInOrder
  BY DEF OrderInv
<1>2. /\ last' = last /\ image' = OldImage /\ drawn'.buffer = OldImage
      /\ source \in Images /\ parked' = Acquired /\ Acquired \in Buffers
      /\ queue' = [queue EXCEPT ![source] = DropFirst(1, @)]
  <2>1. FinishPaint(OldImage, size.buffer, TRUE)
    BY <1>1, ParkFacts
  <2> QED
    BY <1>1, <2>1, ParkFacts, AcquiredTypes, FinishFacts
<1>3. /\ queue'[source] = DropFirst(1, queue[source])
      /\ \A i \in Images \ {source} : queue'[i] = queue[i]
  BY <1>1, <1>2, OrderTypes
<1>4. Suffix(source, 1) /\ \A i \in Images \ {source} : Suffix(i, 0)
  BY <1>1, <1>2, <1>3, SuffixCases
<1>5. QueuesInOrder'
  BY <1>1, <1>4, SuffixOrder
<1>6. Waiting = queue[source] /\ Waiting' = queue'[source]
  BY <1>1, <1>2, WaitingTypes DEF Waiting
<1>7. \A k \in DOMAIN Waiting' : k \in Nat \ {0} /\ 1 + k \in DOMAIN Waiting /\ Waiting'[k] = Waiting[1 + k]
  <2>1. queue'[source] \in Seq(Buffers)
    BY <1>1, <1>2, <1>3, OrderTypes, DropFirstFacts
  <2>2. \A k \in DOMAIN queue'[source] : k \in Nat \ {0}
    BY <2>1
  <2> QED
    BY <1>4, <1>6, <2>2 DEF Suffix
<1>8. Acquired.n <= flushed /\ \A k \in DOMAIN Waiting' : Acquired.n < Waiting'[k].n
  <2>1. CASE Waiting = << >>
    <3>1. Acquired = parked /\ \A k \in DOMAIN Waiting' : FALSE
      BY <1>7, <2>1 DEF Acquired
    <3> QED
      BY <1>1, <3>1 DEF HeldInOrder
  <2>2. CASE Waiting # << >>
    <3>1. Waiting \in Seq(Buffers)
      BY <1>1, WaitingTypes
    <3>2. Acquired = Waiting[1] /\ 1 \in DOMAIN Waiting
      BY <2>2, <3>1 DEF Acquired
    <3>3. \A k \in DOMAIN Waiting' : 1 < 1 + k
      BY <1>7
    <3> QED
      BY <1>1, <1>2, <1>6, <1>7, <3>2, <3>3 DEF QueuesInOrder
  <2> QED
    BY <2>1, <2>2
<1>9. ASSUME NEW b, Precedes(b) PROVE Precedes(b)'
  <2>1. b.n < Acquired.n
    <3>1. CASE Waiting = << >>
      <4>1. Acquired = parked /\ parked # NoBuffer
        BY <1>2, <3>1, BufferFacts DEF Acquired
      <4> QED
        BY <1>9, <4>1 DEF Precedes
    <3>2. CASE Waiting # << >>
      <4>1. Waiting \in Seq(Buffers)
        BY <1>1, WaitingTypes
      <4>2. Acquired = Waiting[1] /\ 1 \in DOMAIN Waiting
        BY <3>2, <4>1 DEF Acquired
      <4> QED
        BY <1>9, <4>2 DEF Precedes
    <3> QED
      BY <3>1, <3>2
  <2> QED
    BY <1>2, <1>7, <1>9, <2>1 DEF Precedes
<1>10. Precedes(last)' /\ Precedes(image)' /\ Precedes(drawn.buffer)'
  BY <1>1, <1>2, <1>9, OldPicture DEF HeldInOrder, Precedes
<1>11. OldImage.n <= OldImage.n
  BY OldPicture, BufferFacts
<1>12. source' # "none"
  BY <1>1, <1>2, WaitingTypes
<1>13. HeldInOrder'
  BY <1>2, <1>8, <1>10, <1>11, <1>12, OldPicture DEF HeldInOrder
<1> QED
  BY <1>2, <1>5, <1>13, OldPicture

\* The buffer drawn is newer than everything shown before.
LEMMA OrderPaintNext ==
  ASSUME OrderInv, PaintNext, UNCHANGED <<source, flushed>>
  PROVE  /\ QueuesInOrder' /\ HeldInOrder'
         /\ drawn'.buffer # NoBuffer => drawn.buffer.n <= drawn'.buffer.n
<1>1. TextureTypes /\ QueuesInOrder /\ HeldInOrder
  BY DEF OrderInv
<1>2. PICK m \in Nat, next \in Buffers, seq \in Nat : Shown(m, next, seq)
  BY <1>1, ShowFacts
<1>3. source \in Images /\ Waiting = queue[source] /\ Waiting' = queue'[source]
  BY <1>1, ShowFacts, WaitingTypes DEF Waiting
<1>4. /\ last' = next /\ image' = next /\ parked' = NoBuffer /\ drawn'.buffer = next
      /\ \A i \in Images \ {source} : queue'[i] = queue[i]
  <2>1. FinishPaint(next, Acquired.size, Differs)
    BY <1>2 DEF Shown
  <2> QED
    BY <1>1, <1>2, <2>1, AcquiredTypes, FinishFacts DEF Shown
<1>5. \A k \in DOMAIN Waiting' :
        k \in Nat \ {0} /\ m + k \in DOMAIN Waiting /\ Waiting'[k] = Waiting[m + k]
  <2>1. queue'[source] \in Seq(Buffers)
    BY <1>2, <1>3 DEF Shown
  <2>2. \A k \in DOMAIN queue'[source] : k \in Nat \ {0}
    BY <2>1
  <2> QED
    BY <1>2, <1>3, <2>2 DEF Shown
<1>6. QueuesInOrder'
  <2>1. Suffix(source, m)
    BY <1>3, <1>5 DEF Suffix
  <2>2. \A i \in Images \ {source} : Suffix(i, 0)
    BY <1>1, <1>4, SuffixCases
  <2> QED
    BY <1>1, <2>1, <2>2, SuffixOrder
<1>7. /\ next.n <= flushed /\ \A k \in DOMAIN Waiting' : next.n < Waiting'[k].n
      /\ drawn.buffer.n < next.n
  <2>1. CASE m = 0
    <3>1. next = parked /\ Waiting = << >> /\ parked # NoBuffer
      BY <1>2, <2>1, BufferFacts DEF Shown
    <3>2. \A k \in DOMAIN Waiting' : FALSE
      BY <1>5, <3>1
    <3> QED
      BY <1>1, <3>1, <3>2 DEF HeldInOrder, Precedes
  <2>2. CASE m > 0
    <3>1. next = Waiting[m] /\ m \in DOMAIN Waiting
      BY <1>2, <2>2 DEF Shown
    <3>2. \A k \in DOMAIN Waiting' : m < m + k
      BY <1>5
    <3>3. next.n <= flushed /\ \A k \in DOMAIN Waiting' : next.n < Waiting'[k].n
      BY <1>1, <1>3, <1>5, <3>1, <3>2 DEF QueuesInOrder
    <3>4. drawn.buffer.n < next.n
      BY <1>1, <3>1 DEF HeldInOrder, Precedes
    <3> QED
      BY <3>3, <3>4
  <2> QED
    BY <2>1, <2>2
<1>8. Precedes(last)' /\ Precedes(image)' /\ Precedes(drawn.buffer)'
  BY <1>4, <1>7 DEF Precedes
<1>9. parked'.n <= flushed' /\ \A k \in DOMAIN Waiting' : parked'.n < Waiting'[k].n
  <2>1. flushed \in Nat /\ \A k \in DOMAIN Waiting' : Waiting'[k].n \in Nat \ {0}
    BY <1>1, <1>5, OrderTypes
  <2> QED
    BY <1>4, <2>1, BufferFacts
<1>10. next.n \in Nat /\ next.n <= next.n /\ drawn.buffer.n \in Nat
  BY <1>1, OrderTypes, BufferFacts
<1>11. HeldInOrder'
  <2>1. source' # "none"
    BY <1>1, <1>3, WaitingTypes
  <2> QED
    BY <1>4, <1>8, <1>9, <1>10, <2>1 DEF HeldInOrder
<1> QED
  BY <1>4, <1>6, <1>7, <1>10, <1>11

LEMMA OrderPaint ==
  ASSUME OrderInv, Paint
  PROVE  /\ QueuesInOrder' /\ HeldInOrder'
         /\ drawn'.buffer # NoBuffer => drawn.buffer.n <= drawn'.buffer.n
<1>1. UNCHANGED <<source, flushed>>
  BY DEF Paint
<1>2. CASE UNCHANGED <<queue, last, parked, image, drawn>>
  <2>1. drawn.buffer.n \in Nat
    BY OrderTypes, BufferFacts DEF OrderInv
  <2> QED
    BY <1>1, <1>2, <2>1, OrderKept
<1>3. PaintOld \/ PaintAndPark \/ PaintNext \/ UNCHANGED <<queue, last, parked, image, drawn>>
  BY DEF Paint
<1> QED
  BY <1>1, <1>2, <1>3, OrderPaintOld, OrderPaintPark, OrderPaintNext

\* Some of the oldest buffers of one image are released.
LEMMA OrderDropped ==
  ASSUME OrderInv, NEW i \in Images, NEW n \in Nat,
         queue' = [queue EXCEPT ![i] = DropFirst(n, @)],
         UNCHANGED <<flushed, source, last, parked, image, drawn>>
  PROVE  QueuesInOrder' /\ HeldInOrder'
<1>1. TextureTypes /\ QueuesInOrder /\ HeldInOrder
  BY DEF OrderInv
<1>2. queue'[i] = DropFirst(n, queue[i]) /\ \A j \in Images \ {i} : queue'[j] = queue[j]
  BY <1>1, OrderTypes
<1>3. Suffix(i, n) /\ \A j \in Images \ {i} : Suffix(j, 0)
  BY <1>1, <1>2, SuffixCases
<1> QED
  BY <1>1, <1>3, SuffixOrder, HeldKept

\* The picture never goes back in one step.
DrawnForward == drawn'.buffer # NoBuffer => drawn'.buffer.n >= drawn.buffer.n

LEMMA OrderStep ==
  ASSUME OrderInv, [Next]_vars
  PROVE  OrderInv' /\ DrawnForward
<1>1. TextureTypes /\ TextureTypes'
  BY TypeStep DEF OrderInv
<1>2. drawn.buffer.n \in Nat /\ drawn'.buffer.n \in Nat
  <2>1. PaintTypes /\ PaintTypes'
    BY <1>1, TypesSplit, PTL
  <2>2. drawn.buffer \in Buffers \cup {NoBuffer} /\ drawn'.buffer \in Buffers \cup {NoBuffer}
    BY <2>1 DEF PaintTypes
  <2> QED
    BY <2>2, BufferFacts
<1>3. ASSUME UNCHANGED drawn, QueuesInOrder', HeldInOrder' PROVE OrderInv' /\ DrawnForward
  BY <1>1, <1>2, <1>3 DEF OrderInv, DrawnForward
<1>4. ASSUME NEW i \in Images, Producer(i) PROVE OrderInv' /\ DrawnForward
  <2>1. CASE Flush(i)
    <3>1. UNCHANGED drawn
      BY <2>1 DEF Flush, textureVars
    <3> QED
      BY <1>3, <2>1, <3>1, OrderFlush
  <2>2. CASE FrameAvailable(i)
    <3>1. UNCHANGED <<flushed, source, last, parked, image, drawn>>
      BY <2>2 DEF FrameAvailable, textureVars
    <3>2. UNCHANGED queue \/ queue' = [queue EXCEPT ![i] = DropFirst(1, @)]
      BY <2>2 DEF FrameAvailable
    <3>3. QueuesInOrder' /\ HeldInOrder'
      <4>1. 1 \in Nat
        OBVIOUS
      <4> QED
        BY <3>1, <3>2, <4>1, OrderKept, OrderDropped
    <3> QED
      BY <1>3, <3>1, <3>3
  <2> QED
    BY <1>4, <2>1, <2>2 DEF Producer
<1>5. CASE UNCHANGED <<queue, flushed, source, last, parked, drawn>>
           /\ (image' = image \/ image' = NoBuffer)
  BY <1>3, <1>5, OrderKept
<1>6. CASE PlatformTask \/ DrawFrame \/ UNCHANGED vars
  BY <1>5, <1>6 DEF PlatformTask, MarkTask, UnregisterAll, EraseFromMap, DrawFrame, vars,
     imageVars, textureVars
<1>7. ASSUME ReplaceSource("none") \/ ReplaceSource("own") \/ ReplaceSource("ext"),
             UNCHANGED <<flushed, drawn>>, image' = image \/ image' = NoBuffer
      PROVE  OrderInv' /\ DrawnForward
  <2>1. PICK next \in Images \cup {"none"} : ReplaceSource(next)
    BY <1>7 DEF Images
  <2> QED
    BY <1>3, <1>7, <2>1, OrderReplaced
<1>8. CASE Client
  <2>1. CASE UnRegisterExternalTexture
    <3>1. UNCHANGED <<flushed, image, drawn>>
      BY <2>1 DEF UnRegisterExternalTexture
    <3>2. CASE ReplaceSource("none")
      BY <1>7, <3>1, <3>2
    <3>3. CASE UNCHANGED <<queue, source, last, parked>>
      BY <1>5, <3>1, <3>3
    <3> QED
      BY <2>1, <3>2, <3>3 DEF UnRegisterExternalTexture
  <2> QED
    BY <1>5, <1>8, <2>1 DEF Client, NotifyDestroyed, NotifyCreate, SwitchImage, NotifyResizing,
       SetProducerWindowSize, ScheduleFrame, Layout, Freeze, imageVars, textureVars
<1>9. CASE RasterThread
  <2>1. CASE RegisterTexture \/ Setup \/ Teardown
    BY <1>5, <2>1 DEF RegisterTexture, Setup, Teardown, imageVars, textureVars
  <2>2. CASE UnregisterTexture \/ SetExternalNativeImage \/ Reset
    <3>1. UNCHANGED <<flushed, drawn>> /\ (image' = image \/ image' = NoBuffer)
      BY <2>2 DEF UnregisterTexture, SetExternalNativeImage, Reset
    <3>2. \/ ReplaceSource("none") \/ ReplaceSource("own") \/ ReplaceSource("ext")
          \/ UNCHANGED <<queue, source, last, parked>>
      BY <2>2 DEF UnregisterTexture, SetExternalNativeImage, Reset
    <3> QED
      BY <1>5, <1>7, <3>1, <3>2
  <2>3. CASE MarkNewFrameAvailable
    <3>1. UNCHANGED <<flushed, source, last, parked, image, drawn>>
      BY <2>3 DEF MarkNewFrameAvailable
    <3>2. CASE UNCHANGED queue
      BY <1>5, <3>1, <3>2
    <3>3. CASE \E n \in Nat : source \in Images /\ queue' = [queue EXCEPT ![source] = DropFirst(n, @)]
      BY <1>3, <3>1, <3>3, OrderDropped
    <3> QED
      BY <1>1, <2>3, <3>2, <3>3, MarkFacts
  <2>4. CASE Paint
    BY <1>1, <1>2, <2>4, OrderPaint DEF OrderInv, DrawnForward
  <2> QED
    BY <1>9, <2>1, <2>2, <2>3, <2>4 DEF RasterThread
<1> QED
  BY <1>4, <1>6, <1>8, <1>9 DEF Next

LEMMA OrderInit ==
  ASSUME Init
  PROVE  OrderInv
<1>1. TextureTypes
  BY TypeInit
<1>2. Waiting = << >> /\ drawn.buffer = NoBuffer /\ NoBuffer.n <= flushed /\ NoBuffer.n <= NoBuffer.n
  BY BufferFacts DEF Init, Waiting, Images
<1>3. QueuesInOrder
  BY DEF Init, QueuesInOrder
<1>4. HeldInOrder
  BY <1>2 DEF Init, HeldInOrder, Precedes
<1> QED
  BY <1>1, <1>3, <1>4 DEF OrderInv

\* OHOSExternalTexture::Paint: whatever is skipped, parked, drawn again or released on
\* the way, the picture never goes back to an earlier frame of the producer.
THEOREM DrawnInOrderAlways == Spec => DrawnInOrder
<1>1. Init => OrderInv
  BY OrderInit
<1>2. OrderInv /\ [Next]_vars => OrderInv'
  BY OrderStep
<1>3. Spec => []OrderInv
  BY <1>1, <1>2, PTL DEF Spec
<1>4. OrderInv /\ [Next]_vars => [drawn'.buffer # NoBuffer => drawn'.buffer.n >= drawn.buffer.n]_drawn
  BY OrderStep DEF DrawnForward
<1> QED
  BY <1>3, <1>4, PTL DEF Spec, DrawnInOrder

-----------------------------------------------------------------------------
(* A texture that was unregistered lets go *)

LEMMA PendingFacts ==
  /\ \A task : Queued(task) <=> task \in Pending
  /\ NoLatch <=> Pending \cap Latched = {}
BY DEF Queued, Pending, NoLatch

LEMMA RunFacts ==
  ASSUME TextureTypes, NEW task, Run(task)
  PROVE  /\ raster # << >> /\ Head(raster) = task /\ task \in Pending
         /\ Pending' \subseteq Pending /\ Pending \subseteq Pending' \cup {task}
         /\ LatchedOnce => LatchedOnce' /\ (task \in Latched => Pending' \cap Latched = {})
         /\ RegisterEnds => RegisterEnds' /\ (task = "register" => "unregister" \in Pending')
<1>1. raster \in Seq(RasterTasks) /\ raster # << >> /\ Head(raster) = task /\ raster' = Tail(raster)
  BY TypesSplit DEF TaskTypes, Run
<1>2. /\ raster[1] = task /\ 1 \in DOMAIN raster /\ DOMAIN raster \subseteq Nat
      /\ \A k \in DOMAIN raster' : k \in Nat \ {0} /\ k + 1 \in DOMAIN raster /\ raster'[k] = raster[k + 1]
      /\ \A k \in DOMAIN raster : k = 1 \/ (k - 1 \in DOMAIN raster' /\ raster[k] = raster'[k - 1])
  BY <1>1, TailFacts
<1>3. /\ task \in Pending /\ Pending' \subseteq Pending /\ Pending \subseteq Pending' \cup {task}
  BY <1>2 DEF Pending
<1>4. ASSUME LatchedOnce PROVE LatchedOnce' /\ (task \in Latched => Pending' \cap Latched = {})
  <2>1. ASSUME NEW j \in DOMAIN raster', NEW k \in DOMAIN raster',
               raster'[j] \in Latched, raster'[k] \in Latched
        PROVE  j = k
    <3>1. /\ j \in Nat /\ k \in Nat /\ j + 1 \in DOMAIN raster /\ k + 1 \in DOMAIN raster
          /\ raster[j + 1] \in Latched /\ raster[k + 1] \in Latched
      BY <1>2, <2>1
    <3>2. j + 1 = k + 1
      BY <1>4, <3>1 DEF LatchedOnce
    <3> QED
      BY <3>1, <3>2
  <2>2. ASSUME task \in Latched, NEW k \in DOMAIN raster', raster'[k] \in Latched PROVE FALSE
    <3>1. k \in Nat \ {0} /\ k + 1 \in DOMAIN raster /\ raster[k + 1] \in Latched
      BY <1>2, <2>2
    <3>2. k + 1 = 1
      BY <1>2, <1>4, <2>2, <3>1 DEF LatchedOnce
    <3> QED
      BY <3>1, <3>2
  <2> QED
    BY <2>1, <2>2 DEF LatchedOnce, Pending
<1>5. ASSUME RegisterEnds PROVE RegisterEnds' /\ (task = "register" => "unregister" \in Pending')
  <2>1. ASSUME NEW j \in DOMAIN raster', raster'[j] = "register"
        PROVE  \E k \in DOMAIN raster' : j < k /\ raster'[k] = "unregister"
    <3>1. j \in Nat /\ j + 1 \in DOMAIN raster /\ raster[j + 1] = "register"
      BY <1>2, <2>1
    <3>2. PICK k \in DOMAIN raster : j + 1 < k /\ raster[k] = "unregister"
      BY <1>5, <3>1 DEF RegisterEnds
    <3>3. k \in Nat /\ k # 1 /\ j < k - 1
      BY <1>2, <3>1, <3>2
    <3> QED
      BY <1>2, <3>2, <3>3
  <2>2. ASSUME task = "register" PROVE "unregister" \in Pending'
    <3>1. PICK k \in DOMAIN raster : 1 < k /\ raster[k] = "unregister"
      BY <1>2, <1>5, <2>2 DEF RegisterEnds
    <3> QED
      BY <1>2, <3>1 DEF Pending
  <2> QED
    BY <2>1, <2>2 DEF RegisterEnds
<1> QED
  BY <1>1, <1>3, <1>4, <1>5

LEMMA PostFacts ==
  ASSUME TextureTypes, NEW tasks \in Seq(RasterTasks), PostRaster(tasks)
  PROVE  /\ Pending' = Pending \cup {tasks[k] : k \in DOMAIN tasks}
         /\ Len(tasks) = 1 /\ NoLatch => LatchedOnce'
         /\ (\A k \in DOMAIN tasks : tasks[k] \notin Latched) /\ LatchedOnce => LatchedOnce'
         /\ (\A k \in DOMAIN tasks : tasks[k] # "register") /\ RegisterEnds => RegisterEnds'
         /\ tasks = <<"unregister">> => RegisterEnds'
<1>1. /\ raster \in Seq(RasterTasks) /\ raster' = raster \o tasks /\ Len(raster) \in Nat
      /\ DOMAIN raster = 1 .. Len(raster) /\ DOMAIN raster' = 1 .. Len(raster) + Len(tasks)
      /\ DOMAIN tasks = 1 .. Len(tasks) /\ Len(tasks) \in Nat
  BY TypesSplit DEF TaskTypes, PostRaster
<1>2. /\ \A k \in DOMAIN raster : k \in DOMAIN raster' /\ raster'[k] = raster[k]
      /\ \A k \in DOMAIN raster' :
           \/ k \in DOMAIN raster /\ raster'[k] = raster[k]
           \/ k > Len(raster) /\ k - Len(raster) \in DOMAIN tasks /\ raster'[k] = tasks[k - Len(raster)]
      /\ \A k \in DOMAIN tasks :
           Len(raster) + k \in DOMAIN raster' /\ raster'[Len(raster) + k] = tasks[k]
  BY <1>1
<1>3. Pending' = Pending \cup {tasks[k] : k \in DOMAIN tasks}
  <2>1. ASSUME NEW t \in Pending' PROVE t \in Pending \cup {tasks[k] : k \in DOMAIN tasks}
    BY <1>2 DEF Pending
  <2>2. ASSUME NEW t \in Pending \cup {tasks[k] : k \in DOMAIN tasks} PROVE t \in Pending'
    BY <1>2 DEF Pending
  <2> QED
    BY <2>1, <2>2
<1>4. ASSUME Len(tasks) = 1, NoLatch PROVE LatchedOnce'
  <2>1. \A k \in DOMAIN raster : raster[k] \notin Latched
    BY <1>4 DEF NoLatch, Queued
  <2>2. \A k \in DOMAIN raster' : raster'[k] \in Latched => k = Len(raster) + 1
    BY <1>1, <1>2, <1>4, <2>1
  <2> QED
    BY <2>2 DEF LatchedOnce
<1>5. ASSUME \A k \in DOMAIN tasks : tasks[k] \notin Latched, LatchedOnce PROVE LatchedOnce'
  <2>1. \A k \in DOMAIN raster' : raster'[k] \in Latched => k \in DOMAIN raster /\ raster'[k] = raster[k]
    BY <1>2, <1>5
  <2> QED
    BY <1>5, <2>1 DEF LatchedOnce
<1>6. ASSUME \A k \in DOMAIN tasks : tasks[k] # "register", RegisterEnds PROVE RegisterEnds'
  <2>1. \A j \in DOMAIN raster' :
          raster'[j] = "register" => j \in DOMAIN raster /\ raster[j] = "register"
    BY <1>2, <1>6
  <2> QED
    BY <1>2, <1>6, <2>1 DEF RegisterEnds
<1>7. ASSUME tasks = <<"unregister">> PROVE RegisterEnds'
  <2>1. Len(raster) + 1 \in DOMAIN raster' /\ raster'[Len(raster) + 1] = "unregister"
    BY <1>1, <1>2, <1>7
  <2>2. ASSUME NEW j \in DOMAIN raster', raster'[j] = "register" PROVE j < Len(raster) + 1
    <3>1. j # Len(raster) + 1
      BY <2>1, <2>2
    <3>2. Len(tasks) = 1
      BY <1>7
    <3> QED
      BY <1>1, <3>1, <3>2
  <2> QED
    BY <2>1, <2>2 DEF RegisterEnds
<1> QED
  BY <1>3, <1>4, <1>5, <1>6, <1>7

\* The tasks each operation posts.
LEMMA PostedTasks ==
  /\ << >> \in Seq(RasterTasks) /\ {<< >>[k] : k \in DOMAIN << >>} = {}
  /\ \A t \in RasterTasks :
       /\ <<t>> \in Seq(RasterTasks) /\ Len(<<t>>) = 1
       /\ {<<t>>[k] : k \in DOMAIN <<t>>} = {t} /\ \A k \in DOMAIN <<t>> : <<t>>[k] = t
  /\ <<"register", "setup">> \in Seq(RasterTasks)
  /\ {<<"register", "setup">>[k] : k \in DOMAIN <<"register", "setup">>} = {"register", "setup"}
<1>1. ASSUME NEW t \in RasterTasks
      PROVE  /\ <<t>> \in Seq(RasterTasks) /\ Len(<<t>>) = 1
             /\ {<<t>>[k] : k \in DOMAIN <<t>>} = {t} /\ \A k \in DOMAIN <<t>> : <<t>>[k] = t
  OBVIOUS
<1>2. <<"register", "setup">> \in Seq(RasterTasks)
  BY DEF RasterTasks
<1>3. {<<"register", "setup">>[k] : k \in DOMAIN <<"register", "setup">>} = {"register", "setup"}
  OBVIOUS
<1> QED
  BY <1>1, <1>2, <1>3

LEMMA LatchedStep ==
  ASSUME TextureTypes, LatchedOnce, [Next]_vars
  PROVE  LatchedOnce'
<1>1. CASE UNCHANGED raster
  BY <1>1 DEF LatchedOnce
<1>2. ASSUME NEW t \in RasterTasks, PostRaster(<<t>>), t \in Latched => NoLatch PROVE LatchedOnce'
  <2>1. <<t>> \in Seq(RasterTasks) /\ Len(<<t>>) = 1 /\ \A k \in DOMAIN <<t>> : <<t>>[k] = t
    BY PostedTasks
  <2> QED
    BY <1>2, <2>1, PostFacts
<1>3. CASE PostRaster(<< >>)
  <2>1. raster \in Seq(RasterTasks)
    BY TypesSplit DEF TaskTypes
  <2> QED
    BY <1>1, <1>3, <2>1 DEF PostRaster
<1>4. CASE PostRaster(<<"register", "setup">>)
  <2>1. \A k \in DOMAIN <<"register", "setup">> : <<"register", "setup">>[k] \notin Latched
    BY DEF Latched
  <2> QED
    BY <1>4, <2>1, PostFacts, PostedTasks
<1>5. CASE \E task : Run(task)
  BY <1>5, RunFacts
<1>6. CASE MarkTask \/ UnregisterAll \/ NotifyDestroyed \/ NotifyCreate \/ DrawFrame
  <2>1. \/ PostRaster(<< >>) \/ PostRaster(<<"register", "setup">>)
        \/ \E t \in RasterTasks : PostRaster(<<t>>) /\ (t \in Latched => NoLatch)
    BY <1>6 DEF MarkTask, UnregisterAll, NotifyDestroyed, NotifyCreate, DrawFrame, PlatformFree,
       RasterTasks, Latched
  <2> QED
    BY <1>2, <1>3, <1>4, <2>1
<1>7. CASE \/ \E task \in {"setImage", "reset", "resetNew"} : SwitchImage(task)
           \/ UnRegisterExternalTexture
  <2>1. \E t \in RasterTasks : PostRaster(<<t>>) /\ NoLatch
    BY <1>7 DEF SwitchImage, UnRegisterExternalTexture, PlatformFree, RasterTasks
  <2> QED
    BY <1>2, <2>1
<1>8. CASE RasterThread
  <2>1. \E task : Run(task)
    BY <1>8 DEF RasterThread, RegisterTexture, UnregisterTexture, Setup, Teardown,
       SetExternalNativeImage, Reset, MarkNewFrameAvailable, Paint
  <2> QED
    BY <1>5, <2>1
<1>9. CASE \/ EraseFromMap \/ NotifyResizing \/ SetProducerWindowSize \/ ScheduleFrame
           \/ Layout \/ Freeze \/ UNCHANGED vars \/ \E i \in Images : Producer(i)
  <2>1. UNCHANGED raster
    BY <1>9 DEF EraseFromMap, NotifyResizing, SetProducerWindowSize, ScheduleFrame, Layout, Freeze,
       vars, taskVars, Producer, Flush, FrameAvailable
  <2> QED
    BY <1>1, <2>1
<1> QED
  BY <1>6, <1>7, <1>8, <1>9 DEF Next, PlatformTask, Client

\* The image given to the texture keeps its listener only as long as it is the source.
LEMMA ListenerReplaced ==
  ASSUME ListenerFollows, NEW next \in Images \cup {"none"}, ReplaceSource(next),
         next = "ext" => external'
  PROVE  ListenerFollows'
<1>1. source' = next /\ "ext" \in Images
  BY DEF ReplaceSource, Images
<1>2. listener'["ext"] = IF "ext" = next THEN "frame"
                         ELSE IF "ext" = source /\ external THEN "default" ELSE listener["ext"]
  BY <1>1 DEF ReplaceSource
<1> QED
  BY <1>1, <1>2 DEF ListenerFollows

LEMMA ListenerStep ==
  ASSUME ListenerFollows, [Next]_vars
  PROVE  ListenerFollows'
<1>1. CASE UNCHANGED <<source, external, listener>>
  BY <1>1 DEF ListenerFollows
<1>2. CASE UnRegisterExternalTexture \/ UnregisterTexture
  <2>1. UNCHANGED external
    BY <1>2 DEF UnRegisterExternalTexture, UnregisterTexture
  <2>2. UNCHANGED <<listener, source>> \/ ReplaceSource("none")
    BY <1>2 DEF UnRegisterExternalTexture, UnregisterTexture
  <2> QED
    BY <1>1, <2>1, <2>2, ListenerReplaced
<1>3. CASE SetExternalNativeImage
  <2>1. UNCHANGED <<listener, source, external>> \/ (ReplaceSource("ext") /\ external' = TRUE)
    BY <1>3 DEF SetExternalNativeImage
  <2> QED
    BY <1>1, <2>1, ListenerReplaced DEF Images
<1>4. CASE Reset
  BY <1>4, ListenerReplaced DEF Reset, Images
<1>5. CASE Setup \/ Teardown
  <2>1. UNCHANGED <<source, external>> /\ (SetListener("frame") \/ SetListener("default"))
    BY <1>5 DEF Setup, Teardown, textureVars
  <2>2. "ext" \in Images
    BY DEF Images
  <2>3. \/ listener'["ext"] = listener["ext"] \/ listener'["ext"] = "default"
        \/ source = "ext" /\ listener'["ext"] = "frame"
    BY <2>1, <2>2 DEF SetListener
  <2> QED
    BY <2>1, <2>3 DEF ListenerFollows
<1>6. CASE RegisterTexture \/ MarkNewFrameAvailable \/ Paint
  BY <1>1, <1>6 DEF RegisterTexture, MarkNewFrameAvailable, Paint, imageVars, textureVars
<1>7. CASE PlatformTask \/ DrawFrame \/ UNCHANGED vars \/ \E i \in Images : Producer(i)
  BY <1>1, <1>7 DEF PlatformTask, MarkTask, UnregisterAll, EraseFromMap, DrawFrame, vars,
     Producer, Flush, FrameAvailable, imageVars, textureVars
<1>8. CASE Client /\ ~UnRegisterExternalTexture
  BY <1>1, <1>8 DEF Client, NotifyDestroyed, NotifyCreate, SwitchImage, NotifyResizing,
     SetProducerWindowSize, ScheduleFrame, Layout, Freeze, imageVars, textureVars
<1> QED
  BY <1>2, <1>3, <1>4, <1>5, <1>6, <1>7, <1>8 DEF Next, RasterThread

LEMMA LeavingOwned ==
  ASSUME Leaving, owned = TRUE, [Next]_vars, ~UnRegisterExternalTexture
  PROVE  Leaving'
<1>1. platform # "dropping"
  BY DEF Leaving
<1>2. owned' = owned /\ (platform' = platform \/ platform' = "idle" \/ platform' = "detaching")
  <2>1. CASE RasterThread
    BY <2>1 DEF RasterThread, RegisterTexture, UnregisterTexture, Setup, Teardown,
       SetExternalNativeImage, Reset, MarkNewFrameAvailable, Paint, viewVars
  <2>2. CASE PlatformTask \/ DrawFrame \/ UNCHANGED vars \/ \E i \in Images : Producer(i)
    BY <2>2 DEF PlatformTask, MarkTask, UnregisterAll, EraseFromMap, DrawFrame, vars,
       Producer, Flush, FrameAvailable, viewVars
  <2>3. CASE Client
    BY <2>3 DEF Client, NotifyDestroyed, NotifyCreate, SwitchImage, NotifyResizing,
       SetProducerWindowSize, ScheduleFrame, Layout, Freeze, viewVars
  <2> QED
    BY <2>1, <2>2, <2>3 DEF Next
<1> QED
  BY <1>1, <1>2 DEF Leaving

LEMMA LeavingDropped ==
  ASSUME TextureTypes, UnRegisterExternalTexture
  PROVE  Leaving'
<1>1. /\ NoLatch /\ PostRaster(<<"unregister">>) /\ owned' = FALSE /\ platform' = "dropping"
      /\ registered' = registered
      /\ registered \/ Queued("register") \/ source' = "none"
      /\ source' = source \/ source' = "none"
  BY DEF UnRegisterExternalTexture, PlatformFree, ReplaceSource
<1>2. Pending' = Pending \cup {"unregister"} /\ RegisterEnds'
  <2>1. "unregister" \in RasterTasks
    BY DEF RasterTasks
  <2> QED
    BY <1>1, <2>1, PostedTasks, PostFacts
<1>3. Pending \cap {"setImage", "reset", "resetNew"} = {}
  BY <1>1, PendingFacts DEF Latched
<1> QED
  BY <1>1, <1>2, <1>3, PendingFacts DEF Leaving

\* Nothing registers the texture again.
LEMMA LeavingPosted ==
  ASSUME TextureTypes, Leaving, owned = FALSE,
         MarkTask \/ UnregisterAll \/ NotifyDestroyed \/ NotifyCreate \/ DrawFrame
  PROVE  Leaving'
<1>1. UNCHANGED <<owned, registered, source>>
  BY DEF MarkTask, UnregisterAll, NotifyDestroyed, NotifyCreate, DrawFrame, viewVars, textureVars
<1>2. (platform' # "dropping" => platform # "dropping") /\ (inMap' => inMap)
      /\ (platform' = "dropping" => platform = "dropping")
  BY DEF MarkTask, UnregisterAll, NotifyDestroyed, NotifyCreate, DrawFrame, viewVars, PlatformFree
<1>3. \/ PostRaster(<< >>)
      \/ \E t \in {"mark", "teardown", "setup", "draw"} : PostRaster(<<t>>)
  BY DEF MarkTask, UnregisterAll, NotifyDestroyed, NotifyCreate, DrawFrame
<1>4. \E T \in SUBSET {"mark", "teardown", "setup", "draw"} :
        Pending' = Pending \cup T /\ (RegisterEnds => RegisterEnds')
  <2>1. CASE PostRaster(<< >>)
    <3>1. raster' = raster
      BY <2>1, TypesSplit DEF TaskTypes, PostRaster
    <3>2. Pending' = Pending \cup {} /\ (RegisterEnds => RegisterEnds')
      BY <3>1 DEF Pending, RegisterEnds
    <3> QED
      BY <3>2
  <2>2. ASSUME NEW t \in {"mark", "teardown", "setup", "draw"}, PostRaster(<<t>>)
        PROVE  Pending' = Pending \cup {t} /\ (RegisterEnds => RegisterEnds')
    <3>1. t \in RasterTasks
      BY DEF RasterTasks
    <3>2. /\ <<t>> \in Seq(RasterTasks) /\ {<<t>>[k] : k \in DOMAIN <<t>>} = {t}
          /\ \A k \in DOMAIN <<t>> : <<t>>[k] # "register"
      BY <3>1, PostedTasks
    <3> QED
      BY <2>2, <3>2, PostFacts
  <2> QED
    BY <1>3, <2>1, <2>2
<1> QED
  BY <1>1, <1>2, <1>4 DEF Leaving

LEMMA LeavingRun ==
  ASSUME TextureTypes, Leaving, owned = FALSE, RasterThread
  PROVE  Leaving'
<1>1. /\ Pending \cap {"setImage", "reset", "resetNew"} = {} /\ RegisterEnds
      /\ registered => "unregister" \in Pending
      /\ source # "none" => registered \/ "register" \in Pending
      /\ platform # "dropping" => ~inMap /\ "unregister" \notin Pending
  BY DEF Leaving
<1>2. PICK task : /\ Run(task)
                  /\ \/ task = "register" /\ RegisterTexture
                     \/ task = "unregister" /\ UnregisterTexture
                     \/ task \in {"setImage", "reset", "resetNew"}
                     \/ task \notin {"register", "unregister"} /\ UNCHANGED <<registered, source>>
  <2>1. CASE RegisterTexture
    BY <2>1 DEF RegisterTexture
  <2>2. CASE UnregisterTexture
    BY <2>2 DEF UnregisterTexture
  <2>3. CASE SetExternalNativeImage \/ Reset
    BY <2>3 DEF SetExternalNativeImage, Reset
  <2>4. CASE Setup
    BY <2>4 DEF Setup, textureVars
  <2>5. CASE Teardown
    BY <2>5 DEF Teardown
  <2>6. CASE MarkNewFrameAvailable
    BY <2>6 DEF MarkNewFrameAvailable, viewVars
  <2>7. CASE Paint
    BY <2>7 DEF Paint, viewVars
  <2> QED
    BY <2>1, <2>2, <2>3, <2>4, <2>5, <2>6, <2>7 DEF RasterThread
<1>3. UNCHANGED <<owned, inMap, platform>>
  BY DEF RasterThread, RegisterTexture, UnregisterTexture, Setup, Teardown,
     SetExternalNativeImage, Reset, MarkNewFrameAvailable, Paint, viewVars
<1>4. /\ task \in Pending /\ Pending' \subseteq Pending /\ Pending \subseteq Pending' \cup {task}
      /\ RegisterEnds' /\ (task = "register" => "unregister" \in Pending')
  BY <1>1, <1>2, RunFacts
<1>5. /\ registered' => "unregister" \in Pending'
      /\ source' # "none" => registered' \/ "register" \in Pending'
  <2>1. CASE task = "register" /\ RegisterTexture
    <3>1. registered' = TRUE
      BY <2>1 DEF RegisterTexture
    <3> QED
      BY <1>4, <2>1, <3>1
  <2>2. CASE task = "unregister" /\ UnregisterTexture
    <3>1. registered' = FALSE /\ (registered => source' = "none") /\ (~registered => source' = source)
      BY <2>2 DEF UnregisterTexture, ReplaceSource
    <3> QED
      BY <1>1, <1>4, <2>2, <3>1
  <2>3. CASE task \in {"setImage", "reset", "resetNew"}
    BY <1>1, <1>4, <2>3
  <2>4. CASE task \notin {"register", "unregister"} /\ UNCHANGED <<registered, source>>
    BY <1>1, <1>4, <2>4
  <2> QED
    BY <1>2, <2>1, <2>2, <2>3, <2>4
<1>6. Pending' \cap {"setImage", "reset", "resetNew"} = {}
      /\ (platform # "dropping" => ~inMap /\ "unregister" \notin Pending')
  BY <1>1, <1>4
<1> QED
  BY <1>3, <1>4, <1>5, <1>6 DEF Leaving

LEMMA LeavingStep ==
  ASSUME TextureTypes, Leaving, [Next]_vars
  PROVE  Leaving'
<1>1. owned = TRUE \/ owned = FALSE
  BY TypesSplit DEF ViewTypes
<1>2. CASE owned = TRUE
  BY <1>2, LeavingOwned, LeavingDropped
<1>3. CASE owned = FALSE
  <2>1. CASE UNCHANGED <<raster, owned, registered, source, inMap, platform>>
    BY <2>1 DEF Leaving, Pending, RegisterEnds
  <2>2. CASE EraseFromMap
    <3>1. /\ platform' = "idle" /\ inMap' = FALSE /\ NoLatch
          /\ UNCHANGED <<raster, owned, registered, source>>
      BY <2>2 DEF EraseFromMap, taskVars, textureVars
    <3>2. "unregister" \notin Pending
      BY <3>1, PendingFacts DEF Latched
    <3>3. Pending' = Pending /\ (RegisterEnds => RegisterEnds')
      BY <3>1 DEF Pending, RegisterEnds
    <3> QED
      BY <1>3, <3>1, <3>2, <3>3 DEF Leaving
  <2>3. CASE MarkTask \/ UnregisterAll \/ NotifyDestroyed \/ NotifyCreate \/ DrawFrame
    BY <1>3, <2>3, LeavingPosted
  <2>4. CASE RasterThread
    BY <1>3, <2>4, LeavingRun
  <2>5. CASE ScheduleFrame \/ Layout \/ Freeze \/ UNCHANGED vars \/ \E i \in Images : Producer(i)
    BY <2>1, <2>5 DEF ScheduleFrame, Layout, Freeze, vars, Producer, Flush, FrameAvailable,
       viewVars, taskVars, textureVars
  <2>6. CASE \/ \E task \in {"setImage", "reset", "resetNew"} : SwitchImage(task)
             \/ UnRegisterExternalTexture \/ NotifyResizing \/ SetProducerWindowSize
    BY <1>3, <2>6 DEF SwitchImage, UnRegisterExternalTexture, NotifyResizing, SetProducerWindowSize
  <2> QED
    BY <2>2, <2>3, <2>4, <2>5, <2>6 DEF Next, PlatformTask, Client
<1> QED
  BY <1>1, <1>2, <1>3

LEMMA LifeInit ==
  ASSUME Init
  PROVE  LifeInv
<1>1. LatchedOnce
  BY DEF Init, LatchedOnce
<1> QED
  BY <1>1 DEF Init, LifeInv, ListenerFollows, Leaving

\* What the embedder relies on follows from the invariant.
LEMMA InvImpliesTextureInv ==
  ASSUME OrderInv, LifeInv
  PROVE  TextureInv
<1>1. TextureTypes /\ TypeOK
  BY DEF OrderInv, TextureTypes
<1>2. BuffersInOrder
  <2>1. \A j, k \in DOMAIN Waiting : j < k => Waiting[j].n < Waiting[k].n
    <3>1. CASE source = "none"
      BY <1>1, <3>1, WaitingTypes
    <3>2. CASE source # "none"
      BY <1>1, <3>2, WaitingTypes DEF OrderInv, QueuesInOrder
    <3> QED
      BY <3>1, <3>2
  <2> QED
    BY <2>1 DEF OrderInv, HeldInOrder, Precedes, BuffersInOrder
<1>3. UnregisteredLetsGo
  <2> SUFFICES ASSUME ~owned, PlatformFree
               PROVE  source = "none" /\ ~inMap /\ ~registered /\ listener["ext"] = "default"
    BY DEF UnregisteredLetsGo
  <2>1. /\ ~inMap /\ "unregister" \notin Pending /\ ~registered /\ RegisterEnds
        /\ source # "none" => "register" \in Pending
    BY DEF LifeInv, Leaving, PlatformFree
  <2>2. "register" \notin Pending
    BY <2>1 DEF Pending, RegisterEnds
  <2>3. listener["ext"] \in {"frame", "default"}
    BY <1>1, TypesSplit DEF ImageTypes, Images
  <2> QED
    BY <2>1, <2>2, <2>3 DEF LifeInv, ListenerFollows
<1> QED
  BY <1>1, <1>2, <1>3 DEF TextureInv

\* OHOSExternalTexture and PlatformViewOHOS: no buffer is released twice or used after
\* its release, and when UnRegisterExternalTexture has returned neither the map, the
\* registry nor a listener refers to the texture, whatever was posted before.
THEOREM TexturesCorrect == Spec => []TextureInv
<1>1. Init => OrderInv /\ LifeInv
  BY OrderInit, LifeInit
<1>2. OrderInv /\ LifeInv /\ [Next]_vars => (OrderInv /\ LifeInv)'
  <2>1. ASSUME OrderInv, LifeInv, [Next]_vars PROVE LifeInv'
    <3>1. TextureTypes /\ LatchedOnce /\ ListenerFollows /\ Leaving
      BY <2>1 DEF OrderInv, LifeInv
    <3> QED
      BY <2>1, <3>1, LatchedStep, ListenerStep, LeavingStep DEF LifeInv
  <2> QED
    BY <2>1, OrderStep
<1>3. OrderInv /\ LifeInv => TextureInv
  BY InvImpliesTextureInv
<1> QED
  BY <1>1, <1>2, <1>3, PTL DEF Spec

-----------------------------------------------------------------------------
(* Every queued buffer is announced *)

\* MarkTextureFrameAvailable tasks queued for the raster thread.
MarkedAt == {k \in DOMAIN raster : raster[k] = "mark"}
RasterMarks == Cardinality(MarkedAt)

LEMMA MarksFinite ==
  ASSUME TextureTypes
  PROVE  IsFiniteSet(MarkedAt) /\ RasterMarks \in Nat
<1>1. DOMAIN raster = 1 .. Len(raster) /\ Len(raster) \in Nat
  BY TypesSplit DEF TaskTypes
<1>2. IsFiniteSet(1 .. Len(raster))
  BY <1>1, FS_Interval
<1>3. MarkedAt \in SUBSET (1 .. Len(raster))
  BY <1>1 DEF MarkedAt
<1>4. IsFiniteSet(MarkedAt)
  BY <1>2, <1>3, FS_Subset
<1> QED
  BY <1>4, FS_CardinalityType DEF RasterMarks

LEMMA MarksPosted ==
  ASSUME TextureTypes, NEW t \in RasterTasks, PostRaster(<<t>>)
  PROVE  RasterMarks' = RasterMarks + One(t = "mark")
<1>1. /\ raster \in Seq(RasterTasks) /\ raster' = raster \o <<t>> /\ Len(raster) \in Nat
  BY TypesSplit DEF TaskTypes, PostRaster
<1>2. /\ DOMAIN raster = 1 .. Len(raster) /\ DOMAIN raster' = 1 .. Len(raster) + 1
      /\ \A k \in 1 .. Len(raster) : raster'[k] = raster[k]
      /\ raster'[Len(raster) + 1] = t
  BY <1>1
<1>3. IsFiniteSet(MarkedAt) /\ RasterMarks \in Nat /\ RasterMarks = Cardinality(MarkedAt)
      /\ RasterMarks' = Cardinality(MarkedAt')
  BY MarksFinite DEF RasterMarks
<1>4. CASE t = "mark"
  <2>1. MarkedAt' = MarkedAt \cup {Len(raster) + 1} /\ Len(raster) + 1 \notin MarkedAt
    BY <1>1, <1>2, <1>4 DEF MarkedAt
  <2>2. Cardinality(MarkedAt \cup {Len(raster) + 1}) = Cardinality(MarkedAt) + 1
    BY <1>3, <2>1, FS_AddElement
  <2>3. One(t = "mark") = 1
    BY <1>4 DEF One
  <2> QED
    BY <1>3, <2>1, <2>2, <2>3
<1>5. CASE t # "mark"
  <2>1. MarkedAt' = MarkedAt
    BY <1>1, <1>2, <1>5 DEF MarkedAt
  <2>2. One(t = "mark") = 0
    BY <1>5 DEF One
  <2> QED
    BY <1>3, <2>1, <2>2
<1> QED
  BY <1>4, <1>5

LEMMA MarksRun ==
  ASSUME TextureTypes, NEW task, Run(task)
  PROVE  RasterMarks' = RasterMarks - One(task = "mark")
<1>1. /\ raster \in Seq(RasterTasks) /\ raster # << >> /\ Head(raster) = task
      /\ raster' = Tail(raster) /\ Len(raster) \in Nat
  BY TypesSplit DEF TaskTypes, Run
<1>2. /\ DOMAIN raster = 1 .. Len(raster) /\ Len(raster) >= 1 /\ raster[1] = task
      /\ DOMAIN raster' = 1 .. Len(raster) - 1
      /\ \A k \in 1 .. Len(raster) - 1 : raster'[k] = raster[k + 1]
  BY <1>1
<1>3. IsFiniteSet(MarkedAt) /\ RasterMarks \in Nat /\ RasterMarks = Cardinality(MarkedAt)
      /\ RasterMarks' = Cardinality(MarkedAt')
  BY MarksFinite DEF RasterMarks
<1>4. /\ IsFiniteSet(MarkedAt \ {1})
      /\ Cardinality(MarkedAt \ {1}) =
           IF 1 \in MarkedAt THEN Cardinality(MarkedAt) - 1 ELSE Cardinality(MarkedAt)
  BY <1>3, FS_RemoveElement
<1>5. Cardinality(MarkedAt') = Cardinality(MarkedAt \ {1})
  <2> DEFINE S == MarkedAt \ {1}
             T == MarkedAt'
             f == [k \in S |-> k - 1]
  <2>1. \A k \in S : k \in Nat /\ k - 1 \in T
    BY <1>1, <1>2 DEF MarkedAt
  <2>2. \A k \in T : k \in Nat /\ k + 1 \in S /\ (k + 1) - 1 = k
    BY <1>1, <1>2 DEF MarkedAt
  <2>3. f \in [S -> T]
    BY <2>1
  <2>4. \A a, b \in S : f[a] = f[b] => a = b
    BY <2>1
  <2>5. \A k \in T : \E j \in S : f[j] = k
    BY <2>2
  <2>6. f \in Bijection(S, T)
    <3>1. DOMAIN f = S
      OBVIOUS
    <3> HIDE DEF f, S, T
    <3> QED
      BY <2>3, <2>4, <2>5, <3>1 DEF Bijection, Injection, IsInjective, Surjection
  <2>7. ExistsBijection(S, T)
    BY <2>6 DEF ExistsBijection
  <2> QED
    BY <1>4, <2>7, FS_Bijection
<1>6. CASE task = "mark"
  <2>1. 1 \in MarkedAt
    BY <1>2, <1>6 DEF MarkedAt
  <2>2. One(task = "mark") = 1
    BY <1>6 DEF One
  <2> QED
    BY <1>3, <1>4, <1>5, <2>1, <2>2
<1>7. CASE task # "mark"
  <2>1. 1 \notin MarkedAt
    BY <1>2, <1>7 DEF MarkedAt
  <2>2. One(task = "mark") = 0
    BY <1>7 DEF One
  <2> QED
    BY <1>3, <1>4, <1>5, <2>1, <2>2
<1> QED
  BY <1>6, <1>7

\* The texture stays with the embedder and its surface has not gone away.
Held == owned = TRUE /\ detaches = 0

\* The operations that end this, or that it excludes.
LEMMA HeldBefore ==
  ASSUME TextureTypes, Connected, [Next]_vars, Held'
  PROVE  /\ Held
         /\ ~NotifyDestroyed /\ ~NotifyCreate /\ ~UnRegisterExternalTexture
         /\ ~UnregisterAll /\ ~EraseFromMap /\ ~UnregisterTexture /\ ~Teardown
<1>1. Held /\ ~NotifyDestroyed /\ ~UnRegisterExternalTexture
  <2>1. detaches \in Nat
    BY TypesSplit DEF EventTypes
  <2>2. ~NotifyDestroyed /\ ~UnRegisterExternalTexture
    <3>1. ASSUME NotifyDestroyed PROVE FALSE
      <4>1. detaches' = detaches + 1
        BY <3>1 DEF NotifyDestroyed
      <4> QED
        BY <2>1, <4>1 DEF Held
    <3>2. ASSUME UnRegisterExternalTexture PROVE FALSE
      BY <3>2 DEF UnRegisterExternalTexture, Held
    <3> QED
      BY <3>1, <3>2
  <2>3. CASE RasterThread
    BY <2>2, <2>3 DEF RasterThread, RegisterTexture, UnregisterTexture, Setup, Teardown,
       SetExternalNativeImage, Reset, MarkNewFrameAvailable, Paint, viewVars, eventVars, Held
  <2>4. CASE PlatformTask \/ DrawFrame \/ UNCHANGED vars \/ \E i \in Images : Producer(i)
    BY <2>2, <2>4 DEF PlatformTask, MarkTask, UnregisterAll, EraseFromMap, DrawFrame, vars,
       Producer, Flush, FrameAvailable, viewVars, eventVars, Held
  <2>5. CASE Client
    BY <2>2, <2>5 DEF Client, NotifyCreate, SwitchImage, NotifyResizing,
       SetProducerWindowSize, ScheduleFrame, Layout, Freeze, viewVars, eventVars, Held
  <2> QED
    BY <2>2, <2>3, <2>4, <2>5 DEF Next
<1>2. attached /\ platform = "idle" /\ Pending \cap {"teardown", "unregister"} = {}
  BY <1>1 DEF Held, Connected
<1>3. ~NotifyCreate /\ ~UnregisterAll /\ ~EraseFromMap
  BY <1>2 DEF NotifyCreate, UnregisterAll, EraseFromMap
<1>4. ~UnregisterTexture /\ ~Teardown
  <2>1. ~Run("unregister") /\ ~Run("teardown")
    BY <1>2, RunFacts
  <2> QED
    BY <2>1 DEF UnregisterTexture, Teardown
<1> QED
  BY <1>1, <1>3, <1>4

LEMMA ConnectedStep ==
  ASSUME TextureTypes, Connected, [Next]_vars
  PROVE  Connected'
<1> SUFFICES ASSUME Held' PROVE Connected'
  <2>1. owned' \in BOOLEAN
    <3>1. TextureTypes'
      BY TypeStep
    <3>2. ViewTypes'
      BY <3>1, TypesSplit, PTL
    <3> QED
      BY <3>2 DEF ViewTypes
  <2> QED
    BY <2>1 DEF Connected, Held
<1>1. /\ Held /\ ~NotifyDestroyed /\ ~NotifyCreate /\ ~UnRegisterExternalTexture
      /\ ~UnregisterAll /\ ~EraseFromMap /\ ~UnregisterTexture /\ ~Teardown
  BY HeldBefore
<1>2. /\ inMap /\ attached /\ platform = "idle"
      /\ registered \/ (raster # << >> /\ Head(raster) = "register")
      /\ Pending \cap {"teardown", "unregister"} = {}
      /\ source # "none" => listener[source] = "frame"
  BY <1>1 DEF Held, Connected
<1>3. CASE UNCHANGED <<inMap, attached, platform, registered, raster, source, listener>>
  BY <1>2, <1>3 DEF Connected, Pending
<1>4. ASSUME NEW t \in RasterTasks \ {"teardown", "unregister"}, PostRaster(<<t>>),
             UNCHANGED <<inMap, attached, platform, registered, source, listener>>
      PROVE  Connected'
  <2>1. Pending' = Pending \cup {t}
    BY <1>4, PostedTasks, PostFacts
  <2>2. raster # << >> => raster' # << >> /\ Head(raster') = Head(raster)
    BY <1>4, TypesSplit DEF TaskTypes, PostRaster
  <2> QED
    BY <1>2, <1>4, <2>1, <2>2 DEF Connected
<1>5. CASE MarkTask \/ DrawFrame \/ \E task \in {"setImage", "reset", "resetNew"} : SwitchImage(task)
  <2>1. UNCHANGED <<inMap, attached, platform, registered, source, listener>>
    BY <1>5 DEF MarkTask, DrawFrame, SwitchImage, viewVars, textureVars, imageVars
  <2>2. \E t \in RasterTasks \ {"teardown", "unregister"} : PostRaster(<<t>>)
    BY <1>2, <1>5 DEF MarkTask, DrawFrame, SwitchImage, RasterTasks
  <2> QED
    BY <1>4, <2>1, <2>2
<1>6. CASE NotifyResizing \/ SetProducerWindowSize \/ ScheduleFrame \/ Layout \/ Freeze
           \/ UNCHANGED vars \/ \E i \in Images : Producer(i)
  BY <1>3, <1>6 DEF NotifyResizing, SetProducerWindowSize, ScheduleFrame, Layout, Freeze, vars,
     Producer, Flush, FrameAvailable, viewVars, textureVars, imageVars, taskVars
<1>7. CASE RasterThread
  <2>1. UNCHANGED <<inMap, attached, platform>>
    BY <1>7 DEF RasterThread, RegisterTexture, UnregisterTexture, Setup, Teardown,
       SetExternalNativeImage, Reset, MarkNewFrameAvailable, Paint, viewVars
  <2>2. ASSUME NEW task, Run(task), task = "register" \/ UNCHANGED registered,
               task = "register" => registered',
               source' # "none" => listener'[source'] = "frame"
        PROVE  Connected'
    <3>1. Head(raster) = task /\ Pending' \subseteq Pending
      BY <2>2, RunFacts
    <3>2. registered'
      BY <1>2, <2>2, <3>1
    <3> QED
      BY <1>2, <2>1, <2>2, <3>1, <3>2 DEF Connected
  <2>3. source \in Images \cup {"none"} /\ "none" \notin Images
    BY TypesSplit DEF SourceTypes, Images
  <2>4. ASSUME NEW next \in Images \cup {"none"}, ReplaceSource(next)
        PROVE  source' # "none" => listener'[source'] = "frame"
    BY <2>4 DEF ReplaceSource
  <2>5. CASE RegisterTexture
    <3>1. Run("register") /\ registered' /\ UNCHANGED <<source, listener>>
      BY <2>5 DEF RegisterTexture, textureVars, imageVars
    <3> QED
      BY <1>2, <2>2, <3>1
  <2>6. CASE Setup
    <3>1. Run("setup") /\ UNCHANGED <<registered, source>> /\ SetListener("frame")
      BY <2>6 DEF Setup, textureVars
    <3>2. source # "none" => listener'[source] = "frame"
      BY <1>2, <2>3, <3>1 DEF SetListener
    <3> QED
      BY <2>2, <3>1, <3>2
  <2>7. CASE SetExternalNativeImage
    <3>1. Run("setImage") /\ UNCHANGED registered
      BY <2>7 DEF SetExternalNativeImage, viewVars
    <3>2. UNCHANGED <<source, listener>> \/ ReplaceSource("ext")
      BY <2>7 DEF SetExternalNativeImage
    <3>3. source' # "none" => listener'[source'] = "frame"
      BY <1>2, <2>4, <3>2 DEF Images
    <3> QED
      BY <2>2, <3>1, <3>3
  <2>8. CASE Reset
    <3>1. (Run("reset") \/ Run("resetNew")) /\ UNCHANGED registered
      BY <2>8 DEF Reset, viewVars
    <3>2. ReplaceSource("none") \/ ReplaceSource("own")
      BY <2>8 DEF Reset
    <3>3. source' # "none" => listener'[source'] = "frame"
      BY <2>4, <3>2 DEF Images
    <3> QED
      BY <2>2, <3>1, <3>3
  <2>9. CASE MarkNewFrameAvailable \/ Paint
    <3>1. (Run("mark") \/ Run("draw")) /\ UNCHANGED <<registered, source, listener>>
      BY <2>9 DEF MarkNewFrameAvailable, Paint, viewVars
    <3> QED
      BY <1>2, <2>2, <3>1
  <2> QED
    BY <1>1, <1>7, <2>5, <2>6, <2>7, <2>8, <2>9 DEF RasterThread
<1> QED
  BY <1>1, <1>5, <1>6, <1>7 DEF Next, PlatformTask, Client

LEMMA UnresizedStep ==
  ASSUME TextureTypes, Unresized, [Next]_vars
  PROVE  Unresized'
<1>1. CASE UNCHANGED <<resizes, size>> /\ (UNCHANGED parked \/ parked' = NoBuffer)
  BY <1>1 DEF Unresized
<1>2. CASE NotifyResizing
  <2>1. resizes' # 0
    BY <1>2, TypesSplit DEF NotifyResizing, EventTypes
  <2> QED
    BY <2>1 DEF Unresized
<1>3. CASE Client /\ ~NotifyResizing
  BY <1>1, <1>3 DEF Client, NotifyDestroyed, NotifyCreate, SwitchImage, UnRegisterExternalTexture,
     ReplaceSource, SetProducerWindowSize, ScheduleFrame, Layout, Freeze, textureVars, eventVars
<1>4. CASE PlatformTask \/ DrawFrame \/ UNCHANGED vars \/ \E i \in Images : Producer(i)
  BY <1>1, <1>4 DEF PlatformTask, MarkTask, UnregisterAll, EraseFromMap, DrawFrame, vars,
     Producer, Flush, FrameAvailable, textureVars, eventVars
<1>5. CASE RasterThread /\ ~Paint
  BY <1>1, <1>5 DEF RasterThread, RegisterTexture, UnregisterTexture, Setup, Teardown,
     SetExternalNativeImage, Reset, MarkNewFrameAvailable, ReplaceSource, textureVars, eventVars
<1>6. CASE Paint
  <2>1. UNCHANGED resizes
    BY <1>6 DEF Paint, eventVars
  <2>2. CASE UNCHANGED <<parked, size>>
    BY <1>1, <2>1, <2>2
  <2>3. CASE PaintOld
    <3>1. UNCHANGED parked /\ (~size.changing => ~size'.changing)
      BY <2>3, OldFacts, AcquiredTypes, FinishFacts
    <3> QED
      BY <2>1, <3>1 DEF Unresized
  <2>4. CASE PaintAndPark
    BY <2>1, <2>4, ParkFacts DEF Unresized
  <2>5. CASE PaintNext
    <3>1. PICK m \in Nat, next \in Buffers, seq \in Nat : Shown(m, next, seq)
      BY <2>5, ShowFacts
    <3>2. parked' = NoBuffer /\ FinishPaint(next, Acquired.size, Differs)
      BY <3>1 DEF Shown
    <3>3. ~size.changing => ~size'.changing
      BY <3>2, AcquiredTypes, FinishFacts
    <3> QED
      BY <2>1, <3>2, <3>3 DEF Unresized
  <2> QED
    BY <1>6, <2>2, <2>3, <2>4, <2>5 DEF Paint
<1> QED
  BY <1>2, <1>3, <1>4, <1>5, <1>6 DEF Next

\* Frames the texture or somebody on the way to it knows of.
Told == newSeq - paintSeq + (marks + RasterMarks + One(source \in notifying))

LEMMA ToldFacts ==
  ASSUME TextureTypes
  PROVE  /\ newSeq \in Nat /\ paintSeq \in Nat /\ marks \in Nat /\ RasterMarks \in Nat
         /\ One(source \in notifying) \in {0, 1} /\ Len(Waiting) \in Nat /\ Told \in Int
         /\ WaitingIsAnnounced <=> (owned /\ detaches = 0 /\ resizes = 0 => Len(Waiting) <= Told)
<1>1. newSeq \in Nat /\ paintSeq \in Nat /\ marks \in Nat /\ RasterMarks \in Nat /\ Len(Waiting) \in Nat
  BY TypesSplit, MarksFinite, WaitingTypes DEF SourceTypes, TaskTypes
<1>2. One(source \in notifying) \in {0, 1}
  BY DEF One
<1>3. Told \in Int
  BY <1>1, <1>2 DEF Told
<1>4. Told = newSeq - paintSeq + Announcements
  BY DEF Told, Announcements, RasterMarks, MarkedAt
<1> QED
  BY <1>1, <1>2, <1>3, <1>4 DEF WaitingIsAnnounced

ToldTypes ==
  /\ marks \in Nat /\ RasterMarks \in Nat /\ One(source \in notifying) \in {0, 1}
  /\ WaitingIsAnnounced <=> (owned /\ detaches = 0 /\ resizes = 0 => Len(Waiting) <= Told)

LEMMA ToldTyped == TextureTypes => ToldTypes
BY ToldFacts DEF ToldTypes

LEMMA ToldNext ==
  ASSUME TextureTypes'
  PROVE  ToldTypes'
BY ToldTyped, PTL

\* Images and their listeners: a flushed buffer is announced by the producer, then by
\* the task it posts.
LEMMA AnnouncedProducer ==
  ASSUME TextureTypes, Len(Waiting) <= Told, inMap = TRUE,
         source # "none" => listener[source] = "frame",
         NEW i \in Images, Producer(i)
  PROVE  Len(Waiting)' <= Told'
<1>1. source \in Images \cup {"none"} /\ "none" \notin Images /\ \A j \in Images : Len(queue[j]) \in Nat
  BY TypesSplit DEF SourceTypes, ImageTypes, Images
<1>2. UNCHANGED <<source, newSeq, paintSeq, raster>> /\ RasterMarks' = RasterMarks
  BY DEF Producer, Flush, FrameAvailable, textureVars, taskVars, RasterMarks, MarkedAt
<1>3. CASE source # i
  <2>1. queue \in [Images -> Seq(Buffers)]
    BY TypesSplit DEF ImageTypes
  <2>2. Waiting' = Waiting
    BY <1>1, <1>2, <1>3, <2>1 DEF Producer, Flush, FrameAvailable, Waiting
  <2>3. One(source \in notifying)' = One(source \in notifying)
    BY <1>2, <1>3 DEF Producer, Flush, FrameAvailable, One
  <2>4. marks' = marks \/ marks' = marks + 1
    BY ToldFacts DEF Producer, Flush, FrameAvailable, One, taskVars
  <2> QED
    BY <1>2, <2>2, <2>3, <2>4, ToldFacts DEF Told
<1>4. CASE source = i /\ Flush(i)
  <2>1. Waiting = queue[i] /\ Waiting' = queue'[i] /\ queue[i] \in Seq(Buffers)
        /\ queue \in [Images -> Seq(Buffers)]
    BY <1>1, <1>2, <1>4, TypesSplit DEF Waiting, ImageTypes
  <2>2. queue'[i] = Append(queue[i], [n |-> flushed', size |-> window])
    BY <1>4, <2>1 DEF Flush
  <2>3. Len(Waiting') = Len(Waiting) + 1
    BY <2>1, <2>2
  <2>4. /\ One(source \in notifying) = 0 /\ One(source \in notifying)' = 1 /\ marks' = marks
    BY <1>2, <1>4 DEF Flush, One, taskVars
  <2> QED
    BY <1>2, <2>3, <2>4, ToldFacts DEF Told
<1>5. CASE source = i /\ FrameAvailable(i)
  <2>1. listener[i] = "frame"
    BY <1>1, <1>5
  <2>2. marks' = marks + 1 /\ Waiting' = Waiting
    BY <1>2, <1>5, <2>1 DEF FrameAvailable, Waiting, One
  <2>3. One(source \in notifying) = 1 /\ One(source \in notifying)' = 0
    BY <1>2, <1>5 DEF FrameAvailable, One
  <2> QED
    BY <1>2, <2>2, <2>3, ToldFacts DEF Told
<1> QED
  BY <1>3, <1>4, <1>5 DEF Producer

\* Paint: a buffer that is left behind is announced again.
LEMMA AnnouncedPaint ==
  ASSUME TextureTypes, Len(Waiting) <= Told, inMap = TRUE, parked = NoBuffer, ~size.changing, Paint
  PROVE  Len(Waiting)' <= Told'
<1>1. Run("draw") /\ UNCHANGED <<source, notifying>>
  BY DEF Paint
<1>2. RasterMarks' = RasterMarks
  <2>1. RasterMarks' = RasterMarks - One("draw" = "mark") /\ One("draw" = "mark") = 0
    BY <1>1, MarksRun DEF One
  <2> QED
    BY <2>1, ToldFacts
<1>3. One(source \in notifying)' = One(source \in notifying)
  BY <1>1
<1>4. CASE UNCHANGED <<queue, newSeq, paintSeq, marks>>
  <2>1. Waiting' = Waiting
    BY <1>1, <1>4 DEF Waiting
  <2> QED
    BY <1>2, <1>3, <1>4, <2>1 DEF Told
<1>5. CASE PaintOld
  <2>1. UNCHANGED <<queue, newSeq, marks>> /\ (paintSeq' = paintSeq \/ (paintSeq' = newSeq /\ Waiting = << >>))
    BY <1>5, OldFacts
  <2>2. CASE paintSeq' = paintSeq
    BY <1>4, <2>1, <2>2
  <2>3. CASE paintSeq' = newSeq /\ Waiting = << >>
    <3>1. Waiting' = << >>
      BY <1>1, <2>1, <2>3 DEF Waiting
    <3> QED
      BY <1>2, <1>3, <2>1, <2>3, <3>1, ToldFacts DEF Told
  <2> QED
    BY <2>1, <2>2, <2>3
<1>6. CASE PaintAndPark
  BY <1>6, ParkFacts
<1>7. CASE PaintNext
  <2>1. PICK m \in Nat, next \in Buffers, seq \in Nat : Shown(m, next, seq)
    BY <1>7, ShowFacts
  <2>2. source \in Images /\ Waiting' = queue'[source]
    BY <1>1, <1>7, ShowFacts DEF Waiting, Images
  <2>3. m > 0 /\ Len(Waiting') = Len(Waiting) - m
    <3>1. m # 0
      BY <2>1, BufferFacts DEF Shown
    <3> QED
      BY <2>1, <2>2, <3>1 DEF Shown
  <2>4. SeqAfterAcquire = paintSeq
    <3>1. SeqAfterAcquire = paintSeq + 0
      BY DEF SeqAfterAcquire, One
    <3> QED
      BY <3>1, ToldFacts
  <2>5. (seq = newSeq /\ m = Len(Waiting)) \/ seq = paintSeq + m
    BY <2>1, <2>3, <2>4 DEF Shown
  <2>6. paintSeq' = seq /\ Reschedule(seq)
    BY <2>1 DEF Shown
  <2>7. CASE seq < newSeq
    <3>1. newSeq' = newSeq - 1 /\ marks' = marks + 1
      BY <2>6, <2>7 DEF Reschedule, One
    <3>2. seq = paintSeq + m
      BY <2>5, <2>7, ToldFacts
    <3>3. Told' = newSeq - 1 - (paintSeq + m)
                    + ((marks + 1) + RasterMarks + One(source \in notifying))
      BY <1>2, <1>3, <2>6, <3>1, <3>2 DEF Told
    <3>4. Told' = Told - m
      BY SMTT(30), <3>3, ToldFacts DEF Told
    <3> QED
      BY <2>3, <3>4, ToldFacts
  <2>8. CASE ~(seq < newSeq)
    <3>1. newSeq' = newSeq /\ marks' = marks
      BY <2>6, <2>8, ToldFacts DEF Reschedule, One
    <3>2. Told' = newSeq - seq + (marks + RasterMarks + One(source \in notifying))
      BY <1>2, <1>3, <2>6, <3>1 DEF Told
    <3>3. CASE seq = newSeq /\ m = Len(Waiting)
      BY <2>3, <3>2, <3>3, ToldFacts
    <3>4. CASE seq = paintSeq + m
      <4>1. Told' = Told - m
        BY SMTT(30), <3>2, <3>4, ToldFacts DEF Told
      <4> QED
        BY <2>3, <4>1, ToldFacts
    <3> QED
      BY <2>5, <3>3, <3>4
  <2> QED
    BY <2>7, <2>8
<1> QED
  BY <1>4, <1>5, <1>6, <1>7 DEF Paint

\* MarkNewFrameAvailable: what it releases it counts as painted.
LEMMA AnnouncedMark ==
  ASSUME TextureTypes, Len(Waiting) <= Told, MarkNewFrameAvailable,
         registered \/ (raster # << >> /\ Head(raster) = "register")
  PROVE  Len(Waiting)' <= Told'
<1>1. Run("mark") /\ UNCHANGED <<source, notifying, marks>>
  BY DEF MarkNewFrameAvailable
<1>2. RasterMarks' = RasterMarks - 1
  <2>1. RasterMarks' = RasterMarks - One("mark" = "mark") /\ One("mark" = "mark") = 1
    BY <1>1, MarksRun DEF One
  <2> QED
    BY <2>1
<1>3. One(source \in notifying)' = One(source \in notifying)
  BY <1>1
<1>4. CASE newSeq' = newSeq + 1 /\ UNCHANGED <<queue, paintSeq>>
  <2>1. Waiting' = Waiting
    BY <1>1, <1>4 DEF Waiting
  <2>2. Told' = newSeq + 1 - paintSeq + (marks + (RasterMarks - 1) + One(source \in notifying))
    BY <1>1, <1>2, <1>3, <1>4, ToldFacts DEF Told
  <2>3. Told' = Told
    BY <2>2, ToldFacts DEF Told
  <2> QED
    BY <2>1, <2>3
<1>5. ASSUME NEW n \in Nat \ {0}, newSeq' = newSeq + 1, source \in Images,
             queue' = [queue EXCEPT ![source] = DropFirst(n, @)],
             paintSeq' = IF n > Len(queue[source]) THEN newSeq + 1 ELSE paintSeq + n
      PROVE  Len(Waiting)' <= Told'
  <2>1. Waiting = queue[source] /\ Waiting \in Seq(Buffers) /\ Waiting' = DropFirst(n, queue[source])
    BY <1>1, <1>5, TypesSplit, WaitingTypes DEF Waiting, ImageTypes
  <2>2. Len(Waiting') = IF n <= Len(Waiting) THEN Len(Waiting) - n ELSE 0
    BY <2>1, DropFirstFacts
  <2>3. /\ RasterMarks' \in Nat /\ marks \in Nat /\ One(source \in notifying) \in {0, 1}
    <3>1. TextureTypes'
      BY TypeStep DEF Next, RasterThread
    <3>2. RasterMarks' \in Nat
      BY <3>1, ToldNext DEF ToldTypes
    <3> QED
      BY <3>2, ToldFacts
  <2>4. CASE n > Len(Waiting)
    <3>1. newSeq' = newSeq + 1 /\ paintSeq' = newSeq + 1 /\ Len(Waiting') = 0
      BY <1>5, <2>1, <2>2, <2>4, ToldFacts
    <3>2. Told' = (newSeq + 1) - (newSeq + 1) + (marks + RasterMarks' + One(source \in notifying))
      BY <1>1, <1>3, <3>1 DEF Told
    <3> QED
      BY SMTT(30), <2>3, <3>1, <3>2, ToldFacts
  <2>5. CASE ~(n > Len(Waiting))
    <3>1. newSeq' = newSeq + 1 /\ paintSeq' = paintSeq + n /\ Len(Waiting') = Len(Waiting) - n
      BY <1>5, <2>1, <2>2, <2>5, ToldFacts
    <3>2. Told' = newSeq + 1 - (paintSeq + n) + (marks + (RasterMarks - 1) + One(source \in notifying))
      BY <1>1, <1>2, <1>3, <3>1, ToldFacts DEF Told
    <3>3. Told' = Told - n
      BY SMTT(30), <3>2, ToldFacts DEF Told
    <3> QED
      BY <3>1, <3>3, ToldFacts
  <2> QED
    BY <2>4, <2>5
<1>6. \/ newSeq' = newSeq + 1 /\ UNCHANGED <<queue, paintSeq>>
      \/ \E n \in Nat \ {0} :
           /\ newSeq' = newSeq + 1 /\ source \in Images
           /\ queue' = [queue EXCEPT ![source] = DropFirst(n, @)]
           /\ paintSeq' = IF n > Len(queue[source]) THEN newSeq + 1 ELSE paintSeq + n
  <2>1. registered
    BY <1>1 DEF Run
  <2> QED
    BY <2>1, MarkFacts
<1> QED
  BY <1>4, <1>5, <1>6

\* A new source starts with an empty queue.
LEMMA AnnouncedReplaced ==
  ASSUME TextureTypes, TextureTypes', NEW next \in Images \cup {"none"}, ReplaceSource(next)
  PROVE  Len(Waiting)' <= Told'
<1>1. newSeq' = 0 /\ paintSeq' = 0 /\ Waiting' = << >>
  BY DEF ReplaceSource, Waiting
<1>2. marks' \in Nat /\ RasterMarks' \in Nat /\ One(source \in notifying)' \in {0, 1}
  BY ToldNext DEF ToldTypes
<1>3. Told' = 0 - 0 + (marks' + RasterMarks' + One(source \in notifying)')
  BY <1>1 DEF Told
<1> QED
  BY <1>1, <1>2, <1>3

LEMMA AnnouncedStep ==
  ASSUME TextureTypes, Connected, Unresized, WaitingIsAnnounced, [Next]_vars
  PROVE  WaitingIsAnnounced'
<1>1. TextureTypes'
  BY TypeStep
<1>2. owned \in BOOLEAN /\ owned' \in BOOLEAN /\ resizes \in Nat
  <2>1. ViewTypes /\ ViewTypes'
    BY <1>1, TypesSplit, PTL
  <2>2. resizes \in Nat
    BY TypesSplit DEF EventTypes
  <2> QED
    BY <2>1, <2>2 DEF ViewTypes
<1> SUFFICES ASSUME Held', resizes' = 0 PROVE Len(Waiting)' <= Told'
  <2>1. WaitingIsAnnounced' <=> (owned' /\ detaches' = 0 /\ resizes' = 0 => Len(Waiting)' <= Told')
    BY <1>1, ToldNext DEF ToldTypes
  <2> QED
    BY <1>2, <2>1 DEF Held
<1>3. /\ Held /\ ~NotifyDestroyed /\ ~NotifyCreate /\ ~UnRegisterExternalTexture
      /\ ~UnregisterAll /\ ~EraseFromMap /\ ~UnregisterTexture /\ ~Teardown
  BY HeldBefore
<1>4. resizes = 0 /\ ~NotifyResizing
  <2>1. ASSUME NotifyResizing PROVE FALSE
    <3>1. resizes' = resizes + 1
      BY <2>1 DEF NotifyResizing
    <3> QED
      BY <1>2, <3>1
  <2>2. UNCHANGED resizes
    <3>1. CASE RasterThread
      BY <3>1 DEF RasterThread, RegisterTexture, UnregisterTexture, Setup, Teardown,
         SetExternalNativeImage, Reset, MarkNewFrameAvailable, Paint, eventVars
    <3>2. CASE PlatformTask \/ DrawFrame \/ UNCHANGED vars \/ \E i \in Images : Producer(i)
      BY <3>2 DEF PlatformTask, MarkTask, UnregisterAll, EraseFromMap, DrawFrame, vars,
         Producer, Flush, FrameAvailable, eventVars
    <3>3. CASE Client
      BY <2>1, <3>3 DEF Client, NotifyDestroyed, NotifyCreate, SwitchImage,
         UnRegisterExternalTexture, SetProducerWindowSize, ScheduleFrame, Layout, Freeze, eventVars
    <3> QED
      BY <3>1, <3>2, <3>3 DEF Next
  <2> QED
    BY <2>1, <2>2
<1>5. Len(Waiting) <= Told
  BY <1>3, <1>4, ToldFacts DEF Held
<1>6. /\ registered \/ (raster # << >> /\ Head(raster) = "register")
      /\ source # "none" => listener[source] = "frame"
      /\ ~size.changing /\ parked = NoBuffer
  BY <1>3, <1>4 DEF Held, Connected, Unresized
<1>7. inMap = TRUE
  <2>1. inMap \in BOOLEAN
    BY TypesSplit DEF ViewTypes
  <2>2. inMap
    BY <1>3 DEF Held, Connected
  <2> QED
    BY <2>1, <2>2
<1>8. ASSUME UNCHANGED <<queue, source, newSeq, paintSeq, marks, notifying>>,
             RasterMarks' = RasterMarks
      PROVE  Len(Waiting)' <= Told'
  BY <1>5, <1>8 DEF Told, Waiting, One
<1>9. ASSUME NEW i \in Images, Producer(i) PROVE Len(Waiting)' <= Told'
  BY <1>5, <1>6, <1>7, <1>9, AnnouncedProducer
<1>10. CASE MarkTask
  <2>1. /\ PostRaster(<<"mark">>) /\ marks' = marks - 1
        /\ UNCHANGED <<queue, source, newSeq, paintSeq, notifying>>
    BY <1>7, <1>10 DEF MarkTask, imageVars, textureVars
  <2>2. RasterMarks' = RasterMarks + 1
    <3>1. RasterMarks' = RasterMarks + One("mark" = "mark") /\ One("mark" = "mark") = 1
      BY <2>1, MarksPosted DEF RasterTasks, One
    <3> QED
      BY <3>1
  <2>3. Waiting' = Waiting
    BY <2>1 DEF Waiting
  <2>4. Told' = newSeq - paintSeq + ((marks - 1) + (RasterMarks + 1) + One(source \in notifying))
    BY <2>1, <2>2 DEF Told, One
  <2>5. Told' = Told
    BY <2>4, ToldFacts DEF Told
  <2> QED
    BY <1>5, <2>3, <2>5
<1>11. CASE DrawFrame \/ \E task \in {"setImage", "reset", "resetNew"} : SwitchImage(task)
  <2>1. UNCHANGED <<queue, source, newSeq, paintSeq, marks, notifying>>
    BY <1>11 DEF DrawFrame, SwitchImage, imageVars, textureVars
  <2>2. PICK t \in RasterTasks : PostRaster(<<t>>) /\ t # "mark"
    BY <1>11 DEF DrawFrame, SwitchImage, RasterTasks
  <2>3. RasterMarks' = RasterMarks
    <3>1. RasterMarks' = RasterMarks + One(t = "mark") /\ One(t = "mark") = 0
      BY <2>2, MarksPosted DEF One
    <3> QED
      BY <3>1, ToldFacts
  <2> QED
    BY <1>8, <2>1, <2>3
<1>12. CASE SetProducerWindowSize \/ ScheduleFrame \/ Layout \/ Freeze \/ UNCHANGED vars
  <2>1. UNCHANGED <<queue, source, newSeq, paintSeq, marks, notifying, raster>>
    BY <1>12 DEF SetProducerWindowSize, ScheduleFrame, Layout, Freeze, vars, imageVars,
       textureVars, taskVars
  <2>2. RasterMarks' = RasterMarks
    BY <2>1 DEF RasterMarks, MarkedAt
  <2> QED
    BY <1>8, <2>1, <2>2
<1>13. CASE RasterThread
  <2>1. ASSUME NEW task, Run(task), task # "mark" PROVE RasterMarks' = RasterMarks
    <3>1. RasterMarks' = RasterMarks - One(task = "mark") /\ One(task = "mark") = 0
      BY <2>1, MarksRun DEF One
    <3> QED
      BY <3>1, ToldFacts
  <2>2. CASE RegisterTexture \/ Setup
    <3>1. UNCHANGED <<queue, source, newSeq, paintSeq, marks, notifying>>
      BY <2>2 DEF RegisterTexture, Setup, imageVars, textureVars
    <3>2. Run("register") \/ Run("setup")
      BY <2>2 DEF RegisterTexture, Setup
    <3> QED
      BY <1>8, <2>1, <3>1, <3>2
  <2>3. CASE SetExternalNativeImage \/ Reset
    <3>1. \/ \E next \in Images \cup {"none"} : ReplaceSource(next)
          \/ Run("setImage") /\ UNCHANGED <<queue, source, newSeq, paintSeq, marks, notifying>>
      BY <2>3 DEF SetExternalNativeImage, Reset, Images
    <3> QED
      BY <1>1, <1>8, <2>1, <3>1, AnnouncedReplaced
  <2>4. CASE MarkNewFrameAvailable
    BY <1>5, <1>6, <2>4, AnnouncedMark
  <2>5. CASE Paint
    BY <1>5, <1>6, <1>7, <2>5, AnnouncedPaint
  <2> QED
    BY <1>3, <1>13, <2>2, <2>3, <2>4, <2>5 DEF RasterThread
<1> QED
  BY <1>3, <1>4, <1>9, <1>10, <1>11, <1>12, <1>13 DEF Next, PlatformTask, Client

LEMMA AnnounceInit ==
  ASSUME Init
  PROVE  AnnounceInv
<1>1. raster = <<"register">> /\ raster # << >> /\ Head(raster) = "register" /\ Pending = {"register"}
  BY DEF Init, Pending
<1>2. Connected
  BY <1>1 DEF Init, Connected
<1>3. Unresized
  BY DEF Init, Unresized
<1>4. WaitingIsAnnounced
  <2>1. TextureTypes
    BY TypeInit
  <2>2. Len(Waiting) = 0 /\ newSeq = 0 /\ paintSeq = 0
    BY DEF Init, Waiting, Images
  <2>3. Told >= 0
    BY <2>1, <2>2, ToldFacts DEF Told
  <2> QED
    BY <2>1, <2>2, <2>3, ToldFacts
<1> QED
  BY <1>2, <1>3, <1>4 DEF AnnounceInv

\* OHOSExternalTexture: every buffer that waits in the queue is covered by the sequence
\* numbers or by an announcement still on its way, so that no frame of the producer is
\* left behind undrawn; sequence numbers and queue are changed by different threads and
\* in different places (Paint takes an announcement back and makes it again).
THEOREM WaitingIsAnnouncedAlways == Spec => []WaitingIsAnnounced
<1>1. Init => TextureTypes /\ AnnounceInv
  BY TypeInit, AnnounceInit
<1>2. TextureTypes /\ AnnounceInv /\ [Next]_vars => (TextureTypes /\ AnnounceInv)'
  <2>1. ASSUME TextureTypes, AnnounceInv, [Next]_vars PROVE AnnounceInv'
    <3>1. Connected /\ Unresized /\ WaitingIsAnnounced
      BY <2>1 DEF AnnounceInv
    <3> QED
      BY <2>1, <3>1, ConnectedStep, UnresizedStep, AnnouncedStep DEF AnnounceInv
  <2> QED
    BY <2>1, TypeStep
<1>3. AnnounceInv => WaitingIsAnnounced
  BY DEF AnnounceInv
<1> QED
  BY <1>1, <1>2, <1>3, PTL DEF Spec
=============================================================================
