---------------------------- MODULE FramePath -----------------------------
(***************************************************************************)
(* From a frame of librealsense to the topics: frame_callback with the     *)
(* filters, publishFrame with the images and the camera infos the node     *)
(* keeps, and publishRGBD.                                                 *)
(*                                                                         *)
(* While the frames are synchronised or a filter is enabled, they come as  *)
(* framesets, one at a time, from the asyncer's thread; else one by one    *)
(* from the threads of the sensors.  Meanwhile the executor changes the    *)
(* parameters, subscribers come and go, and the monitor thread updates     *)
(* publishers and streams: frame_callback reads all of these again at each *)
(* of its steps.  A call of publishFrame is one step, and so is the        *)
(* monitor's update (SensorUpdate has its steps).  A frame is what its     *)
(* profile says; of the filters the rotation, the alignment and the        *)
(* colorizer are modelled, which change a frame's profile.  The first      *)
(* infrared stream is enabled with the second.                             *)
(***************************************************************************)
EXTENDS Integers, Sequences, SequencesExt

CONSTANTS
  None,
  Dangling,  \* an image whose frame librealsense has taken back
  Width,     \* the width of a stream's images, by their size
  Angles,    \* the values of the rotation filter, by what they make of an image
  Optional,  \* the topics whose subscribers come and go; the others have some
  Launched,  \* bound: the parameters that are true when the node starts
  MaxChanges \* bound: the changes of parameters, subscribers and streams

Stream == {"depth", "color", "infra2"}
Sensor == {{"depth", "infra2"}, {"color"}}
\* An image as it comes, or rotated by -90, 90 or 180 degrees.
Size   == {"raw", "left", "right", "half"}
Parameter == {"rotation", "align_depth", "colorizer", "sync", "rgbd"}
Filter == {"rotation", "align_depth", "colorizer"}
Topic  == {"image", "aligned", "rgbd"} \X Stream

ASSUME WidthAssumption == Width \in [Stream -> [Size -> Nat]]
ASSUME AngleAssumption == Angles \subseteq Size
ASSUME OptionalAssumption == Optional \subseteq Topic
ASSUME BoundAssumption ==
  Launched \subseteq SUBSET Parameter /\ MaxChanges \in Nat

VARIABLES
  active,           \* the streams that run
  enabled,          \* the parameters that are true
  angle,            \* the value of the rotation filter
  align_changed,    \* _is_align_depth_changed
  publishers,       \* the topics in the maps of publishers
  rgbd_publisher,   \* _rgbd_publisher is there
  seen,             \* _is_color_enabled, _is_depth_enabled
  subscribed,       \* the topics of Optional that have subscribers
  _camera_info,     \* for each stream
  color_image,      \* _images[COLOR]
  aligned_image,    \* _depth_aligned_image[COLOR]
  stage,            \* where the asyncer's frame_callback is
  original,         \* the streams of its frameset
  todo,             \* the filtered frames it has yet to publish
  sent_depth_frame,
  message,          \* history: what the last step published
  depths,           \* history: the images of depth since the callback began
  disturbed,        \* history: streams, a subscription, the alignment or the
                    \* synchronisation changed since the callback began
  size_before,      \* history: the size of the color frame before, if the color
                    \* sensor was not updated since
  turned,           \* history: the rotation was enabled since the depth sensor
                    \* was updated
  sizes,            \* history: the sizes that frames may have had
  changes           \* the changes so far

node     == <<active, publishers, rgbd_publisher, seen>>
params   == <<enabled, angle, align_changed, subscribed>>
images   == <<_camera_info, color_image, aligned_image>>
callback == <<stage, original, todo, sent_depth_frame>>
history  == <<message, depths, disturbed, size_before, turned, sizes, changes>>
vars == <<node, params, images, callback, history>>

Frame == [stream : Stream, of : Stream, size : Size, aligned : BOOLEAN,
          colorized : BOOLEAN]
Raw(s) == [stream |-> s, of |-> s, size |-> "raw", aligned |-> FALSE,
           colorized |-> FALSE]

\* What a call of publishFrame publishes: an image with its camera info.
InfoType == [of : Stream, size : Size, baseline : BOOLEAN]
Published == [kind : {"image", "aligned"}, stream : Stream, frame : Frame,
              info : InfoType]

ASSUME NoneAssumption == None \notin Published \cup Size

\* The intrinsics of a stream's images of a size, without the baseline.
Intrinsics(s, size) == [of |-> s, size |-> size, baseline |-> FALSE]
WidthOf(i) == Width[i.of][i.size]

\* What the rotation makes of the images now.
Now == IF "rotation" \in enabled THEN angle ELSE "raw"

Subscribed(t) == t \in subscribed \/ t \notin Optional
RgbdWanted == rgbd_publisher /\ Subscribed(<<"rgbd", "color">>)

---------------------------------------------------------------------------
(* publishFrame.                                                           *)

\* Variant: the camera info is never fixed.
FixedCameraInfoNever(s, f) == _camera_info

\* The camera infos after a check that the info of s has the frame's width: if
\* not, updateStreamCalibData takes that of the frame's profile, for the stream
\* of the profile.
FixedCameraInfo(s, f) ==
  IF WidthOf(_camera_info[s]) # WidthOf(f)
  THEN [_camera_info EXCEPT ![f.stream] = Intrinsics(f.of, f.size)]
  ELSE _camera_info

\* Variant: an image that nobody subscribed to is not kept for publishRGBD.
publishFrameForTopic(f, kind, s) ==
  LET there == <<kind, s>> \in publishers
      fetch == there /\ Subscribed(<<kind, s>>)
  IN  /\ color_image' = IF fetch /\ <<kind, s>> = <<"image", "color">>
                        THEN f ELSE color_image
      /\ aligned_image' = IF fetch /\ <<kind, s>> = <<"aligned", "color">>
                          THEN f ELSE aligned_image
      /\ _camera_info' = IF there THEN FixedCameraInfo(s, f) ELSE _camera_info
      /\ message' = IF there THEN [kind |-> kind, stream |-> s, frame |-> f,
                                   info |-> _camera_info'[s]]
                    ELSE None

\* The frame f goes to the topics of stream s: the image, if the topic or the
\* topic rgbd has subscribers, and the camera info (which has subscribers).
publishFrame(f, kind, s) ==
  LET there == <<kind, s>> \in publishers
      fetch == there /\ (Subscribed(<<kind, s>>) \/ RgbdWanted)
  IN  /\ color_image' = IF fetch /\ <<kind, s>> = <<"image", "color">>
                        THEN f ELSE color_image
      /\ aligned_image' = IF fetch /\ <<kind, s>> = <<"aligned", "color">>
                          THEN f ELSE aligned_image
      /\ _camera_info' = IF there THEN FixedCameraInfo(s, f) ELSE _camera_info
      /\ message' = IF there THEN [kind |-> kind, stream |-> s, frame |-> f,
                                   info |-> _camera_info'[s]]
                    ELSE None

---------------------------------------------------------------------------
(* frame_callback for a frameset.                                          *)

\* The frames of the frameset S after the rotation and the alignment, if they are
\* enabled: the second gives the depth frame the profile of the color frame, but
\* for the stream.
Aligned(S) ==
  LET aligns == {"depth", "color"} \subseteq S /\ "align_depth" \in enabled
      Turned(s) == [Raw(s) EXCEPT !.size = Now]
      Align(f) == IF f.stream = "depth" /\ aligns
                  THEN [f EXCEPT !.of = "color", !.aligned = TRUE]
                  ELSE f
  IN  {Align(Turned(s)) : s \in S}

\* The depth frames that the colorizer adds to the frames F, if it is enabled.
Colorized(F) ==
  {[f EXCEPT !.colorized = TRUE] :
     f \in {g \in F : g.stream = "depth" /\ "colorizer" \in enabled}}

\* The frameset S after the filters.  The frames of the colorizer come first.
Filtered(S) ==
  {c \o r : c \in SetToSeqs(Colorized(Aligned(S))), r \in SetToSeqs(Aligned(S))}

\* The images do not own their data, which is a frame's: when its callback is
\* over they are left with a frame that librealsense may use again.
Released(image) == IF image = None THEN None ELSE Dangling

\* Something changes that the running callback may read again.
Disturb(b) == disturbed' = (disturbed \/ (stage # "idle" /\ b))

\* The callback published a depth image.  (For the properties.)
CountDepth ==
  depths' = IF message' # None /\ message'.stream = "depth" THEN depths + 1
            ELSE depths

\* A frameset arrives and passes the filters.  It may have waited in the asyncer
\* since before its streams stopped, or the last filter was disabled.
BeginFrameset(S) ==
  /\ stage = "idle" /\ S # {}
  /\ stage' = "loop" /\ original' = S /\ sent_depth_frame' = FALSE
  /\ todo' \in Filtered(S)
  /\ message' = None /\ disturbed' = ~(S \subseteq active)
  /\ UNCHANGED <<node, params, images, depths, size_before, turned, sizes, changes>>

\* Variant: every depth frame is published.
LoopFrameEveryDepth ==
  /\ stage = "loop" /\ todo # <<>>
  /\ todo' = Tail(todo)
  /\ LET f == Head(todo)
         aligns == "color" \in original /\ "align_depth" \in enabled
     IN  IF f.stream = "depth" /\ aligns
         THEN publishFrame(f, "aligned", "color")
         ELSE publishFrame(f, "image", f.stream)
  /\ CountDepth
  /\ UNCHANGED <<node, params, stage, original, sent_depth_frame, disturbed,
                 size_before, turned, sizes, changes>>

\* The loop over the filtered frames.  Of the depth frames only the first is
\* published, as the aligned depth of the color or the second infrared stream
\* if the filter is enabled.
LoopFrame ==
  /\ stage = "loop" /\ todo # <<>>
  /\ todo' = Tail(todo)
  /\ LET f == Head(todo)
         aligned_to == {s \in {"color", "infra2"} \cap original :
                          s = "infra2" => "color" \notin original}
     IN  IF f.stream # "depth"
         THEN publishFrame(f, "image", f.stream) /\ UNCHANGED sent_depth_frame
         ELSE IF sent_depth_frame
         THEN message' = None /\ UNCHANGED <<images, sent_depth_frame>>
         ELSE /\ sent_depth_frame' = TRUE
              /\ IF "align_depth" \in enabled /\ aligned_to # {}
                 THEN \E s \in aligned_to : publishFrame(f, "aligned", s)
                 ELSE publishFrame(f, "image", "depth")
  /\ CountDepth
  /\ UNCHANGED <<node, params, stage, original, disturbed, size_before,
                 turned, sizes, changes>>

\* Variant: without the frames that follow.
LoopEndsEarly ==
  /\ stage = "loop"
  /\ stage' = "end" /\ message' = None
  /\ UNCHANGED <<node, params, images, original, todo, sent_depth_frame, depths,
                 disturbed, size_before, turned, sizes, changes>>

LoopEnds ==
  /\ stage = "loop" /\ todo = <<>>
  /\ stage' = IF "depth" \in original /\ "align_depth" \in enabled
              THEN "depth" ELSE "end"
  /\ message' = None
  /\ UNCHANGED <<node, params, images, original, todo, sent_depth_frame, depths,
                 disturbed, size_before, turned, sizes, changes>>

\* While depth is aligned the depth image itself is the one before the filters.
OriginalDepth ==
  /\ stage = "depth"
  /\ publishFrame([Raw("depth") EXCEPT !.colorized = "colorizer" \in enabled],
                  "image", "depth")
  /\ CountDepth
  /\ stage' = IF "rgbd" \in enabled /\ "color" \in original THEN "rgbd" ELSE "end"
  /\ UNCHANGED <<node, params, original, todo, sent_depth_frame, disturbed,
                 size_before, turned, sizes, changes>>

\* Both images are those last kept, and both infos that of color.
publishRGBD ==
  /\ stage = "rgbd" /\ stage' = "end"
  /\ message' =
       IF RgbdWanted /\ color_image # None /\ aligned_image # None
       THEN [kind |-> "rgbd", rgb |-> color_image, depth |-> aligned_image,
             rgb_info |-> _camera_info["color"],
             depth_info |-> _camera_info[IF "align_depth" \in enabled
                                         THEN "color" ELSE "depth"]]
       ELSE None
  /\ UNCHANGED <<node, params, images, original, todo, sent_depth_frame, depths,
                 disturbed, size_before, turned, sizes, changes>>

EndFrameset ==
  /\ stage = "end" /\ stage' = "idle"
  /\ original' = {} /\ sent_depth_frame' = FALSE
  /\ color_image' = Released(color_image)
  /\ aligned_image' = Released(aligned_image)
  /\ message' = None /\ depths' = 0 /\ disturbed' = FALSE
  /\ size_before' = IF "color" \in original /\ ~disturbed THEN Now ELSE None
  /\ UNCHANGED <<node, params, _camera_info, todo, turned, sizes, changes>>

\* A single frame, from the thread of its sensor.  It replaces the image of an
\* asyncer's callback that still runs.
SingleFrame(s) ==
  /\ s \in active /\ enabled \cap (Filter \cup {"sync"}) = {}
  /\ publishFrame(Raw(s), "image", s)
  /\ Disturb(TRUE)
  /\ size_before' = IF s = "color" THEN "raw" ELSE size_before
  /\ UNCHANGED <<node, params, callback, depths, turned, sizes, changes>>

---------------------------------------------------------------------------
(* Parameters, subscribers, and the monitor's update.                      *)

SetParameter(p) ==
  /\ changes < MaxChanges /\ changes' = changes + 1
  /\ enabled' = IF p \in enabled THEN enabled \ {p} ELSE enabled \cup {p}
  /\ align_changed' = (align_changed \/ p = "align_depth")
  /\ Disturb(p \in {"align_depth", "sync", "rotation"})
  /\ turned' = (turned \/ p = "rotation")
  /\ message' = None
  /\ UNCHANGED <<node, angle, subscribed, images, callback, depths, size_before>>
  /\ sizes' = sizes \cup {Now'}

\* The option of the rotation filter.
SetAngle(a) ==
  /\ changes < MaxChanges /\ changes' = changes + 1
  /\ angle' = a
  /\ Disturb(TRUE)
  /\ message' = None
  /\ UNCHANGED <<node, enabled, align_changed, subscribed, images, callback, depths,
                 size_before, turned>>
  /\ sizes' = sizes \cup {Now'}

Subscribe(t) ==
  /\ changes < MaxChanges /\ changes' = changes + 1
  /\ subscribed' = IF t \in subscribed THEN subscribed \ {t}
                   ELSE subscribed \cup {t}
  /\ Disturb(TRUE)
  /\ message' = None
  /\ UNCHANGED <<node, enabled, angle, align_changed, images, callback, depths,
                 size_before, turned, sizes>>

\* startPublishers and updateProfilesStreamCalibData for the streams of S.
TopicsOf(S) ==
  {<<"image", s>> : s \in S} \cup
  {<<"aligned", s>> : s \in IF "align_depth" \in enabled
                            THEN S \cap {"color"} ELSE {}}

\* Variant: without updateExtrinsicsCalibData.
StartInfoNoBaseline(s) == Intrinsics(s, "raw")

StartInfo(s) == [Intrinsics(s, "raw") EXCEPT !.baseline = (s = "infra2")]

\* startRGBDPublisherIfNeeded
RgbdNeeded(e, seen_streams) ==
  {"rgbd", "sync", "align_depth"} \subseteq e /\ seen_streams = {"color", "depth"}

\* updateSensors: the sensors whose streams are to be others than run, or all if
\* the alignment changed, lose their publishers and get those of S.  The rgbd
\* topic is made again.
Update(S) ==
  /\ changes < MaxChanges /\ changes' = changes + 1
  /\ LET changed(i) == i \cap S # i \cap active
         restarted == UNION {i \in Sensor : align_changed \/ changed(i)}
         started == restarted \cap S
     IN  /\ publishers' = {t \in publishers : t[2] \notin restarted}
                            \cup TopicsOf(started)
         /\ seen' = seen \cup (started \cap {"color", "depth"})
         /\ _camera_info' = [s \in Stream |->
              IF s \in started THEN StartInfo(s) ELSE _camera_info[s]]
         /\ size_before' = IF "color" \in restarted THEN None ELSE size_before
         /\ turned' = IF "infra2" \in started
                      THEN "rotation" \in enabled \/ stage # "idle" ELSE turned
  /\ active' = S
  /\ rgbd_publisher' = RgbdNeeded(enabled, seen')
  /\ align_changed' = FALSE
  /\ Disturb(TRUE) /\ message' = None
  /\ UNCHANGED <<enabled, angle, subscribed, color_image, aligned_image, callback,
                 depths, sizes>>

\* The node has started its streams.
Init ==
  /\ enabled \in Launched /\ angle \in Angles /\ align_changed = FALSE
  /\ active = Stream
  /\ publishers = TopicsOf(active) /\ seen = active \cap {"color", "depth"}
  /\ rgbd_publisher = RgbdNeeded(enabled, seen)
  /\ subscribed \in {{}, Optional}
  /\ _camera_info = [s \in Stream |-> StartInfo(s)]
  /\ color_image = None /\ aligned_image = None
  /\ stage = "idle" /\ original = {} /\ todo = <<>> /\ sent_depth_frame = FALSE
  /\ message = None /\ depths = 0 /\ disturbed = FALSE
  /\ size_before = None /\ turned = ("rotation" \in enabled)
  /\ sizes = {"raw", Now}
  /\ changes = 0

Next ==
  \/ \E S \in SUBSET Stream : BeginFrameset(S)
  \/ LoopFrame \/ LoopEnds \/ OriginalDepth \/ publishRGBD \/ EndFrameset
  \/ \E s \in Stream : SingleFrame(s)
  \/ \E p \in Parameter : SetParameter(p)
  \/ \E a \in Angles : SetAngle(a)
  \/ \E t \in Optional : Subscribe(t)
  \/ \E S \in SUBSET Stream : Update(S)

Spec == Init /\ [][Next]_vars

---------------------------------------------------------------------------
(* Properties.                                                             *)

TypeOK ==
  /\ active \subseteq Stream /\ enabled \subseteq Parameter
  /\ angle \in Size /\ align_changed \in BOOLEAN
  /\ publishers \subseteq Topic /\ rgbd_publisher \in BOOLEAN
  /\ seen \subseteq {"color", "depth"} /\ subscribed \subseteq Optional
  /\ _camera_info \in [Stream -> InfoType]
  /\ {color_image, aligned_image} \subseteq Frame \cup {None, Dangling}
  /\ stage \in {"idle", "loop", "depth", "rgbd", "end"}
  /\ stage # "loop" => todo = <<>>
  /\ original \subseteq Stream /\ Range(todo) \subseteq Frame
  /\ sent_depth_frame \in BOOLEAN
  /\ depths \in Nat /\ changes \in Nat
  /\ disturbed \in BOOLEAN /\ turned \in BOOLEAN
  /\ size_before \in Size \cup {None} /\ sizes \subseteq Size

\* A frameset with a depth frame gives one image of depth, however many depth
\* frames the filters make of it, if nothing changes in between.  (Two, when the
\* alignment is enabled but the frameset has no stream to align to: then the
\* depth frame is published by the loop and again after it.)
DepthOnce ==
  stage = "end" /\ "depth" \in original /\ ~disturbed =>
    depths = IF "align_depth" \in enabled /\ original = {"depth"} THEN 2 ELSE 1

\* No two of the sizes that the images of a stream may have had are of the same
\* width, so that a check of the width tells them apart.
Distinct(s) == \A y, z \in sizes : Width[s][y] = Width[s][z] => y = z

\* The two images of an RGBD message are of the frameset of its stamp, of the
\* same size, the depth aligned, and both infos are those of the color image,
\* even if nobody subscribed to the topics of these images, or did before; unless
\* a subscription, the rotation, the alignment or the streams changed during the
\* callback, or the frameset is from before its streams stopped.  (The infos are
\* color's, but of another size, once color was rotated and kept its width.)
RgbdWhole ==
  message # None /\ message.kind = "rgbd" /\ ~disturbed =>
    LET rgb == message.rgb
        depth == message.depth
    IN  /\ rgb \in Frame /\ depth \in Frame
        /\ depth.aligned /\ depth.size = rgb.size
        /\ message.rgb_info.of = "color"
        /\ Distinct("color") => message.rgb_info = Intrinsics("color", rgb.size)
        /\ message.depth_info = message.rgb_info

\* A camera info has the width of the image it comes with, whatever filters,
\* updates and the order of frames did to the images before, and tells of the
\* image's stream and, unless the images were rotated and kept their width, as
\* by 180 degrees, of its rotation; that of the right infrared image also of its
\* baseline, if the images were not rotated since the sensor was started.  (That
\* of depth may be of color, if their images are of the same width.)
InfoOfFrame ==
  message # None /\ message.kind = "image" =>
    LET f == message.frame
        info == message.info
    IN  /\ WidthOf(info) = WidthOf(f)
        /\ info.of = f.of \/ (f.stream = "depth" /\ info.of \in {"depth", "color"})
        /\ info.of = f.of /\ Distinct(f.of) => info.size = f.size
        /\ f.stream = "infra2" /\ ~turned => info.baseline

\* The topics of the aligned depth only have aligned images, with the camera
\* info of the color images, unless the rotation, the alignment or the streams
\* changed since the last of these, or color was rotated and kept its width.
AlignedInfo ==
  message # None /\ message.kind = "aligned" /\ ~disturbed =>
    LET f == message.frame
    IN  /\ f.aligned
        /\ size_before = f.size /\ Distinct("color") =>
             message.info = Intrinsics("color", f.size)
===========================================================================
