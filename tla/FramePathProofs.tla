------------------------- MODULE FramePathProofs --------------------------
(***************************************************************************)
(* Theorems about FramePath for any widths of the images, any topics whose *)
(* subscribers come and go, and any number of changes.                     *)
(***************************************************************************)
EXTENDS FramePath, FiniteSetTheorems, TLAPS

Types ==
  /\ TypeOK
  /\ todo \in Seq(Frame)

\* Every stream that runs has its topic, outside the monitor's update.
ImageInv == \A s \in active : <<"image", s>> \in publishers

\* The images of depth that the loop is to publish.
LoopDepths ==
  IF "align_depth" \in enabled /\ original \cap {"color", "infra2"} # {} THEN 0 ELSE 1

\* How many images of depth the callback has published so far.  The loop has a
\* frame of depth left until it has dealt with one.
DepthInv ==
  /\ stage = "idle" => depths = 0 /\ ~disturbed
  /\ stage # "idle" /\ ~disturbed => original \subseteq active
  /\ "depth" \in original /\ ~disturbed =>
       /\ stage = "loop" =>
            IF sent_depth_frame THEN depths = LoopDepths
            ELSE depths = 0 /\ \E k \in DOMAIN todo : todo[k].stream = "depth"
       /\ stage = "depth" => "align_depth" \in enabled /\ depths = LoopDepths
       /\ stage = "rgbd" => "align_depth" \in enabled /\ depths = LoopDepths + 1
       /\ stage = "end" =>
            depths = IF "align_depth" \in enabled THEN LoopDepths + 1 ELSE 1

Inv == Types /\ ImageInv /\ DepthInv

\* The stream that LoopFrame aligns depth to.
AlignedTo == {s \in {"color", "infra2"} \cap original :
                s = "infra2" => "color" \notin original}

\* A frame has the profile of its stream, or was aligned to color.
Shape(f) == IF f.aligned THEN f.stream = "depth" /\ f.of = "color"
            ELSE f.of = f.stream

\* What the filters make of a frameset.
Made(S) == {f \in Frame :
  /\ Shape(f) /\ f.size = Now /\ f.stream \in S
  /\ f.stream = "depth" /\ {"depth", "color"} \subseteq S /\ "align_depth" \in enabled
       => f.aligned}

\* The frames the loop has left are of streams of the frameset, and, if the callback
\* was not disturbed, as the filters would still make them.
FrameInv == \A k \in DOMAIN todo :
  /\ Shape(todo[k]) /\ todo[k].stream \in original
  /\ ~disturbed => todo[k] \in Made(original)

\* Whose intrinsics each camera info has.  That of the right infrared stream is as
\* it was made while its images are not rotated.
InfoInv ==
  /\ \E z \in Size : _camera_info["color"] = Intrinsics("color", z)
  /\ _camera_info["infra2"].of = "infra2"
  /\ _camera_info["depth"].of \in {"depth", "color"}
  /\ ~turned =>
       /\ "rotation" \notin enabled
       /\ _camera_info["infra2"] = StartInfo("infra2")
       /\ \A k \in DOMAIN todo : todo[k].stream = "infra2" => todo[k].size = "raw"

\* The frames and the infos there are have a size that frames may have had.
SizeInv ==
  /\ {"raw", Now} \subseteq sizes
  /\ \A k \in DOMAIN todo : todo[k].size \in sizes
  /\ \A s \in Stream : _camera_info[s].size \in sizes

Shown(size) == _camera_info["color"] = Intrinsics("color", size)
Before(size) == size_before = size
Left(stream) == \E k \in DOMAIN todo : todo[k].stream = stream

\* The info of color is that of the last color frame, if the check of the width
\* tells the sizes of color apart.
ColorInv == Distinct("color") =>
  /\ stage = "idle" => \A z \in Size : Before(z) => Shown(z)
  /\ stage # "idle" /\ ~disturbed =>
       /\ Before(Now) => Shown(Now)
       /\ "color" \in original => Shown(Now) \/ (stage = "loop" /\ Left("color"))

\* The images that publishRGBD is to find.
KeptColor == color_image \in Frame /\ color_image.size = Now
KeptAligned == aligned_image \in Frame /\ aligned_image.aligned
                 /\ aligned_image.size = Now

\* The topic rgbd is only there with that of the aligned depth; while it is wanted
\* both images are kept as they are published.
RgbdInv ==
  /\ "color" \in active
       /\ (rgbd_publisher \/ (~align_changed /\ "align_depth" \in enabled))
       => <<"aligned", "color">> \in publishers
  /\ <<"aligned", "infra2">> \notin publishers
  /\ stage \in {"depth", "rgbd"} => "depth" \in original
  /\ stage = "rgbd" => "color" \in original
  /\ stage \in {"loop", "depth", "rgbd"} /\ ~disturbed /\ RgbdWanted
       /\ {"depth", "color"} \subseteq original /\ "align_depth" \in enabled
       => /\ KeptColor \/ (stage = "loop" /\ Left("color"))
          /\ KeptAligned \/ (stage = "loop" /\ ~sent_depth_frame)

Follows == SizeInv /\ FrameInv /\ InfoInv /\ ColorInv /\ RgbdInv
Tells == InfoOfFrame /\ AlignedInfo /\ RgbdWhole

---------------------------------------------------------------------------
\* The infos that an update makes are infos.
LEMMA StartInfos ==
  ASSUME NEW s \in Stream
  PROVE  StartInfo(s) \in InfoType
<1> DEFINE right == s = "infra2"
<1>1. StartInfo(s) = [of |-> s, size |-> "raw", baseline |-> right]
  BY DEF StartInfo, Intrinsics
<1>2. right \in BOOLEAN /\ "raw" \in Size
  BY DEF Size
<1> HIDE DEF right
<1>3. QED BY <1>1, <1>2 DEF InfoType

\* The rotation gives the images a size.
LEMMA NowIsSize ==
  ASSUME angle \in Size
  PROVE  Now \in Size
BY DEF Now, Size

\* The node starts with the topics of all streams.
LEMMA InitInv == Init => Inv
<1> SUFFICES ASSUME Init PROVE Inv
  OBVIOUS
<1>1. _camera_info \in [Stream -> InfoType]
  BY StartInfos DEF Init
<1>2. /\ publishers \subseteq Topic /\ \A s \in active : <<"image", s>> \in publishers
      /\ seen \subseteq {"color", "depth"}
  BY DEF Init, TopicsOf, Topic, Stream
<1>3. rgbd_publisher \in BOOLEAN
  BY DEF Init, RgbdNeeded
<1>4. todo = <<>> /\ todo \in Seq(Frame)
  BY DEF Init
<1>5. /\ active \subseteq Stream /\ enabled \subseteq Parameter
      /\ subscribed \subseteq Optional
  BY BoundAssumption DEF Init
<1>6. TypeOK
  <2>1. Range(todo) \subseteq Frame
    BY <1>4 DEF Range
  <2>2. /\ align_changed \in BOOLEAN /\ sent_depth_frame \in BOOLEAN
        /\ disturbed \in BOOLEAN /\ turned \in BOOLEAN
    <3> DEFINE b == "rotation" \in enabled
    <3>1. b \in BOOLEAN /\ turned = b
      BY DEF Init
    <3> HIDE DEF b
    <3>2. QED BY <3>1 DEF Init
  <2>3. /\ {color_image, aligned_image} \subseteq Frame \cup {None, Dangling}
        /\ stage \in {"idle", "loop", "depth", "rgbd", "end"}
        /\ original \subseteq Stream /\ depths \in Nat /\ changes \in Nat
    BY DEF Init
  <2>4. angle \in Size /\ size_before \in Size \cup {None} /\ sizes \subseteq Size
    <3>1. angle \in Size /\ size_before = None /\ sizes = {"raw", Now}
      BY AngleAssumption DEF Init
    <3>2. Now \in Size /\ "raw" \in Size
      BY <3>1, NowIsSize DEF Size
    <3>3. QED BY <3>1, <3>2
  <2>5. QED BY <1>1, <1>2, <1>3, <1>4, <1>5, <2>1, <2>2, <2>3, <2>4 DEF TypeOK
<1>7. ImageInv /\ DepthInv
  BY <1>2 DEF Init, ImageInv, DepthInv
<1>8. QED BY <1>4, <1>6, <1>7 DEF Inv, Types

---------------------------------------------------------------------------
\* publishFrame keeps the types, and publishes what it is asked to if the topic
\* is there.
LEMMA Publishes ==
  ASSUME TypeOK, NEW f \in Frame, NEW kind \in {"image", "aligned"}, NEW s \in Stream,
         publishFrame(f, kind, s)
  PROVE  /\ _camera_info' \in [Stream -> InfoType]
         /\ {color_image', aligned_image'} \subseteq Frame \cup {None, Dangling}
         /\ message' # None <=> <<kind, s>> \in publishers
         /\ message' # None => message'.stream = s
<1>1. f.stream \in Stream /\ f.of \in Stream /\ f.size \in Size
  BY DEF Frame
<1>2. Intrinsics(f.of, f.size) \in InfoType
  BY <1>1 DEF Intrinsics, InfoType
<1>3. _camera_info' \in [Stream -> InfoType]
  BY <1>1, <1>2 DEF publishFrame, FixedCameraInfo, TypeOK
<1>4. {color_image', aligned_image'} \subseteq Frame \cup {None, Dangling}
  BY DEF publishFrame, TypeOK
<1>5. [kind |-> kind, stream |-> s, frame |-> f, info |-> _camera_info'[s]] \in Published
  BY <1>3 DEF Published
<1>6. QED BY <1>3, <1>4, <1>5, NoneAssumption DEF publishFrame

\* A sequence made of a finite set has its elements.
LEMMA SeqsOf ==
  ASSUME NEW T, IsFiniteSet(T), NEW s \in SetToSeqs(T)
  PROVE  s \in Seq(T) /\ \A t \in T : \E k \in DOMAIN s : s[k] = t
<1> DEFINE n == Cardinality(T)
<1>1. n \in Nat
  BY FS_CardinalityType
<1>2. s \in [1..n -> T] /\ \A i, j \in 1..n : i # j => s[i] # s[j]
  BY DEF SetToSeqs
<1>3. s \in Injection(1..n, T)
  BY <1>2 DEF Injection, IsInjective
<1>4. IsFiniteSet(1..n) /\ Cardinality(1..n) = n
  BY <1>1, FS_Interval
<1>5. s \in Surjection(1..n, T)
  BY <1>3, <1>4, FS_Injection
<1>6. s \in Seq(T)
  BY <1>1, <1>2
<1>7. QED BY <1>2, <1>5, <1>6 DEF Surjection

\* What the filters change of a frame leaves a frame.
LEMMA TurnedFrame ==
  ASSUME NEW s \in Stream, NEW z \in Size
  PROVE  LET f == [Raw(s) EXCEPT !.size = z]
         IN  f \in Frame /\ f.stream = s /\ f.of = s /\ f.size = z /\ ~f.aligned
BY DEF Raw, Frame, Size

LEMMA AlignedFrame ==
  ASSUME NEW f \in Frame
  PROVE  LET g == [f EXCEPT !.of = "color", !.aligned = TRUE]
         IN  g \in Frame /\ g.stream = f.stream /\ g.of = "color" /\ g.size = f.size
               /\ g.aligned
BY DEF Frame, Stream

LEMMA ColorizedFrame ==
  ASSUME NEW f \in Frame, NEW b \in BOOLEAN
  PROVE  LET g == [f EXCEPT !.colorized = b]
         IN  g \in Frame /\ g.stream = f.stream /\ g.of = f.of /\ g.size = f.size
               /\ g.aligned = f.aligned
BY DEF Frame

\* The rotation and the alignment give a frame for each stream.
LEMMA AlignedFrames ==
  ASSUME angle \in Size, NEW S \in SUBSET Stream
  PROVE  /\ Aligned(S) \subseteq Made(S) /\ IsFiniteSet(Aligned(S))
         /\ \A s \in S : \E f \in Aligned(S) : f.stream = s
<1> DEFINE aligns == {"depth", "color"} \subseteq S /\ "align_depth" \in enabled
           Turned(s) == [Raw(s) EXCEPT !.size = Now]
           Align(f) == IF f.stream = "depth" /\ aligns
                       THEN [f EXCEPT !.of = "color", !.aligned = TRUE]
                       ELSE f
           F(s) == Align(Turned(s))
<1>1. Aligned(S) = {F(s) : s \in S}
  BY DEF Aligned
<1>2. Now \in Size
  BY NowIsSize
<1>3. ASSUME NEW s \in S
      PROVE  /\ Turned(s) \in Frame /\ Turned(s).stream = s /\ Turned(s).of = s
             /\ Turned(s).size = Now /\ ~Turned(s).aligned
  BY <1>2, TurnedFrame
<1> HIDE DEF Turned
<1>4. \A f \in Frame : /\ Align(f) \in Frame /\ Align(f).stream = f.stream
                       /\ Align(f).size = f.size
                       /\ f.stream = "depth" /\ aligns =>
                            Align(f).of = "color" /\ Align(f).aligned
                       /\ ~(f.stream = "depth" /\ aligns) => Align(f) = f
  BY AlignedFrame
<1>5. aligns <=> {"depth", "color"} \subseteq S /\ "align_depth" \in enabled
  OBVIOUS
<1> HIDE DEF Align, aligns
<1>6. \A s \in S : F(s) \in Made(S) /\ F(s).stream = s
  BY <1>3, <1>4, <1>5 DEF Made, Shape
<1> HIDE DEF F
<1>7. IsFiniteSet(S)
  <2>1. IsFiniteSet({"depth"})
    BY FS_Singleton
  <2>2. IsFiniteSet({"depth"} \cup {"color"})
    BY <2>1, FS_AddElement
  <2>3. IsFiniteSet(({"depth"} \cup {"color"}) \cup {"infra2"})
    BY <2>2, FS_AddElement
  <2>4. S \subseteq ({"depth"} \cup {"color"}) \cup {"infra2"}
    BY DEF Stream
  <2>5. QED BY <2>3, <2>4, FS_Subset
<1>8. IsFiniteSet({F(s) : s \in S})
  <2> DEFINE T == {F(s) : s \in S}
  <2>1. [s \in S |-> F(s)] \in Surjection(S, T)
    BY DEF Surjection
  <2> HIDE DEF T
  <2>2. IsFiniteSet(T)
    BY <1>7, <2>1, FS_Surjection
  <2>3. QED BY <2>2 DEF T
<1>9. QED BY <1>1, <1>6, <1>8

\* So does the colorizer for the depth frames.
LEMMA ColorizedFrames ==
  ASSUME NEW S, NEW A, A \subseteq Made(S), IsFiniteSet(A)
  PROVE  Colorized(A) \subseteq Made(S) /\ IsFiniteSet(Colorized(A))
<1> DEFINE source == {g \in A : g.stream = "depth" /\ "colorizer" \in enabled}
           Color(f) == [f EXCEPT !.colorized = TRUE]
<1>1. Colorized(A) = {Color(f) : f \in source}
  BY DEF Colorized
<1>2. \A f \in Frame : /\ Color(f) \in Frame /\ Color(f).stream = f.stream
                       /\ Color(f).of = f.of /\ Color(f).size = f.size
                       /\ Color(f).aligned = f.aligned
  BY ColorizedFrame
<1>3. source \subseteq A
  OBVIOUS
<1> HIDE DEF source, Color
<1>4. \A f \in Made(S) : Color(f) \in Made(S)
  BY <1>2 DEF Made, Shape
<1>5. IsFiniteSet(source)
  BY <1>3, FS_Subset
<1>6. IsFiniteSet({Color(f) : f \in source})
  <2> DEFINE T == {Color(f) : f \in source}
  <2>1. [f \in source |-> Color(f)] \in Surjection(source, T)
    BY DEF Surjection
  <2> HIDE DEF T
  <2>2. IsFiniteSet(T)
    BY <1>5, <2>1, FS_Surjection
  <2>3. QED BY <2>2 DEF T
<1>7. QED BY <1>1, <1>3, <1>4, <1>6

\* The filters turn a frameset into frames of their making, of each of its streams.
LEMMA FilteredFrames ==
  ASSUME angle \in Size, NEW S \in SUBSET Stream, NEW q \in Filtered(S)
  PROVE  /\ q \in Seq(Made(S)) /\ q \in Seq(Frame)
         /\ \A s \in S : \E k \in DOMAIN q : q[k].stream = s
<1> DEFINE A == Aligned(S)
           C == Colorized(A)
<1>1. /\ A \subseteq Made(S) /\ IsFiniteSet(A)
      /\ \A s \in S : \E f \in A : f.stream = s
  BY AlignedFrames
<1>2. C \subseteq Made(S) /\ IsFiniteSet(C)
  BY <1>1, ColorizedFrames
<1>3. PICK c \in SetToSeqs(C), r \in SetToSeqs(A) : q = c \o r
  BY DEF Filtered
<1> HIDE DEF A, C
<1>4. c \in Seq(C) /\ r \in Seq(A) /\ \A t \in A : \E k \in DOMAIN r : r[k] = t
  BY <1>1, <1>2, SeqsOf
<1>5. c \in Seq(Made(S)) /\ r \in Seq(Made(S)) /\ Made(S) \subseteq Frame
  BY <1>1, <1>2, <1>4 DEF Made
<1>6. ASSUME NEW s \in S PROVE \E k \in DOMAIN q : q[k].stream = s
  <2>1. PICK k \in DOMAIN r : r[k].stream = s
    BY <1>1, <1>4, <1>6
  <2>2. Len(c) + k \in DOMAIN q /\ q[Len(c) + k] = r[k]
    BY <1>3, <1>5
  <2>3. QED BY <2>1, <2>2
<1>7. q \in Seq(Made(S))
  BY <1>3, <1>5
<1>8. QED BY <1>5, <1>6, <1>7

---------------------------------------------------------------------------
\* The steps of frame_callback for a frameset.
LEMMA BeginInv ==
  ASSUME Inv, NEW S \in SUBSET Stream, BeginFrameset(S)
  PROVE  Inv'
<1> USE DEF node, params, images, history
<1>1. /\ todo' \in Seq(Frame)
      /\ "depth" \in S => \E k \in DOMAIN todo' : todo'[k].stream = "depth"
  <2>1. todo' \in Filtered(S) /\ angle \in Size
    BY DEF BeginFrameset, Inv, Types, TypeOK
  <2>2. QED BY <2>1, FilteredFrames
<1>2. Range(todo') \subseteq Frame
  BY <1>1 DEF Range
<1>3. Types'
  BY <1>1, <1>2 DEF BeginFrameset, Inv, Types, TypeOK
<1>4. ImageInv' /\ DepthInv'
  BY <1>1 DEF BeginFrameset, Inv, ImageInv, DepthInv
<1>5. QED BY <1>3, <1>4 DEF Inv

\* What a step of the loop does with the next frame.
LEMMA LoopCases ==
  ASSUME Inv, LoopFrame
  PROVE  LET f == Head(todo) IN
         /\ stage = "loop"
         /\ UNCHANGED <<active, publishers, rgbd_publisher, seen, enabled, angle,
                        align_changed, subscribed, stage, original, disturbed,
                        size_before, turned, sizes, changes>>
         /\ todo' \in Seq(Frame) /\ f \in Frame /\ f.stream \in Stream
         /\ 1 \in DOMAIN todo /\ f = todo[1]
         /\ \A k \in DOMAIN todo : k # 1 => k - 1 \in DOMAIN todo' /\ todo'[k-1] = todo[k]
         /\ \A k \in DOMAIN todo' : k + 1 \in DOMAIN todo /\ todo'[k] = todo[k+1]
         /\ depths' = IF message' # None /\ message'.stream = "depth" THEN depths + 1
                      ELSE depths
         /\ \/ /\ f.stream # "depth" /\ sent_depth_frame' = sent_depth_frame
               /\ publishFrame(f, "image", f.stream)
            \/ /\ f.stream = "depth" /\ sent_depth_frame /\ sent_depth_frame'
               /\ message' = None /\ UNCHANGED images
            \/ /\ f.stream = "depth" /\ ~sent_depth_frame /\ sent_depth_frame' = TRUE
               /\ "align_depth" \in enabled /\ AlignedTo # {}
               /\ \E s \in AlignedTo : publishFrame(f, "aligned", s)
            \/ /\ f.stream = "depth" /\ ~sent_depth_frame /\ sent_depth_frame' = TRUE
               /\ ~("align_depth" \in enabled /\ AlignedTo # {})
               /\ publishFrame(f, "image", "depth")
<1> DEFINE f == Head(todo)
<1>1. /\ TypeOK /\ todo \in Seq(Frame) /\ todo # <<>> /\ todo' = Tail(todo)
      /\ stage = "loop"
      /\ UNCHANGED <<active, publishers, rgbd_publisher, seen, enabled, angle,
                     align_changed, subscribed, stage, original, disturbed,
                     size_before, turned, sizes, changes>>
  BY DEF Inv, Types, LoopFrame, node, params
<1>2. f \in Frame /\ f = todo[1] /\ 1 \in DOMAIN todo /\ todo' \in Seq(Frame)
  BY <1>1
<1>3. /\ \A k \in DOMAIN todo : k # 1 => k - 1 \in DOMAIN todo' /\ todo'[k-1] = todo[k]
      /\ \A k \in DOMAIN todo' : k + 1 \in DOMAIN todo /\ todo'[k] = todo[k+1]
  BY <1>1
<1>4. f.stream \in Stream
  BY <1>2 DEF Frame
<1>5. /\ depths' = IF message' # None /\ message'.stream = "depth" THEN depths + 1
                   ELSE depths
      /\ \/ /\ f.stream # "depth" /\ sent_depth_frame' = sent_depth_frame
            /\ publishFrame(f, "image", f.stream)
         \/ /\ f.stream = "depth" /\ sent_depth_frame /\ sent_depth_frame'
            /\ message' = None /\ UNCHANGED images
         \/ /\ f.stream = "depth" /\ ~sent_depth_frame /\ sent_depth_frame' = TRUE
            /\ "align_depth" \in enabled /\ AlignedTo # {}
            /\ \E s \in AlignedTo : publishFrame(f, "aligned", s)
         \/ /\ f.stream = "depth" /\ ~sent_depth_frame /\ sent_depth_frame' = TRUE
            /\ ~("align_depth" \in enabled /\ AlignedTo # {})
            /\ publishFrame(f, "image", "depth")
  BY <1>1 DEF LoopFrame, CountDepth, TypeOK, AlignedTo
<1>6. QED BY <1>1, <1>2, <1>3, <1>4, <1>5

LEMMA LoopInv ==
  ASSUME Inv, LoopFrame
  PROVE  Inv'
<1> DEFINE f == Head(todo)
<1>1. /\ Types /\ TypeOK /\ ImageInv /\ DepthInv
      /\ stage = "loop"
      /\ UNCHANGED <<active, publishers, rgbd_publisher, seen, enabled, angle,
                     align_changed, subscribed, stage, original, disturbed,
                     size_before, turned, sizes, changes>>
  BY LoopCases DEF Inv, Types
<1>2. /\ todo' \in Seq(Frame) /\ f \in Frame /\ f.stream \in Stream
      /\ \A k \in DOMAIN todo : k # 1 => k - 1 \in DOMAIN todo' /\ todo'[k-1] = todo[k]
      /\ f = todo[1]
  BY LoopCases
<1>3. Range(todo') \subseteq Frame
  BY <1>2 DEF Range
<1>4. /\ AlignedTo # {} <=> original \cap {"color", "infra2"} # {}
      /\ AlignedTo \subseteq Stream \ {"depth"}
  BY DEF Stream, AlignedTo
<1>5. /\ depths' = IF message' # None /\ message'.stream = "depth" THEN depths + 1
                   ELSE depths
      /\ \/ /\ f.stream # "depth" /\ sent_depth_frame' = sent_depth_frame
            /\ publishFrame(f, "image", f.stream)
         \/ /\ f.stream = "depth" /\ sent_depth_frame /\ sent_depth_frame'
            /\ message' = None /\ UNCHANGED images
         \/ /\ f.stream = "depth" /\ ~sent_depth_frame /\ sent_depth_frame' = TRUE
            /\ "align_depth" \in enabled /\ AlignedTo # {}
            /\ \E s \in AlignedTo : publishFrame(f, "aligned", s)
         \/ /\ f.stream = "depth" /\ ~sent_depth_frame /\ sent_depth_frame' = TRUE
            /\ ~("align_depth" \in enabled /\ AlignedTo # {})
            /\ publishFrame(f, "image", "depth")
  BY LoopCases
<1> HIDE DEF f
<1>6. /\ _camera_info' \in [Stream -> InfoType]
      /\ {color_image', aligned_image'} \subseteq Frame \cup {None, Dangling}
      /\ sent_depth_frame' \in BOOLEAN
  <2>1. UNCHANGED images => /\ _camera_info' \in [Stream -> InfoType]
                            /\ {color_image', aligned_image'}
                                  \subseteq Frame \cup {None, Dangling}
    BY <1>1 DEF images, TypeOK
  <2>2. \A kind \in {"image", "aligned"}, s \in Stream : publishFrame(f, kind, s) =>
          /\ _camera_info' \in [Stream -> InfoType]
          /\ {color_image', aligned_image'} \subseteq Frame \cup {None, Dangling}
    BY <1>1, <1>2, Publishes
  <2>3. "depth" \in Stream
    BY DEF Stream
  <2>4. sent_depth_frame \in BOOLEAN
    BY <1>1 DEF TypeOK
  <2>5. QED BY <1>2, <1>4, <1>5, <2>1, <2>2, <2>3, <2>4
<1>7. Types'
  <2>1. depths' \in Nat
    BY <1>1, <1>5 DEF TypeOK
  <2>2. QED BY <1>1, <1>2, <1>3, <1>6, <2>1 DEF Types, TypeOK
<1>8. ImageInv'
  BY <1>1 DEF ImageInv
<1>9. DepthInv'
  <2>1. SUFFICES ASSUME "depth" \in original, ~disturbed
                 PROVE  IF sent_depth_frame' THEN depths' = LoopDepths'
                        ELSE /\ depths' = 0
                             /\ \E k \in DOMAIN todo' : todo'[k].stream = "depth"
    BY <1>1 DEF DepthInv
  <2>2. /\ original \subseteq active /\ <<"image", "depth">> \in publishers
        /\ LoopDepths' = LoopDepths
        /\ IF sent_depth_frame THEN depths = LoopDepths
           ELSE depths = 0 /\ \E k \in DOMAIN todo : todo[k].stream = "depth"
    BY <1>1, <2>1 DEF DepthInv, ImageInv, LoopDepths
  <2>3. CASE f.stream # "depth"
    <3>1. sent_depth_frame' = sent_depth_frame /\ publishFrame(f, "image", f.stream)
      BY <1>5, <2>3
    <3>2. depths' = depths
      BY <1>1, <1>2, <1>5, <2>3, <3>1, Publishes
    <3>3. ~sent_depth_frame => \E k \in DOMAIN todo' : todo'[k].stream = "depth"
      <4>1. ASSUME NEW k \in DOMAIN todo, todo[k].stream = "depth"
            PROVE  k - 1 \in DOMAIN todo' /\ todo'[k-1].stream = "depth"
        BY <1>2, <2>3, <4>1
      <4>2. QED BY <2>2, <4>1
    <3>4. QED BY <2>2, <3>1, <3>2, <3>3
  <2>4. CASE f.stream = "depth" /\ sent_depth_frame
    BY <1>5, <2>2, <2>4
  <2>5. CASE f.stream = "depth" /\ ~sent_depth_frame /\ "align_depth" \in enabled
               /\ AlignedTo # {}
    <3>1. sent_depth_frame' /\ \E s \in AlignedTo : publishFrame(f, "aligned", s)
      BY <1>5, <2>5
    <3>2. depths' = depths
      BY <1>1, <1>2, <1>4, <1>5, <3>1, Publishes
    <3>3. LoopDepths = 0
      BY <1>4, <2>5 DEF LoopDepths
    <3>4. QED BY <2>2, <2>5, <3>1, <3>2, <3>3
  <2>6. CASE f.stream = "depth" /\ ~sent_depth_frame
               /\ ~("align_depth" \in enabled /\ AlignedTo # {})
    <3>1. sent_depth_frame' /\ publishFrame(f, "image", "depth") /\ "depth" \in Stream
      BY <1>5, <2>6 DEF Stream
    <3>2. depths' = depths + 1
      BY <1>1, <1>2, <1>5, <2>2, <3>1, Publishes
    <3>3. LoopDepths = 1
      BY <1>4, <2>6 DEF LoopDepths
    <3>4. QED BY <2>2, <2>6, <3>1, <3>2, <3>3
  <2>7. QED BY <2>3, <2>4, <2>5, <2>6
<1>10. QED BY <1>7, <1>8, <1>9 DEF Inv

\* After the loop: the depth image itself, the topic rgbd, and the end.
LEMMA AfterLoopInv ==
  ASSUME Inv, LoopEnds \/ OriginalDepth \/ publishRGBD \/ EndFrameset
  PROVE  Inv'
<1> USE DEF node, params, images
<1>1. Types /\ TypeOK /\ ImageInv /\ DepthInv
  BY DEF Inv, Types
<1>2. CASE LoopEnds
  <2>1. Types' /\ ImageInv'
    BY <1>1, <1>2 DEF LoopEnds, Types, TypeOK, ImageInv
  <2>2. DOMAIN todo = {}
    BY <1>2 DEF LoopEnds
  <2>3. DepthInv'
    BY <1>1, <1>2, <2>2 DEF LoopEnds, DepthInv, LoopDepths
  <2>4. QED BY <2>1, <2>3 DEF Inv
<1>3. CASE OriginalDepth
  <2> DEFINE f == [Raw("depth") EXCEPT !.colorized = "colorizer" \in enabled]
  <2>1. f \in Frame /\ "depth" \in Stream
    <3> DEFINE b == "colorizer" \in enabled
    <3>1. b \in BOOLEAN /\ f = [Raw("depth") EXCEPT !.colorized = b]
      OBVIOUS
    <3> HIDE DEF b, f
    <3>2. Raw("depth") \in Frame /\ "depth" \in Stream
      BY DEF Raw, Frame, Size, Stream
    <3>3. QED BY <3>1, <3>2, ColorizedFrame
  <2>2. publishFrame(f, "image", "depth") /\ stage = "depth"
    BY <1>3 DEF OriginalDepth
  <2> HIDE DEF f
  <2>3. /\ _camera_info' \in [Stream -> InfoType]
        /\ {color_image', aligned_image'} \subseteq Frame \cup {None, Dangling}
        /\ message' # None <=> <<"image", "depth">> \in publishers
        /\ message' # None => message'.stream = "depth"
    BY <1>1, <2>1, <2>2, Publishes
  <2>4. /\ depths' = IF <<"image", "depth">> \in publishers THEN depths + 1 ELSE depths
        /\ stage' \in {"rgbd", "end"}
        /\ UNCHANGED <<active, publishers, rgbd_publisher, seen, enabled, angle,
                       align_changed, subscribed, original, todo, sent_depth_frame,
                       disturbed, size_before, turned, sizes, changes>>
    BY <1>3, <2>3 DEF OriginalDepth, CountDepth
  <2>5. Types'
    BY <1>1, <2>2, <2>3, <2>4 DEF Types, TypeOK
  <2>6. ImageInv'
    BY <1>1, <2>4 DEF ImageInv
  <2>7. DepthInv'
    BY <1>1, <2>2, <2>4 DEF ImageInv, DepthInv, LoopDepths
  <2>8. QED BY <2>5, <2>6, <2>7 DEF Inv
<1>4. CASE publishRGBD
  <2>1. Types' /\ ImageInv'
    BY <1>1, <1>4 DEF publishRGBD, Types, TypeOK, ImageInv
  <2>2. DepthInv'
    BY <1>1, <1>4 DEF publishRGBD, DepthInv, LoopDepths
  <2>3. QED BY <2>1, <2>2 DEF Inv
<1>5. CASE EndFrameset
  <2>1. /\ {color_image', aligned_image'} \subseteq Frame \cup {None, Dangling}
        /\ stage' = "idle" /\ original' = {} /\ sent_depth_frame' = FALSE
        /\ depths' = 0 /\ disturbed' = FALSE
        /\ UNCHANGED <<active, publishers, rgbd_publisher, seen, enabled, angle,
                       align_changed, subscribed, _camera_info, todo, turned, sizes,
                       changes>>
    BY <1>5 DEF EndFrameset, Released
  <2>2. size_before' \in Size \cup {None}
    BY <1>1, <1>5, NowIsSize DEF EndFrameset, TypeOK
  <2>3. todo' = <<>>
    BY <1>1, <1>5 DEF EndFrameset, TypeOK
  <2>4. Types'
    BY <1>1, <2>1, <2>2, <2>3 DEF Types, TypeOK
  <2>5. ImageInv' /\ DepthInv'
    BY <1>1, <1>5 DEF EndFrameset, ImageInv, DepthInv
  <2>6. QED BY <2>4, <2>5 DEF Inv
<1>6. QED BY <1>2, <1>3, <1>4, <1>5

---------------------------------------------------------------------------
\* The monitor's update gives every stream that runs its topic.
LEMMA UpdateInv ==
  ASSUME Inv, NEW S \in SUBSET Stream, Update(S)
  PROVE  Inv'
<1> USE DEF callback
<1>1. Types /\ TypeOK /\ ImageInv /\ DepthInv
  BY DEF Inv, Types
<1> DEFINE changed(i) == i \cap S # i \cap active
           restarted == UNION {i \in Sensor : align_changed \/ changed(i)}
           started == restarted \cap S
<1>2. /\ publishers' = {t \in publishers : t[2] \notin restarted} \cup TopicsOf(started)
      /\ seen' = seen \cup (started \cap {"color", "depth"})
      /\ _camera_info' = [s \in Stream |->
           IF s \in started THEN StartInfo(s) ELSE _camera_info[s]]
      /\ size_before' \in {None, size_before}
      /\ turned' \in BOOLEAN /\ align_changed' = FALSE
      /\ active' = S /\ rgbd_publisher' = RgbdNeeded(enabled, seen')
      /\ disturbed' = (disturbed \/ stage # "idle")
      /\ changes' = changes + 1
      /\ UNCHANGED <<enabled, angle, subscribed, color_image, aligned_image, stage,
                     original, todo, sent_depth_frame, depths, sizes>>
  BY <1>1 DEF Update, Disturb, TypeOK
<1>3. restarted \subseteq Stream /\ started \subseteq Stream
  BY DEF Sensor, Stream
<1>4. /\ TopicsOf(started) \subseteq Topic
      /\ \A s \in started : <<"image", s>> \in TopicsOf(started)
  BY <1>3 DEF TopicsOf, Topic
<1>5. ASSUME NEW s \in S PROVE <<"image", s>> \in publishers'
  <2>1. CASE s \in restarted
    BY <1>2, <1>4, <2>1
  <2>2. CASE s \notin restarted
    <3>1. s \in active
      BY <2>2 DEF Sensor, Stream
    <3>2. <<"image", s>> \in publishers
      BY <1>1, <3>1 DEF ImageInv
    <3>3. QED BY <1>2, <2>2, <3>2
  <2>3. QED BY <2>1, <2>2
<1> HIDE DEF started, restarted
<1>6. _camera_info' \in [Stream -> InfoType]
  <2>1. ASSUME NEW s \in Stream PROVE StartInfo(s) \in InfoType
    BY StartInfos
  <2>2. QED BY <1>1, <1>2, <2>1 DEF TypeOK
<1>7. Types'
  <2>1. publishers' \subseteq Topic /\ seen' \subseteq {"color", "depth"}
    BY <1>1, <1>2, <1>4 DEF TypeOK
  <2>2. rgbd_publisher' \in BOOLEAN
    BY <1>2 DEF RgbdNeeded
  <2>3. disturbed' \in BOOLEAN /\ size_before' \in Size \cup {None}
    BY <1>1, <1>2 DEF TypeOK
  <2>4. /\ active' \subseteq Stream /\ align_changed' \in BOOLEAN
        /\ turned' \in BOOLEAN /\ changes' \in Nat
    <3>1. active' = S /\ align_changed' = FALSE /\ changes' = changes + 1
      BY <1>2
    <3>2. turned' \in BOOLEAN
      BY <1>2
    <3>3. changes \in Nat
      BY <1>1 DEF TypeOK
    <3>4. changes' \in Nat
      BY <3>1, <3>3
    <3>5. align_changed' \in BOOLEAN
      BY <3>1
    <3>6. QED BY <3>1, <3>2, <3>4, <3>5
  <2>5. UNCHANGED <<enabled, angle, subscribed, color_image, aligned_image, stage,
                    original, todo, sent_depth_frame, depths, sizes>>
    BY <1>2
  <2>6. QED BY <1>1, <1>6, <2>1, <2>2, <2>3, <2>4, <2>5 DEF Types, TypeOK
<1>8. ImageInv'
  BY <1>2, <1>5 DEF ImageInv
<1>9. DepthInv'
  BY <1>1, <1>2 DEF DepthInv
<1>10. QED BY <1>7, <1>8, <1>9 DEF Inv

\* Single frames, parameters and subscribers: what the callback reads again
\* disturbs it.
LEMMA OtherInv ==
  ASSUME Inv, \/ \E s \in Stream : SingleFrame(s)
              \/ \E p \in Parameter : SetParameter(p)
              \/ \E a \in Angles : SetAngle(a)
              \/ \E t \in Optional : Subscribe(t)
  PROVE  Inv'
<1> USE DEF node, params, images, callback, Disturb
<1>1. Types /\ TypeOK /\ ImageInv /\ DepthInv
  BY DEF Inv, Types
<1>2. ASSUME NEW s \in Stream, SingleFrame(s) PROVE Inv'
  <2>1. Raw(s) \in Frame
    BY DEF Raw, Frame, Size
  <2>2. /\ _camera_info' \in [Stream -> InfoType]
        /\ {color_image', aligned_image'} \subseteq Frame \cup {None, Dangling}
    BY <1>1, <1>2, <2>1, Publishes DEF SingleFrame
  <2>3. /\ UNCHANGED <<active, publishers, rgbd_publisher, seen, enabled, angle,
                       align_changed, subscribed, stage, original, todo,
                       sent_depth_frame, depths, turned, sizes, changes>>
        /\ disturbed' = (disturbed \/ stage # "idle")
        /\ size_before' \in {"raw", size_before}
    BY <1>2 DEF SingleFrame
  <2>4. Types'
    BY <1>1, <2>2, <2>3 DEF Types, TypeOK, Size
  <2>5. ImageInv' /\ DepthInv'
    BY <1>1, <2>3 DEF ImageInv, DepthInv
  <2>6. QED BY <2>4, <2>5 DEF Inv
<1>3. ASSUME NEW p \in Parameter, SetParameter(p) PROVE Inv'
  <2>1. Types' /\ ImageInv'
    <3>1. sizes' = sizes \cup {Now'} /\ angle' = angle
      BY <1>3 DEF SetParameter
    <3>2. Now' \in Size /\ sizes' \subseteq Size /\ angle' \in Size
      BY <1>1, <3>1 DEF TypeOK, Now, Size
    <3>3. QED BY <1>1, <1>3, <3>2 DEF SetParameter, Types, TypeOK, ImageInv
  <2>2. p # "align_depth" => ("align_depth" \in enabled' <=> "align_depth" \in enabled)
    BY <1>3 DEF SetParameter
  <2>3. DepthInv'
    BY <1>1, <1>3, <2>2 DEF SetParameter, DepthInv, LoopDepths
  <2>4. QED BY <2>1, <2>3 DEF Inv
<1>4. ASSUME NEW t \in Optional, Subscribe(t) PROVE Inv'
  <2>1. Types' /\ ImageInv'
    BY <1>1, <1>4 DEF Subscribe, Types, TypeOK, ImageInv
  <2>2. DepthInv'
    BY <1>1, <1>4 DEF Subscribe, DepthInv, LoopDepths
  <2>3. QED BY <2>1, <2>2 DEF Inv
<1>5. ASSUME NEW a \in Angles, SetAngle(a) PROVE Inv'
  <2>1. sizes' = sizes \cup {Now'} /\ angle' = a
    BY <1>5 DEF SetAngle
  <2>2. Now' \in Size /\ sizes' \subseteq Size /\ angle' \in Size
    BY <1>1, <2>1, AngleAssumption DEF TypeOK, Now, Size
  <2>3. Types' /\ ImageInv'
    BY <1>1, <1>5, <2>2 DEF SetAngle, Types, TypeOK, ImageInv
  <2>4. DepthInv'
    BY <1>1, <1>5 DEF SetAngle, DepthInv, LoopDepths
  <2>5. QED BY <2>3, <2>4 DEF Inv
<1>6. QED BY <1>2, <1>3, <1>4, <1>5

LEMMA NextInv == Inv /\ [Next]_vars => Inv'
<1>1. Inv /\ UNCHANGED vars => Inv'
  BY DEF vars, node, params, images, callback, history, Inv, Types, TypeOK, ImageInv,
     DepthInv, LoopDepths
<1>2. QED
  BY <1>1, BeginInv, LoopInv, AfterLoopInv, UpdateInv, OtherInv DEF Next

LEMMA Invariance == Spec => []Inv
  BY InitInv, NextInv, PTL DEF Spec

---------------------------------------------------------------------------
\* What publishFrame makes of the camera infos, and tells of an image.
LEMMA InfoPublished ==
  ASSUME TypeOK, SizeInv, InfoInv, NEW f \in Frame, Shape(f), f.size \in sizes,
         NEW kind \in {"image", "aligned"}, NEW s \in Stream,
         publishFrame(f, kind, s),
         kind = "image" => s = f.stream, kind = "aligned" => f.stream = "depth"
  PROVE  /\ \E z \in Size : _camera_info'["color"] = Intrinsics("color", z)
         /\ _camera_info'["infra2"].of = "infra2"
         /\ _camera_info'["depth"].of \in {"depth", "color"}
         /\ f.stream # "color" => _camera_info'["color"] = _camera_info["color"]
         /\ f.stream = "color" /\ <<kind, s>> \in publishers /\ Distinct("color") =>
              _camera_info'["color"] = Intrinsics("color", f.size)
         /\ \A r \in Stream : _camera_info'[r].size \in sizes
         /\ _camera_info["infra2"] = StartInfo("infra2")
              /\ (f.stream = "infra2" => f.size = "raw")
              => _camera_info'["infra2"] = StartInfo("infra2")
         /\ message' # None => message' = [kind |-> kind, stream |-> s, frame |-> f,
                                           info |-> _camera_info'[s]]
         /\ kind = "image" /\ <<kind, s>> \in publishers =>
              LET info == _camera_info'[s]
              IN  /\ WidthOf(info) = WidthOf(f)
                  /\ info.of = f.of \/ (f.stream = "depth" /\ info.of = "color")
                                   \/ (f.aligned /\ info.of = "depth")
                  /\ info.of = f.of /\ Distinct(f.of) => info.size = f.size
<1> DEFINE there == <<kind, s>> \in publishers
           now == _camera_info'
<1>1. f.stream \in Stream /\ f.of \in Stream /\ f.size \in Size
  BY DEF Frame
<1>2. /\ f.stream # "depth" => f.of = f.stream
      /\ f.stream = "depth" => f.of \in {"depth", "color"}
      /\ f.of = f.stream \/ f.aligned
  BY DEF Shape
<1>3. \A r \in Stream : _camera_info[r].size \in sizes
  BY DEF SizeInv
<1>4. _camera_info \in [Stream -> InfoType] /\ {"color", "infra2", "depth"} = Stream
  BY DEF TypeOK, Stream
<1>5. \A r \in Stream : _camera_info[r].of \in Stream /\ _camera_info[r].size \in Size
  BY <1>4 DEF InfoType
<1>6. /\ Intrinsics(f.of, f.size).of = f.of
      /\ Intrinsics(f.of, f.size).size = f.size
  BY DEF Intrinsics
<1>7. /\ StartInfo("infra2").of = "infra2"
      /\ StartInfo("infra2").size = "raw"
      /\ \A z : Intrinsics("color", z).of = "color" /\ Intrinsics("color", z).size = z
  BY DEF StartInfo, Intrinsics
<1>8. /\ now = _camera_info
         \/ now = [_camera_info EXCEPT ![f.stream] = Intrinsics(f.of, f.size)]
      /\ there /\ Width[_camera_info[s].of][_camera_info[s].size] # Width[f.of][f.size]
           => now[f.stream] = Intrinsics(f.of, f.size)
      /\ there /\ Width[_camera_info[s].of][_camera_info[s].size] = Width[f.of][f.size]
           => now = _camera_info
      /\ ~there => now = _camera_info
      /\ message' = IF there THEN [kind |-> kind, stream |-> s, frame |-> f,
                                   info |-> now[s]]
                    ELSE None
  BY <1>1, <1>4 DEF publishFrame, FixedCameraInfo, WidthOf
<1> HIDE DEF there, now
<1>9. /\ \A r \in Stream : r # f.stream => now[r] = _camera_info[r]
      /\ now[f.stream] \in {_camera_info[f.stream], Intrinsics(f.of, f.size)}
  BY <1>1, <1>4, <1>8
<1>10. \E z \in Size : now["color"] = Intrinsics("color", z)
  BY <1>1, <1>2, <1>4, <1>9 DEF InfoInv
<1>11. now["infra2"].of = "infra2" /\ now["depth"].of \in {"depth", "color"}
  BY <1>1, <1>2, <1>4, <1>6, <1>9 DEF InfoInv
<1>12. ASSUME f.stream = "color", there, Distinct("color")
       PROVE  now["color"] = Intrinsics("color", f.size)
  <2>1. s = "color" /\ f.of = "color"
    BY <1>2, <1>12
  <2>2. PICK z \in Size : _camera_info["color"] = Intrinsics("color", z)
    BY DEF InfoInv
  <2>3. _camera_info["color"].of = "color" /\ _camera_info["color"].size = z
    BY <1>7, <2>2
  <2>4. CASE z = f.size
    BY <1>8, <1>12, <2>1, <2>2, <2>3, <2>4
  <2>5. CASE z # f.size
    <3>1. Width["color"][z] # Width["color"][f.size]
      BY <1>3, <1>4, <1>12, <2>3, <2>5 DEF Distinct
    <3>2. QED BY <1>8, <1>12, <2>1, <2>3, <3>1
  <2>6. QED BY <2>4, <2>5
<1>13. ASSUME _camera_info["infra2"] = StartInfo("infra2"),
              f.stream = "infra2" => f.size = "raw"
       PROVE  now["infra2"] = StartInfo("infra2")
  <2>1. CASE f.stream # "infra2"
    BY <1>4, <1>9, <1>13, <2>1
  <2>2. CASE f.stream = "infra2"
    <3>1. s = "infra2" /\ f.of = "infra2" /\ f.size = "raw"
      BY <1>2, <1>13, <2>2
    <3>2. now = _camera_info
      BY <1>7, <1>8, <1>13, <3>1
    <3>3. QED BY <1>13, <3>2
  <2>3. QED BY <2>1, <2>2
<1>14. ASSUME kind = "image", there
       PROVE  /\ WidthOf(now[s]) = WidthOf(f)
              /\ now[s].of = f.of \/ (f.stream = "depth" /\ now[s].of = "color")
                                 \/ (f.aligned /\ now[s].of = "depth")
              /\ now[s].of = f.of /\ Distinct(f.of) => now[s].size = f.size
  <2>1. s = f.stream
    BY <1>14
  <2>2. CASE Width[_camera_info[s].of][_camera_info[s].size] # Width[f.of][f.size]
    BY <1>6, <1>8, <1>14, <2>1, <2>2 DEF WidthOf
  <2>3. CASE Width[_camera_info[s].of][_camera_info[s].size] = Width[f.of][f.size]
    <3>1. now[s] = _camera_info[s]
      BY <1>8, <1>14, <2>3
    <3>2. WidthOf(now[s]) = WidthOf(f)
      BY <2>3, <3>1 DEF WidthOf
    <3>3. ASSUME _camera_info[s].of = f.of, Distinct(f.of)
          PROVE  _camera_info[s].size = f.size
      BY <1>3, <2>3, <3>3 DEF Distinct
    <3>4. ASSUME _camera_info[s].of # f.of
          PROVE  \/ f.stream = "depth" /\ _camera_info[s].of = "color"
                 \/ f.aligned /\ _camera_info[s].of = "depth"
      <4>1. _camera_info["color"].of = "color"
        BY <1>7 DEF InfoInv
      <4>2. s = "depth" /\ _camera_info[s].of \in {"depth", "color"}
        BY <1>2, <1>4, <2>1, <3>4, <4>1 DEF InfoInv
      <4>3. QED BY <1>2, <2>1, <3>4, <4>2
    <3>5. QED BY <3>1, <3>2, <3>3, <3>4
  <2>4. QED BY <2>2, <2>3
<1>15. f.stream # "color" => now["color"] = _camera_info["color"]
  BY <1>4, <1>9
<1>16. message' # None => message' = [kind |-> kind, stream |-> s, frame |-> f,
                                      info |-> now[s]]
  BY <1>8
<1>17. \A r \in Stream : now[r].size \in sizes
  BY <1>3, <1>6, <1>9
<1>18. QED
  BY <1>10, <1>11, <1>12, <1>13, <1>14, <1>15, <1>16, <1>17 DEF now, there

\* An image tells of its frame when it comes from publishFrame.
LEMMA ImageTells ==
  ASSUME TypeOK, SizeInv, InfoInv, sizes' = sizes, NEW f \in Frame, Shape(f),
         f.size \in sizes, publishFrame(f, "image", f.stream),
         ~turned' /\ f.stream = "infra2" =>
           f.size = "raw" /\ _camera_info["infra2"] = StartInfo("infra2")
  PROVE  Tells'
<1>1. f.stream \in Stream
  BY DEF Frame
<1>2. message' # None => /\ <<"image", f.stream>> \in publishers
                         /\ message' = [kind |-> "image", stream |-> f.stream,
                                        frame |-> f, info |-> _camera_info'[f.stream]]
  BY <1>1, InfoPublished, Publishes
<1>3. message' # None => /\ message'.kind = "image" /\ message'.frame = f
                         /\ message'.info = _camera_info'[f.stream]
  BY <1>2
<1>4. AlignedInfo' /\ RgbdWhole'
  BY <1>3 DEF AlignedInfo, RgbdWhole
<1>5. ASSUME message' # None
      PROVE  LET info == _camera_info'[f.stream]
             IN  /\ WidthOf(info) = WidthOf(f)
                 /\ info.of = f.of
                      \/ (f.stream = "depth" /\ info.of \in {"depth", "color"})
                 /\ info.of = f.of /\ Distinct(f.of) => info.size = f.size
  <2>1. f.aligned => f.stream = "depth"
    BY DEF Shape
  <2>2. QED BY <1>1, <1>2, <1>5, <2>1, InfoPublished
<1>6. ASSUME message' # None, f.stream = "infra2", ~turned'
      PROVE  _camera_info'[f.stream].baseline
  <2>1. _camera_info'["infra2"] = StartInfo("infra2")
    BY <1>1, <1>6, InfoPublished
  <2>2. StartInfo("infra2").baseline
    BY DEF StartInfo, Intrinsics
  <2>3. QED BY <1>6, <2>1, <2>2
<1>7. InfoOfFrame'
  BY <1>3, <1>5, <1>6 DEF InfoOfFrame, WidthOf, Distinct
<1>8. QED BY <1>4, <1>7 DEF Tells

\* The loop follows the streams: each frame of color fixes the info and is kept for
\* the topic rgbd, and so is the first frame of depth.
LEMMA LoopFollows ==
  ASSUME Inv, Follows, LoopFrame
  PROVE  Follows' /\ Tells'
<1> DEFINE f == Head(todo)
<1>1. /\ TypeOK /\ ImageInv /\ DepthInv
      /\ SizeInv /\ FrameInv /\ InfoInv /\ ColorInv /\ RgbdInv
      /\ stage = "loop"
      /\ UNCHANGED <<active, publishers, rgbd_publisher, seen, enabled, angle,
                     align_changed, subscribed, stage, original, disturbed,
                     size_before, turned, sizes, changes>>
  BY LoopCases DEF Inv, Types, Follows
<1>2. /\ f \in Frame /\ f.stream \in Stream /\ 1 \in DOMAIN todo /\ f = todo[1]
      /\ \A k \in DOMAIN todo : k # 1 => k - 1 \in DOMAIN todo' /\ todo'[k-1] = todo[k]
      /\ \A k \in DOMAIN todo' : k + 1 \in DOMAIN todo /\ todo'[k] = todo[k+1]
  BY LoopCases
<1>3. \/ /\ publishFrame(f, "image", f.stream)
         /\ IF f.stream = "depth"
            THEN ~("align_depth" \in enabled /\ AlignedTo # {}) /\ ~sent_depth_frame
            ELSE sent_depth_frame' = sent_depth_frame
      \/ /\ f.stream = "depth" /\ sent_depth_frame /\ sent_depth_frame'
         /\ message' = None /\ UNCHANGED images
      \/ /\ f.stream = "depth" /\ ~sent_depth_frame /\ "align_depth" \in enabled
         /\ \E s \in AlignedTo : publishFrame(f, "aligned", s)
  BY LoopCases
<1> HIDE DEF f
<1>4. /\ Shape(f) /\ f.stream \in original
      /\ ~disturbed => f \in Made(original)
      /\ ~turned /\ f.stream = "infra2" => f.size = "raw"
      /\ f.size \in sizes
  BY <1>1, <1>2 DEF FrameInv, InfoInv, SizeInv
<1>5. ~disturbed => \A s \in original : <<"image", s>> \in publishers
  BY <1>1 DEF DepthInv, ImageInv
<1>6. FrameInv'
  <2>1. SUFFICES ASSUME NEW k \in DOMAIN todo'
                 PROVE  /\ Shape(todo'[k]) /\ todo'[k].stream \in original
                        /\ ~disturbed => todo'[k] \in Made(original)
    BY <1>1 DEF FrameInv, Shape, Made, Now
  <2>2. k + 1 \in DOMAIN todo /\ todo'[k] = todo[k+1]
    BY <1>2
  <2>3. QED BY <1>1, <2>2 DEF FrameInv
<1>7. /\ \E z \in Size : _camera_info'["color"] = Intrinsics("color", z)
      /\ _camera_info'["infra2"].of = "infra2"
      /\ _camera_info'["depth"].of \in {"depth", "color"}
      /\ ~turned => _camera_info'["infra2"] = StartInfo("infra2")
      /\ f.stream # "color" => _camera_info'["color"] = _camera_info["color"]
      /\ f.stream = "color" /\ Distinct("color") /\ <<"image", "color">> \in publishers =>
           _camera_info'["color"] = Intrinsics("color", f.size)
      /\ \A s \in Stream : _camera_info'[s].size \in sizes
  <2>1. CASE publishFrame(f, "image", f.stream)
    BY <1>1, <1>2, <1>4, <2>1, InfoPublished DEF InfoInv
  <2>2. CASE f.stream = "depth" /\ UNCHANGED images
    BY <1>1, <2>2 DEF InfoInv, SizeInv, images
  <2>3. CASE f.stream = "depth" /\ \E s \in AlignedTo : publishFrame(f, "aligned", s)
    <3>1. PICK s \in Stream : publishFrame(f, "aligned", s)
      BY <2>3 DEF AlignedTo, Stream
    <3>2. QED BY <1>1, <1>2, <1>4, <2>3, <3>1, InfoPublished DEF InfoInv
  <2>4. QED BY <1>3, <2>1, <2>2, <2>3
<1>8. InfoInv'
  <2>1. ~turned => \A k \in DOMAIN todo' : todo'[k].stream = "infra2" =>
                     todo'[k].size = "raw"
    BY <1>1, <1>2 DEF InfoInv
  <2>2. ~turned => "rotation" \notin enabled
    BY <1>1 DEF InfoInv
  <2>3. StartInfo("infra2")' = StartInfo("infra2")
    BY DEF StartInfo, Intrinsics
  <2>4. QED BY <1>1, <1>7, <2>1, <2>2, <2>3 DEF InfoInv
<1>9. SizeInv'
  <2>1. Now' = Now /\ sizes' = sizes
    BY <1>1 DEF Now
  <2>2. \A k \in DOMAIN todo' : todo'[k].size \in sizes
    BY <1>1, <1>2 DEF SizeInv
  <2>3. QED BY <1>1, <1>7, <2>1, <2>2 DEF SizeInv
<1>10. ColorInv'
  <2>1. SUFFICES ASSUME ~disturbed, Distinct("color")
                 PROVE  /\ Before(Now) => Shown(Now)'
                        /\ "color" \in original => Shown(Now)' \/ Left("color")'
    BY <1>1 DEF ColorInv, Before, Now, Distinct
  <2>2. Now' = Now
    BY <1>1 DEF Now
  <2>3. /\ Before(Now) => Shown(Now)
        /\ "color" \in original => Shown(Now) \/ Left("color")
    BY <1>1, <2>1 DEF ColorInv
  <2>4. CASE f.stream = "color"
    <3>1. _camera_info'["color"] = Intrinsics("color", Now)
      BY <1>4, <1>5, <1>7, <2>1, <2>4 DEF Made
    <3>2. QED BY <2>2, <3>1 DEF Shown, Intrinsics
  <2>5. CASE f.stream # "color"
    <3>1. Shown(Now) => Shown(Now)'
      BY <1>7, <2>2, <2>5 DEF Shown, Intrinsics
    <3>2. Left("color") => Left("color")'
      <4>1. ASSUME NEW k \in DOMAIN todo, todo[k].stream = "color"
            PROVE  k - 1 \in DOMAIN todo' /\ todo'[k-1].stream = "color"
        BY <1>2, <2>5, <4>1
      <4>2. QED BY <4>1 DEF Left
    <3>3. QED BY <2>3, <3>1, <3>2
  <2>6. QED BY <2>4, <2>5
<1>11. RgbdInv'
  <2>1. SUFFICES ASSUME ~disturbed, RgbdWanted, {"depth", "color"} \subseteq original,
                        "align_depth" \in enabled
                 PROVE  /\ KeptColor' \/ Left("color")'
                        /\ KeptAligned' \/ ~sent_depth_frame'
    BY <1>1 DEF RgbdInv, RgbdWanted, Subscribed
  <2>2. /\ KeptColor \/ Left("color")
        /\ KeptAligned \/ ~sent_depth_frame
    BY <1>1, <2>1 DEF RgbdInv
  <2>3. Now' = Now
    BY <1>1 DEF Now
  <2>4. <<"image", "color">> \in publishers /\ <<"aligned", "color">> \in publishers
    BY <1>1, <1>5, <2>1 DEF DepthInv, RgbdInv, RgbdWanted
  <2>5. f.size = Now /\ (f.stream = "depth" => f.aligned)
    BY <1>4, <2>1 DEF Made
  <2>6. AlignedTo = {"color"}
    BY <2>1 DEF AlignedTo
  <2>7. f.stream # "color" => (Left("color") => Left("color")')
    <3>1. ASSUME NEW k \in DOMAIN todo, todo[k].stream = "color", f.stream # "color"
          PROVE  k - 1 \in DOMAIN todo' /\ todo'[k-1].stream = "color"
      BY <1>2, <3>1
    <3>2. QED BY <3>1 DEF Left
  <2>8. CASE f.stream = "color"
    <3>1. /\ publishFrame(f, "image", "color") /\ sent_depth_frame' = sent_depth_frame
      BY <1>3, <2>8
    <3>2. color_image' = f /\ aligned_image' = aligned_image
      BY <2>1, <2>4, <3>1 DEF publishFrame
    <3>3. QED BY <1>2, <2>2, <2>3, <2>5, <3>1, <3>2 DEF KeptColor, KeptAligned
  <2>9. CASE f.stream = "depth" /\ ~sent_depth_frame
    <3>1. publishFrame(f, "aligned", "color")
      BY <1>3, <2>1, <2>6, <2>9
    <3>2. aligned_image' = f /\ color_image' = color_image
      BY <2>1, <2>4, <3>1 DEF publishFrame
    <3>3. QED BY <1>2, <2>2, <2>3, <2>5, <2>7, <2>9, <3>2 DEF KeptColor, KeptAligned
  <2>10. CASE f.stream = "depth" /\ sent_depth_frame
    <3>1. UNCHANGED images /\ sent_depth_frame'
      BY <1>3, <2>10
    <3>2. QED BY <2>2, <2>3, <2>7, <2>10, <3>1 DEF KeptColor, KeptAligned, images
  <2>11. CASE f.stream = "infra2"
    <3>1. publishFrame(f, "image", "infra2") /\ sent_depth_frame' = sent_depth_frame
      BY <1>3, <2>11
    <3>2. aligned_image' = aligned_image /\ color_image' = color_image
      BY <3>1 DEF publishFrame
    <3>3. QED BY <2>2, <2>3, <2>7, <2>11, <3>1, <3>2 DEF KeptColor, KeptAligned
  <2>12. QED BY <1>2, <2>8, <2>9, <2>10, <2>11 DEF Stream
<1>12. Tells'
  <2>1. CASE publishFrame(f, "image", f.stream)
    BY <1>1, <1>2, <1>4, <2>1, ImageTells DEF InfoInv
  <2>2. CASE message' = None
    BY <2>2 DEF Tells, InfoOfFrame, AlignedInfo, RgbdWhole
  <2>3. CASE /\ f.stream = "depth" /\ "align_depth" \in enabled
             /\ \E s \in AlignedTo : publishFrame(f, "aligned", s)
    <3>1. PICK s \in AlignedTo : publishFrame(f, "aligned", s)
      BY <2>3
    <3>2. s \in {"color", "infra2"} /\ s \in original /\ s \in Stream
      BY <3>1 DEF AlignedTo, Stream
    <3>3. message' # None =>
            /\ <<"aligned", s>> \in publishers
            /\ message' = [kind |-> "aligned", stream |-> s, frame |-> f,
                           info |-> _camera_info'[s]]
      BY <1>1, <1>2, <1>4, <2>3, <3>1, <3>2, InfoPublished, Publishes
    <3>4. message' # None => s = "color"
      BY <1>1, <3>2, <3>3 DEF RgbdInv
    <3>5. message' # None =>
            /\ message'.kind = "aligned" /\ message'.frame = f
            /\ message'.info = _camera_info["color"]
      BY <1>7, <2>3, <3>3, <3>4
    <3>6. InfoOfFrame' /\ RgbdWhole'
      BY <3>5 DEF InfoOfFrame, RgbdWhole
    <3>7. AlignedInfo'
      <4>1. SUFFICES ASSUME message' # None, ~disturbed
                     PROVE  /\ f.aligned
                            /\ size_before = f.size /\ Distinct("color") =>
                                 _camera_info["color"] = Intrinsics("color", f.size)
        BY <1>1, <3>5 DEF AlignedInfo, Intrinsics, Distinct
      <4>2. f.aligned /\ f.size = Now
        BY <1>4, <2>3, <3>2, <3>4, <4>1 DEF Made
      <4>3. Before(Now) /\ Distinct("color") =>
              _camera_info["color"] = Intrinsics("color", Now)
        BY <1>1, <4>1 DEF ColorInv, Shown
      <4>4. QED BY <4>2, <4>3 DEF Before
    <3>8. QED BY <3>6, <3>7 DEF Tells
  <2>4. QED BY <1>3, <2>1, <2>2, <2>3
<1>13. QED BY <1>6, <1>8, <1>9, <1>10, <1>11, <1>12 DEF Follows

\* A step that publishes nothing tells nothing false.
LEMMA SilentTells ==
  ASSUME message' = None
  PROVE  Tells'
BY DEF Tells, InfoOfFrame, AlignedInfo, RgbdWhole

\* The info of color that an update makes is of its intrinsics.
LEMMA StartInfoOfColor == StartInfo("color") = Intrinsics("color", "raw")
<1> DEFINE right == "color" = "infra2"
<1>1. StartInfo("color") = [Intrinsics("color", "raw") EXCEPT !.baseline = right]
  BY DEF StartInfo
<1>2. right = FALSE
  OBVIOUS
<1> HIDE DEF right
<1>3. QED BY <1>1, <1>2 DEF Intrinsics

\* The node starts with the infos of all streams, and no image kept.
LEMMA InitFollows == Init => Follows /\ Tells
<1> SUFFICES ASSUME Init PROVE Follows /\ Tells
  OBVIOUS
<1> DEFINE rotates == "rotation" \in enabled
<1>1. /\ DOMAIN todo = {} /\ stage = "idle" /\ message = None /\ active = Stream
      /\ size_before = None /\ publishers = TopicsOf(Stream) /\ sizes = {"raw", Now}
      /\ _camera_info = [s \in Stream |-> StartInfo(s)]
      /\ turned = rotates
  <2>1. turned = rotates
    BY DEF Init
  <2> HIDE DEF rotates
  <2>2. QED BY <2>1 DEF Init
<1> HIDE DEF rotates
<1>2. rgbd_publisher => "align_depth" \in enabled
  BY DEF Init, RgbdNeeded
<1>3. FrameInv
  BY <1>1 DEF FrameInv
<1>4. InfoInv
  <2>1. /\ _camera_info["color"] = Intrinsics("color", "raw")
        /\ _camera_info["infra2"] = StartInfo("infra2")
        /\ _camera_info["depth"] = StartInfo("depth")
    BY <1>1, StartInfoOfColor DEF Stream
  <2>2. StartInfo("infra2").of = "infra2" /\ StartInfo("depth").of = "depth"
    BY DEF StartInfo, Intrinsics
  <2>3. ~turned => "rotation" \notin enabled
    BY <1>1 DEF rotates
  <2>4. QED BY <1>1, <2>1, <2>2, <2>3 DEF InfoInv, Size
<1>5. ColorInv
  BY <1>1, NoneAssumption DEF ColorInv, Before
<1>6. SizeInv
  <2>1. \A s \in Stream : StartInfo(s).size = "raw"
    BY DEF StartInfo, Intrinsics
  <2>2. QED BY <1>1, <2>1 DEF SizeInv
<1>7. RgbdInv
  <2>1. "align_depth" \in enabled => <<"aligned", "color">> \in publishers
    BY <1>1 DEF TopicsOf, Stream
  <2>2. <<"aligned", "infra2">> \notin publishers
    BY <1>1 DEF TopicsOf
  <2>3. QED BY <1>1, <1>2, <2>1, <2>2 DEF RgbdInv
<1>8. Tells
  BY <1>1 DEF Tells, InfoOfFrame, AlignedInfo, RgbdWhole
<1>9. QED BY <1>3, <1>4, <1>5, <1>6, <1>7, <1>8 DEF Follows

\* The frames of a frameset are as the filters make them.
LEMMA BeginFollows ==
  ASSUME Inv, Follows, NEW S \in SUBSET Stream, BeginFrameset(S)
  PROVE  Follows' /\ Tells'
<1>1. /\ SizeInv /\ FrameInv /\ InfoInv /\ ColorInv /\ RgbdInv /\ angle \in Size
      /\ stage = "idle" /\ stage' = "loop" /\ original' = S
      /\ sent_depth_frame' = FALSE /\ message' = None
      /\ UNCHANGED <<active, publishers, rgbd_publisher, seen, enabled, angle,
                     align_changed, subscribed, _camera_info, color_image, aligned_image,
                     size_before, turned, sizes>>
  BY DEF Follows, BeginFrameset, node, params, images, Inv, Types, TypeOK
<1>2. /\ todo' \in Seq(Made(S))
      /\ \A s \in S : \E k \in DOMAIN todo' : todo'[k].stream = s
  <2>1. todo' \in Filtered(S)
    BY DEF BeginFrameset
  <2>2. QED BY <1>1, <2>1, FilteredFrames
<1>3. \A k \in DOMAIN todo' : todo'[k] \in Made(S)
  BY <1>2
<1>4. FrameInv'
  BY <1>1, <1>3 DEF FrameInv, Made, Now, Shape
<1>5. InfoInv'
  <2>1. ~turned => \A k \in DOMAIN todo' : todo'[k].size = "raw"
    BY <1>1, <1>3 DEF InfoInv, Made, Now
  <2>2. QED BY <1>1, <2>1 DEF InfoInv, StartInfo, Intrinsics
<1>6. ColorInv'
  <2>1. Before(Now) /\ Distinct("color") => Shown(Now)
    BY <1>1, NowIsSize DEF ColorInv
  <2>2. "color" \in S => Left("color")'
    BY <1>2 DEF Left
  <2>3. QED BY <1>1, <2>1, <2>2 DEF ColorInv, Before, Shown, Now, Intrinsics, Distinct
<1>7. RgbdInv'
  <2>1. "color" \in S => Left("color")'
    BY <1>2 DEF Left
  <2>2. QED BY <1>1, <2>1 DEF RgbdInv
<1>8. SizeInv'
  BY <1>1, <1>3 DEF SizeInv, Made, Now
<1>9. QED BY <1>1, <1>4, <1>5, <1>6, <1>7, <1>8, SilentTells DEF Follows

\* After the loop the info of color is that of the frameset, and both images are
\* kept, for publishRGBD.
LEMMA AfterLoopFollows ==
  ASSUME Inv, Follows, LoopEnds \/ OriginalDepth \/ publishRGBD \/ EndFrameset
  PROVE  Follows' /\ Tells'
<1>1. /\ TypeOK /\ DepthInv /\ SizeInv /\ FrameInv /\ InfoInv /\ ColorInv /\ RgbdInv
      /\ DOMAIN todo = {} /\ todo' = todo
      /\ UNCHANGED <<active, publishers, rgbd_publisher, seen, enabled, angle,
                     align_changed, subscribed, turned, sizes>>
  <2>1. todo = <<>>
    BY DEF Inv, Types, TypeOK, LoopEnds, OriginalDepth, publishRGBD, EndFrameset
  <2>2. todo' = todo /\ UNCHANGED <<node, params, turned, sizes>>
    BY DEF LoopEnds, OriginalDepth, publishRGBD, EndFrameset
  <2>3. QED BY <2>1, <2>2 DEF Inv, Types, Follows, node, params
<1>2. /\ FrameInv'
      /\ UNCHANGED _camera_info => SizeInv'
  BY <1>1 DEF FrameInv, SizeInv, Now
<1>3. CASE LoopEnds
  <2>1. /\ stage = "loop" /\ message' = None
        /\ stage' = IF "depth" \in original /\ "align_depth" \in enabled
                    THEN "depth" ELSE "end"
        /\ UNCHANGED <<original, sent_depth_frame, disturbed, size_before,
                       _camera_info, color_image, aligned_image>>
    BY <1>3 DEF LoopEnds, images
  <2>2. InfoInv'
    BY <1>1, <2>1 DEF InfoInv, StartInfo, Intrinsics
  <2>3. ColorInv'
    BY <1>1, <2>1 DEF ColorInv, Before, Shown, Left, Now, Intrinsics, Distinct
  <2>4. "depth" \in original /\ ~disturbed => sent_depth_frame
    BY <1>1, <2>1 DEF DepthInv
  <2>5. RgbdInv'
    BY <1>1, <2>1, <2>4 DEF RgbdInv, KeptColor, KeptAligned, Left, Now, RgbdWanted,
       Subscribed
  <2>6. QED BY <1>2, <2>1, <2>2, <2>3, <2>5, SilentTells DEF Follows
<1>4. CASE OriginalDepth
  <2> DEFINE f == [Raw("depth") EXCEPT !.colorized = "colorizer" \in enabled]
  <2>1. /\ f \in Frame /\ Shape(f) /\ f.stream = "depth" /\ "depth" \in Stream
        /\ f.size = "raw"
    <3> DEFINE b == "colorizer" \in enabled
    <3>1. b \in BOOLEAN /\ f = [Raw("depth") EXCEPT !.colorized = b]
      OBVIOUS
    <3> HIDE DEF b, f
    <3>2. Raw("depth") \in Frame /\ "depth" \in Stream /\ Shape(Raw("depth"))
          /\ Raw("depth").stream = "depth" /\ Raw("depth").size = "raw"
      BY DEF Raw, Frame, Size, Stream, Shape
    <3>3. QED BY <3>1, <3>2, ColorizedFrame DEF Shape
  <2>2. /\ publishFrame(f, "image", f.stream) /\ stage = "depth"
        /\ stage' = IF "rgbd" \in enabled /\ "color" \in original THEN "rgbd" ELSE "end"
        /\ UNCHANGED <<original, sent_depth_frame, disturbed, size_before>>
    BY <1>4, <2>1 DEF OriginalDepth
  <2> HIDE DEF f
  <2>3. color_image' = color_image /\ aligned_image' = aligned_image
    BY <2>1, <2>2 DEF publishFrame
  <2>4. /\ \E z \in Size : _camera_info'["color"] = Intrinsics("color", z)
        /\ _camera_info'["infra2"].of = "infra2"
        /\ _camera_info'["depth"].of \in {"depth", "color"}
        /\ _camera_info'["color"] = _camera_info["color"]
        /\ ~turned => _camera_info'["infra2"] = StartInfo("infra2")
        /\ \A s \in Stream : _camera_info'[s].size \in sizes
    BY <1>1, <2>1, <2>2, InfoPublished DEF InfoInv, SizeInv
  <2>5. InfoInv'
    BY <1>1, <2>4 DEF InfoInv, StartInfo, Intrinsics
  <2>6. ColorInv'
    BY <1>1, <2>2, <2>4 DEF ColorInv, Before, Shown, Left, Now, Intrinsics, Distinct
  <2>7. RgbdInv'
    BY <1>1, <2>2, <2>3 DEF RgbdInv, KeptColor, KeptAligned, Left, Now, RgbdWanted,
       Subscribed
  <2>8. Tells'
    BY <1>1, <2>1, <2>2, ImageTells DEF SizeInv
  <2>9. SizeInv'
    BY <1>1, <2>4 DEF SizeInv, Now
  <2>10. QED BY <1>2, <2>5, <2>6, <2>7, <2>8, <2>9 DEF Follows
<1>5. CASE publishRGBD
  <2>1. /\ stage = "rgbd" /\ stage' = "end"
        /\ UNCHANGED <<original, sent_depth_frame, disturbed, size_before,
                       _camera_info, color_image, aligned_image>>
    BY <1>5 DEF publishRGBD, images
  <2>2. InfoInv'
    BY <1>1, <2>1 DEF InfoInv, StartInfo, Intrinsics
  <2>3. ColorInv'
    BY <1>1, <2>1 DEF ColorInv, Before, Shown, Left, Now, Intrinsics, Distinct
  <2>4. RgbdInv'
    BY <1>1, <2>1 DEF RgbdInv
  <2>5. ASSUME message' # None
        PROVE  /\ RgbdWanted /\ message'.kind = "rgbd"
               /\ message'.rgb = color_image /\ message'.depth = aligned_image
               /\ message'.rgb_info = _camera_info["color"]
               /\ "align_depth" \in enabled =>
                    message'.depth_info = _camera_info["color"]
    BY <1>5, <2>5 DEF publishRGBD
  <2>6. ASSUME message' # None, ~disturbed
        PROVE  /\ KeptColor /\ KeptAligned /\ "align_depth" \in enabled
               /\ Distinct("color") => Shown(Now)
    <3>1. {"depth", "color"} \subseteq original
      BY <1>1, <2>1 DEF RgbdInv
    <3>2. "align_depth" \in enabled
      BY <1>1, <2>1, <2>6, <3>1 DEF DepthInv
    <3>3. KeptColor /\ KeptAligned
      BY <1>1, <2>1, <2>5, <2>6, <3>1, <3>2 DEF RgbdInv
    <3>4. Distinct("color") => Shown(Now)
      BY <1>1, <2>1, <2>6, <3>1 DEF ColorInv
    <3>5. QED BY <3>2, <3>3, <3>4
  <2>7. RgbdWhole'
    <3>1. _camera_info["color"].of = "color"
      BY <1>1 DEF InfoInv, Intrinsics
    <3>2. QED BY <1>1, <2>1, <2>5, <2>6, <3>1
          DEF RgbdWhole, KeptColor, KeptAligned, Shown, Intrinsics, Distinct
  <2>8. InfoOfFrame' /\ AlignedInfo'
    BY <2>5 DEF InfoOfFrame, AlignedInfo
  <2>9. QED BY <1>2, <2>1, <2>2, <2>3, <2>4, <2>7, <2>8 DEF Follows, Tells
<1>6. CASE EndFrameset
  <2>1. /\ stage = "end" /\ stage' = "idle" /\ message' = None
        /\ _camera_info' = _camera_info
        /\ size_before' = IF "color" \in original /\ ~disturbed THEN Now ELSE None
    BY <1>6 DEF EndFrameset
  <2>2. InfoInv'
    BY <1>1, <2>1 DEF InfoInv, StartInfo, Intrinsics
  <2>3. ColorInv'
    <3>1. SUFFICES ASSUME NEW z \in Size, Before(z)', Distinct("color")
                   PROVE  _camera_info["color"] = Intrinsics("color", z)
      BY <1>1, <2>1 DEF ColorInv, Shown, Intrinsics, Distinct
    <3>2. "color" \in original /\ ~disturbed /\ z = Now
      BY <2>1, <3>1, NoneAssumption DEF Before
    <3>3. QED BY <1>1, <2>1, <3>1, <3>2 DEF ColorInv, Shown
  <2>4. RgbdInv'
    BY <1>1, <2>1 DEF RgbdInv
  <2>5. QED BY <1>2, <2>1, <2>2, <2>3, <2>4, SilentTells DEF Follows
<1>7. QED BY <1>3, <1>4, <1>5, <1>6

\* An update gives the streams it starts the infos of raw images, and color the
\* topic of the aligned depth if it is to be aligned.
LEMMA UpdateFollows ==
  ASSUME Inv, Follows, NEW S \in SUBSET Stream, Update(S)
  PROVE  Follows' /\ Tells'
<1> DEFINE changed(i) == i \cap S # i \cap active
           restarted == UNION {i \in Sensor : align_changed \/ changed(i)}
           started == restarted \cap S
<1>1. /\ TypeOK /\ DepthInv /\ SizeInv /\ FrameInv /\ InfoInv /\ ColorInv /\ RgbdInv
      /\ publishers' = {t \in publishers : t[2] \notin restarted} \cup TopicsOf(started)
      /\ _camera_info' = [s \in Stream |->
           IF s \in started THEN StartInfo(s) ELSE _camera_info[s]]
      /\ size_before' = IF "color" \in restarted THEN None ELSE size_before
      /\ active' = S /\ align_changed' = FALSE /\ message' = None
      /\ UNCHANGED <<enabled, angle, subscribed, color_image, aligned_image, stage,
                     original, todo, sent_depth_frame, sizes>>
  BY DEF Update, callback, Inv, Types, Follows
<1>2. /\ stage # "idle" => disturbed'
      /\ disturbed => disturbed'
      /\ rgbd_publisher' => "align_depth" \in enabled
      /\ IF "infra2" \in started
         THEN ~turned' => "rotation" \notin enabled /\ stage = "idle"
         ELSE ~turned' => ~turned
  BY DEF Update, Disturb, RgbdNeeded
<1>3. /\ restarted \subseteq Stream /\ started \subseteq restarted
      /\ \A s \in S : s \notin restarted => ~align_changed /\ s \in active
      /\ \A s \in restarted \cap S : s \in started
  BY DEF Sensor, Stream
<1> HIDE DEF started, restarted
<1>4. FrameInv'
  <2>1. ASSUME NEW k \in DOMAIN todo PROVE stage = "loop"
    BY <1>1, <2>1 DEF TypeOK
  <2>2. QED BY <1>1, <1>2, <2>1 DEF FrameInv
<1>5. \A s \in Stream : _camera_info'[s] = IF s \in started THEN StartInfo(s)
                                           ELSE _camera_info[s]
  BY <1>1
<1>6. InfoInv'
  <2>1. \E z \in Size : _camera_info'["color"] = Intrinsics("color", z)
    BY <1>1, <1>5, StartInfoOfColor DEF InfoInv, Stream, Size
  <2>2. StartInfo("infra2").of = "infra2" /\ StartInfo("depth").of = "depth"
    BY DEF StartInfo, Intrinsics
  <2>3. /\ _camera_info'["infra2"].of = "infra2"
        /\ _camera_info'["depth"].of \in {"depth", "color"}
    BY <1>1, <1>5, <2>2 DEF InfoInv, Stream
  <2>4. ASSUME ~turned'
        PROVE  /\ "rotation" \notin enabled
               /\ _camera_info'["infra2"] = StartInfo("infra2")
               /\ \A k \in DOMAIN todo : todo[k].stream = "infra2" => todo[k].size = "raw"
    <3>1. CASE "infra2" \in started
      <4>1. "rotation" \notin enabled /\ stage = "idle"
        BY <1>2, <2>4, <3>1
      <4>2. todo = <<>>
        BY <1>1, <4>1 DEF TypeOK
      <4>3. DOMAIN todo = {}
        BY <4>2
      <4>4. _camera_info'["infra2"] = StartInfo("infra2")
        BY <1>5, <3>1 DEF Stream
      <4>5. QED BY <4>1, <4>3, <4>4
    <3>2. CASE "infra2" \notin started
      <4>1. ~turned /\ _camera_info'["infra2"] = _camera_info["infra2"]
        BY <1>2, <1>5, <2>4, <3>2 DEF Stream
      <4>2. QED BY <1>1, <4>1 DEF InfoInv
    <3>3. QED BY <3>1, <3>2
  <2>5. QED BY <1>1, <2>1, <2>3, <2>4 DEF InfoInv, StartInfo, Intrinsics
<1>7. ColorInv'
  <2>1. SUFFICES ASSUME stage = "idle", NEW z \in Size, Before(z)', Distinct("color")
                 PROVE  _camera_info'["color"] = Intrinsics("color", z)
    BY <1>1, <1>2 DEF ColorInv, Shown, Intrinsics, Distinct
  <2>2. "color" \notin restarted /\ size_before' = size_before
    BY <1>1, <2>1, NoneAssumption DEF Before
  <2>3. _camera_info'["color"] = _camera_info["color"]
    BY <1>3, <1>5, <2>2 DEF Stream
  <2>4. Before(z)
    BY <2>1, <2>2 DEF Before
  <2>5. QED BY <1>1, <2>1, <2>3, <2>4 DEF ColorInv, Shown
<1>8. RgbdInv'
  <2>1. ASSUME "color" \in S, "align_depth" \in enabled
        PROVE  <<"aligned", "color">> \in publishers'
    <3>1. CASE "color" \in restarted
      <4>1. "color" \in started
        BY <1>3, <2>1, <3>1
      <4>2. <<"aligned", "color">> \in TopicsOf(started)
        BY <2>1, <4>1 DEF TopicsOf
      <4>3. QED BY <1>1, <4>2
    <3>2. CASE "color" \notin restarted
      <4>1. <<"aligned", "color">> \in publishers
        BY <1>1, <1>3, <2>1, <3>2 DEF RgbdInv
      <4>2. QED BY <1>1, <3>2, <4>1
    <3>3. QED BY <3>1, <3>2
  <2>2. <<"aligned", "infra2">> \notin publishers'
    <3>1. <<"aligned", "infra2">> \notin TopicsOf(started)
      BY DEF TopicsOf
    <3>2. QED BY <1>1, <3>1 DEF RgbdInv
  <2>3. QED BY <1>1, <1>2, <2>1, <2>2 DEF RgbdInv
<1>9. SizeInv'
  <2>1. \A s \in Stream : StartInfo(s).size = "raw"
    BY DEF StartInfo, Intrinsics
  <2>2. QED BY <1>1, <1>5, <2>1 DEF SizeInv, Now
<1>10. QED BY <1>1, <1>4, <1>6, <1>7, <1>8, <1>9, SilentTells DEF Follows

\* Single frames come only while nothing filters them; what a callback reads again
\* and a parameter or a subscriber changes disturbs it.
LEMMA OtherFollows ==
  ASSUME Inv, Follows, \/ \E s \in Stream : SingleFrame(s)
                       \/ \E p \in Parameter : SetParameter(p)
                       \/ \E a \in Angles : SetAngle(a)
                       \/ \E t \in Optional : Subscribe(t)
  PROVE  Follows' /\ Tells'
<1>1. /\ TypeOK /\ ImageInv /\ SizeInv /\ FrameInv /\ InfoInv /\ ColorInv /\ RgbdInv
  BY DEF Inv, Types, Follows
<1>2. ASSUME NEW k \in DOMAIN todo PROVE stage = "loop"
  BY <1>1, <1>2 DEF TypeOK
<1>3. ASSUME NEW s \in Stream, SingleFrame(s) PROVE Follows' /\ Tells'
  <2> DEFINE f == Raw(s)
  <2>1. f \in Frame /\ Shape(f) /\ f.stream = s /\ f.size = "raw"
    BY DEF Raw, Frame, Size, Shape
  <2>2. /\ publishFrame(f, "image", f.stream) /\ s \in active
        /\ "rotation" \notin enabled
        /\ stage # "idle" => disturbed'
        /\ disturbed => disturbed'
        /\ size_before' = IF s = "color" THEN "raw" ELSE size_before
        /\ UNCHANGED <<active, publishers, rgbd_publisher, seen, enabled, angle,
                       align_changed, subscribed, stage, original, todo,
                       sent_depth_frame, turned, sizes>>
    BY <1>3, <2>1 DEF SingleFrame, Disturb, Filter, node, params, callback
  <2> HIDE DEF f
  <2>3. <<"image", s>> \in publishers
    BY <1>1, <2>2 DEF ImageInv
  <2>4. /\ \E z \in Size : _camera_info'["color"] = Intrinsics("color", z)
        /\ _camera_info'["infra2"].of = "infra2"
        /\ _camera_info'["depth"].of \in {"depth", "color"}
        /\ s # "color" => _camera_info'["color"] = _camera_info["color"]
        /\ s = "color" /\ Distinct("color") =>
             _camera_info'["color"] = Intrinsics("color", "raw")
        /\ ~turned => _camera_info'["infra2"] = StartInfo("infra2")
        /\ \A q \in Stream : _camera_info'[q].size \in sizes
    BY <1>1, <2>1, <2>2, <2>3, InfoPublished DEF InfoInv, SizeInv
  <2>5. FrameInv'
    BY <1>1, <1>2, <2>2 DEF FrameInv
  <2>6. InfoInv'
    BY <1>1, <2>2, <2>4 DEF InfoInv, StartInfo, Intrinsics
  <2>7. ColorInv'
    <3>1. SUFFICES ASSUME stage = "idle", NEW z \in Size, Before(z)', Distinct("color")
                   PROVE  _camera_info'["color"] = Intrinsics("color", z)
      BY <2>2 DEF ColorInv, Shown, Intrinsics, Distinct
    <3>2. CASE s = "color"
      <4>1. z = "raw"
        BY <2>2, <3>1, <3>2 DEF Before
      <4>2. QED BY <2>4, <3>1, <3>2, <4>1
    <3>3. CASE s # "color"
      <4>1. Before(z)
        BY <2>2, <3>1, <3>3 DEF Before
      <4>2. QED BY <1>1, <2>4, <3>1, <3>3, <4>1 DEF ColorInv, Shown
    <3>4. QED BY <3>2, <3>3
  <2>8. RgbdInv'
    BY <1>1, <2>2 DEF RgbdInv
  <2>9. Tells'
    BY <1>1, <2>1, <2>2, ImageTells DEF InfoInv, SizeInv
  <2>10. SizeInv'
    BY <1>1, <2>2, <2>4 DEF SizeInv, Now
  <2>11. QED BY <2>5, <2>6, <2>7, <2>8, <2>9, <2>10 DEF Follows
<1>4. ASSUME NEW p \in Parameter, SetParameter(p) PROVE Follows' /\ Tells'
  <2>1. /\ message' = None
        /\ \A q \in Parameter : q # p => (q \in enabled' <=> q \in enabled)
        /\ ~align_changed' => ~align_changed /\ p # "align_depth"
        /\ stage # "idle" /\ ~disturbed' =>
             ~disturbed /\ p # "align_depth" /\ p # "rotation"
        /\ ~turned' => ~turned /\ p # "rotation"
        /\ sizes' = sizes \cup {Now'}
        /\ UNCHANGED <<active, publishers, rgbd_publisher, seen, angle, subscribed, stage,
                       original, todo, sent_depth_frame, size_before, _camera_info,
                       color_image, aligned_image>>
    BY <1>4 DEF SetParameter, Disturb, node, images, callback
  <2>2. /\ p # "rotation" => Now' = Now
        /\ p # "align_depth" => ("align_depth" \in enabled' <=> "align_depth" \in enabled)
    BY <2>1 DEF Now, Parameter
  <2>3. FrameInv'
    <3>1. ASSUME NEW k \in DOMAIN todo
          PROVE  /\ Shape(todo[k]) /\ todo[k].stream \in original
                 /\ ~disturbed' => todo[k] \in Made(original)'
      BY <1>1, <1>2, <2>1, <2>2, <3>1 DEF FrameInv, Made, Shape
    <3>2. QED BY <2>1, <3>1 DEF FrameInv, Shape, Made
  <2>4. InfoInv'
    BY <1>1, <2>1 DEF InfoInv, StartInfo, Intrinsics, Parameter
  <2>5. ColorInv'
    <3>1. Distinct("color")' => Distinct("color")
      BY <2>1 DEF Distinct
    <3>2. QED BY <1>1, <2>1, <2>2, <3>1 DEF ColorInv, Before, Shown, Left, Intrinsics
  <2>6. RgbdInv'
    BY <1>1, <2>1, <2>2 DEF RgbdInv, KeptColor, KeptAligned, Left, RgbdWanted, Subscribed
  <2>7. SizeInv'
    BY <1>1, <2>1 DEF SizeInv
  <2>8. QED BY <2>1, <2>3, <2>4, <2>5, <2>6, <2>7, SilentTells DEF Follows
<1>5. ASSUME NEW t \in Optional, Subscribe(t) PROVE Follows' /\ Tells'
  <2>1. /\ message' = None
        /\ stage # "idle" => disturbed'
        /\ disturbed => disturbed'
        /\ UNCHANGED <<active, publishers, rgbd_publisher, seen, enabled, angle,
                       align_changed, stage, original, todo, sent_depth_frame, size_before,
                       _camera_info, color_image, aligned_image, turned, sizes>>
    BY <1>5 DEF Subscribe, Disturb, node, images, callback
  <2>2. FrameInv'
    BY <1>1, <1>2, <2>1 DEF FrameInv
  <2>3. InfoInv'
    BY <1>1, <2>1 DEF InfoInv, StartInfo, Intrinsics
  <2>4. ColorInv' /\ RgbdInv' /\ SizeInv'
    BY <1>1, <2>1 DEF ColorInv, RgbdInv, Before, Shown, Intrinsics, Distinct, SizeInv, Now
  <2>5. QED BY <2>1, <2>2, <2>3, <2>4, SilentTells DEF Follows
<1>6. ASSUME NEW a \in Angles, SetAngle(a) PROVE Follows' /\ Tells'
  <2>1. /\ message' = None
        /\ stage # "idle" => disturbed'
        /\ disturbed => disturbed'
        /\ sizes' = sizes \cup {Now'}
        /\ UNCHANGED <<active, publishers, rgbd_publisher, seen, enabled, align_changed,
                       subscribed, stage, original, todo, sent_depth_frame, size_before,
                       _camera_info, color_image, aligned_image, turned>>
    BY <1>6 DEF SetAngle, Disturb, node, images, callback
  <2>2. FrameInv' /\ SizeInv'
    BY <1>1, <1>2, <2>1 DEF FrameInv, SizeInv
  <2>3. InfoInv'
    BY <1>1, <2>1 DEF InfoInv, StartInfo, Intrinsics
  <2>4. Distinct("color")' => Distinct("color")
    BY <2>1 DEF Distinct
  <2>5. ColorInv' /\ RgbdInv'
    BY <1>1, <2>1, <2>4 DEF ColorInv, RgbdInv, Before, Shown, Intrinsics
  <2>6. QED BY <2>1, <2>2, <2>3, <2>5, SilentTells DEF Follows
<1>7. QED BY <1>3, <1>4, <1>5, <1>6

LEMMA NextFollows == Inv /\ Follows /\ Tells /\ [Next]_vars => Follows' /\ Tells'
<1>1. Inv /\ Follows /\ Tells /\ UNCHANGED vars => Follows' /\ Tells'
  <2>1. SUFFICES ASSUME Follows, Tells, UNCHANGED vars PROVE Follows' /\ Tells'
    OBVIOUS
  <2> USE DEF vars, node, params, images, callback, history
  <2>2. FrameInv'
    BY <2>1 DEF Follows, FrameInv, Shape, Made, Now
  <2>3. InfoInv'
    BY <2>1 DEF Follows, InfoInv, StartInfo, Intrinsics
  <2>4. ColorInv'
    BY <2>1 DEF Follows, ColorInv, Before, Shown, Left, Now, Intrinsics, Distinct
  <2>5. RgbdInv'
    BY <2>1 DEF Follows, RgbdInv, KeptColor, KeptAligned, Left, Now, RgbdWanted,
       Subscribed
  <2>6. Tells'
    BY <2>1 DEF Tells, InfoOfFrame, AlignedInfo, RgbdWhole, WidthOf, Intrinsics, Distinct
  <2>7. SizeInv'
    BY <2>1 DEF Follows, SizeInv, Now
  <2>8. QED BY <2>2, <2>3, <2>4, <2>5, <2>6, <2>7 DEF Follows
<1>2. QED
  BY <1>1, BeginFollows, LoopFollows, AfterLoopFollows, UpdateFollows, OtherFollows
     DEF Next

LEMMA FollowsAlways == Spec => [](Follows /\ Tells)
<1>1. Inv /\ (Follows /\ Tells) /\ [Next]_vars => (Follows /\ Tells)'
  BY NextFollows
<1>2. QED BY <1>1, InitFollows, Invariance, PTL DEF Spec

---------------------------------------------------------------------------
\* Every variable keeps its type.
THEOREM TypeCorrect == Spec => []TypeOK
<1>1. Inv => TypeOK
  BY DEF Inv, Types
<1>2. QED BY <1>1, Invariance, PTL

\* A frameset with depth gives one image of depth, whatever the filters make of
\* it, unless something it reads changes meanwhile; two, if it is to be aligned
\* and has nothing to be aligned to.
THEOREM DepthPublishedOnce == Spec => []DepthOnce
<1>1. Inv => DepthOnce
  <2>1. SUFFICES ASSUME Inv, stage = "end", "depth" \in original, ~disturbed
                 PROVE  depths = IF "align_depth" \in enabled /\ original = {"depth"}
                                 THEN 2 ELSE 1
    BY DEF DepthOnce
  <2>2. depths = IF "align_depth" \in enabled THEN LoopDepths + 1 ELSE 1
    BY <2>1 DEF Inv, DepthInv
  <2>3. original \cap {"color", "infra2"} = {} <=> original = {"depth"}
    BY <2>1 DEF Inv, Types, TypeOK, Stream
  <2>4. QED BY <2>2, <2>3 DEF LoopDepths
<1>2. QED BY <1>1, Invariance, PTL

\* Whatever the order of frames, parameters, angles, subscribers and updates, an
\* image comes with a camera info of its width and of its own stream, but for depth,
\* which may have that of color; the info also tells how the image was rotated unless
\* two sizes that the images had are of the same width, as those before and after a
\* rotation by 180 degrees; and that of the right infrared stream has its baseline
\* until it is rotated.
THEOREM InfoTellsOfFrame == Spec => []InfoOfFrame
<1>1. Follows /\ Tells => InfoOfFrame
  BY DEF Tells
<1>2. QED BY <1>1, FollowsAlways, PTL

\* The topics of the aligned depth have aligned images with the camera info of
\* color, in the size of the images, as long as nothing that the callback reads
\* changes, the rotation is that of the color frame before, and the sizes of color are
\* of different widths.
THEOREM AlignedInfoIsColors == Spec => []AlignedInfo
<1>1. Follows /\ Tells => AlignedInfo
  BY DEF Tells
<1>2. QED BY <1>1, FollowsAlways, PTL

\* An RGBD message has the images of one frameset, of the same size, with depth
\* aligned to color and the infos of color, whoever subscribes to their own topics;
\* they are of that size unless two sizes of color are of the same width.
THEOREM RgbdIsWhole == Spec => []RgbdWhole
<1>1. Follows /\ Tells => RgbdWhole
  BY DEF Tells
<1>2. QED BY <1>1, FollowsAlways, PTL
===========================================================================
