-------------------------- MODULE TimeBaseProofs --------------------------
(***************************************************************************)
(* Theorems about TimeBase for any streams, any delay and any number of    *)
(* frames and resets of the clock.                                         *)
(***************************************************************************)
EXTENDS TimeBase, TLAPS

\* The frames on their way, and those the node or a property remembers.
Moving == {f \in FrameType : \E s \in Stream :
  \/ \E k \in DOMAIN flying[s] : f = flying[s][k]
  \/ \E k \in DOMAIN held[s] : f = held[s][k]}

Known == Moving \cup {f \in FrameType :
  \/ \E s \in Stream : f = frame_before[s]
  \/ is_initialized_time_base /\ f = taken.frame
  \/ stamped # None /\ f = stamped.frame}

\* The frames of an epoch are as far from its start as their clock says, and
\* later epochs are later.
SameClock == \A f, g \in Known : f.hardware /\ g.hardware =>
  /\ f.epoch = g.epoch => f.captured - f.timestamp = g.captured - g.timestamp
  /\ f.epoch < g.epoch => f.captured < g.captured

Past == \A f \in Known :
  /\ f.captured <= now /\ f.timestamp <= f.captured /\ f.epoch <= resets
  /\ f.hardware /\ f.epoch = resets => f.captured - f.timestamp = clock_start

\* No frame on its way is from before the epoch before.
Recent == \A f \in Moving : f.epoch >= resets - 1

\* The base is that of the frame it was taken from.
BaseLink ==
  IF is_initialized_time_base
  THEN /\ taken \in [frame : FrameType, at : 0..now] /\ taken.frame.hardware
       /\ ros_time_base = taken.at /\ camera_time_base = taken.frame.timestamp
  ELSE taken = None

\* A previous time is that of the frame before, which came after the base.
PreviousLink == \A s \in Stream : previous_frame_time[s] # None =>
  /\ is_initialized_time_base /\ frame_before[s] \in FrameType
  /\ frame_before[s].hardware
  /\ previous_frame_time[s] = frame_before[s].timestamp
  /\ frame_before[s].epoch >= taken.frame.epoch - 1

\* The last stamp is relative to the base there is.
StampLink == stamped # None /\ stamped.frame.hardware =>
  /\ is_initialized_time_base
  /\ stamped.stamp =
       IF stamped.frame.timestamp < camera_time_base THEN Undefined
       ELSE ros_time_base + (stamped.frame.timestamp - camera_time_base)

Inv == /\ TypeOK /\ SameClock /\ Past /\ Recent /\ BaseLink /\ PreviousLink
       /\ StampLink

---------------------------------------------------------------------------
\* TimeBase starts with the invariant: no frame is known.
LEMMA InitInv == Init => Inv
<1> SUFFICES ASSUME Init PROVE Inv
  OBVIOUS
<1>1. flying \in [Stream -> Seq(FrameType)] /\ held \in [Stream -> Seq(FrameType)]
  BY DEF Init
<1>2. TypeOK
  <2>1. /\ hardware \in BOOLEAN /\ is_filter \in BOOLEAN
        /\ again \in [Stream -> BOOLEAN]
    BY Zenon DEF Init
  <2>2. /\ frame_before \in [Stream -> FrameType \cup {None}]
        /\ previous_frame_time \in [Stream -> Nat \cup {None}]
        /\ previous_frame_time = [s \in Stream |-> None]
    BY DEF Init
  <2>3. now \in Nat /\ clock_start \in 0..now /\ resets \in Nat
        /\ ros_time_base \in 0..now /\ camera_time_base \in 0..ros_time_base
    BY DEF Init
  <2>4. taken = None /\ stamped = None
    BY DEF Init
  <2>5. QED BY <1>1, <2>1, <2>2, <2>3, <2>4 DEF TypeOK
<1>3. Known = {}
  BY ValueAssumption DEF Init, Known, Moving
<1>4. Moving = {}
  BY <1>3 DEF Known
<1>5. QED BY <1>2, <1>3, <1>4 DEF Init, Inv, SameClock, Past, Recent, BaseLink,
     PreviousLink, StampLink

---------------------------------------------------------------------------
\* Time passes, in the same epoch or with a new one: the streams of S have one
\* frame more, and all that is known of the others stays true.
LEMMA PassInv ==
  ASSUME Inv, NEW S \in SUBSET Stream, Pass(S),
         \/ UNCHANGED <<clock_start, resets>>
         \/ /\ clock_start' = now + 1 /\ resets' = resets + 1
            /\ \A f \in Moving : f.epoch = resets
  PROVE  Inv'
<1> USE DEF frames, base, stamps
<1>1. /\ now \in Nat /\ now' = now + 1 /\ clock_start \in 0..now
      /\ clock_start' \in 0..now' /\ resets \in Nat /\ resets' \in Nat
      /\ resets' >= resets
  BY DEF Pass, Inv, TypeOK
<1>2. Frame \in FrameType
  <2> hardware \in BOOLEAN
    BY DEF Inv, TypeOK
  <2>1. now' - clock_start' \in Nat /\ now' \in Nat
    <3>1. \A n \in Nat : \A c \in 0..n : n - c \in Nat
      OBVIOUS
    <3>2. now' \in Nat /\ clock_start' \in 0..now'
      BY <1>1
    <3>3. QED BY <3>1, <3>2, Zenon
  <2>2. CASE hardware
    BY <1>1, <2>1, <2>2 DEF Frame, FrameType
  <2>3. CASE ~hardware
    BY <1>1, <2>1, <2>3 DEF Frame, FrameType
  <2>4. QED BY <2>2, <2>3
<1>3. flying' \in [Stream -> Seq(FrameType)]
  <2>1. \A s \in Stream : flying[s] \in Seq(FrameType)
    BY DEF Inv, TypeOK
  <2>2. \A s \in Stream : Append(flying[s], Frame) \in Seq(FrameType)
    BY <1>2, <2>1
  <2>3. QED BY <2>1, <2>2 DEF Pass
<1>4. Moving' \subseteq Moving \cup {Frame}
  <2>1. \A s \in Stream : \A k \in DOMAIN flying'[s] :
          \/ flying'[s][k] = Frame
          \/ k \in DOMAIN flying[s] /\ flying'[s][k] = flying[s][k]
    <3>1. SUFFICES ASSUME NEW s \in Stream
                   PROVE  \A k \in DOMAIN flying'[s] :
                            \/ flying'[s][k] = Frame
                            \/ k \in DOMAIN flying[s] /\ flying'[s][k] = flying[s][k]
      OBVIOUS
    <3>2. flying[s] \in Seq(FrameType)
      BY DEF Inv, TypeOK
    <3>3. flying'[s] = Append(flying[s], Frame) \/ flying'[s] = flying[s]
      BY DEF Pass
    <3>4. QED BY <1>2, <3>2, <3>3
  <2>2. held' = held
    BY DEF Pass
  <2>3. QED BY <2>1, <2>2 DEF Moving
<1>5. Known' \subseteq Known \cup {Frame}
  BY <1>4 DEF Known, Pass
<1>6. TypeOK'
  BY <1>1, <1>3 DEF Pass, Inv, TypeOK
<1>7. \A f \in Known : f \in FrameType /\ f.captured < now' /\ f.timestamp <= f.captured
                         /\ f.epoch <= resets
  BY <1>1 DEF Inv, Past, Known, Moving, FrameType
<1>8. /\ Frame.captured = now' /\ Frame.epoch = resets' /\ Frame.hardware = hardware
      /\ Frame.timestamp <= now'
      /\ hardware => Frame.captured - Frame.timestamp = clock_start'
  <2>1. /\ Frame.captured = now' /\ Frame.epoch = resets'
        /\ Frame.hardware = hardware
        /\ hardware => Frame.timestamp = now' - clock_start'
        /\ ~hardware => Frame.timestamp = now'
    BY Zenon DEF Frame
  <2>2. CASE hardware
    BY <1>1, <2>1, <2>2
  <2>3. CASE ~hardware
    BY <1>1, <2>1, <2>3
  <2>4. QED BY <2>2, <2>3
<1>9. \A f \in Known : f.hardware /\ f.epoch = resets' =>
        f.captured - f.timestamp = clock_start'
  BY <1>1, <1>7 DEF Inv, Past, FrameType
<1>10. SameClock'
  <2>1. ASSUME NEW f \in Known', NEW g \in Known', f.hardware, g.hardware
        PROVE  /\ f.epoch = g.epoch => f.captured - f.timestamp = g.captured - g.timestamp
               /\ f.epoch < g.epoch => f.captured < g.captured
    <3>1. CASE f \in Known /\ g \in Known
      BY <2>1, <3>1 DEF Inv, SameClock
    <3>2. CASE f = Frame /\ g = Frame
      BY <1>1, <1>8, <3>2
    <3>3. CASE f = Frame /\ g \in Known
      BY <1>1, <1>7, <1>8, <1>9, <2>1, <3>3 DEF FrameType
    <3>4. CASE f \in Known /\ g = Frame
      BY <1>1, <1>7, <1>8, <1>9, <2>1, <3>4 DEF FrameType
    <3>5. QED BY <1>5, <3>1, <3>2, <3>3, <3>4
  <2>2. QED BY <2>1 DEF SameClock
<1>11. Past'
  BY <1>1, <1>5, <1>7, <1>8, <1>9 DEF Past, FrameType
<1>12. Recent'
  <2>1. \A f \in Moving : f \in FrameType /\ f.epoch >= resets - 1
    BY DEF Inv, Recent, Moving
  <2>2. CASE UNCHANGED <<clock_start, resets>>
    BY <1>1, <1>4, <1>8, <2>1, <2>2 DEF Recent
  <2>3. CASE resets' = resets + 1 /\ \A f \in Moving : f.epoch = resets
    BY <1>1, <1>4, <1>8, <2>3 DEF Recent
  <2>4. QED BY <2>2, <2>3
<1>13. BaseLink' /\ PreviousLink' /\ StampLink'
  BY <1>1 DEF Pass, Inv, BaseLink, PreviousLink, StampLink, FrameType
<1>14. QED BY <1>6, <1>10, <1>11, <1>12, <1>13 DEF Inv

---------------------------------------------------------------------------
\* What is on its way is of the type of a frame, and known.
LEMMA Delivered ==
  ASSUME TypeOK, NEW s \in Stream
  PROVE  /\ flying[s] # <<>> => Head(flying[s]) \in Moving
         /\ held[s] # <<>> => Head(held[s]) \in Moving
<1>1. flying[s] \in Seq(FrameType) /\ held[s] \in Seq(FrameType)
  BY DEF TypeOK
<1>2. ASSUME NEW q \in Seq(FrameType), q # <<>>
      PROVE  Head(q) \in FrameType /\ 1 \in DOMAIN q /\ Head(q) = q[1]
  BY <1>2
<1>3. QED BY <1>1, <1>2 DEF Moving

\* A frame leaves a sequence, or joins the other one: no other frame moves.
LEMMA TakenOff ==
  ASSUME TypeOK, NEW s \in Stream,
         NEW f \in Moving,
         \/ flying' = flying
         \/ flying[s] # <<>> /\ flying' = [flying EXCEPT ![s] = Tail(@)],
         \/ held' = held
         \/ held[s] # <<>> /\ held' = [held EXCEPT ![s] = Tail(@)]
         \/ held' = [held EXCEPT ![s] = Append(@, f)]
  PROVE  /\ flying' \in [Stream -> Seq(FrameType)] /\ held' \in [Stream -> Seq(FrameType)]
         /\ Moving' \subseteq Moving
<1>1. /\ flying \in [Stream -> Seq(FrameType)] /\ held \in [Stream -> Seq(FrameType)]
      /\ f \in FrameType
  BY DEF TypeOK, Moving
<1>2. ASSUME NEW q \in Seq(FrameType), q # <<>>
      PROVE  /\ Tail(q) \in Seq(FrameType)
             /\ \A k \in DOMAIN Tail(q) : k + 1 \in DOMAIN q /\ Tail(q)[k] = q[k + 1]
  BY <1>2
<1>3. ASSUME NEW q \in Seq(FrameType)
      PROVE  /\ Append(q, f) \in Seq(FrameType)
             /\ \A k \in DOMAIN Append(q, f) :
                  \/ k \in DOMAIN q /\ Append(q, f)[k] = q[k]
                  \/ Append(q, f)[k] = f
  BY <1>1
<1>4. /\ DOMAIN flying' = Stream /\ flying' = [r \in Stream |-> flying'[r]]
      /\ \A r \in Stream : \/ flying'[r] = flying[r]
                           \/ flying[r] # <<>> /\ flying'[r] = Tail(flying[r])
  BY <1>1
<1>5. /\ DOMAIN held' = Stream /\ held' = [r \in Stream |-> held'[r]]
      /\ \A r \in Stream : \/ held'[r] = held[r]
                           \/ held[r] # <<>> /\ held'[r] = Tail(held[r])
                           \/ held'[r] = Append(held[r], f)
  BY <1>1
<1>6. ASSUME NEW r \in Stream
      PROVE  /\ flying'[r] \in Seq(FrameType)
             /\ \A k \in DOMAIN flying'[r] :
                  \E j \in DOMAIN flying[r] : flying'[r][k] = flying[r][j]
  <2>1. flying[r] \in Seq(FrameType)
    BY <1>1
  <2>2. CASE flying'[r] = flying[r]
    BY <2>1, <2>2
  <2>3. CASE flying[r] # <<>> /\ flying'[r] = Tail(flying[r])
    BY <1>2, <2>1, <2>3
  <2>4. QED BY <1>4, <2>2, <2>3
<1>7. ASSUME NEW r \in Stream
      PROVE  /\ held'[r] \in Seq(FrameType)
             /\ \A k \in DOMAIN held'[r] :
                  held'[r][k] = f \/ \E j \in DOMAIN held[r] : held'[r][k] = held[r][j]
  <2>1. held[r] \in Seq(FrameType)
    BY <1>1
  <2>2. CASE held'[r] = held[r]
    BY <2>1, <2>2
  <2>3. CASE held[r] # <<>> /\ held'[r] = Tail(held[r])
    BY <1>2, <2>1, <2>3
  <2>4. CASE held'[r] = Append(held[r], f)
    BY <1>3, <2>1, <2>4
  <2>5. QED BY <1>5, <2>2, <2>3, <2>4
<1>8. flying' \in [Stream -> Seq(FrameType)] /\ held' \in [Stream -> Seq(FrameType)]
  BY <1>4, <1>5, <1>6, <1>7
<1>9. Moving' \subseteq Moving
  BY <1>6, <1>7 DEF Moving
<1>10. QED BY <1>8, <1>9

\* A frame on its way is stamped, and may leave.
LEMMA StampInv ==
  ASSUME Inv, NEW s \in Stream, NEW f \in Moving, Stamp(s, f),
         flying' \in [Stream -> Seq(FrameType)], held' \in [Stream -> Seq(FrameType)],
         Moving' \subseteq Moving, again' \in [Stream -> BOOLEAN],
         is_filter' \in BOOLEAN
  PROVE  Inv'
<1>1. /\ now \in Nat /\ f \in FrameType /\ f.captured <= now
      /\ f.timestamp <= f.captured /\ f.epoch <= resets /\ f.epoch >= resets - 1
      /\ f.timestamp \in Nat /\ f.epoch \in Nat /\ resets \in Nat
  BY DEF Inv, TypeOK, Past, Recent, Known, Moving, FrameType
<1>2. UNCHANGED <<now, clock_start, resets, hardware>>
  BY DEF Stamp, camera
<1>3. /\ stamped'.stream = s /\ stamped'.frame = f
      /\ stamped' = [stream |-> s, frame |-> f,
                     stamp |-> IF f.hardware THEN StampOf(f) ELSE f.timestamp]
  BY DEF Stamp
<1>4. CASE ~f.hardware
  <2>1. UNCHANGED <<is_initialized_time_base, ros_time_base, camera_time_base,
                    previous_frame_time, taken, frame_before>>
    BY <1>4 DEF Stamp, base
  <2>2. Known' \subseteq Known
    BY <1>3, <2>1 DEF Known
  <2>3. stamped' \in [stream : Stream, frame : FrameType, stamp : Nat \cup {Undefined}]
    BY <1>1, <1>3, <1>4
  <2>4. TypeOK'
    BY <1>2, <2>1, <2>3 DEF Inv, TypeOK
  <2>5. SameClock' /\ Past' /\ Recent'
    BY <1>2, <2>2 DEF Inv, SameClock, Past, Recent
  <2>6. BaseLink' /\ PreviousLink' /\ StampLink'
    BY <1>2, <1>3, <1>4, <2>1 DEF Inv, BaseLink, PreviousLink, StampLink
  <2>7. QED BY <2>4, <2>5, <2>6 DEF Inv
<1>5. CASE f.hardware /\ (~is_initialized_time_base \/ GoesBack(s, f))
  <2>1. /\ TakeBase(s, f) /\ frame_before' = [frame_before EXCEPT ![s] = f]
    BY <1>5 DEF Stamp
  <2>2. /\ is_initialized_time_base' /\ ros_time_base' = now
        /\ camera_time_base' = f.timestamp /\ taken' = [frame |-> f, at |-> now]
        /\ is_initialized_time_base' \in BOOLEAN
        /\ previous_frame_time' = [r \in Stream |-> IF r = s THEN f.timestamp
                                                    ELSE None]
    BY <2>1 DEF TakeBase, Taken
  <2>3. f \in Known
    BY DEF Known
  <2>4. Known' \subseteq Known
    <3>1. \A r \in Stream : frame_before'[r] \in {f, frame_before[r]}
      BY <2>1 DEF Inv, TypeOK
    <3>2. QED BY <1>3, <2>2, <2>3, <3>1 DEF Known
  <2>5. frame_before' \in [Stream -> FrameType \cup {None}] /\ frame_before'[s] = f
    BY <1>1, <2>1 DEF Inv, TypeOK
  <2>6. StampOf(f) = now
    BY <1>1, <2>2 DEF StampOf
  <2>7. stamped' \in [stream : Stream, frame : FrameType, stamp : Nat \cup {Undefined}]
    BY <1>1, <1>3, <1>5, <2>6
  <2>8. taken' \in [frame : FrameType, at : 0..now]
    BY <1>1, <2>2
  <2>9. camera_time_base' \in 0..ros_time_base' /\ ros_time_base' \in 0..now
        /\ previous_frame_time' \in [Stream -> Nat \cup {None}]
    <3>1. f.timestamp \in 0..now /\ now \in 0..now
      <4>1. f.captured \in Nat
        BY <1>1 DEF FrameType
      <4>2. QED BY <1>1, <4>1
    <3>2. previous_frame_time' \in [Stream -> Nat \cup {None}]
      BY <1>1, <2>2
    <3>3. QED BY <2>2, <3>1, <3>2
  <2>10. TypeOK'
    BY <1>2, <2>2, <2>5, <2>7, <2>8, <2>9 DEF Inv, TypeOK
  <2>11. SameClock' /\ Past' /\ Recent'
    BY <1>2, <2>4 DEF Inv, SameClock, Past, Recent
  <2>12. BaseLink'
    BY <1>2, <1>5, <2>2, <2>8 DEF BaseLink
  <2>13. PreviousLink'
    BY <1>1, <1>5, <2>2, <2>5 DEF PreviousLink
  <2>14. StampLink'
    BY <1>1, <1>3, <1>5, <2>2, <2>6 DEF StampLink
  <2>15. QED BY <2>10, <2>11, <2>12, <2>13, <2>14 DEF Inv
<1>6. CASE f.hardware /\ is_initialized_time_base /\ ~GoesBack(s, f)
  <2>1. KeepBase(s, f) /\ frame_before' = [frame_before EXCEPT ![s] = f]
    BY <1>6 DEF Stamp
  <2>2. /\ UNCHANGED <<is_initialized_time_base, ros_time_base, camera_time_base,
                       taken>>
        /\ previous_frame_time' = [previous_frame_time EXCEPT ![s] = f.timestamp]
    BY <2>1 DEF KeepBase
  <2>3. f \in Known
    BY DEF Known
  <2>4. Known' \subseteq Known
    <3>1. \A r \in Stream : frame_before'[r] \in {f, frame_before[r]}
      BY <2>1 DEF Inv, TypeOK
    <3>2. QED BY <1>3, <2>2, <2>3, <3>1 DEF Known
  <2>5. frame_before' \in [Stream -> FrameType \cup {None}] /\ frame_before'[s] = f
        /\ \A r \in Stream \ {s} : frame_before'[r] = frame_before[r]
    BY <1>1, <2>1 DEF Inv, TypeOK
  <2>6. /\ ros_time_base \in Nat /\ camera_time_base \in Nat
        /\ StampOf(f) = IF f.timestamp < camera_time_base THEN Undefined
                        ELSE ros_time_base + (f.timestamp - camera_time_base)
    BY <2>2 DEF StampOf, Inv, TypeOK
  <2>7. stamped' \in [stream : Stream, frame : FrameType, stamp : Nat \cup {Undefined}]
    <3>1. StampOf(f) \in Nat \cup {Undefined}
      BY <1>1, <2>6
    <3>2. QED BY <1>1, <1>3, <1>6, <3>1
  <2>8. /\ previous_frame_time' \in [Stream -> Nat \cup {None}]
        /\ previous_frame_time'[s] = f.timestamp
        /\ \A r \in Stream \ {s} : previous_frame_time'[r] = previous_frame_time[r]
    BY <1>1, <2>2 DEF Inv, TypeOK
  <2>9. TypeOK'
    BY <1>2, <1>6, <2>2, <2>5, <2>7, <2>8 DEF Inv, TypeOK
  <2>10. SameClock' /\ Past' /\ Recent'
    BY <1>2, <2>4 DEF Inv, SameClock, Past, Recent
  <2>11. BaseLink'
    BY <1>2, <2>2 DEF Inv, BaseLink
  <2>12. taken.frame \in Known /\ taken.frame.epoch \in Nat
    BY <1>6 DEF Inv, BaseLink, Known, FrameType
  <2>13. f.epoch >= taken.frame.epoch - 1
    BY <1>1, <2>12 DEF Inv, Past
  <2>14. PreviousLink'
    BY <1>1, <1>6, <2>2, <2>5, <2>8, <2>13 DEF Inv, PreviousLink
  <2>15. StampLink'
    BY <1>3, <1>6, <2>2, <2>6 DEF StampLink
  <2>16. QED BY <2>9, <2>10, <2>11, <2>14, <2>15 DEF Inv
<1>7. QED BY <1>4, <1>5, <1>6

---------------------------------------------------------------------------
\* What a step of a frame's callback is: it stamps a frame on its way, or puts
\* it into the syncer.
LEMMA CallbackStep ==
  ASSUME TypeOK, NEW s \in Stream, VideoFrame(s) \/ SyncedFrame(s) \/ MotionFrame(s)
  PROVE  \E f \in Moving :
           /\ Stamp(s, f) \/ UNCHANGED <<camera, base, stamps>>
           /\ flying' \in [Stream -> Seq(FrameType)]
           /\ held' \in [Stream -> Seq(FrameType)]
           /\ Moving' \subseteq Moving /\ again' \in [Stream -> BOOLEAN]
           /\ is_filter' = is_filter
<1>1. CASE VideoFrame(s)
  <2> DEFINE f == Head(flying[s])
  <2>1. f \in Moving /\ flying[s] # <<>>
        /\ flying' = [flying EXCEPT ![s] = Tail(@)]
    BY <1>1, Delivered DEF VideoFrame
  <2>2. held' = held \/ held' = [held EXCEPT ![s] = Append(@, f)]
    BY <1>1 DEF VideoFrame
  <2> HIDE DEF f
  <2>3. /\ flying' \in [Stream -> Seq(FrameType)] /\ held' \in [Stream -> Seq(FrameType)]
        /\ Moving' \subseteq Moving
    BY <2>1, <2>2, TakenOff
  <2>4. /\ Stamp(s, f) \/ UNCHANGED <<camera, base, stamps>>
        /\ again' = again /\ is_filter' = is_filter
    BY <1>1 DEF VideoFrame, f
  <2>5. QED BY <2>1, <2>3, <2>4 DEF TypeOK
<1>2. CASE SyncedFrame(s)
  <2> DEFINE f == Head(held[s])
  <2>1. f \in Moving /\ held[s] # <<>> /\ Stamp(s, f)
        /\ held' = [held EXCEPT ![s] = Tail(@)]
        /\ flying' = flying /\ is_filter' = is_filter /\ again' = again
    BY <1>2, Delivered DEF SyncedFrame
  <2> HIDE DEF f
  <2>2. /\ flying' \in [Stream -> Seq(FrameType)] /\ held' \in [Stream -> Seq(FrameType)]
        /\ Moving' \subseteq Moving
    BY <2>1, TakenOff
  <2>3. QED BY <2>1, <2>2 DEF TypeOK
<1>3. CASE MotionFrame(s)
  <2> DEFINE f == Head(flying[s])
  <2>1. f \in Moving /\ flying[s] # <<>> /\ Stamp(s, f)
        /\ \/ flying' = flying
           \/ flying' = [flying EXCEPT ![s] = Tail(@)]
        /\ held' = held /\ is_filter' = is_filter
    BY <1>3, Delivered DEF MotionFrame
  <2>2. again' \in [Stream -> BOOLEAN]
    BY <1>3 DEF MotionFrame, TypeOK
  <2> HIDE DEF f
  <2>3. /\ flying' \in [Stream -> Seq(FrameType)] /\ held' \in [Stream -> Seq(FrameType)]
        /\ Moving' \subseteq Moving
    BY <2>1, TakenOff
  <2>4. QED BY <2>1, <2>2, <2>3
<1>4. QED BY <1>1, <1>2, <1>3

\* Every step keeps the invariant.
LEMMA NextInv == Inv /\ [Next]_vars => Inv'
<1> SUFFICES ASSUME Inv, [Next]_vars PROVE Inv'
  OBVIOUS
<1>1. ASSUME UNCHANGED <<now, clock_start, resets, base, stamps>>,
             Moving' \subseteq Moving, TypeOK'
      PROVE  Inv'
  <2>1. Known' \subseteq Known
    BY <1>1 DEF Known, base, stamps
  <2>2. SameClock' /\ Past' /\ Recent'
    BY <1>1, <2>1 DEF Inv, SameClock, Past, Recent
  <2>3. BaseLink' /\ PreviousLink' /\ StampLink'
    BY <1>1 DEF Inv, BaseLink, PreviousLink, StampLink, base, stamps
  <2>4. QED BY <1>1, <2>2, <2>3 DEF Inv
<1>2. CASE Tick
  BY <1>2, PassInv DEF Tick
<1>3. CASE ClockReset
  <2>1. \A f \in Moving : f.epoch = resets
    BY <1>3 DEF ClockReset, Moving
  <2>2. QED BY <1>3, <2>1, PassInv DEF ClockReset
<1>4. CASE SetGlobalTime
  <2>1. hardware' \in BOOLEAN
    BY <1>4, Zenon DEF SetGlobalTime
  <2>2. TypeOK' /\ Moving' = Moving
    BY <1>4, <2>1 DEF SetGlobalTime, Inv, TypeOK, Moving, frames, base, stamps
  <2>3. QED BY <1>1, <1>4, <2>2 DEF SetGlobalTime
<1>5. CASE SetFilter
  <2>1. is_filter' \in BOOLEAN
    BY <1>5, Zenon DEF SetFilter
  <2>2. TypeOK' /\ Moving' = Moving
    BY <1>5, <2>1 DEF SetFilter, Inv, TypeOK, Moving, camera, base, stamps
  <2>3. QED BY <1>1, <1>5, <2>2 DEF SetFilter, camera
<1>6. ASSUME NEW s \in Stream, VideoFrame(s) \/ SyncedFrame(s) \/ MotionFrame(s)
      PROVE  Inv'
  <2>1. PICK f \in Moving :
          /\ Stamp(s, f) \/ UNCHANGED <<camera, base, stamps>>
          /\ flying' \in [Stream -> Seq(FrameType)]
          /\ held' \in [Stream -> Seq(FrameType)]
          /\ Moving' \subseteq Moving /\ again' \in [Stream -> BOOLEAN]
          /\ is_filter' = is_filter
    BY <1>6, CallbackStep DEF Inv
  <2>2. CASE Stamp(s, f)
    BY <2>1, <2>2, StampInv DEF Inv, TypeOK
  <2>3. CASE UNCHANGED <<camera, base, stamps>>
    <3>1. TypeOK'
      BY <2>1, <2>3 DEF Inv, TypeOK, camera, base, stamps
    <3>2. QED BY <1>1, <2>1, <2>3, <3>1 DEF camera
  <2>4. QED BY <2>1, <2>2, <2>3
<1>7. CASE UNCHANGED vars
  <2>1. TypeOK' /\ Moving' = Moving
    BY <1>7 DEF Inv, TypeOK, Moving, vars, camera, frames, base, stamps
  <2>2. QED BY <1>1, <1>7, <2>1 DEF vars, camera
<1>8. QED BY <1>2, <1>3, <1>4, <1>5, <1>6, <1>7 DEF Next

LEMMA Invariance == Spec => []Inv
  BY InitInv, NextInv, PTL DEF Spec

---------------------------------------------------------------------------
\* The base moves only as a frame is stamped that is older than the frame before
\* it of its stream, which came after the base and has the same clock, or one of
\* an earlier epoch.
LEMMA BaseMoves ==
  ASSUME Inv, Next, taken # None, taken' # taken
  PROVE  LET s == stamped'.stream
             f == stamped'.frame
         IN  /\ s \in Stream /\ f \in FrameType /\ taken'.frame = f
             /\ frame_before[s] # None /\ frame_before[s] \in FrameType
             /\ frame_before[s].epoch >= taken.frame.epoch - 1
             /\ Overtaken(s, f) \/ f.epoch > frame_before[s].epoch
<1>1. PICK s \in Stream, f \in Moving : Stamp(s, f)
  <2>1. CASE Tick \/ ClockReset \/ SetGlobalTime \/ SetFilter
    BY <2>1 DEF Tick, ClockReset, SetGlobalTime, SetFilter, Pass, stamps
  <2>2. ASSUME NEW s \in Stream, VideoFrame(s) \/ SyncedFrame(s) \/ MotionFrame(s)
        PROVE  \E f \in Moving : Stamp(s, f)
    <3>1. TypeOK
      BY DEF Inv
    <3>2. ~UNCHANGED stamps
      BY DEF stamps
    <3>3. QED BY <2>2, <3>1, <3>2, CallbackStep
  <2>3. QED BY <2>1, <2>2 DEF Next
<1>2. /\ is_initialized_time_base /\ taken.frame \in FrameType
  BY DEF Inv, BaseLink
<1>3. f.hardware /\ GoesBack(s, f) /\ TakeBase(s, f)
  BY <1>1, <1>2 DEF Stamp, KeepBase
<1>4. stamped'.stream = s /\ stamped'.frame = f /\ taken'.frame = f
  BY <1>1, <1>3 DEF Stamp, TakeBase, Taken
<1>5. /\ frame_before[s] \in FrameType /\ frame_before[s].hardware
      /\ frame_before[s].timestamp > f.timestamp
      /\ frame_before[s].epoch >= taken.frame.epoch - 1
  BY <1>3 DEF GoesBack, Inv, PreviousLink
<1>6. frame_before[s] # None
  BY <1>5, ValueAssumption
<1>7. f \in Known /\ frame_before[s] \in Known /\ f \in FrameType
  BY <1>5 DEF Known, Moving
<1>8. /\ f.captured \in Nat /\ f.timestamp \in Nat /\ f.epoch \in Nat
      /\ frame_before[s].captured \in Nat /\ frame_before[s].timestamp \in Nat
      /\ frame_before[s].epoch \in Nat
  BY <1>5, <1>7 DEF FrameType
<1>9. /\ f.epoch = frame_before[s].epoch =>
           f.captured - f.timestamp = frame_before[s].captured - frame_before[s].timestamp
      /\ f.epoch < frame_before[s].epoch => f.captured < frame_before[s].captured
  BY <1>3, <1>5, <1>7 DEF Inv, SameClock
<1>10. frame_before[s].captured > f.captured \/ f.epoch > frame_before[s].epoch
  BY <1>5, <1>8, <1>9
<1>11. QED BY <1>4, <1>5, <1>6, <1>7, <1>10 DEF Overtaken

---------------------------------------------------------------------------
\* Every variable keeps its type: the camera's time of the base is never after
\* its ROS time, nor that after now.
THEOREM TypeCorrect == Spec => []TypeOK
<1>1. Inv => TypeOK
  BY DEF Inv
<1>2. QED BY <1>1, Invariance, PTL

\* All stamps of the base's epoch are off by the same delay, whatever the number
\* of streams and resets and however late frames come.
THEOREM StampsAreAccurate == Spec => []StampAccurate
<1>1. ASSUME Inv, stamped # None, stamped.frame.hardware,
             stamped.frame.epoch = taken.frame.epoch,
             stamped.frame.timestamp >= camera_time_base
      PROVE  /\ stamped.stamp # Undefined
             /\ stamped.stamp - stamped.frame.captured = taken.at - taken.frame.captured
  <2>1. /\ is_initialized_time_base /\ taken \in [frame : FrameType, at : 0..now]
        /\ taken.frame.hardware /\ stamped.frame \in FrameType
        /\ ros_time_base = taken.at /\ camera_time_base = taken.frame.timestamp
        /\ now \in Nat
    BY <1>1 DEF Inv, TypeOK, StampLink, BaseLink
  <2>2. taken.frame \in Known /\ stamped.frame \in Known
    BY <1>1, <2>1 DEF Known
  <2>3. stamped.frame.captured - stamped.frame.timestamp
          = taken.frame.captured - taken.frame.timestamp
    BY <1>1, <2>1, <2>2 DEF Inv, SameClock
  <2>4. /\ taken.at \in Nat /\ taken.frame.captured \in Nat
        /\ taken.frame.timestamp \in Nat /\ stamped.frame.captured \in Nat
        /\ stamped.frame.timestamp \in Nat
    BY <2>1 DEF FrameType
  <2>5. stamped.stamp = taken.at + (stamped.frame.timestamp - taken.frame.timestamp)
    BY <1>1, <2>1, <2>4 DEF Inv, StampLink
  <2>6. stamped.stamp \in Int
    BY <2>4, <2>5
  <2>7. stamped.stamp # Undefined
    BY <2>6, ValueAssumption
  <2>8. QED BY <2>3, <2>4, <2>5, <2>7
<1>2. Inv => StampAccurate
  BY <1>1 DEF StampAccurate
<1>3. QED BY <1>2, Invariance, PTL

\* Only a reset of the clock, or a frame overtaken in the syncer, moves the base.
THEOREM BaseMovesOnReset == Spec => MovesOnReset
<1>1. Inv /\ [Next]_vars =>
        [taken # None /\ taken' # taken =>
           LET s == stamped'.stream
               f == stamped'.frame
           IN  /\ frame_before[s] # None
               /\ Overtaken(s, f) \/ f.epoch > frame_before[s].epoch]_vars
  BY BaseMoves
<1>2. QED BY <1>1, Invariance, PTL DEF Spec, MovesOnReset

\* The base never goes back to an earlier epoch, but for an overtaken frame.
THEOREM BaseGoesForward == Spec => BaseForward
<1>1. ASSUME Inv, Next, taken # None
      PROVE  \/ taken'.frame.epoch >= taken.frame.epoch
             \/ Overtaken(stamped'.stream, stamped'.frame)
  <2>1. taken.frame \in FrameType
    BY <1>1 DEF Inv, BaseLink
  <2>2. CASE taken' = taken
    BY <2>1, <2>2 DEF FrameType
  <2>3. CASE taken' # taken
    BY <1>1, <2>1, <2>3, BaseMoves DEF FrameType
  <2>4. QED BY <2>2, <2>3
<1>2. Inv /\ [Next]_vars =>
        [taken # None =>
           \/ taken'.frame.epoch >= taken.frame.epoch
           \/ Overtaken(stamped'.stream, stamped'.frame)]_vars
  BY <1>1
<1>3. QED BY <1>2, Invariance, PTL DEF Spec, BaseForward
===========================================================================
