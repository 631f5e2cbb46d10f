----------------------------- MODULE TimeBase -----------------------------
(***************************************************************************)
(* How a frame gets its stamp: frameSystemTimeSec() of BaseRealSenseNode.  *)
(* Frames of the hardware clock domain are stamped relative to a base, a   *)
(* ROS time and a camera time that are meant to be the same moment.  The   *)
(* hardware clock starts again from time to time, which the node can only  *)
(* guess from a frame that is older than the one before it of its stream;  *)
(* it then takes the moment of that frame's arrival as its new base.       *)
(*                                                                         *)
(* librealsense delivers the frames of a stream in order and within        *)
(* MaxDelay, but those of different streams in any order.  A motion frame  *)
(* is stamped at once.  A video frame is, while no filter is enabled; else *)
(* it goes through the asynchronous syncer, which holds it until it has    *)
(* the frames to go with it (a frameset is stamped as its first frame).    *)
(* The function holds _time_base_mutex: one frame's stamp is one step.     *)
(***************************************************************************)
EXTENDS Integers, Sequences

CONSTANTS
  Stream,
  Motion,        \* the motion streams
  None,
  Undefined,     \* the stamp computed from a negative difference
  MaxDelay,      \* librealsense delivers a frame within this time
  MaxTime,       \* bound: the time that passes
  MaxResets,     \* bound: the times the hardware clock starts again
  MaxHeld        \* bound: the frames of a stream in the syncer

\* A frame carries the time of its clock, and for the properties the time and
\* the epoch it was captured in.
FrameType == [captured : Nat, epoch : Nat, hardware : BOOLEAN, timestamp : Nat]

ASSUME StreamAssumption == Motion \subseteq Stream
ASSUME ValueAssumption ==
  None \notin Int \cup FrameType /\ Undefined \notin Int
ASSUME DelayAssumption == MaxDelay \in Nat
ASSUME BoundAssumption == MaxTime \in Nat /\ MaxResets \in Nat /\ MaxHeld \in Nat

VARIABLES
  now,            \* the ROS time
  clock_start,    \* when the hardware clock last started from zero
  resets,         \* how often it did
  hardware,       \* the frames' domain is the hardware clock, not the global time
  flying,         \* for each stream, the frames that are not delivered yet
  is_filter,      \* a filter is enabled, or the frames are synchronised
  held,           \* for each stream, its frames in the syncer
  is_initialized_time_base, ros_time_base, camera_time_base,
  previous_frame_time,
  again,          \* the stream's frame has its first stamp, and gets another one
  stamped,        \* the frame last stamped, with its stamp
  taken,          \* history: when and from which frame the base was taken
  frame_before    \* history: the stream's last hardware frame with a stamp

camera == <<now, clock_start, resets, hardware>>
frames == <<flying, is_filter, held, again>>
base   == <<is_initialized_time_base, ros_time_base, camera_time_base,
            previous_frame_time>>
stamps == <<stamped, taken, frame_before>>
vars   == <<camera, frames, base, stamps>>

---------------------------------------------------------------------------
Init ==
  /\ now = 0 /\ clock_start = 0 /\ resets = 0
  /\ hardware \in BOOLEAN
  /\ flying = [s \in Stream |-> <<>>] /\ held = [s \in Stream |-> <<>>]
  /\ is_filter \in BOOLEAN
  /\ is_initialized_time_base = FALSE
  /\ ros_time_base = 0 /\ camera_time_base = 0
  /\ previous_frame_time = [s \in Stream |-> None]
  /\ again = [s \in Stream |-> FALSE]
  /\ stamped = None
  /\ taken = None
  /\ frame_before = [s \in Stream |-> None]

---------------------------------------------------------------------------
(* The camera and librealsense.                                            *)

\* The frame that is captured when the time has passed.
Frame == [captured |-> now', epoch |-> resets', hardware |-> hardware,
          timestamp |-> IF hardware THEN now' - clock_start' ELSE now']

\* Time passes, unless a frame is due; the streams of S capture a frame.
Pass(S) ==
  /\ now < MaxTime
  /\ \A s \in Stream : \A k \in DOMAIN flying[s] :
       now - flying[s][k].captured < MaxDelay
  /\ now' = now + 1
  /\ flying' = [s \in Stream |-> IF s \in S THEN Append(flying[s], Frame)
                                            ELSE flying[s]]
  /\ UNCHANGED <<hardware, is_filter, held, again, base, stamps>>

Tick == /\ UNCHANGED <<clock_start, resets>>
        /\ \E S \in SUBSET Stream : Pass(S)

\* The clock starts again.  It runs for an hour and more: by then there is no
\* frame of an earlier epoch left.
ClockReset ==
  /\ resets < MaxResets
  /\ \A s \in Stream : \A k \in DOMAIN flying[s] : flying[s][k].epoch = resets
  /\ \A s \in Stream : \A k \in DOMAIN held[s] : held[s][k].epoch = resets
  /\ clock_start' = now + 1 /\ resets' = resets + 1
  /\ \E S \in SUBSET Stream : Pass(S)

\* The option global_time_enabled changes.
SetGlobalTime ==
  /\ hardware' = ~hardware
  /\ UNCHANGED <<now, clock_start, resets, frames, base, stamps>>

\* A filter's enable parameter changes.
SetFilter ==
  /\ is_filter' = ~is_filter
  /\ UNCHANGED <<camera, flying, held, again, base, stamps>>

---------------------------------------------------------------------------
(* frameSystemTimeSec.                                                     *)

\* A later frame of the stream was stamped before it.  (For the properties.)
Overtaken(s, f) == frame_before[s] # None /\ frame_before[s].captured > f.captured

Taken(f) == [frame |-> f, at |-> now]

\* Variant: any frame of the camera is taken for the one before.
GoesBackOfAny(s, f) ==
  \E r \in Stream :
    previous_frame_time[r] # None /\ previous_frame_time[r] > f.timestamp

\* Variant: a frame as old as the one before counts as older.
GoesBackOrStays(s, f) ==
  previous_frame_time[s] # None /\ previous_frame_time[s] >= f.timestamp

\* The frame is older than the one before of its stream.
GoesBack(s, f) ==
  previous_frame_time[s] # None /\ previous_frame_time[s] > f.timestamp

\* Variant: the base keeps its ROS time.
TakeBaseCameraOnly(s, f) ==
  /\ is_initialized_time_base' = TRUE
  /\ ros_time_base' = IF is_initialized_time_base THEN ros_time_base ELSE now
  /\ camera_time_base' = f.timestamp
  /\ previous_frame_time' = [r \in Stream |-> IF r = s THEN f.timestamp ELSE None]
  /\ taken' = Taken(f)

\* Variant: the base is never marked as taken.
TakeBaseUnmarked(s, f) ==
  /\ ros_time_base' = now
  /\ camera_time_base' = f.timestamp
  /\ previous_frame_time' = [r \in Stream |-> IF r = s THEN f.timestamp ELSE None]
  /\ taken' = Taken(f)
  /\ UNCHANGED is_initialized_time_base

\* The frame becomes the base, and the previous times of the other streams are
\* forgotten (for the first base, there is none).
TakeBase(s, f) ==
  /\ is_initialized_time_base' = TRUE
  /\ ros_time_base' = now
  /\ camera_time_base' = f.timestamp
  /\ previous_frame_time' = [r \in Stream |-> IF r = s THEN f.timestamp ELSE None]
  /\ taken' = Taken(f)

KeepBase(s, f) ==
  /\ previous_frame_time' = [previous_frame_time EXCEPT ![s] = f.timestamp]
  /\ UNCHANGED <<is_initialized_time_base, ros_time_base, camera_time_base,
                 taken>>

\* The frame's time relative to the base.  millisecondsToNanoseconds converts
\* the difference to an unsigned integer: a negative one has no defined value,
\* and the frame is lost or has any stamp.
StampOf(f) ==
  IF f.timestamp < camera_time_base' THEN Undefined
  ELSE ros_time_base' + (f.timestamp - camera_time_base')

\* frameSystemTimeSec(f), for a frame of s.
Stamp(s, f) ==
  /\ IF ~f.hardware THEN UNCHANGED <<base, taken, frame_before>>
     ELSE /\ IF ~is_initialized_time_base \/ GoesBack(s, f) THEN TakeBase(s, f)
             ELSE KeepBase(s, f)
          /\ frame_before' = [frame_before EXCEPT ![s] = f]
  /\ stamped' = [stream |-> s, frame |-> f,
                 stamp |-> IF f.hardware THEN StampOf(f) ELSE f.timestamp]
  /\ UNCHANGED camera

\* A video frame, straight to frame_callback or into the syncer.
VideoFrame(s) ==
  /\ flying[s] # <<>> /\ s \notin Motion
  /\ flying' = [flying EXCEPT ![s] = Tail(@)]
  /\ IF is_filter THEN /\ Len(held[s]) < MaxHeld
                       /\ held' = [held EXCEPT ![s] = Append(@, Head(flying[s]))]
                       /\ UNCHANGED <<camera, base, stamps>>
     ELSE Stamp(s, Head(flying[s])) /\ UNCHANGED held
  /\ UNCHANGED <<is_filter, again>>

\* The syncer passes a frame on to frame_callback.
SyncedFrame(s) ==
  /\ held[s] # <<>>
  /\ held' = [held EXCEPT ![s] = Tail(@)]
  /\ Stamp(s, Head(held[s]))
  /\ UNCHANGED <<flying, is_filter, again>>

\* A motion frame: imu_callback stamps it, then imu_callback_sync does too if
\* the united topic is there and has a subscriber.
MotionFrame(s) ==
  /\ flying[s] # <<>> /\ s \in Motion
  /\ Stamp(s, Head(flying[s]))
  /\ \E twice \in BOOLEAN :
       /\ twice => ~again[s]
       /\ again' = [again EXCEPT ![s] = twice]
       /\ flying' = IF twice THEN flying ELSE [flying EXCEPT ![s] = Tail(@)]
  /\ UNCHANGED <<is_filter, held>>

Next ==
  \/ Tick \/ ClockReset \/ SetGlobalTime \/ SetFilter
  \/ \E s \in Stream : VideoFrame(s) \/ SyncedFrame(s) \/ MotionFrame(s)

Spec == Init /\ [][Next]_vars

---------------------------------------------------------------------------
(* Properties.                                                             *)

TypeOK ==
  /\ now \in Nat /\ clock_start \in 0..now /\ resets \in Nat
  /\ hardware \in BOOLEAN
  /\ flying \in [Stream -> Seq(FrameType)] /\ held \in [Stream -> Seq(FrameType)]
  /\ is_filter \in BOOLEAN
  /\ taken = None \/ taken \in [frame : FrameType, at : 0..now]
  /\ frame_before \in [Stream -> FrameType \cup {None}]
  /\ ros_time_base \in 0..now /\ camera_time_base \in 0..ros_time_base
  /\ previous_frame_time \in [Stream -> Nat \cup {None}]
  /\ is_initialized_time_base \/ previous_frame_time = [s \in Stream |-> None]
  /\ again \in [Stream -> BOOLEAN]
  /\ stamped = None \/ stamped \in [stream : Stream, frame : FrameType,
                                    stamp : Nat \cup {Undefined}]

\* All the frames of the base's epoch are stamped as late as the base's own was:
\* the times between them are those of the camera, whatever streams, resets and
\* overtaken frames came in between.  (Not those older than the base: their
\* stamp is undefined.)
StampAccurate ==
  stamped # None =>
    LET f == stamped.frame
    IN  /\ f.hardware /\ f.epoch = taken.frame.epoch
        /\ f.timestamp >= camera_time_base
        =>
          /\ stamped.stamp # Undefined
          /\ stamped.stamp - f.captured = taken.at - taken.frame.captured

\* The base only moves when the clock did start again since the stream's frame
\* before, or for a frame that was overtaken in the syncer when the filters were
\* disabled.  No order in which the frames of several streams arrive, and no
\* second stamp of the same frame, is taken for a reset.
MovesOnReset ==
  [][taken # None /\ taken' # taken =>
       LET s == stamped'.stream
           f == stamped'.frame
       IN  /\ frame_before[s] # None
           /\ Overtaken(s, f) \/ f.epoch > frame_before[s].epoch]_vars

\* Late frames of an earlier epoch never take the base back to it, unless they
\* were overtaken.
BaseForward ==
  [][taken # None =>
       \/ taken'.frame.epoch >= taken.frame.epoch
       \/ Overtaken(stamped'.stream, stamped'.frame)]_vars
===========================================================================
