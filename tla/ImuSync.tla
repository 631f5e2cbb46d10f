----------------------------- MODULE ImuSync ------------------------------
(***************************************************************************)
(* The topic imu, which unites the two motion streams: imu_callback_sync   *)
(* with the history of samples, the parameter unite_imu_method, and what   *)
(* the update of the motion sensor does to the topic and to the transforms *)
(* of its frame.                                                           *)
(*                                                                         *)
(* librealsense calls back for the samples of a stream in order, and for   *)
(* the two streams at the same time; stopping the sensor waits for its     *)
(* callbacks.  The monitor thread updates the sensor, and the executor     *)
(* changes the method, in between.  The sensors share the function that    *)
(* makes the topic, so that the update of a video sensor may make it too.  *)
(* The pause mode of SyncedImuPublisher is left out: nothing calls its     *)
(* Enable, so that it never pauses.                                        *)
(***************************************************************************)
EXTENDS Integers, Sequences, FiniteSets, SequencesExt

CONSTANTS
  None,
  MaxSamples,    \* bound: the samples captured
  MaxChanges,    \* bound: the changes of the method
  MaxMishaps     \* bound: the starts and stops of the sensor that fail, and the
                 \* starts over streams that run

ASSUME BoundAssumption ==
  MaxSamples \in Nat /\ MaxChanges \in Nat /\ MaxMishaps \in Nat

Stream == {"accel", "gyro"}
Method == {"none", "copy", "linear_interpolation"}

VARIABLES
  _imu_sync_method,
  clearing,             \* the parameter's function has yet to clear the history
  subscribed,           \* the topic imu has subscribers, when it is there
  want,                 \* the streams enabled by their parameters
  active,               \* the streams librealsense runs
  pc,                   \* where the update of the sensor is
  profiles,             \* the streams that update starts
  enabled,              \* the streams of _is_accel_enabled, _is_gyro_enabled
  synced,               \* _synced_imu_publisher is there
  static_tf,            \* how often the transforms of the topic's frame are listed
  clock,                \* the time, a sample a tick
  calling,              \* the sample of a stream between its two callbacks
  _imu_history,
  heard,                \* history: the samples that reached the topic since the
                        \* history was cleared, or the topic had a gap
  left,                 \* history: what _imu_history held before heard
  united,               \* history: the messages published since then
  last_accel,           \* history: the last accel sample that arrived
  missed,               \* history: an accel sample is not in the history, since
                        \* the topic was not there or had no subscriber
  method_at_start,      \* history: the method when startPublishers last ran, for
                        \* any sensor
  switched,             \* history: the method came or went while frames of the
                        \* sensor were listed, or during an update
  overlaps,             \* history: how often streams were started over streams
                        \* that ran, as a parameter changed between the two loops
  changes, failures

sensor    == <<want, active, pc, profiles, failures>>
resources == <<enabled, synced, static_tf, method_at_start>>
samples   == <<clock, calling, last_accel>>
messages  == <<heard, left, united>>
vars == <<_imu_sync_method, clearing, subscribed, sensor, resources, samples,
          _imu_history, messages, missed, switched, overlaps, changes>>

\* An acceleration is that of its time: it grows by one with every tick.
Sample(s, t) == [type |-> s, data |-> t, time |-> t]
Samples == [type : Stream, data : 1..MaxSamples, time : 1..MaxSamples]

ASSUME NoneAssumption == None \notin Samples

Init ==
  /\ _imu_sync_method \in Method /\ clearing = FALSE
  /\ subscribed \in BOOLEAN
  /\ want \in SUBSET Stream /\ active = {} /\ pc = "rest" /\ profiles = {}
  /\ enabled = {} /\ synced = FALSE
  /\ static_tf = 0 /\ clock = 0 /\ calling = [s \in Stream |-> None]
  /\ _imu_history = <<>>
  /\ heard = <<>> /\ left = <<>> /\ united = <<>>
  /\ last_accel = None /\ missed = FALSE
  /\ method_at_start = "none" /\ switched = FALSE /\ overlaps = 0
  /\ changes = 0 /\ failures = 0

---------------------------------------------------------------------------
(* What a sample adds to the history, and the messages it gives.           *)

\* The data of accel at the time of gyro, united with it.
CreateUnitedMessage(accel, gyro) == [stamp |-> gyro.time, gyro |-> gyro.data,
                                     accel |-> accel.data]

\* Variant: the history is not cleared, and its first sample is used.
FillImuData_CopyFirst(history, imu_data) ==
  IF imu_data.type = "accel"
  THEN [history |-> Append(history, imu_data), imu_msgs |-> <<>>]
  ELSE [history |-> history,
        imu_msgs |-> IF history = <<>> THEN <<>>
                     ELSE <<CreateUnitedMessage(Head(history), imu_data)>>]

FillImuData_Copy(history, imu_data) ==
  IF imu_data.type = "accel"
  THEN [history |-> <<imu_data>>, imu_msgs |-> <<>>]
  ELSE [history |-> history,
        imu_msgs |-> IF history = <<>> THEN <<>>
                     ELSE <<CreateUnitedMessage(Last(history), imu_data)>>]

lerp(accel0, accel1, t) ==
  LET dt == accel1.time - accel0.time
  IN  (accel0.data * (accel1.time - t) + accel1.data * (t - accel0.time)) \div dt

\* One turn of the loop over the history: accel0 and the gyro samples since.
Interpolate(s, crnt_imu) ==
  CASE crnt_imu.type = "accel" /\ s.accel0 = None ->
         [s EXCEPT !.accel0 = crnt_imu]
    [] crnt_imu.type = "accel" /\ s.accel0 # None ->
         [accel0 |-> crnt_imu, gyros_data |-> <<>>,
          imu_msgs |-> s.imu_msgs \o
            [k \in DOMAIN s.gyros_data |->
               LET g == s.gyros_data[k]
                   crnt_accel == [data |-> lerp(s.accel0, crnt_imu, g.time)]
               IN  CreateUnitedMessage(crnt_accel, g)]]
    [] /\ crnt_imu.type = "gyro" /\ s.accel0 # None
       /\ crnt_imu.time >= s.accel0.time ->
         [s EXCEPT !.gyros_data = Append(@, crnt_imu)]
    [] OTHER -> s

\* The messages of the loop over the history.
Interpolated(history) ==
  LET turn[n \in 0..Len(history)] ==
        IF n = 0 THEN [accel0 |-> None, gyros_data |-> <<>>, imu_msgs |-> <<>>]
        ELSE Interpolate(turn[n-1], history[n])
  IN  turn[Len(history)].imu_msgs

\* Variant: nothing of the history is kept for the next call.
FillImuData_LinearInterpolationDrained(history, imu_data) ==
  LET pushed == Append(history, imu_data)
  IN  IF imu_data.type # "accel" \/ Len(pushed) < 3
      THEN [history |-> pushed, imu_msgs |-> <<>>]
      ELSE [history |-> <<>>, imu_msgs |-> Interpolated(pushed)]

FillImuData_LinearInterpolation(history, imu_data) ==
  LET pushed == Append(history, imu_data)
  IN  IF imu_data.type # "accel" \/ Len(pushed) < 3
      THEN [history |-> pushed, imu_msgs |-> <<>>]
      ELSE [history |-> <<Last(pushed)>>, imu_msgs |-> Interpolated(pushed)]

---------------------------------------------------------------------------
(* The callbacks of the motion sensor, and the method's parameter.         *)

\* A gap: what follows is heard from new.  (For the properties.)
Gap(history) == heard' = <<>> /\ left' = history /\ united' = <<>>

\* imu_callback publishes the sample on its stream's own topic;
\* imu_callback_sync is called if the streams are to be united.
imu_callback(s) ==
  /\ s \in active /\ calling[s] = None /\ clock < MaxSamples
  /\ clock' = clock + 1
  /\ LET sample == Sample(s, clock')
     IN  /\ calling' = IF _imu_sync_method = "none" THEN calling
                       ELSE [calling EXCEPT ![s] = sample]
         /\ last_accel' = IF s = "accel" THEN sample ELSE last_accel
         /\ missed' = (missed \/ (s = "accel" /\ _imu_sync_method = "none"))
  /\ UNCHANGED <<_imu_sync_method, clearing, subscribed, sensor, resources,
                 _imu_history, messages, switched, overlaps, changes>>

\* imu_callback_sync, under _imu_callback_mutex; its method is the default of
\* its parameter, COPY.
imu_callback_sync(s) ==
  /\ calling[s] # None
  /\ calling' = [calling EXCEPT ![s] = None]
  /\ IF synced /\ subscribed
     THEN LET fill == FillImuData_Copy(_imu_history, calling[s])
          IN  /\ _imu_history' = fill.history
              /\ heard' = Append(heard, calling[s])
              /\ united' = united \o fill.imu_msgs
              /\ missed' = (missed /\ s # "accel")
              /\ UNCHANGED left
     ELSE /\ missed' = (missed \/ s = "accel")
          /\ UNCHANGED <<_imu_history, messages>>
  /\ UNCHANGED <<_imu_sync_method, clearing, subscribed, sensor, resources,
                 clock, last_accel, switched, overlaps, changes>>

\* The parameter's function writes the method, and then clears the history
\* under the mutex.
SetMethod(m) ==
  /\ ~clearing /\ changes < MaxChanges
  /\ changes' = changes + 1
  /\ _imu_sync_method' = m /\ clearing' = TRUE
  /\ LET switches == /\ (m = "none") # (_imu_sync_method = "none")
                     /\ (active # {} \/ pc # "rest")
     IN  switched' = (switched \/ switches)
  /\ UNCHANGED <<subscribed, sensor, resources, samples, _imu_history, messages,
                 missed, overlaps>>

ClearHistory ==
  /\ clearing /\ clearing' = FALSE
  /\ _imu_history' = <<>> /\ Gap(<<>>)
  /\ UNCHANGED <<_imu_sync_method, subscribed, sensor, resources, samples,
                 missed, switched, overlaps, changes>>

Subscribe ==
  /\ subscribed' = ~subscribed
  /\ Gap(_imu_history)
  /\ UNCHANGED <<_imu_sync_method, clearing, sensor, resources, samples,
                 _imu_history, missed, switched, overlaps, changes>>

Enable(s, b) ==
  /\ want' = IF b THEN want \cup {s} ELSE want \ {s}
  /\ UNCHANGED <<_imu_sync_method, clearing, subscribed, active, pc, profiles,
                 failures, resources, samples, _imu_history, messages, missed,
                 switched, overlaps, changes>>

---------------------------------------------------------------------------
(* The update of the motion sensor by the monitor thread.                  *)

\* calcAndAppendTransformMsgs and eraseTransformMsgs list and unlist the frame of
\* the united topic with that of the gyro.
WithFrame(S) == "gyro" \in S /\ _imu_sync_method # "none"

\* stopPublishers for the motion streams of S.
\* Variant: the flags stay.
StopPublishersKeepFlags(S) ==
  /\ S # {}
  /\ synced' = FALSE
  /\ static_tf' = IF static_tf > 0 /\ WithFrame(S) THEN static_tf - 1 ELSE static_tf
  /\ Gap(_imu_history)
  /\ UNCHANGED <<enabled, method_at_start>>

\* stopPublishers for the motion streams of S.
StopPublishers(S) ==
  /\ S # {}
  /\ enabled' = {} /\ synced' = FALSE
  /\ static_tf' = IF static_tf > 0 /\ WithFrame(S) THEN static_tf - 1 ELSE static_tf
  /\ Gap(_imu_history)
  /\ UNCHANGED method_at_start

\* stopRequiredSensors passes the sensor by if it runs what is wanted, and stops
\* it otherwise.
StopSensor ==
  /\ pc = "rest" /\ pc' = "start"
  /\ IF want = active THEN UNCHANGED <<active, resources, messages>>
     ELSE /\ \A s \in Stream : calling[s] = None
          /\ active' = {}
          /\ \/ StopPublishers(active)
             \/ active = {} /\ UNCHANGED <<resources, messages>>
  /\ UNCHANGED <<_imu_sync_method, clearing, subscribed, want, profiles,
                 failures, samples, _imu_history, missed, switched, overlaps,
                 changes>>

MishapLeft == failures + overlaps < MaxMishaps

\* RosSensor::stop() catches what the sensor throws: streams run on, and their
\* publishers are gone.
StopFails ==
  /\ pc = "rest" /\ pc' = "start"
  /\ want # active /\ StopPublishers(active)
  /\ MishapLeft /\ failures' = failures + 1
  /\ UNCHANGED <<_imu_sync_method, clearing, subscribed, want, active, profiles,
                 samples, _imu_history, missed, switched, overlaps, changes>>

\* The end of startPublishers, with the flags of the motion streams in on: a
\* publisher takes the place of the one there was.
Unite(on) ==
  /\ method_at_start' = _imu_sync_method
  /\ IF on = Stream /\ _imu_sync_method # "none"
     THEN synced' = TRUE /\ Gap(_imu_history)
     ELSE UNCHANGED <<synced, messages>>

\* Variant: only the motion sensor makes the topic.
StartVideoPublishersOnly ==
  /\ pc \in {"rest", "start"}
  /\ method_at_start' = _imu_sync_method
  /\ UNCHANGED <<_imu_sync_method, clearing, subscribed, sensor, enabled, synced,
                 static_tf, samples, _imu_history, messages, missed, switched,
                 overlaps, changes>>

\* startPublishers for a video sensor, in an update that starts its streams or
\* after align_depth changed.
StartVideoPublishers ==
  /\ pc \in {"rest", "start"}
  /\ Unite(enabled)
  /\ UNCHANGED <<_imu_sync_method, clearing, subscribed, sensor, enabled,
                 static_tf, samples, _imu_history, missed, switched, overlaps,
                 changes>>

\* startUpdatedSensors, which compares the parameters again, in steps:
\* startPublishers, the transforms, the sensor.
StartPublishers ==
  /\ pc = "start"
  /\ IF want = {} \/ want = active
     THEN pc' = "rest" /\ UNCHANGED <<profiles, resources, messages, overlaps>>
     ELSE /\ pc' = "append"
          /\ profiles' = want
          /\ enabled' = enabled \cup want
          /\ Unite(enabled')
          /\ IF active = {} THEN UNCHANGED overlaps
             ELSE MishapLeft /\ overlaps' = overlaps + 1
          /\ UNCHANGED static_tf
  /\ UNCHANGED <<_imu_sync_method, clearing, subscribed, want, active,
                 failures, samples, _imu_history, missed, switched, changes>>

AppendTransforms ==
  /\ pc = "append" /\ pc' = "open"
  /\ static_tf' = IF WithFrame(profiles) THEN static_tf + 1 ELSE static_tf
  /\ UNCHANGED <<_imu_sync_method, clearing, subscribed, want, active, profiles,
                 failures, enabled, synced, method_at_start, samples,
                 _imu_history, messages, missed, switched, overlaps, changes>>

\* RosSensor::start() returns at once if a stream of the sensor runs.
OpenSensor ==
  /\ pc = "open" /\ pc' = "rest" /\ profiles' = {}
  /\ active' = IF active = {} THEN profiles ELSE active
  /\ UNCHANGED <<_imu_sync_method, clearing, subscribed, want, failures,
                 resources, samples, _imu_history, messages, missed,
                 switched, overlaps, changes>>

\* The sensor throws, with its streams opened or not: what is made stays.
OpenFails ==
  /\ pc = "open" /\ pc' = "rest" /\ profiles' = {} /\ active = {}
  /\ MishapLeft /\ failures' = failures + 1
  /\ active' \in {{}, profiles}
  /\ UNCHANGED <<_imu_sync_method, clearing, subscribed, want,
                 resources, samples, _imu_history, messages, missed, switched,
                 overlaps, changes>>

Next ==
  \/ \E s \in Stream : imu_callback(s) \/ imu_callback_sync(s)
  \/ \E s \in Stream, b \in BOOLEAN : Enable(s, b)
  \/ \E m \in Method : SetMethod(m)
  \/ ClearHistory \/ Subscribe
  \/ StopSensor \/ StopFails \/ StartPublishers \/ StartVideoPublishers
  \/ AppendTransforms \/ OpenSensor \/ OpenFails

Spec == Init /\ [][Next]_vars

---------------------------------------------------------------------------
(* Properties.                                                             *)

Message == [stamp : 1..MaxSamples, gyro : 1..MaxSamples, accel : 1..MaxSamples]

TypeOK ==
  /\ _imu_sync_method \in Method /\ clearing \in BOOLEAN
  /\ subscribed \in BOOLEAN /\ synced \in BOOLEAN
  /\ want \subseteq Stream /\ active \subseteq Stream /\ enabled \subseteq Stream
  /\ profiles \subseteq Stream /\ pc \in {"rest", "start", "append", "open"}
  /\ static_tf \in Nat
  /\ clock \in 0..MaxSamples /\ calling \in [Stream -> Samples \cup {None}]
  /\ Len(_imu_history) <= 1 /\ Range(_imu_history) \subseteq Samples
  /\ Range(heard) \subseteq Samples /\ Range(united) \subseteq Message
  /\ last_accel \in Samples \cup {None} /\ missed \in BOOLEAN
  /\ method_at_start \in Method
  /\ switched \in BOOLEAN /\ overlaps \in Nat
  /\ changes \in Nat /\ failures \in Nat

\* The accel sample before sample k of those heard.
LastAccel(seq, n) == SelectLastInSubSeq(seq, 1, n, LAMBDA a : a.type = "accel")
AccelBefore(k) == LastAccel(left \o heard, Len(left) + k - 1)

\* The place of k among the numbers of S.
Place(S, k) == Cardinality({j \in S : j <= k})

\* README.md:479: "Every gyro message will be attached by the last accel
\* message".  Of the samples that reach the topic every gyro sample after an
\* accel sample gives one message, in their order, with the last accel sample.
LastAccelAttached ==
  LET gyros == {k \in DOMAIN heard : heard[k].type = "gyro" /\ AccelBefore(k) # 0}
  IN  /\ Len(united) = Cardinality(gyros)
      /\ \A k \in gyros :
           united[Place(gyros, k)] =
             CreateUnitedMessage((left \o heard)[AccelBefore(k)], heard[k])

\* A message is united with the accel sample that arrived last, whose callback
\* may not have come to an end, unless accel samples passed by while the topic
\* was not there, had no subscriber or was not to be united: then the first
\* messages may have one of before.
FreshAccel ==
  [][Len(united') > Len(united) =>
       \/ Last(united').accel = last_accel.data
       \/ calling["accel"] # None
       \/ missed]_vars

\* README.md:480: with linear interpolation "Every gyro message will be attached
\* by an accel message which is interpolated to gyro's timestamp".  Over the
\* samples heard, FillImuData_LinearInterpolation gives one message for each
\* gyro sample between two accel samples, with the acceleration of its time,
\* if the first of them is not younger than the gyro sample.
InterpolationExact ==
  LET called[n \in 0..Len(heard)] ==
        IF n = 0 THEN [history |-> <<>>, imu_msgs |-> <<>>]
        ELSE LET fill == FillImuData_LinearInterpolation(called[n-1].history, heard[n])
             IN  [history |-> fill.history,
                  imu_msgs |-> called[n-1].imu_msgs \o fill.imu_msgs]
      imu_msgs == called[Len(heard)].imu_msgs
      accel == {k \in DOMAIN heard : heard[k].type = "accel"}
      between == {k \in DOMAIN heard \ accel :
        /\ \E j \in accel : j > k
        /\ \E i \in accel : /\ i < k /\ heard[i].time <= heard[k].time
                            /\ accel \cap (i+1)..k = {}}
  IN  /\ Len(imu_msgs) = Cardinality(between)
      /\ \A k \in between :
           imu_msgs[Place(between, k)] =
             [stamp |-> heard[k].time, gyro |-> heard[k].data, accel |-> heard[k].time]

\* README.md:473, 481: after an update the topic imu is only there when both
\* streams run; when they do, it is there if the last sensor that made its
\* publishers, be it a video sensor, found a method, and without one only if the
\* method went meanwhile; and its frame has its transforms once when the gyro
\* runs.  (Not after a sensor failed to start or to stop, when flags and
\* transforms of streams that do not run are left, nor after streams were started
\* over others; nor the transforms, once the method came or went without the
\* sensor being restarted: they are appended with the one method and erased with
\* the other.)
ImuAtRest ==
  pc = "rest" /\ failures = 0 /\ overlaps = 0 =>
    /\ synced => active = Stream
    /\ active = Stream /\ method_at_start # "none" => synced
    /\ switched \/
         /\ synced => _imu_sync_method # "none"
         /\ static_tf =
              IF "gyro" \in active /\ _imu_sync_method # "none" THEN 1 ELSE 0

\* README.md:480, of the messages the node publishes.
LinearInterpolation ==
  [][Len(united') > Len(united) /\ method_at_start = "linear_interpolation" =>
       Last(united').accel = Last(united').stamp]_vars
===========================================================================
