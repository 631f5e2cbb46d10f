--------------------------- MODULE ImuSyncProofs --------------------------
(***************************************************************************)
(* Theorems about ImuSync for any number of samples, of changes of the     *)
(* method, of failed starts and stops and of overlapping updates.          *)
(***************************************************************************)
EXTENDS ImuSync, TLAPS, FiniteSetTheorems, WellFoundedInduction

Accels == {a \in Samples : a.type = "accel"}

\* The types the arguments rest on: the history only holds accel samples.
Types ==
  /\ _imu_sync_method \in Method /\ method_at_start \in Method
  /\ want \subseteq Stream /\ active \subseteq Stream /\ enabled \subseteq Stream
  /\ profiles \subseteq Stream /\ pc \in {"rest", "start", "append", "open"}
  /\ static_tf \in Nat /\ overlaps \in Nat
  /\ calling \in [Stream -> Samples \cup {None}]
  /\ \A s \in Stream : calling[s] # None => calling[s].type = s
  /\ clock \in 0..MaxSamples /\ failures \in Nat
  /\ _imu_history \in Seq(Accels) /\ united \in Seq(Message)

\* The streams whose publishers are there: those that run, or are being started.
Published == IF pc \in {"append", "open"} THEN profiles ELSE active

\* The streams whose transforms are listed.
Listed == CASE pc \in {"rest", "start"} -> active
            [] pc = "append" -> {}
            [] pc = "open" -> profiles

\* Unless a start or a stop failed or streams were started over others, the flags
\* are those of the streams that are published, on the way as well as at rest, the
\* topic is there if they are both and a method was found, and so are the
\* transforms unless the method switched.
TopicInv == failures = 0 /\ overlaps = 0 =>
  /\ pc \in {"append", "open"} => active = {}
  /\ enabled = Published
  /\ synced => Published = Stream
  /\ Published = Stream /\ method_at_start # "none" => synced
  /\ switched \/
       /\ synced => _imu_sync_method # "none"
       /\ static_tf = IF "gyro" \in Listed /\ _imu_sync_method # "none" THEN 1 ELSE 0

\* The history ends with the accel sample that arrived last, unless that one is
\* on its way or was missed.
HistoryInv ==
  /\ calling["accel"] # None => calling["accel"] = last_accel
  /\ calling["accel"] = None /\ ~missed /\ _imu_history # <<>> =>
       Last(_imu_history) = last_accel

Inv == Types /\ TopicInv /\ HistoryInv

---------------------------------------------------------------------------
\* ImuSync starts with the invariant.
LEMMA InitInv == Init => Inv
<1> SUFFICES ASSUME Init PROVE Inv
  OBVIOUS
<1>1. Types
  BY BoundAssumption DEF Init, Types, Method, Stream
<1>2. TopicInv
  BY DEF Init, TopicInv, Published, Listed, Stream
<1>3. HistoryInv
  BY DEF Init, HistoryInv, Stream
<1>4. QED BY <1>1, <1>2, <1>3 DEF Inv

\* What uniting a sample gives is typed, and of an accel sample it is no message.
LEMMA Filled ==
  ASSUME NEW history \in Seq(Accels), NEW imu \in Samples
  PROVE  LET fill == FillImuData_Copy(history, imu)
         IN  /\ fill.history \in Seq(Accels) /\ fill.imu_msgs \in Seq(Message)
             /\ imu.type = "accel" =>
                  fill.history = <<imu>> /\ fill.imu_msgs = <<>>
             /\ imu.type # "accel" =>
                  /\ fill.history = history
                  /\ \/ fill.imu_msgs = <<>>
                     \/ /\ history # <<>>
                        /\ fill.imu_msgs =
                             <<CreateUnitedMessage(Last(history), imu)>>
<1>1. CASE imu.type = "accel"
  <2>1. imu \in Accels
    BY <1>1 DEF Accels
  <2>2. <<imu>> \in Seq(Accels)
    BY <2>1
  <2>3. QED BY <1>1, <2>2 DEF FillImuData_Copy
<1>2. CASE imu.type # "accel" /\ history = <<>>
  BY <1>2 DEF FillImuData_Copy
<1>3. CASE imu.type # "accel" /\ history # <<>>
  <2>1. Len(history) \in DOMAIN history /\ Last(history) = history[Len(history)]
    BY <1>3 DEF Last
  <2>2. Last(history) \in Samples
    BY <2>1 DEF Accels
  <2>3. CreateUnitedMessage(Last(history), imu) \in Message
    BY <2>2 DEF CreateUnitedMessage, Message, Samples
  <2>4. <<CreateUnitedMessage(Last(history), imu)>> \in Seq(Message)
    BY <2>3
  <2>5. QED BY <1>3, <2>4 DEF FillImuData_Copy
<1>4. QED BY <1>1, <1>2, <1>3

---------------------------------------------------------------------------
\* The steps of the callbacks and the parameters keep the invariant.
LEMMA CallbackInv == 
  ASSUME Inv, NEW s \in Stream, imu_callback(s) \/ imu_callback_sync(s)
  PROVE  Inv'
<1> USE DEF sensor, resources, samples, messages
<1>1. Types /\ TopicInv /\ HistoryInv
  BY DEF Inv
<1>2. TopicInv'
  BY <1>1 DEF imu_callback, imu_callback_sync, TopicInv, Published, Listed
<1>3. CASE imu_callback(s)
  <2>1. /\ clock' \in 0..MaxSamples /\ clock' \in 1..MaxSamples
        /\ UNCHANGED <<_imu_history, united, want, active, enabled, profiles, pc,
                       static_tf, _imu_sync_method, method_at_start, failures,
                       overlaps>>
    BY <1>1, <1>3, BoundAssumption DEF imu_callback, Types
  <2> DEFINE sample == Sample(s, clock')
  <2>2. sample \in Samples /\ sample.type = s
    BY <2>1 DEF Sample, Samples
  <2>3. /\ \/ calling' = calling
           \/ calling' = [calling EXCEPT ![s] = sample]
        /\ _imu_sync_method # "none" => calling' = [calling EXCEPT ![s] = sample]
        /\ last_accel' = IF s = "accel" THEN sample ELSE last_accel
        /\ calling[s] = None
    BY <1>3 DEF imu_callback
  <2>4. ~missed' => ~missed /\ (s = "accel" => _imu_sync_method # "none")
    BY <1>3, Zenon DEF imu_callback
  <2> HIDE DEF sample
  <2>5. Types'
    BY <1>1, <2>1, <2>2, <2>3 DEF Types
  <2>6. ASSUME s = "accel" PROVE HistoryInv'
    <3>1. last_accel' = sample
      BY <2>3, <2>6
    <3>2. CASE calling' = calling
      <4>1. calling'["accel"] = None /\ missed'
        BY <2>3, <2>4, <2>6, <3>2, <2>2, <1>1, NoneAssumption DEF Types, Stream
      <4>2. QED BY <4>1 DEF HistoryInv
    <3>3. CASE calling' = [calling EXCEPT ![s] = sample]
      <4>1. calling'["accel"] = sample
        BY <1>1, <2>6, <3>3 DEF Types, Stream
      <4>2. sample # None
        BY <2>2, NoneAssumption
      <4>3. QED BY <3>1, <4>1, <4>2 DEF HistoryInv
    <3>4. QED BY <2>3, <3>2, <3>3
  <2>7. ASSUME s # "accel" PROVE HistoryInv'
    <3>1. calling'["accel"] = calling["accel"]
      BY <1>1, <2>3, <2>7 DEF Types, Stream
    <3>2. last_accel' = last_accel /\ _imu_history' = _imu_history
      BY <2>1, <2>3, <2>7
    <3>3. QED BY <1>1, <2>4, <3>1, <3>2 DEF HistoryInv
  <2>8. QED BY <1>2, <2>5, <2>6, <2>7 DEF Inv
<1>4. CASE imu_callback_sync(s)
  <2>1. /\ calling[s] \in Samples /\ calling[s].type = s
        /\ calling' = [calling EXCEPT ![s] = None] /\ last_accel' = last_accel
    BY <1>1, <1>4 DEF imu_callback_sync, Types
  <2>2. UNCHANGED <<want, active, enabled, profiles, pc, static_tf, clock,
                    _imu_sync_method, method_at_start, failures, overlaps>>
    BY <1>4 DEF imu_callback_sync
  <2> DEFINE fill == FillImuData_Copy(_imu_history, calling[s])
  <2>3. /\ fill.history \in Seq(Accels) /\ fill.imu_msgs \in Seq(Message)
        /\ s = "accel" => fill.history = <<calling[s]>>
        /\ s # "accel" => fill.history = _imu_history
    BY <1>1, <2>1, Filled DEF Types
  <2>4. united \o fill.imu_msgs \in Seq(Message)
    BY <1>1, <2>3 DEF Types
  <2>5. /\ _imu_history' \in {fill.history, _imu_history}
        /\ united' \in {united \o fill.imu_msgs, united}
        /\ s = "accel" => missed' \/ _imu_history' = fill.history
        /\ s # "accel" => (~missed' => ~missed)
    BY <1>4, Zenon DEF imu_callback_sync
  <2> HIDE DEF fill
  <2>6. _imu_history' \in Seq(Accels)
    BY <1>1, <2>3, <2>5 DEF Types
  <2>7. united' \in Seq(Message)
    BY <1>1, <2>4, <2>5 DEF Types
  <2>8. Types'
    BY <1>1, <2>1, <2>2, <2>6, <2>7 DEF Types
  <2>9. ASSUME s = "accel" PROVE HistoryInv'
    <3>1. calling'["accel"] = None /\ calling[s] = last_accel
      BY <1>1, <2>1, <2>9, NoneAssumption DEF HistoryInv, Types, Stream
    <3>2. Last(<<last_accel>>) = last_accel
      BY DEF Last
    <3>3. missed' \/ _imu_history' = <<last_accel>>
      BY <2>3, <2>5, <2>9, <3>1
    <3>4. QED BY <2>1, <3>1, <3>2, <3>3 DEF HistoryInv
  <2>10. ASSUME s # "accel" PROVE HistoryInv'
    <3>1. calling'["accel"] = calling["accel"]
      BY <1>1, <2>1, <2>10 DEF Types, Stream
    <3>2. _imu_history' = _imu_history
      BY <2>3, <2>5, <2>10
    <3>3. ~missed' => ~missed
      BY <2>5, <2>10
    <3>4. QED BY <1>1, <2>1, <3>1, <3>2, <3>3 DEF HistoryInv
  <2>11. QED BY <1>2, <2>8, <2>9, <2>10 DEF Inv
<1>5. QED BY <1>3, <1>4

\* The parameters, the topic's subscribers and the settings keep it.
LEMMA ParameterInv ==
  ASSUME Inv, \/ \E m \in Method : SetMethod(m)
              \/ \E s \in Stream, b \in BOOLEAN : Enable(s, b)
              \/ ClearHistory \/ Subscribe
  PROVE  Inv'
<1> USE DEF sensor, resources, samples, messages
<1>1. Types /\ TopicInv /\ HistoryInv
  BY DEF Inv
<1>2. ASSUME NEW m \in Method, SetMethod(m) PROVE Inv'
  <2>1. Types' /\ HistoryInv'
    BY <1>1, <1>2 DEF SetMethod, Types, HistoryInv
  <2>2. /\ _imu_sync_method' = m
        /\ UNCHANGED <<failures, overlaps, pc, profiles, active, enabled, synced,
                       static_tf, method_at_start>>
    BY <1>2 DEF SetMethod
  <2>3. ASSUME ~switched'
        PROVE  /\ ~switched
               /\ \/ m = "none" /\ _imu_sync_method = "none"
                  \/ m # "none" /\ _imu_sync_method # "none"
                  \/ active = {} /\ pc = "rest"
    BY <1>2, <2>3 DEF SetMethod
  <2>4. TopicInv'
    <3>1. ASSUME failures = 0, overlaps = 0, ~switched'
          PROVE  /\ synced => m # "none"
                 /\ static_tf = IF "gyro" \in Listed /\ m # "none" THEN 1 ELSE 0
      BY <1>1, <2>3, <3>1 DEF TopicInv, Published, Listed, Stream
    <3>2. Published' = Published /\ Listed' = Listed
      BY <2>2 DEF Published, Listed
    <3>3. QED BY <1>1, <2>2, <3>1, <3>2 DEF TopicInv
  <2>5. QED BY <2>1, <2>4 DEF Inv
<1>3. ASSUME NEW s \in Stream, NEW b \in BOOLEAN, Enable(s, b) PROVE Inv'
  <2>1. Types' /\ HistoryInv'
    BY <1>1, <1>3 DEF Enable, Types, HistoryInv
  <2>2. TopicInv'
    BY <1>1, <1>3 DEF Enable, TopicInv, Published, Listed
  <2>3. QED BY <2>1, <2>2 DEF Inv
<1>4. CASE ClearHistory
  <2>1. <<>> \in Seq(Accels) /\ <<>> \in Seq(Message)
    OBVIOUS
  <2>2. Types' /\ HistoryInv'
    BY <1>1, <1>4, <2>1 DEF ClearHistory, Gap, Types, HistoryInv
  <2>3. TopicInv'
    BY <1>1, <1>4 DEF ClearHistory, TopicInv, Published, Listed
  <2>4. QED BY <2>2, <2>3 DEF Inv
<1>5. CASE Subscribe
  <2>1. <<>> \in Seq(Message)
    OBVIOUS
  <2>2. Types' /\ HistoryInv'
    BY <1>1, <1>5, <2>1 DEF Subscribe, Gap, Types, HistoryInv
  <2>3. TopicInv'
    BY <1>1, <1>5 DEF Subscribe, TopicInv, Published, Listed
  <2>4. QED BY <2>2, <2>3 DEF Inv
<1>6. QED BY <1>2, <1>3, <1>4, <1>5

\* The end of startPublishers makes the topic for both streams and a method only.
LEMMA UniteIs ==
  ASSUME NEW on \in SUBSET Stream, Unite(on)
  PROVE  /\ method_at_start' = _imu_sync_method
         /\ synced' # synced => synced' = TRUE
         /\ synced' => synced \/ (on = Stream /\ _imu_sync_method # "none")
         /\ on = Stream /\ _imu_sync_method # "none" => synced'
         /\ united' \in {united, <<>>}
         /\ \/ Gap(_imu_history)
            \/ UNCHANGED messages
  BY DEF Unite, Gap, messages

\* The steps of the update keep the invariant.
LEMMA UpdateInv ==
  ASSUME Inv, \/ StopSensor \/ StopFails \/ StartPublishers \/ StartVideoPublishers
              \/ AppendTransforms \/ OpenSensor \/ OpenFails
  PROVE  Inv'
<1> USE DEF sensor, resources, samples, messages
<1>1. Types /\ TopicInv /\ HistoryInv
  BY DEF Inv
<1>2. <<>> \in Seq(Message)
  OBVIOUS
<1>3. HistoryInv'
  BY <1>1 DEF StopSensor, StopFails, StartPublishers, StartVideoPublishers,
     AppendTransforms, OpenSensor, OpenFails, HistoryInv
<1>4. CASE StopSensor
  <2>1. CASE want = active
    <3>1. pc = "rest" /\ pc' = "start"
          /\ UNCHANGED <<_imu_sync_method, want, profiles, failures, samples,
                         _imu_history, switched, overlaps, active, resources, messages>>
      BY <1>4, <2>1 DEF StopSensor
    <3>2. Types'
      BY <1>1, <3>1 DEF Types
    <3>3. TopicInv'
      BY <1>1, <3>1 DEF TopicInv, Published, Listed
    <3>4. QED BY <1>3, <3>2, <3>3 DEF Inv
  <2>2. CASE want # active /\ StopPublishers(active)
    <3>1. Types'
      BY <1>1, <1>2, <1>4, <2>2 DEF StopSensor, StopPublishers, Gap, Types
    <3>2. /\ pc = "rest" /\ pc' = "start" /\ active' = {} /\ enabled' = {}
          /\ synced' = FALSE
          /\ static_tf' = IF static_tf > 0 /\ WithFrame(active) THEN static_tf - 1
                                                                ELSE static_tf
          /\ UNCHANGED <<_imu_sync_method, failures, overlaps, switched>>
      <4>1. pc = "rest" /\ pc' = "start" /\ active' = {}
            /\ UNCHANGED <<_imu_sync_method, failures, overlaps, switched>>
        BY <1>4, <2>2 DEF StopSensor
      <4>2. QED BY <4>1, <2>2 DEF StopPublishers
    <3>3. ASSUME failures = 0, overlaps = 0, ~switched
          PROVE  static_tf' = 0
      <4>1. static_tf = IF WithFrame(active) THEN 1 ELSE 0
        BY <1>1, <3>2, <3>3 DEF TopicInv, Listed, WithFrame
      <4>2. QED BY <3>2, <4>1
    <3>4. Published' = {} /\ Listed' = {}
      BY <3>2 DEF Published, Listed
    <3>5. TopicInv'
      BY <3>2, <3>3, <3>4 DEF TopicInv, Stream
    <3>6. QED BY <1>3, <3>1, <3>5 DEF Inv
  <2>3. CASE want # active /\ active = {} /\ UNCHANGED <<resources, messages>>
    <3>1. pc = "rest" /\ pc' = "start" /\ active' = active
          /\ UNCHANGED <<_imu_sync_method, want, profiles, failures, samples,
                         _imu_history, switched, overlaps, resources, messages>>
      BY <1>4, <2>3 DEF StopSensor
    <3>2. Types'
      BY <1>1, <3>1 DEF Types
    <3>3. TopicInv'
      BY <1>1, <3>1 DEF TopicInv, Published, Listed
    <3>4. QED BY <1>3, <3>2, <3>3 DEF Inv
  <2>4. QED BY <1>4, <2>1, <2>2, <2>3 DEF StopSensor
<1>5. CASE StopFails
  <2>1. failures' \in Nat /\ failures' # 0
    BY <1>1, <1>5 DEF StopFails, Types
  <2>2. Types'
    BY <1>1, <1>2, <1>5, <2>1 DEF StopFails, StopPublishers, Gap, Types
  <2>3. QED BY <1>3, <2>1, <2>2 DEF TopicInv, Inv
<1>6. CASE StartPublishers
  <2>1. CASE want = {} \/ want = active
    <3>1. pc = "start" /\ pc' = "rest"
          /\ UNCHANGED <<_imu_sync_method, want, active, profiles, failures, samples,
                         _imu_history, switched, overlaps, resources, messages>>
      BY <1>6, <2>1 DEF StartPublishers
    <3>2. Types'
      BY <1>1, <3>1 DEF Types
    <3>3. TopicInv'
      BY <1>1, <3>1 DEF TopicInv, Published, Listed
    <3>4. QED BY <1>3, <3>2, <3>3 DEF Inv
  <2>2. CASE ~(want = {} \/ want = active)
    <3>1. /\ pc = "start" /\ pc' = "append" /\ profiles' = want
          /\ enabled' = enabled \cup want /\ Unite(enabled')
          /\ IF active = {} THEN overlaps' = overlaps ELSE overlaps' = overlaps + 1
          /\ UNCHANGED <<_imu_sync_method, want, active, static_tf, failures, samples,
                         _imu_history, switched>>
      BY <1>6, <2>2 DEF StartPublishers
    <3>2. enabled' \in SUBSET Stream
      BY <1>1, <3>1 DEF Types
    <3>3. /\ method_at_start' = _imu_sync_method
          /\ synced' => synced \/ (enabled' = Stream /\ _imu_sync_method # "none")
          /\ enabled' = Stream /\ _imu_sync_method # "none" => synced'
          /\ united' \in {united, <<>>}
      BY <3>1, <3>2, UniteIs
    <3>4. Types'
      <4>1. overlaps' \in Nat
        BY <1>1, <3>1 DEF Types
      <4>2. united' \in Seq(Message)
        BY <1>1, <1>2, <3>3 DEF Types
      <4>3. QED BY <1>1, <3>1, <3>2, <3>3, <4>1, <4>2 DEF Types
    <3>5. ASSUME failures' = 0, overlaps' = 0
          PROVE  failures = 0 /\ overlaps = 0 /\ active = {}
      BY <1>1, <3>1, <3>5 DEF Types
    <3>6. TopicInv'
      BY <1>1, <3>1, <3>3, <3>5 DEF TopicInv, Published, Listed, Stream
    <3>7. QED BY <1>3, <3>4, <3>6 DEF Inv
  <2>3. QED BY <2>1, <2>2
<1>7. CASE StartVideoPublishers
  <2>1. /\ pc \in {"rest", "start"} /\ Unite(enabled)
        /\ UNCHANGED <<_imu_sync_method, want, active, pc, profiles, failures, enabled,
                       static_tf, samples, _imu_history, switched, overlaps>>
    BY <1>7 DEF StartVideoPublishers
  <2>2. /\ method_at_start' = _imu_sync_method
        /\ synced' => synced \/ (enabled = Stream /\ _imu_sync_method # "none")
        /\ enabled = Stream /\ _imu_sync_method # "none" => synced'
        /\ united' \in {united, <<>>}
        /\ enabled \in SUBSET Stream
    BY <1>1, <2>1, UniteIs DEF Types
  <2>3. synced => synced'
    BY <2>1 DEF Unite
  <2>4. Types'
    BY <1>1, <1>2, <2>1, <2>2 DEF Types
  <2>5. TopicInv'
    BY <1>1, <2>1, <2>2, <2>3 DEF TopicInv, Published, Listed
  <2>6. QED BY <1>3, <2>4, <2>5 DEF Inv
<1>8. CASE AppendTransforms
  <2>1. /\ pc = "append" /\ pc' = "open"
        /\ static_tf' = IF WithFrame(profiles) THEN static_tf + 1 ELSE static_tf
        /\ UNCHANGED <<_imu_sync_method, want, active, profiles, failures, enabled,
                       synced, method_at_start, samples, _imu_history, messages,
                       switched, overlaps>>
    BY <1>8 DEF AppendTransforms
  <2>2. Types'
    BY <1>1, <2>1 DEF Types
  <2>3. TopicInv'
    BY <1>1, <2>1 DEF TopicInv, Published, Listed, WithFrame
  <2>4. QED BY <1>3, <2>2, <2>3 DEF Inv
<1>9. CASE OpenSensor
  <2>1. /\ pc = "open" /\ pc' = "rest" /\ profiles' = {}
        /\ active' = IF active = {} THEN profiles ELSE active
        /\ UNCHANGED <<_imu_sync_method, want, failures, resources, samples,
                       _imu_history, messages, switched, overlaps>>
    BY <1>9 DEF OpenSensor
  <2>2. Types'
    BY <1>1, <2>1 DEF Types
  <2>3. TopicInv'
    BY <1>1, <2>1 DEF TopicInv, Published, Listed
  <2>4. QED BY <1>3, <2>2, <2>3 DEF Inv
<1>10. CASE OpenFails
  <2>1. Types'
    BY <1>1, <1>10 DEF OpenFails, Types
  <2>2. failures' # 0
    BY <1>1, <1>10 DEF OpenFails, Types
  <2>3. QED BY <1>3, <2>1, <2>2 DEF TopicInv, Inv
<1>11. QED BY <1>4, <1>5, <1>6, <1>7, <1>8, <1>9, <1>10

LEMMA NextInv == Inv /\ [Next]_vars => Inv'
<1>1. Inv /\ UNCHANGED vars => Inv'
  BY DEF vars, sensor, resources, samples, messages, Inv, Types, TopicInv, HistoryInv,
     Published, Listed
<1>2. QED BY <1>1, CallbackInv, ParameterInv, UpdateInv DEF Next

LEMMA Invariance == Spec => []Inv
  BY InitInv, NextInv, PTL DEF Spec

---------------------------------------------------------------------------
\* The types the other variables have: FillImuData_Copy holds back one sample.
Rest ==
  /\ clearing \in BOOLEAN /\ subscribed \in BOOLEAN /\ synced \in BOOLEAN
  /\ missed \in BOOLEAN /\ switched \in BOOLEAN
  /\ Len(_imu_history) <= 1 /\ heard \in Seq(Samples)
  /\ last_accel \in Samples \cup {None} /\ changes \in Nat

LEMMA InitRest == Init => Rest
<1> SUFFICES ASSUME Init PROVE Rest
  OBVIOUS
<1>1. _imu_history = <<>> /\ heard = <<>> /\ changes = 0
  BY DEF Init
<1>2. Len(_imu_history) <= 1 /\ heard \in Seq(Samples) /\ changes \in Nat
  BY <1>1
<1>3. /\ clearing \in BOOLEAN /\ subscribed \in BOOLEAN /\ synced \in BOOLEAN
      /\ missed \in BOOLEAN /\ switched \in BOOLEAN
      /\ last_accel \in Samples \cup {None}
  BY DEF Init
<1>4. QED BY <1>2, <1>3 DEF Rest

LEMMA NextRest ==
  ASSUME Inv, Rest, Next
  PROVE  Rest'
<1> USE DEF sensor, resources, samples, messages, Gap
<1>1. Types
  BY DEF Inv
<1>2. <<>> \in Seq(Samples) /\ Len(<<>>) <= 1
  OBVIOUS
<1>3. ASSUME NEW s \in Stream, imu_callback(s) PROVE Rest'
  <2>1. Sample(s, clock') \in Samples
    BY <1>1, <1>3, BoundAssumption DEF imu_callback, Types, Sample, Samples
  <2>2. last_accel' \in Samples \cup {None}
    BY <1>3, <2>1 DEF imu_callback, Rest
  <2>3. missed' \in BOOLEAN
    BY <1>3 DEF imu_callback
  <2>4. UNCHANGED <<clearing, subscribed, synced, switched, _imu_history, heard,
                    changes>>
    BY <1>3 DEF imu_callback
  <2>5. QED BY <2>2, <2>3, <2>4 DEF Rest
<1>4. ASSUME NEW s \in Stream, imu_callback_sync(s) PROVE Rest'
  <2>1. calling[s] \in Samples
    BY <1>1, <1>4 DEF imu_callback_sync, Types
  <2> DEFINE fill == FillImuData_Copy(_imu_history, calling[s])
  <2>2. Len(fill.history) <= 1
    <3>1. fill.history \in {<<calling[s]>>, _imu_history}
      BY DEF FillImuData_Copy
    <3>2. Len(<<calling[s]>>) <= 1
      OBVIOUS
    <3> HIDE DEF fill
    <3>3. QED BY <3>1, <3>2 DEF Rest
  <2>3. Append(heard, calling[s]) \in Seq(Samples)
    BY <2>1 DEF Rest
  <2>4. /\ _imu_history' \in {fill.history, _imu_history}
        /\ heard' \in {Append(heard, calling[s]), heard}
        /\ UNCHANGED <<clearing, subscribed, synced, switched, last_accel, changes>>
    BY <1>4 DEF imu_callback_sync
  <2>5. missed' \in BOOLEAN
    BY <1>4 DEF imu_callback_sync
  <2> HIDE DEF fill
  <2>6. Len(_imu_history') <= 1 /\ heard' \in Seq(Samples)
    BY <2>2, <2>3, <2>4 DEF Rest
  <2>7. QED BY <2>4, <2>5, <2>6 DEF Rest
<1>5. ASSUME NEW m \in Method, SetMethod(m) PROVE Rest'
  <2>1. switched' \in BOOLEAN
    BY <1>5 DEF SetMethod
  <2>2. QED BY <1>5, <2>1 DEF SetMethod, Rest
<1>6. ASSUME NEW s \in Stream, NEW b \in BOOLEAN, Enable(s, b) PROVE Rest'
  BY <1>6 DEF Enable, Rest
<1>7. CASE ClearHistory
  BY <1>2, <1>7 DEF ClearHistory, Rest
<1>8. CASE Subscribe
  <2>1. subscribed' \in BOOLEAN
    BY <1>8 DEF Subscribe
  <2>2. QED BY <1>2, <1>8, <2>1 DEF Subscribe, Rest
<1>9. CASE StopSensor \/ StopFails
  <2>1. synced' \in BOOLEAN /\ heard' \in {heard, <<>>}
    BY <1>9 DEF StopSensor, StopFails, StopPublishers, Rest
  <2>2. UNCHANGED <<clearing, subscribed, missed, switched, _imu_history,
                    last_accel, changes>>
    BY <1>9 DEF StopSensor, StopFails
  <2>3. QED BY <1>2, <2>1, <2>2 DEF Rest
<1>10. CASE StartPublishers \/ StartVideoPublishers
  <2>1. synced' \in BOOLEAN /\ heard' \in {heard, <<>>}
    BY <1>10 DEF StartPublishers, StartVideoPublishers, Unite, Rest
  <2>2. UNCHANGED <<clearing, subscribed, missed, switched, _imu_history,
                    last_accel, changes>>
    BY <1>10 DEF StartPublishers, StartVideoPublishers
  <2>3. QED BY <1>2, <2>1, <2>2 DEF Rest
<1>11. CASE AppendTransforms \/ OpenSensor \/ OpenFails
  BY <1>11 DEF AppendTransforms, OpenSensor, OpenFails, Rest
<1>12. QED BY <1>3, <1>4, <1>5, <1>6, <1>7, <1>8, <1>9, <1>10, <1>11 DEF Next

LEMMA RestInvariance == Spec => [](Inv /\ Rest)
<1>1. Rest /\ UNCHANGED vars => Rest'
  BY DEF vars, sensor, resources, samples, messages, Rest
<1>2. Inv /\ Rest /\ [Next]_vars => Rest'
  BY <1>1, NextRest
<1>3. QED BY <1>2, InitRest, Invariance, PTL DEF Spec

\* Every variable keeps its type; a history has one sample at most.
THEOREM TypeCorrect == Spec => []TypeOK
<1>1. Inv /\ Rest => TypeOK
  <2>1. SUFFICES ASSUME Inv, Rest PROVE TypeOK
    OBVIOUS
  <2>2. \A T, q : q \in Seq(T) => Range(q) \subseteq T
    BY DEF Range
  <2>3. Types
    BY <2>1 DEF Inv
  <2>4. Range(_imu_history) \subseteq Samples
    BY <2>2, <2>3 DEF Types, Accels
  <2>5. Range(heard) \subseteq Samples /\ Range(united) \subseteq Message
    BY <2>1, <2>2, <2>3 DEF Rest, Types
  <2>6. QED BY <2>1, <2>3, <2>4, <2>5 DEF Rest, Types, TypeOK
<1>2. QED BY <1>1, RestInvariance, PTL

\* At rest the topic imu is only there if both streams run, and is there if they do
\* and the last sensor that made its publishers found a method; and its frame is
\* listed once; unless a start or a stop failed, streams were started over others
\* or, for the frame, the method switched.
THEOREM TopicAtRest == Spec => []ImuAtRest
<1>1. Inv => ImuAtRest
  BY DEF Inv, TopicInv, ImuAtRest, Published, Listed
<1>2. QED BY <1>1, Invariance, PTL

\* A message has the acceleration that arrived last, unless its sample is on its
\* way or accel samples were missed.
THEOREM AccelIsFresh == Spec => FreshAccel
<1>1. ASSUME Inv, Next, Len(united') > Len(united)
      PROVE  \/ Last(united').accel = last_accel.data
             \/ calling["accel"] # None
             \/ missed
  <2>1. united \in Seq(Message) /\ Len(united) \in Nat
    BY <1>1 DEF Inv, Types
  <2>2. united' # united /\ united' # <<>>
    BY <1>1, <2>1
  <2>3. PICK s \in Stream : imu_callback_sync(s)
    BY <1>1, <2>2 DEF Next, imu_callback, Enable, SetMethod, ClearHistory, Subscribe,
       StopSensor, StopFails, StopPublishers, StartPublishers, StartVideoPublishers,
       Unite, AppendTransforms, OpenSensor, OpenFails, Gap, messages
  <2> DEFINE fill == FillImuData_Copy(_imu_history, calling[s])
  <2>4. united' = united \o fill.imu_msgs /\ calling[s] # None
    BY <2>2, <2>3 DEF imu_callback_sync, messages
  <2>5. calling[s] \in Samples /\ _imu_history \in Seq(Accels)
    BY <1>1, <2>4 DEF Inv, Types
  <2>6. fill.imu_msgs # <<>>
    BY <2>1, <2>2, <2>4
  <2>7. /\ _imu_history # <<>>
        /\ fill.imu_msgs = <<CreateUnitedMessage(Last(_imu_history), calling[s])>>
    BY <2>5, <2>6, Filled
  <2> HIDE DEF fill
  <2>8. Last(united') = CreateUnitedMessage(Last(_imu_history), calling[s])
    BY <2>1, <2>4, <2>7 DEF Last
  <2>9. Last(united').accel = Last(_imu_history).data
    BY <2>8 DEF CreateUnitedMessage
  <2>10. QED BY <1>1, <2>7, <2>9 DEF Inv, HistoryInv
<1>2. Inv /\ [Next]_vars =>
        [Len(united') > Len(united) =>
           \/ Last(united').accel = last_accel.data
           \/ calling["accel"] # None
           \/ missed]_vars
  BY <1>1
<1>3. QED BY <1>2, Invariance, PTL DEF Spec, FreshAccel

---------------------------------------------------------------------------
(* The last accel sample of a sequence, and places in a set of numbers.    *)

\* A set of natural numbers has a least one.
LEMMA Least ==
  ASSUME NEW T \in SUBSET Nat, T # {}
  PROVE  \E n \in T : \A m \in T : n <= m
<1>1. PICK n \in T : \A m \in T : ~ (<<m, n>> \in OpToRel(<, Nat))
  BY NatLessThanWellFounded, WFMin
<1>2. ASSUME NEW m \in T PROVE n <= m
  <2>1. <<m, n>> \notin OpToRel(<, Nat)
    BY <1>1
  <2>2. m \in Nat /\ n \in Nat
    OBVIOUS
  <2>3. ~ (m < n)
    BY <2>1, <2>2 DEF OpToRel
  <2>4. QED BY <2>2, <2>3
<1>3. QED BY <1>2

\* A bounded one has a greatest one.
LEMMA Greatest ==
  ASSUME NEW T \in SUBSET Nat, T # {}, NEW n \in Nat, \A m \in T : m <= n
  PROVE  \E k \in T : \A m \in T : k >= m
<1> DEFINE D == {d \in Nat : n - d \in T}
<1>1. \A m \in T : n - m \in D
  <2>1. ASSUME NEW m \in T PROVE n - m \in Nat /\ n - (n - m) = m
    OBVIOUS
  <2>2. QED BY <2>1
<1>2. PICK d \in D : \A e \in D : d <= e
  BY <1>1, Least
<1>3. n - d \in T /\ n - d \in Nat /\ d \in Nat
  OBVIOUS
<1>4. ASSUME NEW m \in T PROVE n - d >= m
  <2>1. d <= n - m /\ m \in Nat
    BY <1>1, <1>2
  <2>2. QED BY <2>1, <1>3
<1>5. QED BY <1>3, <1>4

\* j is the last accel sample among the first n, or 0 if there is none.
IsLast(seq, n, j) ==
  \/ j = 0 /\ \A i \in 1..n : seq[i].type # "accel"
  \/ j \in 1..n /\ seq[j].type = "accel" /\ \A i \in j + 1..n : seq[i].type # "accel"

LEMMA LastAccelIs ==
  ASSUME NEW seq, NEW n \in Nat
  PROVE  IsLast(seq, n, LastAccel(seq, n))
<1> DEFINE I == {i \in 1..n : seq[i].type = "accel"}
<1>1. LastAccel(seq, n) = IF I # {} THEN Max(I) ELSE 0
  BY Zenon DEF LastAccel, SelectLastInSubSeq
<1>2. I \in SUBSET Nat /\ \A i \in I : i <= n
  OBVIOUS
<1>3. I # {} => Max(I) \in I /\ \A i \in I : Max(I) >= i
  <2> HIDE DEF I
  <2>1. QED BY <1>2, Greatest DEF Max
<1>4. CASE I = {}
  BY <1>1, <1>4 DEF IsLast
<1>5. CASE I # {}
  <2> DEFINE j == Max(I)
  <2>1. j \in I /\ \A i \in I : j >= i
    BY <1>3, <1>5
  <2> HIDE DEF j
  <2>2. IsLast(seq, n, j)
    BY <2>1 DEF IsLast
  <2>3. QED BY <1>1, <1>5, <2>2 DEF j
<1>6. QED BY <1>4, <1>5

LEMMA LastUnique ==
  ASSUME NEW seq, NEW n \in Nat, NEW i, NEW j, IsLast(seq, n, i), IsLast(seq, n, j)
  PROVE  i = j
BY DEF IsLast

\* A set of numbers up to n gains n + 1: the places of the others stay.
LEMMA PlaceAdd ==
  ASSUME NEW n \in Nat, NEW S \in SUBSET (1..n)
  PROVE  /\ IsFiniteSet(S) /\ Cardinality(S) \in Nat
         /\ Cardinality(S \cup {n + 1}) = Cardinality(S) + 1
         /\ Place(S \cup {n + 1}, n + 1) = Cardinality(S) + 1
         /\ \A k \in S : /\ Place(S \cup {n + 1}, k) = Place(S, k)
                         /\ Place(S, k) \in 1..Cardinality(S)
<1>1. IsFiniteSet(1..n)
  BY FS_Interval
<1>2. IsFiniteSet(S) /\ Cardinality(S) \in Nat
  BY <1>1, FS_Subset, FS_CardinalityType
<1>3. Cardinality(S \cup {n + 1}) = Cardinality(S) + 1
  <2>1. n + 1 \notin S
    OBVIOUS
  <2>2. QED BY <1>2, <2>1, FS_AddElement
<1>4. {j \in S \cup {n + 1} : j <= n + 1} = S \cup {n + 1}
  <2>1. \A j \in S \cup {n + 1} : j <= n + 1
    OBVIOUS
  <2>2. QED BY <2>1, Zenon
<1>5. ASSUME NEW k \in S
      PROVE  /\ Place(S \cup {n + 1}, k) = Place(S, k)
             /\ Place(S, k) \in 1..Cardinality(S)
  <2> DEFINE T == {j \in S : j <= k}
  <2>1. {j \in S \cup {n + 1} : j <= k} = T
    OBVIOUS
  <2>2. T \subseteq S /\ T # {}
    OBVIOUS
  <2> HIDE DEF T
  <2>3. IsFiniteSet(T) /\ Cardinality(T) <= Cardinality(S)
    BY <1>2, <2>2, FS_Subset
  <2>4. Cardinality(T) \in Nat /\ Cardinality(T) # 0
    BY <2>2, <2>3, FS_CardinalityType, FS_EmptySet
  <2>5. Cardinality(T) \in 1..Cardinality(S)
    BY <1>2, <2>3, <2>4
  <2>6. QED BY <2>1, <2>5 DEF Place, T
<1>6. QED BY <1>2, <1>3, <1>4, <1>5 DEF Place

\* A sample more: the accel samples before the others stay.
LEMMA LastAccelAppend ==
  ASSUME NEW l \in Seq(Accels), NEW h \in Seq(Samples), NEW x \in Samples
  PROVE  LET H == l \o h
             K == l \o Append(h, x)
             N == Len(l) + Len(h)
         IN  /\ N \in Nat /\ K[N + 1] = x /\ \A i \in 1..N : K[i] = H[i]
             /\ \A n \in 0..N : /\ LastAccel(K, n) = LastAccel(H, n)
                                /\ LastAccel(H, n) \in 0..n
             /\ LastAccel(K, N + 1) =
                  IF x.type = "accel" THEN N + 1 ELSE LastAccel(H, N)
<1> DEFINE H == l \o h
           K == l \o Append(h, x)
           N == Len(l) + Len(h)
<1>1. N \in Nat /\ K[N + 1] = x /\ \A i \in 1..N : K[i] = H[i]
  <2>1. Len(l) \in Nat /\ Len(h) \in Nat
    OBVIOUS
  <2>2. l \in Seq(Accels \cup Samples) /\ h \in Seq(Accels \cup Samples)
    OBVIOUS
  <2>3. QED BY <2>1, <2>2
<1> HIDE DEF H, K, N
<1>2. ASSUME NEW n \in 0..N
      PROVE  LastAccel(K, n) = LastAccel(H, n) /\ LastAccel(H, n) \in 0..n
  <2>1. n \in Nat /\ IsLast(H, n, LastAccel(H, n)) /\ IsLast(K, n, LastAccel(K, n))
    BY <1>1, LastAccelIs
  <2>2. IsLast(K, n, LastAccel(H, n))
    BY <1>1, <2>1 DEF IsLast
  <2>3. QED BY <2>1, <2>2, LastUnique DEF IsLast
<1>3. LastAccel(K, N + 1) = IF x.type = "accel" THEN N + 1 ELSE LastAccel(H, N)
  <2> DEFINE j == IF x.type = "accel" THEN N + 1 ELSE LastAccel(H, N)
  <2>1. IsLast(H, N, LastAccel(H, N))
    BY <1>1, LastAccelIs
  <2>2. IsLast(K, N + 1, j)
    <3>1. CASE x.type = "accel"
      BY <1>1, <3>1 DEF IsLast
    <3>2. CASE x.type # "accel"
      <4>1. IsLast(K, N + 1, LastAccel(H, N))
        BY <1>1, <2>1, <3>2 DEF IsLast
      <4>2. QED BY <3>2, <4>1
    <3>3. QED BY <3>1, <3>2
  <2>3. N + 1 \in Nat /\ IsLast(K, N + 1, LastAccel(K, N + 1))
    BY <1>1, LastAccelIs
  <2>4. QED BY <2>2, <2>3, LastUnique
<1>4. QED BY <1>1, <1>2, <1>3 DEF H, K, N

---------------------------------------------------------------------------
(* The messages published, and what the history holds for the next one.    *)

\* The history holds the last accel sample heard, or left from before.
HistoryIsLast ==
  /\ left \in Seq(Accels) /\ heard \in Seq(Samples)
  /\ LET H == left \o heard
         j == LastAccel(H, Len(left) + Len(heard))
     IN  _imu_history = IF j = 0 THEN <<>> ELSE <<H[j]>>

Attach == HistoryIsLast /\ LastAccelAttached

\* Nothing is heard after a gap, and the history is what was left.
LEMMA GapAttach ==
  ASSUME Inv, Rest, Gap(_imu_history'), _imu_history' \in {_imu_history, <<>>}
  PROVE  Attach'
<1> DEFINE l == left'
           h == heard'
<1>1. h = <<>> /\ united' = <<>> /\ l = _imu_history' /\ l \in Seq(Accels) /\ Len(l) <= 1
  <2>1. h = <<>> /\ united' = <<>> /\ l = _imu_history'
    BY DEF Gap
  <2>2. _imu_history \in Seq(Accels) /\ Len(_imu_history) <= 1
    BY DEF Inv, Types, Rest
  <2>3. <<>> \in Seq(Accels) /\ Len(<<>>) <= 1
    OBVIOUS
  <2> HIDE DEF l, h
  <2>4. l \in {_imu_history, <<>>}
    BY <2>1
  <2>5. QED BY <2>1, <2>2, <2>3, <2>4
<1>2. ASSUME l = <<>> PROVE HistoryIsLast'
  <2>1. l \o h = <<>> /\ Len(l) + Len(h) = 0
    BY <1>1, <1>2
  <2>2. LastAccel(<<>>, 0) = 0
    BY LastAccelIs DEF IsLast
  <2>3. QED BY <1>1, <1>2, <2>1, <2>2 DEF HistoryIsLast
<1>3. ASSUME l # <<>> PROVE HistoryIsLast'
  <2>1. PICK a \in Accels : l = <<a>>
    BY <1>1, <1>3
  <2>2. l \o h = <<a>> /\ Len(l) + Len(h) = 1 /\ <<a>>[1] = a
    BY <1>1, <2>1
  <2>3. IsLast(<<a>>, 1, 1)
    BY <2>2 DEF IsLast, Accels
  <2>4. LastAccel(<<a>>, 1) = 1
    BY <2>3, LastAccelIs, LastUnique
  <2>5. QED BY <1>1, <2>1, <2>2, <2>4 DEF HistoryIsLast
<1>4. HistoryIsLast'
  BY <1>2, <1>3
<1>5. LastAccelAttached'
  <2>1. DOMAIN heard' = {} /\ Len(united') = 0
    BY <1>1
  <2>2. {k \in DOMAIN heard' : heard'[k].type = "gyro" /\ AccelBefore(k)' # 0} = {}
    BY <2>1
  <2>3. QED BY <2>1, <2>2, FS_EmptySet DEF LastAccelAttached
<1>6. QED BY <1>4, <1>5 DEF Attach

\* The gyro samples of a sequence heard that come after an accel sample.
Attachable(l, h) ==
  {k \in 1..Len(h) : h[k].type = "gyro" /\ LastAccel(l \o h, Len(l) + k - 1) # 0}

\* The message of each.
MessageOf(l, h, k) ==
  CreateUnitedMessage((l \o h)[LastAccel(l \o h, Len(l) + k - 1)], h[k])

LEMMA AttachedIs ==
  ASSUME heard \in Seq(Samples)
  PROVE  LET gyros == Attachable(left, heard)
         IN  LastAccelAttached <=>
               /\ Len(united) = Cardinality(gyros)
               /\ \A k \in gyros : united[Place(gyros, k)] = MessageOf(left, heard, k)
<1>1. DOMAIN heard = 1..Len(heard)
  OBVIOUS
<1>2. QED BY <1>1, Zenon DEF LastAccelAttached, AccelBefore, Attachable, MessageOf

LEMMA AttachedIsNext ==
  ASSUME heard' \in Seq(Samples)
  PROVE  LET gyros == Attachable(left', heard')
         IN  LastAccelAttached' <=>
               /\ Len(united') = Cardinality(gyros)
               /\ \A k \in gyros : united'[Place(gyros, k)] = MessageOf(left', heard', k)
<1>1. DOMAIN heard' = 1..Len(heard')
  OBVIOUS
<1>2. QED BY <1>1, Zenon DEF LastAccelAttached, AccelBefore, Attachable, MessageOf

\* A sample more: those before keep their messages.
LEMMA AttachableAppend ==
  ASSUME NEW l \in Seq(Accels), NEW h \in Seq(Samples), NEW x \in Samples
  PROVE  LET K == Append(h, x)
             n == Len(h) + 1
             j == LastAccel(l \o h, Len(l) + Len(h))
         IN  /\ Attachable(l, h) \subseteq 1..Len(h)
             /\ Attachable(l, K) = IF x.type = "gyro" /\ j # 0
                                   THEN Attachable(l, h) \cup {n} ELSE Attachable(l, h)
             /\ \A k \in Attachable(l, h) : MessageOf(l, K, k) = MessageOf(l, h, k)
             /\ j # 0 => MessageOf(l, K, n) = CreateUnitedMessage((l \o h)[j], x)
<1> DEFINE K == Append(h, x)
           n == Len(h) + 1
           N == Len(l) + Len(h)
           j == LastAccel(l \o h, N)
<1>1. /\ Len(l) \in Nat /\ Len(h) \in Nat /\ K \in Seq(Samples) /\ Len(K) = n
      /\ K[n] = x /\ \A k \in 1..Len(h) : K[k] = h[k]
  OBVIOUS
<1>2. /\ \A i \in 1..N : (l \o K)[i] = (l \o h)[i]
      /\ \A m \in 0..N : /\ LastAccel(l \o K, m) = LastAccel(l \o h, m)
                         /\ LastAccel(l \o h, m) \in 0..m
  BY LastAccelAppend
<1>3. Len(l) + n - 1 = N /\ N \in 0..N
  BY <1>1
<1>4. \A k \in 1..Len(h) : Len(l) + k - 1 \in 0..N
  BY <1>1
<1> HIDE DEF K, N
<1>5. ASSUME NEW k \in 1..Len(h)
      PROVE  /\ k \in Attachable(l, K) <=> k \in Attachable(l, h)
             /\ k \in Attachable(l, h) => MessageOf(l, K, k) = MessageOf(l, h, k)
  <2> DEFINE m == Len(l) + k - 1
             i == LastAccel(l \o h, m)
  <2>1. m \in 0..N /\ LastAccel(l \o K, m) = i /\ i \in 0..m
    BY <1>2, <1>4
  <2>2. k \in 1..Len(K) /\ K[k] = h[k]
    BY <1>1
  <2>3. i # 0 => (l \o K)[i] = (l \o h)[i]
    BY <1>1, <1>2, <2>1 DEF N
  <2> HIDE DEF i
  <2>4. k \in Attachable(l, K) <=> k \in Attachable(l, h)
    BY <2>1, <2>2 DEF Attachable, i
  <2>5. k \in Attachable(l, h) => i # 0
    BY DEF Attachable, i
  <2>6. i # 0 => MessageOf(l, K, k) = MessageOf(l, h, k)
    BY <2>1, <2>2, <2>3 DEF MessageOf, i
  <2>7. QED BY <2>4, <2>5, <2>6
<1>6. LastAccel(l \o K, Len(l) + n - 1) = j /\ j \in 0..N
  BY <1>2, <1>3
<1>7. n \in Attachable(l, K) <=> x.type = "gyro" /\ j # 0
  BY <1>1, <1>6 DEF Attachable
<1>8. j # 0 => MessageOf(l, K, n) = CreateUnitedMessage((l \o h)[j], x)
  <2>1. j # 0 => (l \o K)[j] = (l \o h)[j]
    BY <1>1, <1>2, <1>6 DEF N
  <2>2. QED BY <1>1, <1>6, <2>1 DEF MessageOf
<1>9. Attachable(l, h) \subseteq 1..Len(h) /\ Attachable(l, K) \subseteq 1..n
  BY <1>1 DEF Attachable
<1>10. \A k \in 1..n : k \in 1..Len(h) \/ k = n
  BY <1>1
<1> HIDE DEF n, j
<1>11. Attachable(l, K) = IF x.type = "gyro" /\ j # 0
                          THEN Attachable(l, h) \cup {n} ELSE Attachable(l, h)
  <2>1. CASE x.type = "gyro" /\ j # 0
    <3>1. Attachable(l, K) = Attachable(l, h) \cup {n}
      BY <1>5, <1>7, <1>9, <1>10, <2>1
    <3>2. QED BY <2>1, <3>1
  <2>2. CASE ~ (x.type = "gyro" /\ j # 0)
    <3>1. Attachable(l, K) = Attachable(l, h)
      BY <1>5, <1>7, <1>9, <1>10, <2>2
    <3>2. QED BY <2>2, <3>1
  <2>3. QED BY <2>1, <2>2
<1>12. QED BY <1>5, <1>8, <1>9, <1>11 DEF K, n, N, j

\* A sample reaches the topic.
LEMMA HeardAttach ==
  ASSUME Inv, Rest, Attach, NEW s \in Stream, imu_callback_sync(s), synced, subscribed
  PROVE  Attach'
<1> DEFINE x == calling[s]
           l == left
           h == heard
           N == Len(l) + Len(h)
           j == LastAccel(l \o h, N)
           fill == FillImuData_Copy(_imu_history, x)
           S == Attachable(l, h)
           n == Len(h) + 1
<1>1. /\ heard' = Append(h, x) /\ left' = l
      /\ _imu_history' = fill.history /\ united' = united \o fill.imu_msgs
      /\ x # None
  BY DEF imu_callback_sync
<1>2. /\ l \in Seq(Accels) /\ h \in Seq(Samples) /\ x \in Samples
      /\ united \in Seq(Message)
      /\ _imu_history = IF j = 0 THEN <<>> ELSE <<(l \o h)[j]>>
  BY <1>1 DEF Inv, Types, Attach, HistoryIsLast
<1>3. heard' \in Seq(Samples) /\ Len(l) \in Nat /\ Len(h) \in Nat
  BY <1>1, <1>2
<1>4. IsLast(l \o h, N, j) /\ N \in Nat
  BY <1>2, <1>3, LastAccelIs
<1>5. x.type = "accel" \/ x.type = "gyro"
  BY <1>2 DEF Samples, Stream
<1>6. /\ Len(united) = Cardinality(S)
      /\ \A k \in S : united[Place(S, k)] = MessageOf(l, h, k)
  BY <1>2, AttachedIs DEF Attach
<1>7. HistoryIsLast'
  <2>1. LET i == LastAccel(l \o heard', N + 1)
        IN  _imu_history' = IF i = 0 THEN <<>> ELSE <<(l \o heard')[i]>>
    <3>1. CASE x.type = "accel"
      <4>1. LastAccel(l \o heard', N + 1) = N + 1 /\ (l \o heard')[N + 1] = x
        BY <1>1, <1>2, <3>1, LastAccelAppend
      <4>2. _imu_history' = <<x>>
        BY <1>1, <3>1 DEF FillImuData_Copy
      <4>3. N + 1 # 0
        BY <1>4
      <4>4. QED BY <4>1, <4>2, <4>3, Zenon
    <3>2. CASE x.type # "accel"
      <4>1. /\ LastAccel(l \o heard', N + 1) = j
            /\ \A i \in 1..N : (l \o heard')[i] = (l \o h)[i]
        BY <1>1, <1>2, <3>2, LastAccelAppend
      <4>2. _imu_history' = _imu_history
        BY <1>1, <3>2 DEF FillImuData_Copy
      <4>3. j # 0 => (l \o heard')[j] = (l \o h)[j]
        BY <1>4, <4>1 DEF IsLast
      <4>4. QED BY <1>2, <4>1, <4>2, <4>3
    <3>3. QED BY <3>1, <3>2
  <2>2. Len(left') + Len(heard') = N + 1
    BY <1>1, <1>2, <1>3
  <2>3. QED BY <1>1, <1>2, <1>3, <2>1, <2>2 DEF HistoryIsLast
<1>8. /\ S \subseteq 1..Len(h)
      /\ Attachable(l, heard') = IF x.type = "gyro" /\ j # 0 THEN S \cup {n} ELSE S
      /\ \A k \in S : MessageOf(l, heard', k) = MessageOf(l, h, k)
      /\ j # 0 => MessageOf(l, heard', n) = CreateUnitedMessage((l \o h)[j], x)
  BY <1>1, <1>2, AttachableAppend
<1>9. fill.imu_msgs = IF x.type = "gyro" /\ j # 0
                      THEN <<CreateUnitedMessage((l \o h)[j], x)>> ELSE <<>>
  BY <1>2, <1>5 DEF FillImuData_Copy, Last
<1> HIDE DEF j, S, fill, n
<1>10. LET T == Attachable(l, heard')
       IN  /\ Len(united') = Cardinality(T)
           /\ \A k \in T : united'[Place(T, k)] = MessageOf(l, heard', k)
  <2>1. CASE x.type = "gyro" /\ j # 0
    <3> DEFINE msg == CreateUnitedMessage((l \o h)[j], x)
    <3>1. united' = united \o <<msg>> /\ Attachable(l, heard') = S \cup {n}
      BY <1>1, <1>8, <1>9, <2>1
    <3> HIDE DEF msg
    <3>2. /\ Len(united') = Len(united) + 1 /\ united'[Len(united) + 1] = msg
          /\ \A i \in 1..Len(united) : united'[i] = united[i]
      <4>1. united \in Seq(Message \cup {msg}) /\ <<msg>> \in Seq(Message \cup {msg})
        BY <1>2
      <4>2. QED BY <3>1, <4>1
    <3>3. /\ Cardinality(S \cup {n}) = Cardinality(S) + 1
          /\ Place(S \cup {n}, n) = Cardinality(S) + 1
          /\ \A k \in S : /\ Place(S \cup {n}, k) = Place(S, k)
                          /\ Place(S, k) \in 1..Cardinality(S)
      BY <1>3, <1>8, PlaceAdd DEF n
    <3>4. MessageOf(l, heard', n) = msg
      BY <1>8, <2>1 DEF msg
    <3>5. QED BY <1>6, <1>8, <3>1, <3>2, <3>3, <3>4
  <2>2. CASE ~ (x.type = "gyro" /\ j # 0)
    <3>1. united' = united /\ Attachable(l, heard') = S
      BY <1>1, <1>2, <1>8, <1>9, <2>2
    <3>2. QED BY <1>6, <1>8, <3>1
  <2>3. QED BY <2>1, <2>2
<1>11. LastAccelAttached'
  BY <1>1, <1>3, <1>10, AttachedIsNext
<1>12. QED BY <1>7, <1>11 DEF Attach

LEMMA NextAttach ==
  ASSUME Inv, Rest, Attach, [Next]_vars
  PROVE  Attach'
<1>1. CASE UNCHANGED <<heard, left, united, _imu_history>>
  BY <1>1 DEF Attach, HistoryIsLast, LastAccelAttached, AccelBefore
<1>2. ASSUME NEW s \in Stream, imu_callback_sync(s)
      PROVE  Attach'
  <2>1. CASE synced /\ subscribed
    BY <1>2, <2>1, HeardAttach
  <2>2. CASE ~ (synced /\ subscribed)
    BY <1>1, <1>2, <2>2 DEF imu_callback_sync, messages
  <2>3. QED BY <2>1, <2>2
<1>3. CASE ClearHistory
  BY <1>3, GapAttach DEF ClearHistory
<1>4. CASE Subscribe
  BY <1>4, GapAttach DEF Subscribe
<1>5. CASE StopSensor \/ StopFails
  BY <1>1, <1>5, GapAttach DEF StopSensor, StopFails, StopPublishers, messages
<1>6. CASE StartPublishers \/ StartVideoPublishers
  BY <1>1, <1>6, GapAttach DEF StartPublishers, StartVideoPublishers, Unite, messages
<1>7. CASE \/ \E s \in Stream : imu_callback(s)
           \/ \E m \in Method : SetMethod(m)
           \/ \E s \in Stream, b \in BOOLEAN : Enable(s, b)
           \/ AppendTransforms \/ OpenSensor \/ OpenFails
           \/ UNCHANGED vars
  BY <1>1, <1>7 DEF imu_callback, SetMethod, Enable, AppendTransforms, OpenSensor,
     OpenFails, vars, messages
<1>8. QED BY <1>2, <1>3, <1>4, <1>5, <1>6, <1>7 DEF Next

LEMMA InitAttach == Init => Attach
<1> SUFFICES ASSUME Init PROVE Attach
  OBVIOUS
<1>1. heard = <<>> /\ left = <<>> /\ united = <<>> /\ _imu_history = <<>>
  BY DEF Init
<1>2. <<>> \in Seq(Accels) /\ <<>> \in Seq(Samples)
  OBVIOUS
<1>3. left \o heard = <<>> /\ Len(left) + Len(heard) = 0
  BY <1>1
<1>4. LastAccel(<<>>, 0) = 0
  BY LastAccelIs DEF IsLast
<1>5. HistoryIsLast
  BY <1>1, <1>2, <1>3, <1>4 DEF HistoryIsLast
<1>6. Attachable(left, heard) = {} /\ Len(united) = 0
  BY <1>1 DEF Attachable
<1>7. LastAccelAttached
  BY <1>1, <1>2, <1>6, AttachedIs, FS_EmptySet
<1>8. QED BY <1>5, <1>7 DEF Attach

\* Of the samples that reach the topic every gyro sample after an accel sample
\* gives one message, with the last accel sample (LastAccelAttached,
\* README.md:479), in their order, however callbacks, updates and changes of the
\* method are interleaved and whoever subscribes.
THEOREM GyrosGetLastAccel == Spec => []LastAccelAttached
<1>1. Attach => LastAccelAttached
  BY DEF Attach
<1>2. QED BY <1>1, InitAttach, NextAttach, RestInvariance, PTL DEF Spec

---------------------------------------------------------------------------
(* Linear interpolation.  The loop over a history and the calls for the    *)
(* samples heard are recursive functions; what they compute is shown by    *)
(* induction over a number of samples, for a set of numbers.               *)

LEMMA Induct ==
  ASSUME NEW N \in Nat, NEW T, 0 \in T,
         \A n \in 0..N : n # N /\ n \in T => n + 1 \in T
  PROVE  \A n \in 0..N : n \in T
<1> DEFINE U == {n \in 0..N : n \notin T}
<1>1. SUFFICES ASSUME U # {} PROVE FALSE
  OBVIOUS
<1>2. U \in SUBSET Nat
  OBVIOUS
<1>3. PICK m \in U : \A k \in U : m <= k
  <2> HIDE DEF U
  <2>1. QED BY <1>1, <1>2, Least
<1>4. m \in Nat /\ m # 0 /\ m - 1 \in 0..N /\ m - 1 # N
  OBVIOUS
<1>5. m - 1 \in T
  BY <1>3, <1>4
<1>6. (m - 1) + 1 \in T
  BY <1>4, <1>5
<1>7. (m - 1) + 1 = m
  BY <1>4
<1>8. QED BY <1>6, <1>7

\* The loop over a sequence of samples, turn by turn.
Start == [accel0 |-> None, gyros_data |-> <<>>, imu_msgs |-> <<>>]

Turns(q) ==
  CHOOSE turn : turn = [n \in 0..Len(q) |->
    IF n = 0 THEN Start ELSE Interpolate(turn[n-1], q[n])]

LEMMA TurnsAre ==
  ASSUME NEW q, Len(q) \in Nat
  PROVE  /\ Turns(q)[0] = Start
         /\ \A n \in 1..Len(q) : Turns(q)[n] = Interpolate(Turns(q)[n-1], q[n])
         /\ Interpolated(q) = Turns(q)[Len(q)].imu_msgs
<1> DEFINE IsRun(f, m) ==
      f = [n \in 0..m |-> IF n = 0 THEN Start ELSE Interpolate(f[n-1], q[n])]
<1> DEFINE T == {m \in 0..Len(q) : \E f : IsRun(f, m)}
<1>1. 0 \in T
  <2> DEFINE f == [n \in 0..0 |-> Start]
  <2>1. f = [n \in 0..0 |-> IF n = 0 THEN Start ELSE Interpolate(f[n-1], q[n])]
    OBVIOUS
  <2>2. IsRun(f, 0)
    BY <2>1
  <2> HIDE DEF f
  <2>3. \E g : IsRun(g, 0)
    BY <2>2
  <2>4. 0 \in 0..Len(q)
    OBVIOUS
  <2>5. QED BY <2>3, <2>4, Zenon
<1>2. ASSUME NEW k \in 0..Len(q), k # Len(q), k \in T PROVE k + 1 \in T
  <2> DEFINE m == k + 1
  <2>1. PICK g : IsRun(g, k)
    BY <1>2
  <2> DEFINE f == [n \in 0..m |-> IF n = m THEN Interpolate(g[k], q[m]) ELSE g[n]]
  <2>2. \A n \in 0..k : g[n] = IF n = 0 THEN Start ELSE Interpolate(g[n-1], q[n])
    BY <2>1
  <2>3. \A n \in 0..m : f[n] = IF n = 0 THEN Start ELSE Interpolate(f[n-1], q[n])
    BY <2>2
  <2>4. f = [n \in 0..m |-> IF n = 0 THEN Start ELSE Interpolate(f[n-1], q[n])]
    <3>1. f = [n \in 0..m |-> f[n]]
      BY Zenon
    <3> HIDE DEF f
    <3>2. QED BY <2>3, <3>1
  <2>5. IsRun(f, m)
    BY <2>4
  <2>6. m \in 0..Len(q)
    BY <1>2
  <2>7. QED BY <2>5, <2>6
<1>3. Len(q) \in T
  <2> DEFINE N == Len(q)
  <2>1. N \in Nat /\ N \in 0..N
    OBVIOUS
  <2>2. \A n \in 0..N : n # N /\ n \in T => n + 1 \in T
    BY <1>2
  <2> HIDE DEF N, T
  <2>3. N \in T
    BY <1>1, <2>1, <2>2, Induct
  <2>4. QED BY <2>3 DEF N
<1>4. IsRun(Turns(q), Len(q))
  BY <1>3, Zenon DEF Turns
<1>5. Interpolated(q) = Turns(q)[Len(q)].imu_msgs
  BY Zenon DEF Interpolated, Turns, Start
<1>6. QED BY <1>4, <1>5

\* FillImuData_LinearInterpolation, called for the samples of q one by one.
Silence == [history |-> <<>>, imu_msgs |-> <<>>]

Call(s, imu_data) ==
  LET fill == FillImuData_LinearInterpolation(s.history, imu_data)
  IN  [history |-> fill.history, imu_msgs |-> s.imu_msgs \o fill.imu_msgs]

Calls(q) ==
  CHOOSE called : called = [n \in 0..Len(q) |->
    IF n = 0 THEN Silence ELSE Call(called[n-1], q[n])]

LEMMA CallsAre ==
  ASSUME NEW q, Len(q) \in Nat
  PROVE  /\ Calls(q)[0] = Silence
         /\ \A n \in 1..Len(q) : Calls(q)[n] = Call(Calls(q)[n-1], q[n])
<1> DEFINE IsRun(f, m) ==
      f = [n \in 0..m |-> IF n = 0 THEN Silence ELSE Call(f[n-1], q[n])]
<1> DEFINE T == {m \in 0..Len(q) : \E f : IsRun(f, m)}
<1>1. 0 \in T
  <2> DEFINE f == [n \in 0..0 |-> Silence]
  <2>1. f = [n \in 0..0 |-> IF n = 0 THEN Silence ELSE Call(f[n-1], q[n])]
    OBVIOUS
  <2>2. IsRun(f, 0)
    BY <2>1
  <2> HIDE DEF f
  <2>3. \E g : IsRun(g, 0)
    BY <2>2
  <2>4. 0 \in 0..Len(q)
    OBVIOUS
  <2>5. QED BY <2>3, <2>4, Zenon
<1>2. ASSUME NEW k \in 0..Len(q), k # Len(q), k \in T PROVE k + 1 \in T
  <2> DEFINE m == k + 1
  <2>1. PICK g : IsRun(g, k)
    BY <1>2
  <2> DEFINE f == [n \in 0..m |-> IF n = m THEN Call(g[k], q[m]) ELSE g[n]]
  <2>2. \A n \in 0..k : g[n] = IF n = 0 THEN Silence ELSE Call(g[n-1], q[n])
    BY <2>1
  <2>3. \A n \in 0..m : f[n] = IF n = 0 THEN Silence ELSE Call(f[n-1], q[n])
    BY <2>2
  <2>4. f = [n \in 0..m |-> IF n = 0 THEN Silence ELSE Call(f[n-1], q[n])]
    <3>1. f = [n \in 0..m |-> f[n]]
      BY Zenon
    <3> HIDE DEF f
    <3>2. QED BY <2>3, <3>1
  <2>5. IsRun(f, m)
    BY <2>4
  <2>6. m \in 0..Len(q)
    BY <1>2
  <2>7. QED BY <2>5, <2>6
<1>3. Len(q) \in T
  <2> DEFINE N == Len(q)
  <2>1. N \in Nat /\ N \in 0..N
    OBVIOUS
  <2>2. \A n \in 0..N : n # N /\ n \in T => n + 1 \in T
    BY <1>2
  <2> HIDE DEF N, T
  <2>3. N \in T
    BY <1>1, <2>1, <2>2, Induct
  <2>4. QED BY <2>3 DEF N
<1>4. IsRun(Calls(q), Len(q))
  BY <1>3, Zenon DEF Calls
<1>5. QED BY <1>4

\* A sample more: a turn more.
LEMMA TurnsAppend ==
  ASSUME NEW q \in Seq(Samples), NEW x \in Samples
  PROVE  Turns(Append(q, x))[Len(q) + 1] = Interpolate(Turns(q)[Len(q)], x)
<1> DEFINE K == Append(q, x)
           N == Len(q)
           T == {n \in 0..N : Turns(K)[n] = Turns(q)[n]}
<1>1. N \in Nat /\ Len(K) = N + 1 /\ K[N + 1] = x /\ \A n \in 1..N : K[n] = q[n]
  OBVIOUS
<1> HIDE DEF K, N
<1>2. /\ Turns(K)[0] = Start
      /\ \A n \in 1..N + 1 : Turns(K)[n] = Interpolate(Turns(K)[n-1], K[n])
  BY <1>1, TurnsAre
<1>3. /\ Turns(q)[0] = Start
      /\ \A n \in 1..N : Turns(q)[n] = Interpolate(Turns(q)[n-1], q[n])
  BY <1>1, TurnsAre DEF N
<1>4. 0 \in T
  BY <1>1, <1>2, <1>3
<1>5. ASSUME NEW n \in 0..N, n # N, n \in T PROVE n + 1 \in T
  <2>1. n + 1 \in 1..N /\ n + 1 \in 1..N + 1 /\ (n + 1) - 1 = n
    BY <1>1, <1>5
  <2>2. Turns(K)[n + 1] = Interpolate(Turns(q)[n], q[n + 1])
    BY <1>1, <1>2, <1>5, <2>1
  <2>3. QED BY <1>3, <2>1, <2>2
<1>6. N \in T
  <2> HIDE DEF T
  <2>1. N \in 0..N
    BY <1>1
  <2>2. QED BY <1>1, <1>4, <1>5, <2>1, Induct
<1>7. N + 1 \in 1..N + 1 /\ (N + 1) - 1 = N
  BY <1>1
<1>8. QED BY <1>1, <1>2, <1>6, <1>7 DEF K, N

---------------------------------------------------------------------------
(* What a turn gives.                                                      *)

\* An acceleration is that of its time, and time goes on.
Ordered(h) ==
  /\ h \in Seq(Samples)
  /\ \A k \in 1..Len(h) : h[k].data = h[k].time
  /\ \A i, j \in 1..Len(h) :
       i < j /\ h[i].type = "accel" /\ h[j].type = "accel" => h[i].time < h[j].time

LEMMA LerpIs ==
  ASSUME NEW a \in Samples, NEW b \in Samples, NEW t \in 1..MaxSamples,
         a.data = a.time, b.data = b.time, a.time < b.time
  PROVE  lerp(a, b, t) = t
<1> DEFINE u == a.time
           v == b.time
           d == v - u
<1>1. u \in Int /\ v \in Int /\ t \in Int /\ u < v
  BY BoundAssumption DEF Samples
<1>2. lerp(a, b, t) = (u * (v - t) + v * (t - u)) \div d
  BY DEF lerp
<1> HIDE DEF u, v
<1>3. u * (v - t) + v * (t - u) = t * d
  <2>1. u * (v - t) = u * v - u * t /\ v * (t - u) = v * t - v * u
    BY <1>1
  <2>2. t * d = t * v - t * u
    BY <1>1
  <2>3. u * v = v * u /\ u * t = t * u /\ v * t = t * v
    BY <1>1
  <2>4. u * v \in Int /\ u * t \in Int /\ v * t \in Int
    BY <1>1
  <2>5. QED BY <2>1, <2>2, <2>3, <2>4
<1>4. d \in Int /\ d > 0
  BY <1>1
<1> HIDE DEF d
<1>5. (t * d) \div d = t
  BY <1>1, <1>4
<1>6. QED BY <1>2, <1>3, <1>5

\* Two sets of numbers, one below the other: the places add up.
LEMMA PlaceUnion ==
  ASSUME NEW n \in Nat, NEW B \in SUBSET (1..n), NEW G \in SUBSET (1..n),
         \A b \in B, g \in G : b < g
  PROVE  /\ Cardinality(B \cup G) = Cardinality(B) + Cardinality(G)
         /\ \A k \in B : Place(B \cup G, k) = Place(B, k)
         /\ \A k \in G : Place(B \cup G, k) = Cardinality(B) + Place(G, k)
<1>1. IsFiniteSet(1..n)
  BY FS_Interval
<1>2. IsFiniteSet(B)
  BY <1>1, FS_Subset
<1>3. ASSUME NEW H \in SUBSET G
      PROVE  Cardinality(B \cup H) = Cardinality(B) + Cardinality(H)
  <2>1. H \subseteq 1..n /\ B \cap H = {}
    OBVIOUS
  <2>2. IsFiniteSet(H)
    BY <1>1, <2>1, FS_Subset
  <2>3. Cardinality(B \cup H) = Cardinality(B) + Cardinality(H) - Cardinality(B \cap H)
    BY <1>2, <2>2, FS_Union
  <2>4. Cardinality(B \cap H) = 0
    BY <2>1, FS_EmptySet
  <2>5. Cardinality(B) \in Nat /\ Cardinality(H) \in Nat
    BY <1>2, <2>2, FS_CardinalityType
  <2>6. QED BY <2>3, <2>4, <2>5
<1>4. ASSUME NEW k \in B PROVE Place(B \cup G, k) = Place(B, k)
  <2>1. \A j \in G : ~ (j <= k)
    OBVIOUS
  <2>2. {j \in B \cup G : j <= k} = {j \in B : j <= k}
    BY <2>1, Zenon
  <2>3. QED BY <2>2 DEF Place
<1>5. ASSUME NEW k \in G PROVE Place(B \cup G, k) = Cardinality(B) + Place(G, k)
  <2>1. \A j \in B : j <= k
    OBVIOUS
  <2>2. {j \in B \cup G : j <= k} = B \cup {j \in G : j <= k}
    BY <2>1, Zenon
  <2>3. {j \in G : j <= k} \in SUBSET G
    OBVIOUS
  <2>4. QED BY <1>3, <2>2, <2>3 DEF Place
<1>6. QED BY <1>3, <1>4, <1>5

\* The messages are complete for a set of samples: one for each, in their order,
\* with the acceleration of its time.
Exact(msgs, h, S) ==
  /\ Len(msgs) = Cardinality(S)
  /\ \A k \in S :
       msgs[Place(S, k)] =
         [stamp |-> h[k].time, gyro |-> h[k].data, accel |-> h[k].time]

\* A gyro sample after an accel sample that is not younger.
Follows(h, k) ==
  /\ h[k].type = "gyro" /\ LastAccel(h, k) # 0
  /\ h[LastAccel(h, k)].time <= h[k].time

\* Those of the first n that wait for the next accel sample, and those that had it.
Held(h, n) == {k \in 1..n : Follows(h, k) /\ LastAccel(h, n) < k}
Given(h, n) == {k \in 1..n : Follows(h, k) /\ k < LastAccel(h, n)}

LoopState == [accel0 : Samples \cup {None}, gyros_data : Seq(Samples),
              imu_msgs : Seq(Message)]

\* What the loop has after n samples.
Looped(h, n, s) ==
  /\ s \in LoopState
  /\ s.accel0 = IF LastAccel(h, n) = 0 THEN None ELSE h[LastAccel(h, n)]
  /\ Len(s.gyros_data) = Cardinality(Held(h, n))
  /\ \A k \in Held(h, n) : s.gyros_data[Place(Held(h, n), k)] = h[k]
  /\ Exact(s.imu_msgs, h, Given(h, n))

LEMMA LastAccelNext ==
  ASSUME NEW h, NEW n \in Nat
  PROVE  /\ LastAccel(h, n) \in 0..n
         /\ LastAccel(h, n + 1) = IF h[n+1].type = "accel" THEN n + 1
                                  ELSE LastAccel(h, n)
         /\ LastAccel(h, n) # 0 => h[LastAccel(h, n)].type = "accel"
         /\ LastAccel(h, n) = 0 => \A k \in 1..n : LastAccel(h, k) = 0
<1> DEFINE j == LastAccel(h, n)
<1>1. IsLast(h, n, j)
  BY LastAccelIs
<1>2. IsLast(h, n + 1, IF h[n+1].type = "accel" THEN n + 1 ELSE j)
  BY <1>1 DEF IsLast
<1>3. LastAccel(h, n + 1) = IF h[n+1].type = "accel" THEN n + 1 ELSE j
  <2>1. n + 1 \in Nat
    OBVIOUS
  <2>2. IsLast(h, n + 1, LastAccel(h, n + 1))
    BY <2>1, LastAccelIs
  <2> HIDE DEF j
  <2>3. QED BY <1>2, <2>1, <2>2, LastUnique
<1>4. ASSUME j = 0, NEW k \in 1..n PROVE LastAccel(h, k) = 0
  <2>1. \A i \in 1..n : h[i].type # "accel"
    BY <1>1, <1>4 DEF IsLast
  <2>2. k \in Nat /\ IsLast(h, k, 0)
    BY <2>1 DEF IsLast
  <2>3. IsLast(h, k, LastAccel(h, k))
    BY <2>2, LastAccelIs
  <2>4. QED BY <2>2, <2>3, LastUnique
<1>5. QED BY <1>1, <1>3, <1>4 DEF IsLast

LEMMA InterpolateIs ==
  ASSUME NEW s, NEW x
  PROVE  /\ x.type = "accel" /\ s.accel0 = None =>
              Interpolate(s, x) = [s EXCEPT !.accel0 = x]
         /\ x.type = "gyro" /\ s.accel0 # None /\ x.time >= s.accel0.time =>
              Interpolate(s, x) = [s EXCEPT !.gyros_data = Append(s.gyros_data, x)]
         /\ x.type = "gyro" /\ ~ (s.accel0 # None /\ x.time >= s.accel0.time) =>
              Interpolate(s, x) = s
BY DEF Interpolate

LEMMA InterpolateAccel ==
  ASSUME NEW s, NEW x, x.type = "accel", s.accel0 # None
  PROVE  Interpolate(s, x) =
           [accel0 |-> x, gyros_data |-> <<>>,
            imu_msgs |-> s.imu_msgs \o
              [k \in DOMAIN s.gyros_data |->
                 CreateUnitedMessage(
                   [data |-> lerp(s.accel0, x, s.gyros_data[k].time)],
                   s.gyros_data[k])]]
BY Zenon DEF Interpolate

\* A gyro sample: it is held if it follows an accel sample.
LEMMA GyroTurn ==
  ASSUME NEW h, Ordered(h), NEW n \in 0..Len(h) - 1, NEW s, Looped(h, n, s),
         h[n+1].type = "gyro"
  PROVE  Looped(h, n + 1, Interpolate(s, h[n+1]))
<1> DEFINE x == h[n+1]
           j == LastAccel(h, n)
           G == Held(h, n)
<1>1. n \in Nat /\ n + 1 \in 1..Len(h) /\ x \in Samples /\ h \in Seq(Samples)
  BY DEF Ordered
<1>2. j \in 0..n /\ LastAccel(h, n + 1) = j
  BY <1>1, LastAccelNext
<1>3. \A k \in 1..n + 1 : k \in 1..n \/ k = n + 1
  BY <1>1
<1>4. Given(h, n + 1) = Given(h, n)
  <2>1. ~ (n + 1 < j)
    BY <1>1, <1>2
  <2>2. \A k \in 1..n : k \in 1..n + 1
    BY <1>1
  <2> HIDE DEF j
  <2>3. QED BY <1>2, <1>3, <2>1, <2>2 DEF Given, j
<1>5. /\ Follows(h, n + 1) <=> j # 0 /\ h[j].time <= x.time
      /\ Held(h, n + 1) = IF Follows(h, n + 1) THEN G \cup {n + 1} ELSE G
  <2>1. Follows(h, n + 1) <=> j # 0 /\ h[j].time <= x.time
    BY <1>2 DEF Follows
  <2>2. \A k \in 1..n : k \in 1..n + 1
    BY <1>1
  <2>3. j < n + 1
    BY <1>1, <1>2
  <2> HIDE DEF j
  <2>4. QED BY <1>2, <1>3, <2>1, <2>2, <2>3 DEF Held, j
<1>6. s \in LoopState /\ s.accel0 = IF j = 0 THEN None ELSE h[j]
  BY DEF Looped
<1>7. j # 0 => h[j] \in Samples /\ h[j] # None
  BY <1>1, <1>2, NoneAssumption
<1>8. Interpolate(s, x) = IF Follows(h, n + 1)
                          THEN [s EXCEPT !.gyros_data = Append(@, x)] ELSE s
  <2>1. x.type = "gyro"
    OBVIOUS
  <2>2. Follows(h, n + 1) <=> s.accel0 # None /\ x.time >= s.accel0.time
    <3>1. x.time \in Int /\ (j # 0 => h[j].time \in Int)
      BY <1>1, <1>7 DEF Samples
    <3> HIDE DEF x, j
    <3>2. QED BY <1>5, <1>6, <1>7, <3>1
  <2> HIDE DEF x
  <2>3. QED BY <2>1, <2>2, InterpolateIs
<1>9. /\ Len(s.gyros_data) = Cardinality(G)
      /\ \A k \in G : s.gyros_data[Place(G, k)] = h[k]
      /\ Exact(s.imu_msgs, h, Given(h, n))
  BY DEF Looped
<1>10. G \in SUBSET (1..n)
  BY DEF Held
<1> HIDE DEF x, j, G
<1>11. CASE Follows(h, n + 1)
  <2> DEFINE r == Interpolate(s, x)
  <2>1. r = [s EXCEPT !.gyros_data = Append(s.gyros_data, x)]
    BY <1>8, <1>11
  <2>2. /\ r \in LoopState /\ r.accel0 = s.accel0 /\ r.imu_msgs = s.imu_msgs
        /\ r.gyros_data = Append(s.gyros_data, x)
    <3>1. /\ s = [accel0 |-> s.accel0, gyros_data |-> s.gyros_data,
                   imu_msgs |-> s.imu_msgs]
          /\ s.accel0 \in Samples \cup {None} /\ s.gyros_data \in Seq(Samples)
          /\ s.imu_msgs \in Seq(Message)
      BY <1>6 DEF LoopState
    <3>2. Append(s.gyros_data, x) \in Seq(Samples)
      BY <1>1, <3>1
    <3> HIDE DEF r
    <3>3. r = [accel0 |-> s.accel0, gyros_data |-> Append(s.gyros_data, x),
               imu_msgs |-> s.imu_msgs]
      BY <2>1, <3>1
    <3>4. QED BY <3>1, <3>2, <3>3 DEF LoopState
  <2>3. s.gyros_data \in Seq(Samples)
    BY <1>6 DEF LoopState
  <2>4. /\ Len(r.gyros_data) = Cardinality(G) + 1
        /\ r.gyros_data[Cardinality(G) + 1] = x
        /\ \A i \in 1..Cardinality(G) : r.gyros_data[i] = s.gyros_data[i]
    BY <1>1, <1>9, <2>2, <2>3
  <2>5. /\ Cardinality(G \cup {n + 1}) = Cardinality(G) + 1
        /\ Place(G \cup {n + 1}, n + 1) = Cardinality(G) + 1
        /\ \A k \in G : /\ Place(G \cup {n + 1}, k) = Place(G, k)
                        /\ Place(G, k) \in 1..Cardinality(G)
    BY <1>1, <1>10, PlaceAdd
  <2>6. Held(h, n + 1) = G \cup {n + 1}
    BY <1>5, <1>11
  <2> HIDE DEF r
  <2>7. \A k \in Held(h, n + 1) : r.gyros_data[Place(Held(h, n + 1), k)] = h[k]
    BY <1>9, <2>4, <2>5, <2>6 DEF x
  <2>8. Looped(h, n + 1, r)
    BY <1>2, <1>4, <1>6, <1>9, <2>2, <2>4, <2>5, <2>6, <2>7 DEF Looped
  <2>9. QED BY <2>8 DEF r, x
<1>12. CASE ~ Follows(h, n + 1)
  <2>1. Interpolate(s, x) = s /\ Held(h, n + 1) = G
    BY <1>5, <1>8, <1>12
  <2>2. Looped(h, n + 1, s)
    BY <1>2, <1>4, <1>6, <1>9, <2>1 DEF Looped
  <2>3. QED BY <2>1, <2>2 DEF x
<1>13. QED BY <1>11, <1>12

\* An accel sample gives the messages of those held.
LEMMA AccelTurn ==
  ASSUME NEW h, Ordered(h), NEW n \in 0..Len(h) - 1, NEW s, Looped(h, n, s),
         h[n+1].type = "accel"
  PROVE  Looped(h, n + 1, Interpolate(s, h[n+1]))
<1> DEFINE x == h[n+1]
           j == LastAccel(h, n)
           G == Held(h, n)
           B == Given(h, n)
           r == Interpolate(s, x)
<1>1. n \in Nat /\ n + 1 \in 1..Len(h) /\ x \in Samples /\ h \in Seq(Samples)
  BY DEF Ordered
<1>2. j \in 0..n /\ LastAccel(h, n + 1) = n + 1 /\ n + 1 # 0
      /\ (j # 0 => h[j].type = "accel")
  BY <1>1, LastAccelNext
<1>3. Held(h, n + 1) = {}
  <2>1. \A k \in 1..n + 1 : ~ (n + 1 < k)
    BY <1>1
  <2>2. QED BY <1>2, <2>1 DEF Held
<1>4. Given(h, n + 1) = B \cup G
  <2>1. ~ Follows(h, n + 1) /\ (j = 0 \/ ~ Follows(h, j))
    BY <1>2 DEF Follows
  <2>2. \A k \in 1..n + 1 : k \in 1..n \/ k = n + 1
    BY <1>1
  <2>3. \A k \in 1..n : /\ k \in 1..n + 1 /\ k < n + 1
                        /\ k < j \/ j < k \/ k = j
                        /\ k # 0
    BY <1>1, <1>2
  <2> HIDE DEF j
  <2>4. QED BY <1>2, <2>1, <2>2, <2>3 DEF Given, Held, j
<1>5. s \in LoopState /\ s.accel0 = IF j = 0 THEN None ELSE h[j]
  BY DEF Looped
<1>6. j # 0 => /\ h[j] \in Samples /\ h[j] # None
               /\ h[j].data = h[j].time /\ x.data = x.time /\ h[j].time < x.time
  BY <1>1, <1>2, NoneAssumption DEF Ordered
<1>7. /\ Len(s.gyros_data) = Cardinality(G)
      /\ \A k \in G : s.gyros_data[Place(G, k)] = h[k]
      /\ Exact(s.imu_msgs, h, B)
  BY DEF Looped
<1>8. G \in SUBSET (1..n) /\ B \in SUBSET (1..n) /\ \A b \in B, g \in G : b < g
  BY <1>2 DEF Held, Given
<1>9. s.gyros_data \in Seq(Samples) /\ s.imu_msgs \in Seq(Message)
  BY <1>5 DEF LoopState
<1>10. ASSUME NEW q, q = <<>> PROVE Len(q) = Cardinality({})
  BY <1>10, FS_EmptySet
<1> HIDE DEF x, j, G, B
<1>11. CASE j = 0
  <2>1. G = {}
    <3>1. \A k \in 1..n : LastAccel(h, k) = 0
      BY <1>1, <1>11, LastAccelNext DEF j
    <3>2. QED BY <3>1 DEF G, Held, Follows
  <2>2. Len(s.gyros_data) = 0
    BY <1>7, <2>1, FS_EmptySet
  <2>3. r = [s EXCEPT !.accel0 = x]
    BY <1>5, <1>11 DEF Interpolate, x
  <2>4. /\ r \in LoopState /\ r.accel0 = x /\ r.imu_msgs = s.imu_msgs
        /\ r.gyros_data = s.gyros_data
    BY <1>1, <1>5, <2>3 DEF LoopState
  <2>5. Given(h, n + 1) = B
    BY <1>4, <2>1
  <2> HIDE DEF r
  <2>6. Len(r.gyros_data) = Cardinality({})
    BY <2>2, <2>4, FS_EmptySet
  <2>7. Looped(h, n + 1, r)
    BY <1>2, <1>3, <1>7, <2>4, <2>5, <2>6 DEF Looped, x
  <2>8. QED BY <2>7 DEF r, x
<1>12. CASE j # 0
  <2> DEFINE a == h[j]
             crnt(g) == [data |-> lerp(a, x, g.time)]
             E == [k \in DOMAIN s.gyros_data |->
                     CreateUnitedMessage(crnt(s.gyros_data[k]), s.gyros_data[k])]
  <2>1. r = [accel0 |-> x, gyros_data |-> <<>>, imu_msgs |-> s.imu_msgs \o E]
    <3>1. s.accel0 = a /\ s.accel0 # None /\ x.type = "accel"
      BY <1>5, <1>6, <1>12 DEF x
    <3>2. Interpolate(s, x) = [accel0 |-> x, gyros_data |-> <<>>,
               imu_msgs |-> s.imu_msgs \o
                 [k \in DOMAIN s.gyros_data |->
                    CreateUnitedMessage(
                      [data |-> lerp(s.accel0, x, s.gyros_data[k].time)],
                      s.gyros_data[k])]]
      BY <3>1, InterpolateAccel
    <3>3. QED BY <3>1, <3>2, Zenon
  <2>2. ASSUME NEW g \in Samples
        PROVE  /\ CreateUnitedMessage(crnt(g), g) =
                    [stamp |-> g.time, gyro |-> g.data, accel |-> g.time]
               /\ CreateUnitedMessage(crnt(g), g) \in Message
    <3>1. g.time \in 1..MaxSamples /\ g.data \in 1..MaxSamples
      BY DEF Samples
    <3>2. lerp(a, x, g.time) = g.time
      BY <1>1, <1>6, <1>12, <3>1, LerpIs
    <3>3. QED BY <3>1, <3>2 DEF CreateUnitedMessage, Message
  <2> DEFINE N == Len(s.gyros_data)
  <2>3. /\ N \in Nat /\ DOMAIN s.gyros_data = 1..N
        /\ \A k \in 1..N : s.gyros_data[k] \in Samples
    BY <1>9
  <2>4. /\ \A k \in 1..N : /\ E[k] = [stamp |-> s.gyros_data[k].time,
                                      gyro |-> s.gyros_data[k].data,
                                      accel |-> s.gyros_data[k].time]
                           /\ E[k] \in Message
        /\ DOMAIN E = 1..N
    BY <2>2, <2>3
  <2>5. E \in Seq(Message) /\ Len(E) = N
    <3>1. E \in [1..N -> Message]
      <4>1. E = [k \in 1..N |-> E[k]]
        BY <2>3, Zenon
      <4> HIDE DEF E
      <4>2. QED BY <2>4, <4>1
    <3> HIDE DEF E
    <3>2. QED BY <2>3, <3>1
  <2> HIDE DEF E, r
  <2>6. /\ r \in LoopState /\ r.accel0 = x /\ r.imu_msgs = s.imu_msgs \o E
        /\ r.gyros_data = <<>>
    <3>1. s.imu_msgs \o E \in Seq(Message) /\ <<>> \in Seq(Samples)
      BY <1>9, <2>5
    <3>2. QED BY <1>1, <2>1, <3>1 DEF LoopState
  <2> DEFINE M == Len(s.imu_msgs)
  <2>7. /\ M \in Nat /\ M = Cardinality(B) /\ N = Cardinality(G)
        /\ Len(s.imu_msgs \o E) = M + N
        /\ \A i \in 1..M : (s.imu_msgs \o E)[i] = s.imu_msgs[i]
        /\ \A i \in 1..N : (s.imu_msgs \o E)[M + i] = E[i]
    <3>1. /\ M \in Nat
          /\ Len(s.imu_msgs \o E) = M + N
          /\ \A i \in 1..M : (s.imu_msgs \o E)[i] = s.imu_msgs[i]
          /\ \A i \in 1..N : (s.imu_msgs \o E)[M + i] = E[i]
      <4>1. /\ M \in Nat /\ Len(s.imu_msgs \o E) = M + Len(E)
            /\ \A i \in 1..M : (s.imu_msgs \o E)[i] = s.imu_msgs[i]
            /\ \A i \in 1..Len(E) : (s.imu_msgs \o E)[M + i] = E[i]
        <5> DEFINE p == s.imu_msgs
        <5>1. p \in Seq(Message) /\ E \in Seq(Message)
          BY <1>9, <2>5
        <5> HIDE DEF p
        <5>2. /\ Len(p) \in Nat /\ Len(p \o E) = Len(p) + Len(E)
              /\ \A i \in 1..Len(p) : (p \o E)[i] = p[i]
              /\ \A i \in 1..Len(E) : (p \o E)[Len(p) + i] = E[i]
          BY <5>1
        <5>3. QED BY <5>2 DEF p
      <4> HIDE DEF M, N
      <4>2. QED BY <2>5, <4>1
    <3>2. QED BY <1>7, <3>1 DEF Exact
  <2>8. /\ Cardinality(B \cup G) = M + N
        /\ \A k \in B : Place(B \cup G, k) = Place(B, k) /\ Place(B, k) \in 1..M
        /\ \A k \in G : Place(B \cup G, k) = M + Place(G, k) /\ Place(G, k) \in 1..N
    <3>1. /\ Cardinality(B \cup G) = Cardinality(B) + Cardinality(G)
          /\ \A k \in B : Place(B \cup G, k) = Place(B, k)
          /\ \A k \in G : Place(B \cup G, k) = Cardinality(B) + Place(G, k)
      BY <1>1, <1>8, PlaceUnion
    <3>2. \A k \in B : Place(B, k) \in 1..Cardinality(B)
      BY <1>1, <1>8, PlaceAdd
    <3>3. \A k \in G : Place(G, k) \in 1..Cardinality(G)
      BY <1>1, <1>8, PlaceAdd
    <3> HIDE DEF M, N
    <3>4. QED BY <2>7, <3>1, <3>2, <3>3
  <2> HIDE DEF M, N
  <2>9. Exact(r.imu_msgs, h, B \cup G)
    <3>1. ASSUME NEW k \in B
          PROVE  r.imu_msgs[Place(B \cup G, k)] =
                   [stamp |-> h[k].time, gyro |-> h[k].data, accel |-> h[k].time]
      <4>1. r.imu_msgs[Place(B \cup G, k)] = s.imu_msgs[Place(B, k)]
        BY <2>6, <2>7, <2>8
      <4>2. QED BY <1>7, <4>1 DEF Exact
    <3>2. ASSUME NEW k \in G
          PROVE  r.imu_msgs[Place(B \cup G, k)] =
                   [stamp |-> h[k].time, gyro |-> h[k].data, accel |-> h[k].time]
      <4> DEFINE i == Place(G, k)
      <4>1. i \in 1..N /\ r.imu_msgs[Place(B \cup G, k)] = E[i]
        BY <2>6, <2>7, <2>8
      <4>2. s.gyros_data[i] = h[k]
        BY <1>7
      <4> HIDE DEF i
      <4>3. QED BY <2>4, <4>1, <4>2
    <3>3. Len(r.imu_msgs) = Cardinality(B \cup G)
      BY <2>6, <2>7, <2>8
    <3>4. QED BY <3>1, <3>2, <3>3 DEF Exact
  <2>10. Len(r.gyros_data) = Cardinality({})
    BY <1>10, <2>6
  <2>11. Looped(h, n + 1, r)
    BY <1>2, <1>3, <1>4, <2>6, <2>9, <2>10 DEF Looped, x
  <2>12. QED BY <2>11 DEF r, x
<1>13. QED BY <1>11, <1>12

\* The loop over the samples of h.
LEMMA LoopIs ==
  ASSUME NEW h, Ordered(h)
  PROVE  \A n \in 0..Len(h) : Looped(h, n, Turns(h)[n])
<1> DEFINE N == Len(h)
           T == {n \in 0..N : Looped(h, n, Turns(h)[n])}
<1>1. N \in Nat /\ \A n \in 1..N : h[n] \in Samples
  BY DEF Ordered
<1>2. /\ Turns(h)[0] = Start
      /\ \A n \in 1..N : Turns(h)[n] = Interpolate(Turns(h)[n-1], h[n])
  BY <1>1, TurnsAre
<1>3. 0 \in T
  <2>1. LastAccel(h, 0) = 0
    BY LastAccelNext
  <2>2. Held(h, 0) = {} /\ Given(h, 0) = {}
    BY DEF Held, Given
  <2>3. <<>> \in Seq(Samples) /\ <<>> \in Seq(Message) /\ Len(<<>>) = Cardinality({})
    BY FS_EmptySet
  <2>4. Start \in LoopState
    BY <2>3 DEF Start, LoopState
  <2>5. Looped(h, 0, Start)
    BY <2>1, <2>2, <2>3, <2>4 DEF Looped, Exact, Start
  <2>6. 0 \in 0..N
    BY <1>1
  <2>7. QED BY <1>2, <2>5, <2>6
<1>4. ASSUME NEW n \in 0..N, n # N, n \in T PROVE n + 1 \in T
  <2>1. n \in 0..Len(h) - 1 /\ n + 1 \in 1..N /\ n + 1 \in 0..N /\ (n + 1) - 1 = n
    BY <1>1, <1>4
  <2>2. Turns(h)[n + 1] = Interpolate(Turns(h)[n], h[n + 1])
    BY <1>2, <2>1
  <2>3. h[n + 1].type = "accel" \/ h[n + 1].type = "gyro"
    BY <1>1, <2>1 DEF Samples, Stream
  <2>4. Looped(h, n + 1, Interpolate(Turns(h)[n], h[n + 1]))
    BY <1>4, <2>1, <2>3, GyroTurn, AccelTurn
  <2>5. QED BY <2>1, <2>2, <2>4
<1>5. QED
  <2> HIDE DEF N, T
  <2>1. \A n \in 0..N : n \in T
    BY <1>1, <1>3, <1>4, Induct
  <2>2. QED BY <2>1 DEF N, T

---------------------------------------------------------------------------
(* The calls, which drop what the loop has used, give the messages of one  *)
(* loop over all the samples.                                              *)

\* What the loop over the history left is what the loop over all samples has.
Keeps(w, t) ==
  /\ w \in Seq(Samples)
  /\ Turns(w)[Len(w)] = [accel0 |-> t.accel0, gyros_data |-> t.gyros_data,
                         imu_msgs |-> <<>>]

\* A history of a single accel sample, and one of at most one sample.
LEMMA ShortHistory ==
  /\ Turns(<<>>)[0] = Start
  /\ \A x \in Samples :
       /\ Turns(<<x>>)[1].gyros_data = <<>>
       /\ x.type = "accel" =>
            Turns(<<x>>)[1] = [accel0 |-> x, gyros_data |-> <<>>, imu_msgs |-> <<>>]
<1>1. Turns(<<>>)[0] = Start
  BY TurnsAre
<1>2. ASSUME NEW x \in Samples PROVE Turns(<<x>>)[1] = Interpolate(Start, x)
  <2>1. /\ Len(<<x>>) \in Nat /\ 1 \in 1..Len(<<x>>) /\ <<x>>[1] = x
        /\ 1 - 1 = 0
    OBVIOUS
  <2>2. Turns(<<x>>)[0] = Start /\ Turns(<<x>>)[1] = Interpolate(Turns(<<x>>)[0], x)
    BY <2>1, TurnsAre
  <2>3. QED BY <2>2
<1>3. ASSUME NEW x \in Samples, x.type = "accel"
      PROVE  Interpolate(Start, x) =
               [accel0 |-> x, gyros_data |-> <<>>, imu_msgs |-> <<>>]
  <2>1. Start.accel0 = None
    BY DEF Start
  <2>2. Interpolate(Start, x) = [Start EXCEPT !.accel0 = x]
    BY <1>3, <2>1, InterpolateIs
  <2>3. QED BY <2>2 DEF Start
<1>4. ASSUME NEW x \in Samples, x.type = "gyro" PROVE Interpolate(Start, x) = Start
  <2>1. Start.accel0 = None
    BY DEF Start
  <2>2. QED BY <1>4, <2>1, InterpolateIs
<1>5. ASSUME NEW x \in Samples PROVE Interpolate(Start, x).gyros_data = <<>>
  <2>1. x.type = "accel" \/ x.type = "gyro"
    BY DEF Samples, Stream
  <2>2. CASE x.type = "accel"
    BY <1>3, <2>2
  <2>3. CASE x.type = "gyro"
    <3>1. Interpolate(Start, x) = Start
      BY <1>4, <2>3
    <3>2. Start.gyros_data = <<>>
      BY DEF Start
    <3>3. QED BY <3>1, <3>2
  <2>4. QED BY <2>1, <2>2, <2>3
<1>6. QED BY <1>1, <1>2, <1>3, <1>5

LEMMA Single ==
  ASSUME NEW S, NEW q \in Seq(S), Len(q) = 1
  PROVE  q = <<q[1]>> /\ q[1] \in S
<1>1. q[1] \in S
  OBVIOUS
<1>2. <<q[1]>> \in Seq(S) /\ Len(<<q[1]>>) = 1 /\ <<q[1]>>[1] = q[1]
  BY <1>1
<1> DEFINE r == <<q[1]>>
<1> HIDE DEF r
<1>3. r \in Seq(S) /\ Len(r) = Len(q) /\ \A k \in 1..Len(q) : r[k] = q[k]
  BY <1>2 DEF r
<1>4. r = q
  BY <1>3
<1>5. QED BY <1>1, <1>4 DEF r

LEMMA CallIs ==
  ASSUME NEW w, NEW t \in LoopState, Keeps(w, t), NEW x \in Samples,
         t.accel0 = None => t.gyros_data = <<>>
  PROVE  LET fill == FillImuData_LinearInterpolation(w, x)
             u == Interpolate(t, x)
         IN  Keeps(fill.history, u) /\ t.imu_msgs \o fill.imu_msgs = u.imu_msgs
<1> DEFINE p == Append(w, x)
           fill == FillImuData_LinearInterpolation(w, x)
           s == [accel0 |-> t.accel0, gyros_data |-> t.gyros_data, imu_msgs |-> <<>>]
           v == Interpolate(s, x)
           u == Interpolate(t, x)
<1>1. /\ w \in Seq(Samples) /\ Turns(w)[Len(w)] = s
      /\ t = [accel0 |-> t.accel0, gyros_data |-> t.gyros_data, imu_msgs |-> t.imu_msgs]
      /\ t.gyros_data \in Seq(Samples) /\ t.imu_msgs \in Seq(Message)
  BY DEF Keeps, LoopState
<1>2. p \in Seq(Samples) /\ Len(p) = Len(w) + 1 /\ Last(p) = x
  BY <1>1 DEF Last
<1>3. Turns(p)[Len(p)] = v /\ Interpolated(p) = v.imu_msgs
  <2>1. Turns(p)[Len(w) + 1] = v
    BY <1>1, TurnsAppend
  <2>2. Len(p) \in Nat
    BY <1>2
  <2> HIDE DEF p, v
  <2>3. Interpolated(p) = Turns(p)[Len(p)].imu_msgs
    BY <2>2, TurnsAre
  <2>4. QED BY <1>2, <2>1, <2>3
<1>4. fill = IF x.type # "accel" \/ Len(p) < 3
             THEN [history |-> p, imu_msgs |-> <<>>]
             ELSE [history |-> <<x>>, imu_msgs |-> v.imu_msgs]
  BY <1>2, <1>3 DEF FillImuData_LinearInterpolation
<1>5. s.accel0 = t.accel0 /\ s.gyros_data = t.gyros_data /\ s.imu_msgs = <<>>
  OBVIOUS
<1>6. t.imu_msgs \o <<>> = t.imu_msgs
  BY <1>1
<1>7. <<x>> \in Seq(Samples) /\ Len(<<x>>) = 1
  OBVIOUS
<1> HIDE DEF p, fill, v, u
<1>8. CASE x.type = "gyro"
  <2>1. fill = [history |-> p, imu_msgs |-> <<>>]
    BY <1>4, <1>8
  <2>2. /\ u.imu_msgs = t.imu_msgs
        /\ v = [accel0 |-> u.accel0, gyros_data |-> u.gyros_data, imu_msgs |-> <<>>]
    <3>1. CASE t.accel0 # None /\ x.time >= t.accel0.time
      <4>1. u = [t EXCEPT !.gyros_data = Append(t.gyros_data, x)]
        BY <1>8, <3>1, InterpolateIs DEF u
      <4>2. v = [s EXCEPT !.gyros_data = Append(s.gyros_data, x)]
        BY <1>5, <1>8, <3>1, InterpolateIs DEF v
      <4> DEFINE g == Append(t.gyros_data, x)
      <4> HIDE DEF g
      <4>3. u = [accel0 |-> t.accel0, gyros_data |-> g, imu_msgs |-> t.imu_msgs]
        BY <1>1, <4>1 DEF g
      <4>4. v = [accel0 |-> t.accel0, gyros_data |-> g, imu_msgs |-> <<>>]
        BY <1>5, <4>2 DEF g
      <4>5. QED BY <4>3, <4>4
    <3>2. CASE ~ (t.accel0 # None /\ x.time >= t.accel0.time)
      <4>1. u = t
        BY <1>8, <3>2, InterpolateIs DEF u
      <4>2. v = s
        BY <1>5, <1>8, <3>2, InterpolateIs DEF v
      <4>3. QED BY <4>1, <4>2
    <3>3. QED BY <3>1, <3>2
  <2>3. QED BY <1>2, <1>3, <1>6, <2>1, <2>2 DEF Keeps, fill, u
<1>9. CASE x.type = "accel" /\ t.accel0 = None
  <2>1. u = [t EXCEPT !.accel0 = x]
    BY <1>9, InterpolateIs DEF u
  <2>2. v = [s EXCEPT !.accel0 = x]
    BY <1>5, <1>9, InterpolateIs DEF v
  <2>3. u = [accel0 |-> x, gyros_data |-> <<>>, imu_msgs |-> t.imu_msgs]
    BY <1>1, <1>9, <2>1
  <2>4. v = [accel0 |-> x, gyros_data |-> <<>>, imu_msgs |-> <<>>]
    BY <1>9, <2>2
  <2>5. Turns(<<x>>)[1] = v
    BY <1>9, <2>4, ShortHistory
  <2>6. fill.imu_msgs = <<>> /\ fill.history \in {p, <<x>>}
    BY <1>4, <2>4
  <2>7. /\ Turns(fill.history)[Len(fill.history)] = v
        /\ fill.history \in Seq(Samples)
    BY <1>2, <1>3, <1>7, <2>5, <2>6
  <2>8. QED BY <1>6, <2>3, <2>4, <2>6, <2>7 DEF Keeps, fill, u
<1>10. CASE x.type = "accel" /\ t.accel0 # None
  <2> DEFINE E == [k \in DOMAIN t.gyros_data |->
                     CreateUnitedMessage(
                       [data |-> lerp(t.accel0, x, t.gyros_data[k].time)],
                       t.gyros_data[k])]
  <2>1. u = [accel0 |-> x, gyros_data |-> <<>>, imu_msgs |-> t.imu_msgs \o E]
    BY <1>10, InterpolateAccel DEF u
  <2>2. v = [accel0 |-> x, gyros_data |-> <<>>, imu_msgs |-> <<>> \o E]
    BY <1>5, <1>10, InterpolateAccel DEF v
  <2>3. <<>> \o E = E /\ (t.gyros_data = <<>> => E = <<>>)
    <3> DEFINE N == Len(t.gyros_data)
    <3>1. N \in Nat /\ DOMAIN t.gyros_data = 1..N
      BY <1>1
    <3>2. E \in [1..N -> {E[k] : k \in 1..N}]
      <4>1. E = [k \in 1..N |-> E[k]]
        BY <3>1, Zenon
      <4> HIDE DEF E, N
      <4>2. QED BY <4>1
    <3> HIDE DEF E
    <3>3. E \in Seq({E[k] : k \in 1..N})
      BY <3>1, <3>2
    <3>4. <<>> \o E = E
      BY <3>3
    <3>5. t.gyros_data = <<>> => N = 0
      OBVIOUS
    <3> HIDE DEF N
    <3>6. N = 0 => E = <<>>
      BY <3>2, <3>3
    <3>7. QED BY <3>4, <3>5, <3>6
  <2> HIDE DEF E
  <2>4. v = [accel0 |-> x, gyros_data |-> <<>>, imu_msgs |-> E]
    BY <2>2, <2>3
  <2>5. CASE Len(p) < 3
    <3> DEFINE m == Len(w)
    <3>1. m = 0 \/ m = 1
      <4>1. w \in Seq(Samples) /\ Len(p) = m + 1
        BY <1>1, <1>2
      <4>2. m \in Nat
        BY <4>1
      <4> HIDE DEF m
      <4>3. QED BY <2>5, <4>1, <4>2
    <3>2. CASE Len(w) = 0
      <4>1. w = <<>>
        BY <1>1, <3>2
      <4>2. s = Start
        BY <1>1, <3>2, <4>1, ShortHistory
      <4>3. t.accel0 = None
        BY <1>5, <4>2 DEF Start
      <4>4. QED BY <1>10, <4>3
    <3>3. CASE Len(w) = 1
      <4>1. PICK y \in Samples : w = <<y>>
        <5>1. w \in Seq(Samples)
          BY <1>1
        <5>2. w = <<w[1]>> /\ w[1] \in Samples
          BY <3>3, <5>1, Single
        <5>3. QED BY <5>2
      <4>2. Turns(w)[1].gyros_data = <<>>
        BY <4>1, ShortHistory
      <4>3. t.gyros_data = <<>>
        BY <1>1, <1>5, <3>3, <4>2
      <4>4. E = <<>>
        BY <2>3, <4>3
      <4>5. u.imu_msgs = t.imu_msgs
        BY <1>6, <2>1, <4>4
      <4>6. v = [accel0 |-> u.accel0, gyros_data |-> u.gyros_data, imu_msgs |-> <<>>]
        BY <2>1, <2>4, <4>4
      <4>7. fill = [history |-> p, imu_msgs |-> <<>>]
        BY <1>4, <2>5
      <4>8. QED BY <1>2, <1>3, <1>6, <4>5, <4>6, <4>7 DEF Keeps, fill, u
    <3>4. QED BY <3>1, <3>2, <3>3
  <2>6. CASE ~ (Len(p) < 3)
    <3>1. fill = [history |-> <<x>>, imu_msgs |-> E]
      BY <1>4, <1>10, <2>4, <2>6
    <3>2. Turns(<<x>>)[1] = [accel0 |-> x, gyros_data |-> <<>>, imu_msgs |-> <<>>]
      BY <1>10, ShortHistory
    <3>3. QED BY <1>7, <2>1, <3>1, <3>2 DEF Keeps, fill, u
  <2>7. QED BY <2>5, <2>6
<1>11. x.type = "accel" \/ x.type = "gyro"
  BY DEF Samples, Stream
<1>12. QED BY <1>8, <1>9, <1>10, <1>11

LEMMA CallsFollow ==
  ASSUME NEW h, Ordered(h)
  PROVE  Calls(h)[Len(h)].imu_msgs = Turns(h)[Len(h)].imu_msgs
<1> DEFINE N == Len(h)
           c(n) == Calls(h)[n]
           t(n) == Turns(h)[n]
           T == {n \in 0..N : Keeps(c(n).history, t(n)) /\ c(n).imu_msgs = t(n).imu_msgs}
<1>1. N \in Nat /\ \A n \in 1..N : h[n] \in Samples
  BY DEF Ordered
<1>2. /\ t(0) = Start
      /\ \A n \in 1..N : t(n) = Interpolate(t(n-1), h[n])
  BY <1>1, TurnsAre
<1>3. /\ c(0) = Silence
      /\ \A n \in 1..N : c(n) = Call(c(n-1), h[n])
  BY <1>1, CallsAre
<1>4. 0 \in T
  <2>1. <<>> \in Seq(Samples) /\ Len(<<>>) = 0 /\ Turns(<<>>)[0] = Start
    BY ShortHistory
  <2>2. Keeps(<<>>, Start)
    BY <2>1 DEF Keeps, Start
  <2>3. 0 \in 0..N
    BY <1>1
  <2>4. QED BY <1>2, <1>3, <2>2, <2>3 DEF Silence, Start
<1>5. ASSUME NEW n \in 0..N, n # N, n \in T PROVE n + 1 \in T
  <2>1. n + 1 \in 1..N /\ n + 1 \in 0..N /\ (n + 1) - 1 = n
    BY <1>1, <1>5
  <2> DEFINE x == h[n + 1]
  <2>2. c(n + 1) = Call(c(n), x) /\ t(n + 1) = Interpolate(t(n), x) /\ x \in Samples
    BY <1>1, <1>2, <1>3, <2>1
  <2>3. Looped(h, n, t(n))
    BY LoopIs
  <2>4. t(n) \in LoopState /\ (t(n).accel0 = None => t(n).gyros_data = <<>>)
    <3>1. t(n) \in LoopState
      BY <2>3 DEF Looped
    <3>2. ASSUME t(n).accel0 = None PROVE t(n).gyros_data = <<>>
      <4> DEFINE j == LastAccel(h, n)
      <4>1. j \in 0..n /\ n \in Nat /\ (j = 0 => \A k \in 1..n : LastAccel(h, k) = 0)
        BY LastAccelNext
      <4>2. j # 0 => h[j] # None
        BY <1>1, <4>1, NoneAssumption
      <4>3. j = 0
        BY <2>3, <3>2, <4>2 DEF Looped
      <4>4. Held(h, n) = {}
        BY <4>1, <4>3 DEF Held, Follows
      <4>5. Len(t(n).gyros_data) = 0
        BY <2>3, <4>4, FS_EmptySet DEF Looped
      <4>6. t(n).gyros_data \in Seq(Samples)
        BY <3>1 DEF LoopState
      <4> HIDE DEF t
      <4>7. QED BY <4>5, <4>6
    <3>3. QED BY <3>1, <3>2
  <2> DEFINE fill == FillImuData_LinearInterpolation(c(n).history, x)
  <2>5. /\ Keeps(fill.history, t(n + 1))
        /\ t(n).imu_msgs \o fill.imu_msgs = t(n + 1).imu_msgs
    <3>1. Keeps(c(n).history, t(n))
      BY <1>5
    <3> HIDE DEF c, t, x
    <3>2. QED BY <2>2, <2>4, <3>1, CallIs
  <2>6. /\ c(n + 1).history = fill.history
        /\ c(n + 1).imu_msgs = c(n).imu_msgs \o fill.imu_msgs
    <3>1. c(n + 1) = Call(c(n), x)
      BY <2>2
    <3>2. Call(c(n), x) = [history |-> fill.history,
                           imu_msgs |-> c(n).imu_msgs \o fill.imu_msgs]
      BY Zenon DEF Call
    <3> DEFINE r == c(n + 1)
               msgs == c(n).imu_msgs \o fill.imu_msgs
    <3>3. r = [history |-> fill.history, imu_msgs |-> msgs]
      BY <3>1, <3>2, Zenon
    <3> HIDE DEF r, msgs, fill
    <3>4. r.history = fill.history /\ r.imu_msgs = msgs
      BY <3>3
    <3>5. QED BY <3>4, Zenon DEF r, msgs
  <2>7. c(n).imu_msgs = t(n).imu_msgs
    BY <1>5
  <2> HIDE DEF c, t, fill
  <2>8. QED BY <2>1, <2>5, <2>6, <2>7
<1>6. N \in T
  <2> HIDE DEF N, T
  <2>1. N \in 0..N
    BY <1>1
  <2>2. QED BY <1>1, <1>4, <1>5, <2>1, Induct
<1>7. QED BY <1>6

---------------------------------------------------------------------------
\* The gyro samples between two accel samples, as InterpolationExact has them.
Between(h) ==
  LET accel == {k \in DOMAIN h : h[k].type = "accel"}
  IN  {k \in DOMAIN h \ accel :
        /\ \E j \in accel : j > k
        /\ \E i \in accel : /\ i < k /\ h[i].time <= h[k].time
                            /\ accel \cap (i+1)..k = {}}

LEMMA ExactIs ==
  InterpolationExact <=>
    Exact(Calls(heard)[Len(heard)].imu_msgs, heard, Between(heard))
BY Zenon DEF InterpolationExact, Exact, Calls, Call, Silence, Between

LEMMA BetweenIs ==
  ASSUME NEW h \in Seq(Samples)
  PROVE  Between(h) = Given(h, Len(h))
<1> DEFINE N == Len(h)
           accel == {k \in DOMAIN h : h[k].type = "accel"}
           L == LastAccel(h, N)
<1>1. /\ N \in Nat /\ DOMAIN h = 1..N
      /\ \A k \in 1..N : h[k] \in Samples /\ (h[k].type = "accel" \/ h[k].type = "gyro")
  <2>1. N \in Nat /\ DOMAIN h = 1..N /\ \A k \in 1..N : h[k] \in Samples
    OBVIOUS
  <2>2. \A x \in Samples : x.type = "accel" \/ x.type = "gyro"
    BY DEF Samples, Stream
  <2>3. QED BY <2>1, <2>2
<1>2. \A k \in 1..N : k \in DOMAIN h \ accel <=> h[k].type = "gyro"
  BY <1>1
<1>3. \A k \in 1..N : k \in accel <=> h[k].type = "accel"
  BY <1>1
<1>4. accel \subseteq 1..N
  BY <1>1
<1>5. Between(h) = {k \in DOMAIN h \ accel :
        /\ \E j \in accel : j > k
        /\ \E i \in accel : /\ i < k /\ h[i].time <= h[k].time
                            /\ accel \cap (i+1)..k = {}}
  BY DEF Between
<1> HIDE DEF N, accel
<1>6. IsLast(h, N, L)
  BY <1>1, LastAccelIs
<1>7. ASSUME NEW k \in 1..N, h[k].type = "gyro"
      PROVE  (\E j \in accel : j > k) <=> k < L
  <2> HIDE DEF L
  <2>1. QED BY <1>1, <1>3, <1>4, <1>6, <1>7 DEF IsLast
<1>8. ASSUME NEW k \in 1..N, h[k].type = "gyro"
      PROVE  (\E i \in accel : /\ i < k /\ h[i].time <= h[k].time
                               /\ accel \cap (i+1)..k = {})
               <=> Follows(h, k)
  <2> DEFINE m == LastAccel(h, k)
  <2>1. k \in Nat /\ IsLast(h, k, m)
    BY <1>1, LastAccelIs
  <2>2. ASSUME NEW i \in accel, i < k, h[i].time <= h[k].time,
               accel \cap (i+1)..k = {}
        PROVE  Follows(h, k)
    <3>1. i \in 1..k /\ h[i].type = "accel"
      BY <1>1, <1>3, <1>4, <2>2
    <3>2. \A l \in i + 1..k : h[l].type # "accel"
      <4>1. \A l \in i + 1..k : l \in 1..N
        BY <1>1, <3>1
      <4>2. QED BY <1>3, <2>2, <4>1
    <3>3. IsLast(h, k, i)
      BY <3>1, <3>2 DEF IsLast
    <3>4. m = i /\ i # 0
      <4> HIDE DEF m
      <4>1. QED BY <2>1, <3>1, <3>3, LastUnique
    <3>5. QED BY <1>8, <2>2, <3>4 DEF Follows
  <2>3. ASSUME Follows(h, k)
        PROVE  \E i \in accel : /\ i < k /\ h[i].time <= h[k].time
                                /\ accel \cap (i+1)..k = {}
    <3>1. m # 0 /\ h[m].time <= h[k].time
      BY <2>3 DEF Follows
    <3> HIDE DEF m
    <3>2. /\ m \in 1..k /\ h[m].type = "accel"
          /\ \A l \in m + 1..k : h[l].type # "accel"
      BY <2>1, <3>1 DEF IsLast
    <3>3. m \in 1..N /\ m < k
      BY <1>1, <1>8, <3>2
    <3>4. m \in accel
      BY <1>3, <3>2, <3>3
    <3>5. accel \cap (m + 1)..k = {}
      BY <1>3, <1>4, <3>2
    <3>6. QED BY <3>1, <3>3, <3>4, <3>5
  <2>4. QED BY <2>2, <2>3
<1>9. Given(h, N) = {k \in 1..N : Follows(h, k) /\ k < L}
  BY DEF Given
<1>10. \A k : Follows(h, k) => h[k].type = "gyro"
  BY DEF Follows
<1> HIDE DEF L
<1>11. ASSUME NEW k PROVE k \in Between(h) <=> k \in Given(h, N)
  <2>1. CASE k \in 1..N /\ h[k].type = "gyro"
    BY <1>1, <1>2, <1>5, <1>7, <1>8, <1>9, <2>1
  <2>2. CASE ~ (k \in 1..N /\ h[k].type = "gyro")
    BY <1>1, <1>2, <1>5, <1>9, <1>10, <2>2
  <2>3. QED BY <2>1, <2>2
<1>12. Between(h) = Given(h, N)
  BY <1>11, Zenon
<1>13. QED BY <1>12 DEF N

\* Of ordered samples every gyro sample between two accel samples gives its message.
LEMMA OrderedExact == Ordered(heard) => InterpolationExact
<1> SUFFICES ASSUME Ordered(heard) PROVE InterpolationExact
  OBVIOUS
<1>1. heard \in Seq(Samples) /\ Len(heard) \in 0..Len(heard)
  BY DEF Ordered
<1>2. Exact(Turns(heard)[Len(heard)].imu_msgs, heard, Given(heard, Len(heard)))
  BY <1>1, LoopIs DEF Looped
<1>3. QED BY <1>1, <1>2, CallsFollow, BetweenIs, ExactIs

---------------------------------------------------------------------------
\* The samples heard are ordered, and one on its way is younger than those heard.
Timed ==
  /\ Ordered(heard)
  /\ \A k \in 1..Len(heard) : heard[k].time <= clock
  /\ \A s \in Stream : calling[s] # None =>
       /\ calling[s].data = calling[s].time /\ calling[s].time <= clock
  /\ calling["accel"] # None =>
       \A k \in 1..Len(heard) :
         heard[k].type = "accel" => heard[k].time < calling["accel"].time

LEMMA InitTimed == Init => Timed
<1> SUFFICES ASSUME Init PROVE Timed
  OBVIOUS
<1>1. heard = <<>> /\ \A s \in Stream : calling[s] = None
  BY DEF Init
<1>2. <<>> \in Seq(Samples) /\ Len(<<>>) = 0
  OBVIOUS
<1>3. QED BY <1>1, <1>2 DEF Timed, Ordered, Stream

LEMMA NextTimed ==
  ASSUME Inv, Rest, Timed, [Next]_vars
  PROVE  Timed'
<1>1. CASE UNCHANGED <<heard, calling, clock>>
  BY <1>1 DEF Timed, Ordered
<1>2. CASE heard' = <<>> /\ UNCHANGED <<calling, clock>>
  <2>1. <<>> \in Seq(Samples) /\ Len(<<>>) = 0
    OBVIOUS
  <2>2. QED BY <1>2, <2>1 DEF Timed, Ordered
<1>3. clock \in Nat /\ calling \in [Stream -> Samples \cup {None}]
  BY BoundAssumption DEF Inv, Types
<1>4. ASSUME NEW s \in Stream, imu_callback(s)
      PROVE  Timed'
  <2>1. heard' = heard /\ clock' = clock + 1
        /\ calling' \in {calling, [calling EXCEPT ![s] = Sample(s, clock')]}
    <3> DEFINE sample == Sample(s, clock')
    <3>1. /\ heard' = heard /\ clock' = clock + 1
          /\ calling' = IF _imu_sync_method = "none" THEN calling
                        ELSE [calling EXCEPT ![s] = sample]
      BY <1>4 DEF imu_callback, messages
    <3> HIDE DEF sample
    <3>2. calling' \in {calling, [calling EXCEPT ![s] = sample]}
      BY <3>1
    <3>3. QED BY <3>1, <3>2, Zenon DEF sample
  <2>2. /\ Ordered(heard) /\ \A k \in 1..Len(heard) : heard[k].time \in Int
    <3>1. heard \in Seq(Samples) /\ Ordered(heard)
      BY DEF Timed, Ordered
    <3>2. \A x \in Samples : x.time \in Int
      BY BoundAssumption DEF Samples
    <3>3. QED BY <3>1, <3>2
  <2>3. \A r \in Stream : calling[r] # None => calling[r].time \in Int
    BY <1>3, BoundAssumption DEF Samples
  <2>4. \A k \in 1..Len(heard) : heard'[k].time <= clock' /\ heard[k].time < clock'
    BY <1>3, <2>1, <2>2 DEF Timed
  <2>5. \A r \in Stream : calling'[r] # None =>
           \/ r = s /\ calling'[r] = Sample(s, clock')
           \/ calling'[r] = calling[r]
    BY <1>3, <2>1
  <2>6. /\ Sample(s, clock').data = clock' /\ Sample(s, clock').time = clock'
        /\ clock' \in Int
    BY <1>3, <2>1 DEF Sample
  <2>7. ASSUME NEW r \in Stream, calling'[r] # None
        PROVE  calling'[r].data = calling'[r].time /\ calling'[r].time <= clock'
    <3>1. CASE calling'[r] = Sample(s, clock')
      BY <2>6, <3>1
    <3>2. CASE calling'[r] = calling[r]
      <4>1. /\ calling[r].data = calling[r].time /\ calling[r].time <= clock
            /\ calling[r].time \in Int
        BY <2>3, <2>7, <3>2 DEF Timed
      <4>2. QED BY <1>3, <2>1, <3>2, <4>1
    <3>3. QED BY <2>5, <2>7, <3>1, <3>2
  <2>8. ASSUME calling'["accel"] # None,
               NEW k \in 1..Len(heard), heard[k].type = "accel"
        PROVE  heard[k].time < calling'["accel"].time
    <3>1. "accel" \in Stream
      BY DEF Stream
    <3>2. CASE calling'["accel"] = Sample(s, clock')
      BY <2>4, <2>6, <3>2
    <3>3. CASE calling'["accel"] = calling["accel"]
      BY <2>8, <3>3 DEF Timed
    <3>4. QED BY <2>5, <2>8, <3>1, <3>2, <3>3
  <2>9. QED BY <2>1, <2>2, <2>4, <2>7, <2>8 DEF Timed, Ordered
<1>5. ASSUME NEW s \in Stream, imu_callback_sync(s)
      PROVE  Timed'
  <2> DEFINE x == calling[s]
             n == Len(heard)
  <2>1. /\ x # None /\ x \in Samples /\ x.type = s /\ x.data = x.time /\ x.time <= clock
        /\ heard \in Seq(Samples) /\ n \in Nat
        /\ calling' = [calling EXCEPT ![s] = None] /\ clock' = clock
        /\ heard' \in {heard, Append(heard, x)}
    BY <1>5 DEF imu_callback_sync, messages, Inv, Types, Timed, Ordered
  <2>2. \A r \in Stream : calling'[r] # None => r # s /\ calling'[r] = calling[r]
    BY <1>3, <2>1
  <2>3. CASE heard' = heard
    BY <2>1, <2>2, <2>3 DEF Timed, Ordered, Stream
  <2>4. CASE heard' = Append(heard, x)
    <3>1. /\ heard' \in Seq(Samples) /\ Len(heard') = n + 1 /\ heard'[n + 1] = x
          /\ \A k \in 1..n : heard'[k] = heard[k]
      BY <2>1, <2>4
    <3>2. \A k \in 1..n + 1 : k \in 1..n \/ k = n + 1
      BY <2>1
    <3>3. /\ \A k \in 1..n : heard[k].data = heard[k].time /\ heard[k].time <= clock
          /\ \A i, j \in 1..n :
               i < j /\ heard[i].type = "accel" /\ heard[j].type = "accel"
                 => heard[i].time < heard[j].time
          /\ x.type = "accel" =>
               \A k \in 1..n : heard[k].type = "accel" => heard[k].time < x.time
      BY <2>1 DEF Timed, Ordered
    <3> HIDE DEF x, n
    <3>4. \A k \in 1..n + 1 : heard'[k].data = heard'[k].time /\ heard'[k].time <= clock'
      BY <2>1, <3>1, <3>2, <3>3
    <3>5. ASSUME NEW i \in 1..n + 1, NEW j \in 1..n + 1, i < j,
                 heard'[i].type = "accel", heard'[j].type = "accel"
          PROVE  heard'[i].time < heard'[j].time
      <4>1. i \in 1..n
        BY <2>1, <3>5
      <4>2. CASE j \in 1..n
        BY <3>1, <3>3, <3>5, <4>1, <4>2
      <4>3. CASE j = n + 1
        BY <3>1, <3>3, <3>5, <4>1, <4>3
      <4>4. QED BY <3>2, <4>2, <4>3
    <3>6. Ordered(heard)'
      BY <3>1, <3>4, <3>5 DEF Ordered
    <3>7. ASSUME NEW r \in Stream, calling'[r] # None
          PROVE  calling'[r].data = calling'[r].time /\ calling'[r].time <= clock'
      BY <2>1, <2>2, <3>7 DEF Timed
    <3>8. ASSUME calling'["accel"] # None,
                 NEW k \in 1..n + 1, heard'[k].type = "accel"
          PROVE  heard'[k].time < calling'["accel"].time
      <4>1. s # "accel" /\ calling'["accel"] = calling["accel"]
        BY <2>2, <3>8 DEF Stream
      <4>2. k \in 1..n
        BY <2>1, <3>1, <3>2, <3>8, <4>1
      <4>3. QED BY <3>1, <3>8, <4>1, <4>2 DEF Timed, n
    <3>9. QED BY <3>1, <3>4, <3>6, <3>7, <3>8 DEF Timed
  <2>5. QED BY <2>1, <2>3, <2>4
<1>6. CASE \/ ClearHistory \/ Subscribe \/ StopSensor \/ StopFails
           \/ StartPublishers \/ StartVideoPublishers
           \/ \E m \in Method : SetMethod(m)
           \/ \E s \in Stream, b \in BOOLEAN : Enable(s, b)
           \/ AppendTransforms \/ OpenSensor \/ OpenFails
           \/ UNCHANGED vars
  <2>1. UNCHANGED <<calling, clock>> /\ (heard' = heard \/ heard' = <<>>)
    BY <1>6 DEF ClearHistory, Subscribe, StopSensor, StopFails, StopPublishers,
       StartPublishers, StartVideoPublishers, Unite, SetMethod, Enable,
       AppendTransforms, OpenSensor, OpenFails, Gap, vars, messages, samples
  <2>2. QED BY <1>1, <1>2, <2>1
<1>7. QED BY <1>4, <1>5, <1>6 DEF Next

\* Over the samples that reach the topic, FillImuData_LinearInterpolation gives one
\* message for each gyro sample between two accel samples, with the acceleration of
\* its time (InterpolationExact, README.md:480), however many samples there are and
\* however the two callbacks are interleaved.
THEOREM InterpolationIsExact == Spec => []InterpolationExact
<1>1. Timed => InterpolationExact
  BY OrderedExact DEF Timed
<1>2. QED BY <1>1, InitTimed, NextTimed, RestInvariance, PTL DEF Spec
===========================================================================
