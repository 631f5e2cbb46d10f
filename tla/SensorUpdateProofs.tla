------------------------ MODULE SensorUpdateProofs ------------------------
(***************************************************************************)
(* Theorems about SensorUpdate for every device (any number of sensors and *)
(* streams, any set of settings) and every bound.                          *)
(***************************************************************************)
EXTENDS SensorUpdate, TLAPS

\* The order facts about loop counters, used at every step of a loop.
LEMMA LoopFacts ==
  ASSUME NEW n \in 1..NumSensors + 1
  PROVE  /\ n \in Nat
         /\ n \in Sensor => n + 1 \in 1..NumSensors + 1
         /\ n = NumSensors + 1 => \A i \in Sensor : i < n
         /\ \A i \in Sensor : ~(i < 1)
         /\ \A i \in Sensor : i < n + 1 => i < n \/ i = n
  BY SensorAssumption DEF Sensor

\* The settings that are asked for are those of the parameters.
LEMMA WantType ==
  /\ TypeOK => want \in [Stream -> Setting]
  /\ UNCHANGED <<enabled, setting>> => want' = want
  BY DEF TypeOK, want, Setting

\* Stopping or starting a sensor leaves a setting for every stream.
LEMMA DeviceTypes ==
  ASSUME TypeOK, NEW i \in Sensor
  PROVE  /\ Stopped(i) \in [Stream -> Setting]
         /\ Started(i) \in [Stream -> Setting]
         /\ Wanted(i) \subseteq Stream /\ Active(i) \subseteq Stream
  BY SensorAssumption, WantType DEF TypeOK, Stopped, Started, Wanted, Active, Setting

\* The publishers of a set of streams come and go within their types.
LEMMA TopicTypes ==
  ASSUME TypeOK, NEW S \in SUBSET Stream,
         StopPublishers(S) \/ StartPublishers(S) \/ UNCHANGED topics
  PROVE  /\ publishers' \subseteq Stream /\ depth_aligned' \subseteq Alignable
         /\ camera_info' \in [Stream -> Setting]
         /\ static_tf' \in [Stream -> Nat]
<1>1. CASE StopPublishers(S)
  <2>1. \A s \in Stream : (IF s \in S /\ static_tf[s] > 0
                           THEN static_tf[s] - 1 ELSE static_tf[s]) \in Nat
    BY DEF TypeOK
  <2>2. QED BY <1>1, <2>1 DEF StopPublishers, TypeOK
<1>2. CASE StartPublishers(S)
  BY <1>2, WantType DEF StartPublishers, TypeOK
<1>3. CASE UNCHANGED topics
  BY <1>3 DEF topics, TypeOK
<1>4. QED BY <1>1, <1>2, <1>3

---------------------------------------------------------------------------
\* The node starts with well-typed variables.
LEMMA InitType == Init => TypeOK
<1> SUFFICES ASSUME Init PROVE TypeOK
  OBVIOUS
<1>1. 1 \in 1..NumSensors + 1
  BY SensorAssumption
<1>2. /\ enabled \in [Stream -> BOOLEAN] /\ setting \in [Stream -> Setting]
      /\ active \in [Stream -> Setting] /\ stuck \subseteq Sensor
      /\ camera_info \in [Stream -> Setting]
      /\ static_tf \in [Stream -> Nat] /\ broadcast \in [Stream -> Nat]
      /\ publishers \subseteq Stream /\ depth_aligned \subseteq Alignable
  BY DEF Init, Setting
<1>3. pc \in [Updater -> Place]
  BY DEF Init, Place
<1>4. /\ align_enabled \in BOOLEAN /\ is_profile_changed \in BOOLEAN
      /\ is_align_depth_changed \in BOOLEAN
  BY Zenon DEF Init
<1>5. QED BY <1>1, <1>2, <1>3, <1>4 DEF Init, TypeOK

\* The steps of an update keep the types.
LEMMA UpdateType ==
  ASSUME TypeOK, NEW u \in Updater, UpdateSensors(u)
  PROVE  TypeOK'
<1> USE DEF device, settings, flags, mutexes, updaters, service, owning, history
<1>1. CASE EnterUpdate(u)
  <2>1. 1 \in 1..NumSensors + 1
    BY SensorAssumption
  <2>2. at' \in [Updater -> 1..NumSensors + 1]
    BY <1>1, <2>1 DEF EnterUpdate, TypeOK
  <2>3. pc' \in [Updater -> Place]
    BY <1>1 DEF EnterUpdate, TypeOK, Place
  <2>4. update_sensor_mutex' \in Updater \cup {"free"}
    BY <1>1 DEF EnterUpdate
  <2>5. QED BY <1>1, <2>2, <2>3, <2>4 DEF EnterUpdate, TypeOK, topics
<1>2. CASE StopSensor(u)
  <2> DEFINE i == at[u]
  <2>1. i \in Sensor /\ i + 1 \in 1..NumSensors + 1
    BY <1>2, LoopFacts DEF StopSensor, TypeOK
  <2>2. StopPublishers(Active(i)) \/ UNCHANGED topics
    BY <1>2 DEF StopSensor
  <2>3. /\ publishers' \subseteq Stream /\ depth_aligned' \subseteq Alignable
        /\ camera_info' \in [Stream -> Setting]
        /\ static_tf' \in [Stream -> Nat]
    BY <2>1, <2>2, DeviceTypes, TopicTypes
  <2>4. active' \in [Stream -> Setting]
    BY <1>2, <2>1, DeviceTypes DEF StopSensor, TypeOK
  <2>5. at' \in [Updater -> 1..NumSensors + 1]
    BY <1>2, <2>1 DEF StopSensor, TypeOK
  <2>6. QED BY <1>2, <2>3, <2>4, <2>5 DEF StopSensor, TypeOK
<1>3. CASE StopLoopEnds(u)
  BY <1>3, SensorAssumption DEF StopLoopEnds, TypeOK, topics, Place
<1>4. CASE StartSensor(u)
  <2> DEFINE i == at[u]
  <2>1. i \in Sensor /\ i + 1 \in 1..NumSensors + 1
    BY <1>4, LoopFacts DEF StartSensor, TypeOK
  <2>2. StartPublishers(Wanted(i)) \/ UNCHANGED topics
    BY <1>4 DEF StartSensor
  <2>3. /\ publishers' \subseteq Stream /\ depth_aligned' \subseteq Alignable
        /\ camera_info' \in [Stream -> Setting]
        /\ static_tf' \in [Stream -> Nat]
    BY <2>1, <2>2, DeviceTypes, TopicTypes
  <2>4. active' \in [Stream -> Setting]
    BY <1>4, <2>1, DeviceTypes DEF StartSensor, TypeOK
  <2>5. at' \in [Updater -> 1..NumSensors + 1]
    BY <1>4, <2>1 DEF StartSensor, TypeOK
  <2>6. QED BY <1>4, <2>3, <2>4, <2>5 DEF StartSensor, TypeOK
<1>5. CASE StartFails(u)
  <2>1. at[u] \in Sensor /\ StartPublishers(Wanted(at[u]))
    BY <1>5 DEF StartFails
  <2>2. /\ publishers' \subseteq Stream /\ depth_aligned' \subseteq Alignable
        /\ camera_info' \in [Stream -> Setting]
        /\ static_tf' \in [Stream -> Nat]
    BY <2>1, DeviceTypes, TopicTypes
  <2>3. failures' \in Nat
    BY <1>5 DEF StartFails, TypeOK
  <2>4. active' \in [Stream -> Setting]
    BY <1>5, <2>1, DeviceTypes DEF StartFails, TypeOK
  <2>5. QED BY <1>5, <2>2, <2>3, <2>4 DEF StartFails, Leave, TypeOK, Place
<1>6. CASE FinishUpdate(u)
  BY <1>6 DEF FinishUpdate, Leave, TypeOK, topics, Place
<1>7. CASE StopFails(u)
  <2> DEFINE i == at[u]
  <2>1. i \in Sensor /\ i + 1 \in 1..NumSensors + 1 /\ StopPublishers(Active(i))
    BY <1>7, LoopFacts DEF StopFails, TypeOK
  <2>2. /\ publishers' \subseteq Stream /\ depth_aligned' \subseteq Alignable
        /\ camera_info' \in [Stream -> Setting]
        /\ static_tf' \in [Stream -> Nat]
    BY <2>1, DeviceTypes, TopicTypes
  <2>3. failures' \in Nat /\ stuck' \subseteq Sensor
    BY <1>7, <2>1 DEF StopFails, TypeOK
  <2>4. at' \in [Updater -> 1..NumSensors + 1]
    BY <1>7, <2>1 DEF StopFails, TypeOK
  <2>5. QED BY <1>7, <2>2, <2>3, <2>4 DEF StopFails, TypeOK
<1>8. QED BY <1>1, <1>2, <1>3, <1>4, <1>5, <1>6, <1>7 DEF UpdateSensors

\* So do the other steps of the setup and the monitor thread,
LEMMA ThreadType ==
  ASSUME TypeOK, SpawnMonitor \/ Monitor
  PROVE  TypeOK'
<1> USE DEF device, topics, settings, flags, mutexes, updaters, service, owning,
            history
<1>1. CASE SpawnMonitor
  BY <1>1 DEF SpawnMonitor, TypeOK, Place
<1>2. CASE MonitorWakes
  BY <1>2 DEF MonitorWakes, TypeOK, Place
<1>3. CASE MonitorEnds
  BY <1>3 DEF MonitorEnds, TypeOK, Place
<1>4. CASE ClearFlags
  BY <1>4 DEF ClearFlags, Updating, TypeOK, Place
<1>5. QED BY <1>1, <1>2, <1>3, <1>4 DEF Monitor

\* those of the executor,
LEMMA ExecutorType ==
  ASSUME TypeOK, Callback \/ Request
  PROVE  TypeOK'
<1> USE DEF device, topics, settings, flags, mutexes, updaters, service, owning,
            history
<1>1. CASE RaiseFlag
  BY <1>1 DEF RaiseFlag, Updating, TypeOK
<1>2. CASE HWResetStops
  <2>1. reset_at' \in 1..NumSensors + 1 /\ active' \in [Stream -> Setting]
    BY <1>2, LoopFacts, DeviceTypes DEF HWResetStops, TypeOK
  <2>2. QED BY <1>2, <2>1 DEF HWResetStops, TypeOK
<1>3. CASE HWResetEnds
  BY <1>3 DEF HWResetEnds, TypeOK
<1>4. ASSUME NEW s \in Stream, NEW b \in BOOLEAN, WriteEnable(s, b)
      PROVE  TypeOK'
  <2>1. enabled' \in [Stream -> BOOLEAN] /\ overlapped' \in BOOLEAN
    BY <1>4, Zenon DEF WriteEnable, TypeOK
  <2>2. writes' \in Nat
    BY <1>4 DEF WriteEnable, TypeOK
  <2>3. QED BY <1>4, <2>1, <2>2 DEF WriteEnable, TypeOK
<1>5. CASE WriteAlign
  BY <1>5 DEF WriteAlign, TypeOK
<1>6. CASE HWReset
  BY <1>6, SensorAssumption DEF HWReset, TypeOK
<1>7. ASSUME NEW S \in SettingParam, NEW f \in [S -> Setting],
             WriteSetting(S, f)
      PROVE  TypeOK'
  <2>1. setting' \in [Stream -> Setting] /\ overlapped' \in BOOLEAN
    BY <1>7 DEF WriteSetting, TypeOK
  <2>2. QED BY <1>7, <2>1 DEF WriteSetting, TypeOK
<1>8. CASE HWResetStopFails
  <2>1. reset_at' \in 1..NumSensors + 1
    BY <1>8, LoopFacts DEF HWResetStopFails, TypeOK
  <2>2. failures' \in Nat /\ stuck' \subseteq Sensor
    BY <1>8 DEF HWResetStopFails, TypeOK
  <2>3. QED BY <1>8, <2>1, <2>2 DEF HWResetStopFails, TypeOK, topics
<1>9. QED BY <1>1, <1>2, <1>3, <1>4, <1>5, <1>6, <1>7, <1>8 DEF Callback, Request

\* and those of the destructor.
LEMMA OwnerType ==
  ASSUME TypeOK, Destroy \/ Destructor
  PROVE  TypeOK'
<1> USE DEF device, topics, settings, flags, mutexes, updaters, service, history
<1>1. CASE Destroy
  BY <1>1 DEF Destroy, TypeOK
<1>2. CASE JoinMonitor
  BY <1>2 DEF JoinMonitor, TypeOK
<1>3. CASE DestroyStops
  <2>1. owner_at' \in 1..NumSensors + 1 /\ active' \in [Stream -> Setting]
    BY <1>3, LoopFacts, DeviceTypes DEF DestroyStops, TypeOK
  <2>2. QED BY <1>3, <2>1 DEF DestroyStops, TypeOK
<1>4. CASE Destroyed
  BY <1>4 DEF Destroyed, TypeOK
<1>5. CASE DestroyStopFails
  <2>1. owner_at' \in 1..NumSensors + 1
    BY <1>5, LoopFacts DEF DestroyStopFails, TypeOK
  <2>2. failures' \in Nat /\ stuck' \subseteq Sensor
    BY <1>5 DEF DestroyStopFails, TypeOK
  <2>3. QED BY <1>5, <2>1, <2>2 DEF DestroyStopFails, TypeOK, topics
<1>6. QED BY <1>1, <1>2, <1>3, <1>4, <1>5 DEF Destructor

\* A step that changes nothing changes no type.
LEMMA StutterType == TypeOK /\ UNCHANGED vars => TypeOK'
  BY DEF vars, TypeOK, device, topics, settings, flags, mutexes, updaters,
         service, owning, history

\* Every variable keeps its type in every behavior.
THEOREM TypeCorrect == Spec => []TypeOK
<1>1. TypeOK /\ [Next]_vars => TypeOK'
  BY UpdateType, ThreadType, ExecutorType, OwnerType, StutterType DEF Next
<1>2. QED BY InitType, <1>1, PTL DEF Spec

---------------------------------------------------------------------------
\* Distinct sensors share no stream, so an update of one leaves the others.
LEMMA StopEffect ==
  ASSUME TypeOK, NEW i \in Sensor, active' = Stopped(i), want' = want
  PROVE  /\ Down(i)'
         /\ \A j \in Sensor : Down(j) => Down(j)'
         /\ \A j \in Sensor : j # i /\ Synced(j) => Synced(j)'
<1>1. \A j \in Sensor : StreamsOf[j] \subseteq Stream
  BY SensorAssumption
<1>2. \A j \in Sensor : j # i => StreamsOf[j] \cap StreamsOf[i] = {}
  BY SensorAssumption
<1>3. QED BY <1>1, <1>2 DEF Stopped, Down, Synced

\* Starting a sensor that runs has no effect; a stopped one gets its settings.
LEMMA StartEffect ==
  ASSUME TypeOK, NEW i \in Sensor, active' = Started(i), want' = want
  PROVE  /\ Down(i) => Synced(i)'
         /\ Synced(i) => Synced(i)'
         /\ \A j \in Sensor : j # i /\ Down(j) => Down(j)'
         /\ \A j \in Sensor : j # i /\ Synced(j) => Synced(j)'
<1>1. \A j \in Sensor : StreamsOf[j] \subseteq Stream
  BY SensorAssumption
<1>2. \A j \in Sensor : j # i => StreamsOf[j] \cap StreamsOf[i] = {}
  BY SensorAssumption
<1>3. CASE CanStart(i)
  BY <1>1, <1>2, <1>3 DEF Started, Down, Synced
<1>4. CASE ~CanStart(i)
  <2>1. active' = active /\ ~Down(i)
    BY <1>1, <1>4 DEF Started, CanStart, Active, Down
  <2>2. QED BY <2>1 DEF Down, Synced
<1>5. QED BY <1>3, <1>4

\* An unchanged device and unchanged parameters change no sensor's status.
LEMMA SameDevice ==
  ASSUME UNCHANGED active
  PROVE  /\ \A j \in Sensor : Down(j) => Down(j)'
         /\ want' = want => \A j \in Sensor : Synced(j) => Synced(j)'
  BY DEF Down, Synced

\* The mutexes and the places of the threads go together.
LEMMA MutexStep ==
  ASSUME TypeOK, MutexInv, [Next]_vars
  PROVE  MutexInv'
<1> USE DEF MutexInv, TypeOK, Place
<1>1. CASE SpawnMonitor
  BY <1>1 DEF SpawnMonitor, mutexes, Updater
<1>2. ASSUME NEW u \in Updater, UpdateSensors(u)
      PROVE  MutexInv'
  <2>1. CASE EnterUpdate(u)
    BY <2>1 DEF EnterUpdate, Updater
  <2>2. CASE StopSensor(u)
    BY <2>2 DEF StopSensor, mutexes
  <2>3. CASE StopLoopEnds(u)
    BY <2>3 DEF StopLoopEnds, mutexes, Updater
  <2>4. CASE StartSensor(u)
    BY <2>4 DEF StartSensor, mutexes
  <2>5. CASE StartFails(u)
    BY <2>5 DEF StartFails, Leave, Updater
  <2>6. CASE FinishUpdate(u)
    BY <2>6 DEF FinishUpdate, Leave, Updater
  <2>7. CASE StopFails(u)
    BY <2>7 DEF StopFails, mutexes
  <2>8. QED BY <1>2, <2>1, <2>2, <2>3, <2>4, <2>5, <2>6, <2>7 DEF UpdateSensors
<1>3. CASE Monitor
  BY <1>3 DEF Monitor, MonitorWakes, MonitorEnds, ClearFlags, mutexes, Updater
<1>4. CASE UNCHANGED <<pc, mutexes>>
  BY <1>4 DEF mutexes
<1>5. Callback \/ Request \/ Destroy \/ Destructor \/ UNCHANGED vars
        => UNCHANGED <<pc, mutexes>>
  BY DEF Callback, RaiseFlag, HWResetStops, HWResetStopFails, HWResetEnds, Request,
         WriteEnable, WriteSetting, WriteAlign, HWReset, Destroy, Destructor,
         JoinMonitor, DestroyStops, DestroyStopFails, Destroyed, updaters, vars
<1>6. QED BY <1>1, <1>2, <1>3, <1>4, <1>5 DEF Next

\* Only one thread is inside updateSensors.
LEMMA OneUpdater ==
  ASSUME MutexInv, NEW u \in Updater, NEW w \in Updater,
         pc[u] \in {"stop", "start"}, pc[w] \in {"stop", "start"}
  PROVE  u = w
  BY DEF MutexInv

\* updateSensors is over before the destructor stops the sensors, and before
\* the destructor begins if it is the one setup() runs.
LEMMA UpdaterAlive ==
  ASSUME MutexInv, DestroyInv, NEW u \in Updater,
         pc[u] \in {"enter", "stop", "start"}
  PROVE  owner \notin {"stop", "down"} /\ (u = "setup" => owner = "up")
  BY DEF MutexInv, DestroyInv, Updater

\* Entering an update promises nothing yet.
LEMMA EnterStep ==
  ASSUME IInv, NEW u \in Updater, EnterUpdate(u)
  PROVE  ProgressInv' /\ SettledInv' /\ DestroyInv'
<1>1. /\ pc' = [pc EXCEPT ![u] = "stop"] /\ at' = [at EXCEPT ![u] = 1]
      /\ pc \in [Updater -> Place] /\ at \in [Updater -> 1..NumSensors + 1]
  BY LoopFacts DEF EnterUpdate, IInv, TypeOK
<1>2. \A w \in Updater : pc[w] \notin {"stop", "start"}
  BY DEF EnterUpdate, IInv, MutexInv, Updater
<1>3. ProgressInv'
  <2>1. \A i \in Sensor : ~(i < 1)
    BY SensorAssumption DEF Sensor
  <2>2. QED BY <1>1, <1>2, <2>1 DEF ProgressInv
<1>4. SettledInv'
  BY <1>1 DEF SettledInv, Settled, Updater
<1>5. DestroyInv'
  BY <1>1, UpdaterAlive DEF EnterUpdate, IInv, DestroyInv, owning, Updater
<1>6. QED BY <1>3, <1>4, <1>5

\* An iteration of the stopping loop leaves its sensor as wanted or stopped.
LEMMA StopSensorStep ==
  ASSUME IInv, NEW u \in Updater, StopSensor(u)
  PROVE  ProgressInv' /\ SettledInv' /\ DestroyInv'
<1>0. PICK k \in Sensor : at[u] = k
  BY DEF StopSensor
<1>1. /\ pc[u] = "stop" /\ at[u] = k /\ k \in Nat /\ pc' = pc /\ want' = want
      /\ at' = [at EXCEPT ![u] = k + 1] /\ at \in [Updater -> 1..NumSensors + 1]
  BY <1>0, LoopFacts DEF StopSensor, settings, want, IInv, TypeOK
<1>2. \A w \in Updater : Excused(w)' <=> Excused(w)
  BY DEF StopSensor, Excused, Announced, Pending, history, service, flags
<1>3. /\ Synced(k)' \/ Down(k)'
      /\ \A j \in Sensor : Synced(j) \/ Down(j) => Synced(j)' \/ Down(j)'
  <2>1. CASE ProfileChanged(k)
    BY <1>1, <2>1, StopEffect DEF StopSensor, IInv
  <2>2. CASE ~ProfileChanged(k)
    <3>1. active' = active /\ Synced(k)
      BY <1>1, <2>2 DEF StopSensor, ProfileChanged, Synced
    <3>2. QED BY <1>1, <3>1, SameDevice
  <2>3. QED BY <2>1, <2>2
<1>4. ProgressInv'
  <2>1. SUFFICES ASSUME NEW w \in Updater, pc[w] \in {"stop", "start"},
                        ~Excused(w), NEW i \in Sensor
                 PROVE  /\ pc[w] = "stop" /\ i < at'[w] => Synced(i)' \/ Down(i)'
                        /\ pc[w] = "start" => Synced(i)' \/ Down(i)'
                        /\ pc[w] = "start" /\ i < at'[w] => Synced(i)'
    BY <1>1, <1>2 DEF ProgressInv
  <2>2. w = u /\ at'[w] = k + 1
    BY <1>1, <2>1, OneUpdater DEF IInv
  <2>3. i < k => Synced(i) \/ Down(i)
    BY <1>1, <2>1, <2>2 DEF IInv, ProgressInv
  <2>4. i < k + 1 => i < k \/ i = k
    BY <1>1, LoopFacts DEF Sensor
  <2>5. QED BY <1>1, <1>3, <2>2, <2>3, <2>4
<1>5. SettledInv'
  BY <1>1 DEF SettledInv, Settled, Updater
<1>6. DestroyInv'
  BY <1>1, UpdaterAlive DEF StopSensor, IInv, DestroyInv, owning
<1>7. QED BY <1>4, <1>5, <1>6

\* A stop that fails leaves the sensor as it is, and excuses that.
LEMMA StopFailsStep ==
  ASSUME IInv, NEW u \in Updater, StopFails(u)
  PROVE  ProgressInv' /\ SettledInv' /\ DestroyInv'
<1>1. pc[u] = "stop" /\ dirty' /\ pc' = pc
  BY DEF StopFails
<1>2. ProgressInv' /\ SettledInv'
  BY <1>1 DEF ProgressInv, SettledInv, Excused
<1>3. DestroyInv'
  BY <1>1, UpdaterAlive DEF StopFails, IInv, DestroyInv, owning
<1>4. QED BY <1>2, <1>3

\* After the stopping loop, every sensor is as wanted or stopped.
LEMMA StopLoopEndsStep ==
  ASSUME IInv, NEW u \in Updater, StopLoopEnds(u)
  PROVE  ProgressInv' /\ SettledInv' /\ DestroyInv'
<1>1. /\ pc[u] = "stop" /\ pc' = [pc EXCEPT ![u] = "start"]
      /\ at[u] = NumSensors + 1 /\ at' = [at EXCEPT ![u] = 1]
      /\ pc \in [Updater -> Place] /\ at \in [Updater -> 1..NumSensors + 1]
      /\ UNCHANGED <<want, active>>
  BY LoopFacts DEF StopLoopEnds, settings, want, device, IInv, TypeOK
<1>2. Excused(u)' <=> Excused(u)
  BY <1>1 DEF StopLoopEnds, Excused, Announced, Pending, history, service, flags, Updater
<1>3. \A i \in Sensor : ~(i < 1) /\ i < NumSensors + 1
  BY SensorAssumption DEF Sensor
<1>4. \A w \in Updater : w # u => pc'[w] \notin {"stop", "start"}
  BY <1>1, OneUpdater DEF IInv
<1>5. ~Excused(u) => \A i \in Sensor : Synced(i) \/ Down(i)
  BY <1>1, <1>3 DEF IInv, ProgressInv
<1>6. ~Excused(u) => \A i \in Sensor : Synced(i)' \/ Down(i)'
  BY <1>1, <1>5, SameDevice
<1>7. ProgressInv'
  BY <1>1, <1>2, <1>3, <1>4, <1>6 DEF ProgressInv
<1>8. SettledInv'
  BY <1>1 DEF SettledInv, Settled, Updater
<1>9. DestroyInv'
  BY <1>1, UpdaterAlive DEF StopLoopEnds, IInv, DestroyInv, owning, Updater
<1>10. QED BY <1>7, <1>8, <1>9

\* An iteration of the starting loop leaves its sensor as wanted.
LEMMA StartSensorStep ==
  ASSUME IInv, NEW u \in Updater, StartSensor(u)
  PROVE  ProgressInv' /\ SettledInv' /\ DestroyInv'
<1>0. PICK k \in Sensor : at[u] = k
  BY DEF StartSensor
<1>1. /\ pc[u] = "start" /\ at[u] = k /\ k \in Nat /\ pc' = pc /\ want' = want
      /\ at' = [at EXCEPT ![u] = k + 1] /\ at \in [Updater -> 1..NumSensors + 1]
  BY <1>0, LoopFacts DEF StartSensor, settings, want, IInv, TypeOK
<1>2. \A w \in Updater : Excused(w)' <=> Excused(w)
  BY DEF StartSensor, Excused, Announced, Pending, history, service, flags
<1>3. /\ Synced(k) \/ Down(k) => Synced(k)'
      /\ \A j \in Sensor : j # k /\ Synced(j) => Synced(j)'
      /\ \A j \in Sensor : j # k /\ Down(j) => Down(j)'
  <2>1. CASE NeedsUpdate(k) /\ Wanted(k) # {}
    BY <1>1, <2>1, StartEffect DEF StartSensor, IInv
  <2>2. CASE ~(NeedsUpdate(k) /\ Wanted(k) # {})
    <3>1. active' = active
      BY <1>1, <2>2 DEF StartSensor, device
    <3>2. Down(k) => Synced(k)
      BY <2>2 DEF NeedsUpdate, ProfileChanged, Wanted, Down, Synced
    <3>3. QED BY <1>1, <3>1, <3>2, SameDevice
  <2>3. QED BY <2>1, <2>2
<1>4. ProgressInv'
  <2>1. SUFFICES ASSUME NEW w \in Updater, pc[w] \in {"stop", "start"},
                        ~Excused(w), NEW i \in Sensor
                 PROVE  /\ pc[w] = "start"
                        /\ Synced(i)' \/ Down(i)'
                        /\ i < at'[w] => Synced(i)'
    BY <1>1, <1>2 DEF ProgressInv
  <2>2. w = u /\ at'[w] = k + 1
    BY <1>1, <2>1, OneUpdater DEF IInv
  <2>3. (Synced(i) \/ Down(i)) /\ (i < k => Synced(i))
    BY <1>1, <2>1, <2>2 DEF IInv, ProgressInv
  <2>4. i < k + 1 => i < k \/ i = k
    BY <1>1, LoopFacts DEF Sensor
  <2>5. QED BY <1>1, <1>3, <2>2, <2>3, <2>4
<1>5. SettledInv'
  BY <1>1 DEF SettledInv, Settled, Updater
<1>6. DestroyInv'
  BY <1>1, UpdaterAlive DEF StartSensor, IInv, DestroyInv, owning
<1>7. QED BY <1>4, <1>5, <1>6

\* A failed start leaves the update, and excuses what it left undone.
LEMMA StartFailsStep ==
  ASSUME IInv, NEW u \in Updater, StartFails(u)
  PROVE  ProgressInv' /\ SettledInv' /\ DestroyInv'
<1>1. pc[u] = "start" /\ dirty'
  BY DEF StartFails
<1>2. ProgressInv' /\ SettledInv'
  BY <1>1 DEF ProgressInv, SettledInv, Settled, Excused, Announced
<1>3. DestroyInv'
  BY <1>1, UpdaterAlive
     DEF StartFails, Leave, IInv, TypeOK, DestroyInv, owning, Updater
<1>4. QED BY <1>2, <1>3

\* When an update returns, whatever it has not seen is still announced.
LEMMA FinishUpdateStep ==
  ASSUME IInv, NEW u \in Updater, FinishUpdate(u)
  PROVE  ProgressInv' /\ SettledInv' /\ DestroyInv'
<1>1. /\ pc[u] = "start" /\ at[u] = NumSensors + 1
      /\ pc' = [pc EXCEPT ![u] = IF u = "monitor" THEN "clear" ELSE "done"]
      /\ pc \in [Updater -> Place]
      /\ UNCHANGED <<want, active, dirty, executor, is_profile_changed>>
  BY DEF FinishUpdate, Leave, settings, want, device, history, service, flags, IInv,
         TypeOK
<1>2. \A i \in Sensor : i < NumSensors + 1
  BY SensorAssumption DEF Sensor
<1>3. ~Excused(u) => \A i \in Sensor : Synced(i)'
  <2>1. ~Excused(u) => \A i \in Sensor : Synced(i)
    BY <1>1, <1>2 DEF IInv, ProgressInv
  <2>2. QED BY <1>1, <2>1, SameDevice
<1>4. ProgressInv'
  BY <1>1, OneUpdater DEF IInv, ProgressInv
<1>5. SettledInv'
  BY <1>1, <1>3 DEF SettledInv, Settled, Excused, Announced, Pending, Updater
<1>6. DestroyInv'
  BY <1>1, UpdaterAlive DEF FinishUpdate, IInv, DestroyInv, owning, Updater
<1>7. QED BY <1>4, <1>5, <1>6

---------------------------------------------------------------------------
\* A step that changes neither the device nor the wanted settings, nor the
\* places of the threads, nor what excuses an update, keeps its progress.
LEMMA IdleStep ==
  ASSUME IInv,
         UNCHANGED <<want, device, pc, at, dirty, executor, is_profile_changed,
                     owner, owner_at>>
  PROVE  ProgressInv' /\ SettledInv' /\ DestroyInv'
<1>1. \A j \in Sensor : (Synced(j) <=> Synced(j)') /\ (Down(j) <=> Down(j)')
  BY DEF Synced, Down, device
<1>2. \A u \in Updater : Excused(u)' <=> Excused(u)
  BY DEF Excused, Announced, Pending
<1>3. ProgressInv'
  BY <1>1, <1>2 DEF IInv, ProgressInv
<1>4. SettledInv' /\ DestroyInv'
  BY <1>1 DEF device, IInv, SettledInv, Settled, DestroyInv, Pending
<1>5. QED BY <1>3, <1>4

\* The setup and the monitor thread outside updateSensors.
LEMMA ThreadStep ==
  ASSUME IInv, SpawnMonitor \/ Monitor
  PROVE  ProgressInv' /\ SettledInv' /\ DestroyInv'
<1> USE DEF settings, want, device, history, service, owning, flags, updaters
<1>1. \A j \in Sensor : (Synced(j) <=> Synced(j)') /\ (Down(j) <=> Down(j)')
  BY DEF SpawnMonitor, Monitor, MonitorWakes, MonitorEnds, ClearFlags, Synced, Down
<1>0. stuck' = stuck
  BY DEF SpawnMonitor, Monitor, MonitorWakes, MonitorEnds, ClearFlags
<1>2. pc \in [Updater -> Place] /\ "setup" \in Updater /\ "monitor" \in Updater
  BY DEF IInv, TypeOK, Updater
<1>3. CASE SpawnMonitor
  <2>1. owner = "up" /\ owner' = "up" /\ owner_at' = owner_at
    BY <1>3 DEF SpawnMonitor, IInv, DestroyInv, TypeOK
  <2>2. pc'["setup"] = "enter" /\ pc'["monitor"] = "wait"
    BY <1>2, <1>3 DEF SpawnMonitor
  <2>3. QED
    BY <1>0, <2>1, <2>2 DEF IInv, ProgressInv, SettledInv, Settled, DestroyInv, Updater
<1>4. CASE MonitorWakes
  <2>1. /\ pc'["setup"] = pc["setup"] /\ pc["monitor"] = "wait"
        /\ pc'["monitor"] = "enter"
        /\ UNCHANGED <<at, dirty, executor, is_profile_changed, owner, owner_at>>
    BY <1>2, <1>4 DEF MonitorWakes
  <2>2. Excused("setup")' <=> Excused("setup")
    BY <2>1 DEF Excused, Announced, Pending
  <2>3. ProgressInv'
    BY <1>1, <2>1, <2>2 DEF IInv, ProgressInv, Updater
  <2>4. SettledInv' /\ DestroyInv'
    BY <1>0, <1>1, <2>1 DEF IInv, SettledInv, Settled, DestroyInv, Pending
  <2>5. QED BY <2>3, <2>4
<1>5. CASE MonitorEnds
  <2>1. /\ pc'["setup"] = pc["setup"] /\ pc["monitor"] = "wait"
        /\ pc'["monitor"] = "done"
        /\ UNCHANGED <<at, dirty, executor, is_profile_changed, owner, owner_at>>
    BY <1>2, <1>5 DEF MonitorEnds
  <2>2. Excused("setup")' <=> Excused("setup")
    BY <2>1 DEF Excused, Announced, Pending
  <2>3. ProgressInv'
    BY <1>1, <2>1, <2>2 DEF IInv, ProgressInv, Updater
  <2>4. SettledInv' /\ DestroyInv'
    BY <1>0, <1>1, <2>1 DEF IInv, SettledInv, Settled, DestroyInv
  <2>5. QED BY <2>3, <2>4
<1>6. CASE ClearFlags
  <2>1. /\ pc'["setup"] = pc["setup"] /\ pc["monitor"] = "clear"
        /\ pc'["monitor"] = "wait" /\ is_profile_changed' = FALSE
        /\ UNCHANGED <<at, dirty, executor, owner, owner_at>>
    BY <1>2, <1>6 DEF ClearFlags
  <2>2. Excused("setup")' <=> Excused("setup")
    BY <2>1 DEF Excused, Announced, Pending
  <2>3. ProgressInv'
    BY <1>1, <2>1, <2>2 DEF IInv, ProgressInv, Updater
  <2>4. SettledInv' /\ DestroyInv'
    BY <1>0, <1>1, <2>1 DEF IInv, SettledInv, Settled, DestroyInv, Pending
  <2>5. QED BY <2>3, <2>4
<1>7. QED BY <1>3, <1>4, <1>5, <1>6 DEF Monitor

\* So does one by which a sensor gets stuck.
LEMMA MoreStuck ==
  ASSUME IInv, stuck \subseteq stuck',
         UNCHANGED <<want, active, pc, at, dirty, executor, is_profile_changed,
                     owner, owner_at>>
  PROVE  ProgressInv' /\ SettledInv' /\ DestroyInv'
<1>1. \A j \in Sensor : (Synced(j) <=> Synced(j)') /\ (Down(j) <=> Down(j)')
  BY DEF Synced, Down
<1>2. \A u \in Updater : Excused(u)' <=> Excused(u)
  BY DEF Excused, Announced, Pending
<1>3. ProgressInv'
  BY <1>1, <1>2 DEF IInv, ProgressInv
<1>4. SettledInv' /\ DestroyInv'
  BY <1>1 DEF IInv, SettledInv, Settled, DestroyInv, Pending
<1>5. QED BY <1>3, <1>4

\* The executor: a setting excuses the update under way until its flag is up,
\* and the flag cannot go up while the monitor is about to lower it.
LEMMA ExecutorStep ==
  ASSUME IInv, Callback \/ Request
  PROVE  ProgressInv' /\ SettledInv' /\ DestroyInv'
<1> USE DEF settings, want, device, history, owning, flags, updaters
<1>1. CASE RaiseFlag /\ executor = "profile"
  <2>1. /\ is_profile_changed'
        /\ UNCHANGED <<pc, active, stuck, owner, owner_at>>
        /\ pc["monitor"] \notin {"enter", "stop", "start", "clear"}
    BY <1>1 DEF RaiseFlag, IInv, TypeOK, MutexInv
  <2>2. ProgressInv'
    BY <2>1 DEF ProgressInv, Excused, Announced, Updater
  <2>3. SettledInv' /\ DestroyInv'
    BY <2>1 DEF IInv, SettledInv, Settled, DestroyInv, Down
  <2>4. QED BY <2>2, <2>3
<1>2. CASE \/ RaiseFlag /\ executor = "align"
           \/ HWResetEnds \/ HWReset \/ WriteAlign
  <2>1. /\ UNCHANGED <<want, active, stuck, pc, at, dirty, owner, owner_at>>
        /\ is_profile_changed' <=> is_profile_changed
        /\ ~Pending /\ ~Pending'
    BY <1>2 DEF RaiseFlag, HWResetEnds, HWReset, WriteAlign, Pending, IInv, TypeOK
  <2>2. \A j \in Sensor : (Synced(j) <=> Synced(j)') /\ (Down(j) <=> Down(j)')
    BY <2>1 DEF Synced, Down
  <2>3. \A u \in Updater : Excused(u)' <=> Excused(u)
    BY <2>1 DEF Excused, Announced
  <2>4. ProgressInv'
    BY <2>1, <2>2, <2>3 DEF IInv, ProgressInv
  <2>5. SettledInv' /\ DestroyInv'
    BY <2>1, <2>2 DEF IInv, SettledInv, Settled, DestroyInv
  <2>6. QED BY <2>4, <2>5
<1>3. CASE HWResetStops
  <2>1. /\ reset_at \in Sensor /\ active' = Stopped(reset_at) /\ want' = want
        /\ stuck' = stuck \ {reset_at}
        /\ dirty' /\ UNCHANGED <<pc, owner, owner_at>>
    BY <1>3 DEF HWResetStops
  <2>2. ProgressInv' /\ SettledInv'
    BY <2>1 DEF ProgressInv, SettledInv, Settled, Excused, Announced
  <2>3. DestroyInv'
    BY <2>1, StopEffect DEF IInv, DestroyInv
  <2>4. QED BY <2>2, <2>3
<1>4. ASSUME NEW s \in Stream, NEW b \in BOOLEAN, WriteEnable(s, b)
      PROVE  ProgressInv' /\ SettledInv' /\ DestroyInv'
  <2>1. Pending' /\ UNCHANGED <<active, stuck, pc, owner, owner_at>>
    BY <1>4 DEF WriteEnable, Pending
  <2>2. ProgressInv' /\ SettledInv'
    BY <2>1 DEF ProgressInv, SettledInv, Settled, Excused, Announced
  <2>3. DestroyInv'
    BY <2>1 DEF IInv, DestroyInv, Down
  <2>4. QED BY <2>2, <2>3
<1>5. ASSUME NEW S \in SettingParam, NEW f \in [S -> Setting],
             WriteSetting(S, f)
      PROVE  ProgressInv' /\ SettledInv' /\ DestroyInv'
  <2>1. dirty' /\ UNCHANGED <<active, stuck, pc, owner, owner_at>>
    BY <1>5 DEF WriteSetting
  <2>2. ProgressInv' /\ SettledInv'
    BY <2>1 DEF ProgressInv, SettledInv, Excused
  <2>3. DestroyInv'
    BY <2>1 DEF IInv, DestroyInv, Down
  <2>4. QED BY <2>2, <2>3
<1>6. CASE HWResetStopFails
  <2>1. /\ UNCHANGED <<want, active, pc, at, dirty, executor, is_profile_changed,
                       owner, owner_at>>
        /\ stuck \subseteq stuck'
    BY <1>6 DEF HWResetStopFails
  <2>2. QED BY <2>1, MoreStuck
<1>7. QED BY <1>1, <1>2, <1>3, <1>4, <1>5, <1>6 DEF Callback, RaiseFlag, Request

\* The destructor stops the sensors when nobody is left to start them.
LEMMA OwnerStep ==
  ASSUME IInv, Destroy \/ Destructor
  PROVE  ProgressInv' /\ SettledInv' /\ DestroyInv'
<1> USE DEF settings, want, device, history, service, flags, updaters
<1>1. CASE Destroy \/ JoinMonitor \/ Destroyed
  <2>1. UNCHANGED <<want, active, stuck, pc, at, dirty, executor,
                    is_profile_changed, owner_at>>
    BY <1>1 DEF Destroy, JoinMonitor, Destroyed
  <2>2. \A j \in Sensor : (Synced(j) <=> Synced(j)') /\ (Down(j) <=> Down(j)')
    BY <2>1 DEF Synced, Down
  <2>3. ProgressInv' /\ SettledInv'
    BY <2>1, <2>2 DEF IInv, ProgressInv, SettledInv, Settled, Excused, Announced, Pending
  <2>4. \A i \in Sensor : ~(i < 1)
    BY SensorAssumption DEF Sensor
  <2>5. DestroyInv'
    BY <1>1, <2>1, <2>2, <2>4
       DEF Destroy, JoinMonitor, Destroyed, IInv, DestroyInv
  <2>6. QED BY <2>3, <2>5
<1>2. CASE DestroyStops
  <2>0. PICK k \in Sensor : owner_at = k
    BY <1>2 DEF DestroyStops
  <2>1. /\ active' = Stopped(k) /\ stuck' = stuck \ {k}
        /\ want' = want /\ owner_at' = k + 1
        /\ owner = "stop" /\ UNCHANGED <<pc, owner>>
        /\ pc["monitor"] = "done" /\ pc["setup"] \in {"done", "failed"}
    BY <1>2, <2>0 DEF DestroyStops, IInv, DestroyInv
  <2>2. ProgressInv' /\ SettledInv'
    BY <2>1 DEF ProgressInv, SettledInv, Settled, Updater
  <2>3. \A i \in Sensor : i < k + 1 => i < k \/ i = k
    BY <2>0, LoopFacts DEF Sensor, IInv, TypeOK
  <2>4. DestroyInv'
    BY <2>0, <2>1, <2>3, StopEffect DEF IInv, DestroyInv
  <2>5. QED BY <2>2, <2>4
<1>3. CASE DestroyStopFails
  <2>0. PICK k \in Sensor : owner_at = k
    BY <1>3 DEF DestroyStopFails
  <2>1. /\ active' = active /\ stuck' = stuck \cup {k} /\ owner_at' = k + 1
        /\ owner = "stop" /\ UNCHANGED <<pc, owner>>
        /\ pc["monitor"] = "done" /\ pc["setup"] \in {"done", "failed"}
    BY <1>3, <2>0 DEF DestroyStopFails, IInv, DestroyInv
  <2>2. ProgressInv' /\ SettledInv'
    BY <2>1 DEF ProgressInv, SettledInv, Settled, Updater
  <2>3. \A i \in Sensor : i < k + 1 => i < k \/ i = k
    BY <2>0, LoopFacts DEF Sensor, IInv, TypeOK
  <2>4. DestroyInv'
    BY <2>0, <2>1, <2>3 DEF IInv, DestroyInv, Down
  <2>5. QED BY <2>2, <2>4
<1>4. QED BY <1>1, <1>2, <1>3 DEF Destructor

---------------------------------------------------------------------------
\* A step that stops a sensor, or fails to, or starts one with what is asked for,
\* runs no disabled stream.
Handled(i) ==
  \/ active' = active /\ stuck \subseteq stuck'
  \/ active' = Stopped(i) /\ stuck' = stuck \ {i}
  \/ active' = Started(i) /\ stuck' = stuck

LEMMA AllowedKept ==
  ASSUME enabled' = enabled,
         UNCHANGED device \/ \E i \in Sensor : Handled(i)
  PROVE  \A j \in Sensor : Allowed(j) => Allowed(j)'
<1>1. \A j \in Sensor : StreamsOf[j] \subseteq Stream
  BY SensorAssumption
<1>2. CASE active' = active /\ stuck \subseteq stuck'
  BY <1>2 DEF Allowed
<1>3. ASSUME NEW i \in Sensor, active' = Stopped(i), stuck' = stuck \ {i}
      PROVE  \A j \in Sensor : Allowed(j) => Allowed(j)'
  <2>1. \A s \in StreamsOf[i] : active'[s] = Off
    BY <1>1, <1>3 DEF Stopped
  <2>2. \A s \in Stream : active'[s] # Off => active[s] = active'[s]
    BY <1>3 DEF Stopped
  <2>3. QED BY <1>1, <1>3, <2>1, <2>2 DEF Allowed
<1>4. ASSUME NEW i \in Sensor, active' = Started(i), stuck' = stuck
      PROVE  \A j \in Sensor : Allowed(j) => Allowed(j)'
  <2>1. \A s \in Stream : active'[s] # Off => active[s] = active'[s] \/ enabled[s]
    BY <1>4 DEF Started, want
  <2>2. QED BY <1>1, <1>4, <2>1 DEF Allowed
<1>5. QED BY <1>2, <1>3, <1>4 DEF Handled, device

\* A step outside updateSensors that announces nothing and changes no place.
LEMMA AllowedIdle ==
  ASSUME IInv, UNCHANGED <<pc, at, enabled, is_profile_changed>>,
         Pending' <=> Pending,
         UNCHANGED device \/ \E i \in Sensor : Handled(i)
  PROVE  AllowedInv'
<1>1. \A j \in Sensor : Allowed(j) => Allowed(j)'
  BY AllowedKept
<1>2. /\ \A u \in Updater : Announced(u)' <=> Announced(u)
      /\ Settled' <=> Settled
  BY DEF Announced, Settled
<1>3. QED BY <1>1, <1>2 DEF IInv, AllowedInv

\* The steps of an update: the stopping loop leaves no disabled stream.
LEMMA AllowedUpdateStep ==
  ASSUME IInv, NEW u \in Updater, UpdateSensors(u)
  PROVE  AllowedInv'
<1> USE DEF settings, device, service, flags
<1>1. \A w \in Updater : w # u => pc'[w] = pc[w] /\ at'[w] = at[w]
  BY DEF UpdateSensors, EnterUpdate, StopSensor, StopFails, StopLoopEnds,
         StartSensor, StartFails, FinishUpdate, Leave, updaters, IInv, TypeOK
<1>2. CASE EnterUpdate(u)
  <2>1. \A w \in Updater : w # u => pc'[w] \notin {"stop", "start"}
    BY <1>1, <1>2 DEF EnterUpdate, IInv, MutexInv, Updater
  <2>2. pc'[u] = "stop" /\ at'[u] = 1
    BY <1>2 DEF EnterUpdate, IInv, TypeOK
  <2>3. \A i \in Sensor : ~(i < 1)
    BY SensorAssumption DEF Sensor
  <2>4. ~Settled'
    BY <2>2 DEF Settled, Updater
  <2>5. QED BY <2>1, <2>2, <2>3, <2>4 DEF AllowedInv
<1>3. ASSUME pc[u] \in {"stop", "start"}
      PROVE  \A w \in Updater : w # u => pc'[w] \notin {"stop", "start"}
  BY <1>1, <1>3, OneUpdater DEF IInv
<1>4. ~EnterUpdate(u) => /\ pc[u] \in {"stop", "start"}
                         /\ \A j \in Sensor : Allowed(j) => Allowed(j)'
                         /\ Pending' <=> Pending
                         /\ is_profile_changed' = is_profile_changed
  <2>1. ~EnterUpdate(u) =>
          /\ enabled' = enabled
          /\ UNCHANGED device \/ \E i \in Sensor : Handled(i)
    <3>1. CASE StopSensor(u) \/ StopFails(u)
      BY <3>1 DEF StopSensor, StopFails, Handled
    <3>2. CASE StartSensor(u) \/ StartFails(u)
      BY <3>2 DEF StartSensor, StartFails, Handled
    <3>3. QED BY <3>1, <3>2 DEF UpdateSensors, StopLoopEnds, FinishUpdate
  <2>2. ~EnterUpdate(u) => /\ pc[u] \in {"stop", "start"}
                           /\ Pending' <=> Pending
                           /\ is_profile_changed' = is_profile_changed
    BY DEF UpdateSensors, StopSensor, StopFails, StopLoopEnds, StartSensor,
           StartFails, FinishUpdate, Pending
  <2>3. QED BY <2>1, <2>2, AllowedKept
<1>5. CASE StopSensor(u) \/ StopFails(u)
  <2>0. PICK k \in Sensor : at[u] = k
    BY <1>5 DEF StopSensor, StopFails
  <2>1. pc'[u] = "stop" /\ pc[u] = "stop" /\ at'[u] = k + 1 /\ pc' = pc
    BY <1>5, <2>0 DEF StopSensor, StopFails, updaters, IInv, TypeOK
  <2>2. Allowed(k)'
    <3>0. CASE StopFails(u)
      BY <2>0, <3>0 DEF StopFails, Allowed
    <3>1. CASE StopSensor(u) /\ ProfileChanged(k)
      <4>1. Down(k)'
        BY <2>0, <3>1, StopEffect, WantType DEF StopSensor, IInv
      <4>2. QED BY <4>1 DEF Down, Allowed
    <3>2. CASE StopSensor(u) /\ ~ProfileChanged(k)
      <4>1. active' = active /\ enabled' = enabled
        BY <2>0, <3>2 DEF StopSensor
      <4>2. \A s \in StreamsOf[k] : s \in Stream /\ active[s] = want[s]
        BY <3>2, SensorAssumption DEF ProfileChanged
      <4>3. QED BY <4>1, <4>2 DEF Allowed, want
    <3>3. QED BY <1>5, <3>0, <3>1, <3>2
  <2>3. Announced(u)' <=> Announced(u)
    BY <1>4, <1>5, <2>1 DEF Announced, EnterUpdate
  <2>4. \A i \in Sensor : i < k + 1 => i < k \/ i = k
    BY <2>0, LoopFacts DEF Sensor, IInv, TypeOK
  <2>5. ~Settled'
    BY <2>1 DEF Settled, Updater
  <2>6. ~Announced(u) => \A i \in Sensor : i < k => Allowed(i)
    BY <2>0, <2>1 DEF IInv, AllowedInv
  <2>7. ~EnterUpdate(u)
    BY <2>1 DEF EnterUpdate
  <2>8. ~Announced(u)' => \A i \in Sensor : i < at'[u] => Allowed(i)'
    BY <1>4, <2>1, <2>2, <2>3, <2>4, <2>6, <2>7
  <2>9. QED BY <1>3, <2>1, <2>5, <2>8 DEF AllowedInv
<1>6. CASE StopLoopEnds(u) \/ StartSensor(u)
  <2>1. /\ pc[u] \in {"stop", "start"} /\ pc'[u] = "start"
        /\ pc[u] = "stop" => at[u] = NumSensors + 1
    BY <1>6 DEF StopLoopEnds, StartSensor, updaters, IInv, TypeOK
  <2>2. \A i \in Sensor : i < NumSensors + 1
    BY SensorAssumption DEF Sensor
  <2>3. ~EnterUpdate(u)
    BY <2>1 DEF EnterUpdate
  <2>4. Announced(u) <=> Announced(u)'
    BY <1>1, <1>4, <2>1, <2>3 DEF Announced, Updater
  <2>5. ~Announced(u) => \A i \in Sensor : Allowed(i)
    BY <2>1, <2>2 DEF IInv, AllowedInv
  <2>6. ~Settled'
    BY <2>1 DEF Settled, Updater
  <2>7. QED BY <1>3, <1>4, <2>1, <2>3, <2>4, <2>5, <2>6 DEF AllowedInv
<1>7. CASE StartFails(u) \/ FinishUpdate(u)
  <2>1. pc[u] = "start" /\ pc'[u] \notin {"stop", "start"}
    BY <1>7 DEF StartFails, FinishUpdate, Leave, IInv, TypeOK
  <2>2. ~EnterUpdate(u)
    BY <2>1 DEF EnterUpdate
  <2>3. Settled' => ~Announced(u)
    BY <1>1, <1>4, <2>2 DEF Settled, Announced, Updater
  <2>4. ~Announced(u) => \A i \in Sensor : Allowed(i)
    BY <2>1 DEF IInv, AllowedInv
  <2>5. QED BY <1>3, <1>4, <2>1, <2>2, <2>3, <2>4 DEF AllowedInv
<1>8. QED BY <1>2, <1>5, <1>6, <1>7 DEF UpdateSensors

\* The steps outside an update: enabling or disabling a stream is pending until
\* its flag is up, and the flag goes up only while the monitor waits.
LEMMA AllowedStep ==
  ASSUME IInv, [Next]_vars, \A u \in Updater : ~UpdateSensors(u)
  PROVE  AllowedInv'
<1> USE DEF settings, device, service, flags, updaters
<1>1. pc \in [Updater -> Place] /\ "setup" \in Updater /\ "monitor" \in Updater
  BY DEF IInv, TypeOK, Updater
<1>2. CASE SpawnMonitor
  BY <1>1, <1>2 DEF SpawnMonitor, AllowedInv, Settled, Updater
<1>3. CASE Monitor
  <2>1. \A j \in Sensor : Allowed(j) => Allowed(j)'
    BY <1>3, AllowedKept DEF Monitor, MonitorWakes, MonitorEnds, ClearFlags
  <2>2. /\ pc'["setup"] = pc["setup"] /\ UNCHANGED <<at, executor>>
        /\ pc'["monitor"] \notin {"stop", "start"}
    BY <1>1, <1>3 DEF Monitor, MonitorWakes, MonitorEnds, ClearFlags
  <2>3. Announced("setup")' <=> Announced("setup")
    BY <1>1, <1>3
       DEF Monitor, MonitorWakes, MonitorEnds, ClearFlags, Announced, Pending
  <2>4. Settled' => Settled
    BY <1>1, <1>3
       DEF Monitor, MonitorWakes, MonitorEnds, ClearFlags, Settled, Pending
  <2>5. QED BY <2>1, <2>2, <2>3, <2>4 DEF IInv, AllowedInv, Updater
<1>4. CASE RaiseFlag /\ executor = "profile"
  <2>1. /\ is_profile_changed' /\ pc' = pc
        /\ pc["monitor"] \notin {"enter", "stop", "start", "clear"}
    BY <1>4 DEF RaiseFlag, IInv, TypeOK, MutexInv
  <2>2. QED BY <2>1 DEF AllowedInv, Announced, Settled, Updater
<1>5. ASSUME NEW s \in Stream, NEW b \in BOOLEAN, WriteEnable(s, b)
      PROVE  AllowedInv'
  <2>1. Pending'
    BY <1>5 DEF WriteEnable, Pending
  <2>2. QED BY <2>1 DEF AllowedInv, Announced, Settled
<1>6. ASSUME NEW S \in SettingParam, NEW f \in [S -> Setting],
             WriteSetting(S, f)
      PROVE  AllowedInv'
  BY <1>6, AllowedIdle DEF WriteSetting, Pending
<1>7. CASE RaiseFlag /\ executor = "align"
  <2>1. /\ UNCHANGED <<pc, at, enabled, active, stuck>> /\ ~Pending /\ ~Pending'
        /\ is_profile_changed' = is_profile_changed
    BY <1>7 DEF RaiseFlag, Pending, IInv, TypeOK
  <2>2. QED BY <2>1, AllowedIdle
<1>8. CASE \/ HWResetStops \/ HWResetStopFails \/ HWResetEnds
           \/ HWReset \/ WriteAlign
  <2>1. UNCHANGED device \/ \E i \in Sensor : Handled(i)
    BY <1>8
       DEF HWResetStops, HWResetStopFails, HWResetEnds, HWReset, WriteAlign, Handled
  <2>2. QED
    BY <1>8, <2>1, AllowedIdle
       DEF HWResetStops, HWResetStopFails, HWResetEnds, HWReset, WriteAlign, Pending
<1>9. CASE Destroy \/ Destructor
  <2>1. UNCHANGED device \/ \E i \in Sensor : Handled(i)
    BY <1>9
       DEF Destroy, Destructor, JoinMonitor, DestroyStops, DestroyStopFails,
           Destroyed, Handled
  <2>2. /\ UNCHANGED <<pc, at, enabled, is_profile_changed>>
        /\ Pending' <=> Pending
    BY <1>9
       DEF Destroy, Destructor, JoinMonitor, DestroyStops, DestroyStopFails,
           Destroyed, Pending
  <2>3. QED BY <2>1, <2>2, AllowedIdle
<1>10. CASE UNCHANGED vars
  BY <1>10, AllowedIdle DEF vars, Pending
<1>11. QED
  BY <1>2, <1>3, <1>4, <1>5, <1>6, <1>7, <1>8, <1>9, <1>10
     DEF Next, Callback, RaiseFlag, Request

---------------------------------------------------------------------------
\* The invariant holds when setup() begins.
LEMMA InitInv == Init => IInv
<1> SUFFICES ASSUME Init PROVE IInv
  OBVIOUS
<1>1. MutexInv
  BY DEF Init, MutexInv, Updater
<1>2. ProgressInv /\ SettledInv
  BY DEF Init, ProgressInv, SettledInv, Settled, Updater
<1>3. DestroyInv
  BY DEF Init, DestroyInv
<1>4. AllowedInv
  BY DEF Init, AllowedInv, Settled, Updater
<1>5. QED BY <1>1, <1>2, <1>3, <1>4, InitType DEF IInv

\* Every step of every thread keeps it.
LEMMA StepInv == IInv /\ [Next]_vars => IInv'
<1> SUFFICES ASSUME IInv, [Next]_vars PROVE IInv'
  OBVIOUS
<1>1. TypeOK'
  BY UpdateType, ThreadType, ExecutorType, OwnerType, StutterType DEF IInv, Next
<1>2. MutexInv'
  BY MutexStep DEF IInv
<1>3. ProgressInv' /\ SettledInv' /\ DestroyInv'
  <2>1. ASSUME NEW u \in Updater, UpdateSensors(u)
        PROVE  ProgressInv' /\ SettledInv' /\ DestroyInv'
    BY <2>1, EnterStep, StopSensorStep, StopFailsStep, StopLoopEndsStep, StartSensorStep,
       StartFailsStep, FinishUpdateStep DEF UpdateSensors
  <2>2. CASE UNCHANGED vars
    BY <2>2, IdleStep
       DEF vars, device, settings, want, flags, updaters, service, owning, history
  <2>3. QED BY <2>1, <2>2, ThreadStep, ExecutorStep, OwnerStep DEF Next
<1>4. AllowedInv'
  BY AllowedUpdateStep, AllowedStep
<1>5. QED BY <1>1, <1>2, <1>3, <1>4 DEF IInv

\* The inductive invariant holds in every behavior.
THEOREM InvariantHolds == Spec => []IInv
  BY InitInv, StepInv, PTL DEF Spec

\* No parameter change is ever lost: whenever the node is at rest, and neither
\* a failed start or stop nor a reset has intervened since the last update began, every
\* stream of the device runs with the setting its parameters ask for.
THEOREM NoChangeIsLost == Spec => []ReconciledAtRest
<1>1. IInv => ReconciledAtRest
  <2> SUFFICES ASSUME IInv, AtRest, ~dirty PROVE active = want
    BY DEF ReconciledAtRest
  <2>1. \A i \in Sensor : Synced(i)
    BY DEF IInv, SettledInv, Settled, AtRest, Pending
  <2>2. \A s \in Stream : active[s] = want[s]
    BY <2>1, SensorAssumption DEF Synced
  <2>3. QED BY <2>2, WantType DEF IInv, TypeOK
<1>2. QED BY <1>1, InvariantHolds, PTL

\* A stream that was disabled does not run at rest, whatever failed meanwhile,
\* unless the last stop of its sensor failed.
THEOREM DisabledStreamsStop == Spec => []DisabledStops
<1>1. IInv => DisabledStops
  <2> SUFFICES ASSUME IInv, AtRest, NEW i \in Sensor \ stuck
               PROVE  \A s \in StreamsOf[i] : active[s] # Off => enabled[s]
    BY DEF DisabledStops
  <2>1. Allowed(i)
    BY DEF IInv, AllowedInv, Settled, AtRest, Pending
  <2>2. QED BY <2>1 DEF Allowed
<1>2. QED BY <1>1, InvariantHolds, PTL

\* Once the destructor is over, no stream of the device runs, but of a sensor
\* whose stop failed.
THEOREM DestructorStops == Spec => []DestroyedIsStopped
<1>1. IInv => DestroyedIsStopped
  <2> SUFFICES ASSUME IInv, owner = "down", NEW i \in Sensor \ stuck
               PROVE  \A s \in StreamsOf[i] : active[s] = Off
    BY DEF DestroyedIsStopped
  <2>1. i < NumSensors + 1
    BY SensorAssumption DEF Sensor
  <2>2. QED BY <2>1 DEF IInv, DestroyInv, Down
<1>2. QED BY <1>1, InvariantHolds, PTL

---------------------------------------------------------------------------
\* Each step of each thread is a step of the abstract stream control, or
\* leaves the device and the wanted settings alone.
LEMMA ControlStep ==
  ASSUME TypeOK, [Next]_vars
  PROVE  [Control!Next]_<<want, active>>
<1> USE DEF device, settings, want
<1>1. ASSUME NEW i \in Sensor, active' = Stopped(i), want' = want
      PROVE  Control!Next
  BY <1>1 DEF Stopped, Control!Next, Control!Stop, Control!Sensor, Sensor
<1>2. ASSUME NEW i \in Sensor, active' = Started(i), want' = want
      PROVE  Control!Next \/ UNCHANGED <<want, active>>
  <2>1. CASE CanStart(i)
    <3>1. \A s \in StreamsOf[i] : active[s] = Off
      BY <2>1 DEF CanStart, Active
    <3>2. QED
      BY <1>2, <2>1, <3>1
         DEF Started, Control!Next, Control!Start, Control!Sensor, Sensor
  <2>2. CASE ~CanStart(i)
    BY <1>2, <2>2 DEF Started
  <2>3. QED BY <2>1, <2>2
<1>3. ASSUME NEW u \in Updater, UpdateSensors(u)
      PROVE  Control!Next \/ UNCHANGED <<want, active>>
  <2>1. CASE StopSensor(u)
    BY <1>1, <2>1 DEF StopSensor
  <2>2. CASE StartSensor(u)
    BY <1>2, <2>2 DEF StartSensor
  <2>3. CASE EnterUpdate(u) \/ StopFails(u) \/ StopLoopEnds(u) \/ FinishUpdate(u)
    BY <2>3 DEF EnterUpdate, StopFails, StopLoopEnds, FinishUpdate
  <2>4. CASE StartFails(u)
    BY <1>2, <2>4 DEF StartFails
  <2>5. QED BY <1>3, <2>1, <2>2, <2>3, <2>4 DEF UpdateSensors
<1>4. CASE SpawnMonitor \/ Monitor
  BY <1>4 DEF SpawnMonitor, Monitor, MonitorWakes, MonitorEnds, ClearFlags
<1>5. CASE Callback
  BY <1>1, <1>5
     DEF Callback, RaiseFlag, HWResetStops, HWResetStopFails, HWResetEnds
<1>6. CASE Request
  <2>1. ASSUME active' = active, TypeOK'
        PROVE  Control!Next
    <3>1. want' \in [Stream -> Control!Setting]
      BY <2>1 DEF TypeOK, want, Setting, Control!Setting
    <3>2. QED BY <2>1, <3>1 DEF Control!Next, Control!Change
  <2>2. CASE WriteAlign \/ HWReset
    BY <2>2 DEF WriteAlign, HWReset
  <2>3. TypeOK'
    BY <1>6, ExecutorType
  <2>4. QED BY <1>6, <2>1, <2>2, <2>3 DEF Request, WriteEnable, WriteSetting
<1>7. CASE Destroy \/ Destructor
  BY <1>1, <1>7
     DEF Destroy, Destructor, JoinMonitor, DestroyStops, DestroyStopFails, Destroyed
<1>8. CASE UNCHANGED vars
  BY <1>8 DEF vars
<1>9. QED BY <1>3, <1>4, <1>5, <1>6, <1>7, <1>8 DEF Next

\* The threads of SensorUpdate implement StreamControl: the streams of a sensor
\* stop together, start together from rest with the settings wanted at that
\* moment, and never change their setting while they run.
THEOREM ControlImplemented == Spec => ImplementsControl
<1>1. Init => Control!Init
  BY DEF Init, Control!Init, want, Setting, Control!Setting
<1>2. TypeOK /\ [Next]_vars => [Control!Next]_<<want, active>>
  BY ControlStep
<1>3. QED BY <1>1, <1>2, TypeCorrect, PTL DEF Spec, ImplementsControl, Control!Spec

---------------------------------------------------------------------------
(* The topics and the transforms.                                          *)

Runs(s) == active[s] # Off

\* The topics and transforms of a sensor are those of the streams that run.
Served(i) ==
  \A s \in StreamsOf[i] :
    /\ static_tf[s] = IF Runs(s) THEN 1 ELSE 0
    /\ s \in publishers <=> Runs(s)
    /\ s \in VideoStream /\ Runs(s) => camera_info[s] = active[s]

\* So is the aligned depth, but for a change that will still raise its flag or
\* that passes the sensor by.
Aligned(i) ==
  \/ executor = "align" \/ i \notin DepthOrColor
  \/ \A s \in StreamsOf[i] \cap Alignable :
       s \in depth_aligned <=> align_enabled /\ Runs(s)

\* The sensor has no topics: the starting loop will make those that are wanted.
Bare(i) ==
  /\ \A s \in StreamsOf[i] : static_tf[s] = 0 /\ s \notin publishers
  /\ Down(i) \/ (Synced(i) /\ i \in DepthOrColor /\ is_align_depth_changed)

\* What holds of a sensor before the stopping loop is at it, between the two
\* loops, and when the starting loop has passed it.
Before(i) == Served(i) /\ (is_align_depth_changed \/ Aligned(i))
Between(i) == Bare(i) \/ (Served(i) /\ ~NeedsUpdate(i) /\ Aligned(i))
After(i) == Served(i) /\ Aligned(i)

\* Outside an update, a change of align_depth.enable may wait for the next one.
Resting(i) ==
  /\ Served(i)
  /\ (is_align_depth_changed /\ pc["monitor"] # "clear") \/ Aligned(i)

TopicsInv ==
  /\ depth_aligned \subseteq publishers
  /\ owner # "up" => ~is_running
  /\ ~overlapped /\ is_running =>
       /\ ~Updating => broadcast = static_tf /\ \A i \in Sensor : Resting(i)
       /\ \A u \in Updater, i \in Sensor :
            /\ pc[u] = "stop" => IF i < at[u] THEN Between(i) ELSE Before(i)
            /\ pc[u] = "start" => IF i < at[u] THEN After(i) ELSE Between(i)

---------------------------------------------------------------------------
\* A step that leaves the streams of a sensor and their topics as they are, the
\* parameters and the flag too, leaves the sensor where it is in the update.
LEMMA Untouched ==
  ASSUME NEW j \in Sensor,
         \A s \in StreamsOf[j] :
           /\ active'[s] = active[s] /\ static_tf'[s] = static_tf[s]
           /\ camera_info'[s] = camera_info[s] /\ want'[s] = want[s]
           /\ s \in publishers' <=> s \in publishers
           /\ s \in depth_aligned' <=> s \in depth_aligned,
         is_align_depth_changed' = is_align_depth_changed,
         \/ executor' = "align"
         \/ align_enabled' = align_enabled /\ executor # "align"
         \/ align_enabled' = align_enabled /\ executor' = executor
  PROVE  /\ Served(j) => Served(j)'
         /\ Aligned(j) => Aligned(j)'
         /\ Before(j) => Before(j)'
         /\ Between(j) => Between(j)'
         /\ After(j) => After(j)'
<1>1. Served(j) => Served(j)'
  BY DEF Served, Runs
<1>2. Aligned(j) => Aligned(j)'
  BY DEF Aligned, Runs
<1>3. Bare(j) => Bare(j)'
  BY DEF Bare, Down, Synced
<1>4. NeedsUpdate(j)' => NeedsUpdate(j)
  BY DEF NeedsUpdate, ProfileChanged
<1>5. QED BY <1>1, <1>2, <1>3, <1>4 DEF Before, Between, After

\* A step that leaves them all leaves every sensor.
LEMMA AllUntouched ==
  ASSUME UNCHANGED <<active, topics, want, is_align_depth_changed>>,
         \/ executor' = "align"
         \/ align_enabled' = align_enabled /\ executor # "align"
         \/ align_enabled' = align_enabled /\ executor' = executor
  PROVE  \A j \in Sensor :
           /\ Served(j) => Served(j)'
           /\ Aligned(j) => Aligned(j)'
           /\ Before(j) => Before(j)'
           /\ Between(j) => Between(j)'
           /\ After(j) => After(j)'
<1> TAKE j \in Sensor
<1>1. \A s \in StreamsOf[j] :
        /\ active'[s] = active[s] /\ static_tf'[s] = static_tf[s]
        /\ camera_info'[s] = camera_info[s] /\ want'[s] = want[s]
        /\ s \in publishers' <=> s \in publishers
        /\ s \in depth_aligned' <=> s \in depth_aligned
  BY DEF topics
<1>2. is_align_depth_changed' = is_align_depth_changed
  OBVIOUS
<1>3. QED BY <1>1, <1>2, Untouched

\* The node starts with no topics.
LEMMA InitTopics == Init => TopicsInv
<1> SUFFICES ASSUME Init PROVE TopicsInv
  OBVIOUS
<1>1. \A i \in Sensor : StreamsOf[i] \subseteq Stream
  BY SensorAssumption
<1>2. ~Updating /\ pc["monitor"] = "unborn" /\ pc["setup"] = "spawn"
  BY DEF Init, Updating, Updater
<1>3. \A i \in Sensor : Served(i) /\ (is_align_depth_changed \/ Aligned(i))
  BY <1>1 DEF Init, Served, Aligned, Runs
<1>4. broadcast = static_tf /\ owner = "up" /\ depth_aligned = {}
  BY DEF Init
<1>5. QED BY <1>2, <1>3, <1>4 DEF TopicsInv, Resting, Updater

---------------------------------------------------------------------------
\* An iteration of the stopping loop leaves its sensor bare, or needing nothing.
LEMMA StopTopics ==
  ASSUME IInv, NEW i \in Sensor, depth_aligned \subseteq publishers,
         active' = IF ProfileChanged(i) THEN Stopped(i) ELSE active,
         IF NeedsUpdate(i) THEN StopPublishers(Active(i)) ELSE UNCHANGED topics,
         UNCHANGED <<settings, is_align_depth_changed, executor>>
  PROVE  /\ depth_aligned' \subseteq publishers'
         /\ Before(i) => Between(i)'
         /\ \A j \in Sensor : j # i =>
              /\ Before(j) => Before(j)'
              /\ Between(j) => Between(j)'
<1> USE DEF settings, topics
<1>1. /\ \A j \in Sensor : StreamsOf[j] \subseteq Stream
      /\ \A j \in Sensor : j # i => StreamsOf[j] \cap StreamsOf[i] = {}
  BY SensorAssumption
<1>2. /\ active \in [Stream -> Setting] /\ static_tf \in [Stream -> Nat]
      /\ want' = want /\ TypeOK
  BY WantType DEF IInv, TypeOK
<1>3. depth_aligned' \subseteq publishers'
  BY DEF StopPublishers
<1>4. ASSUME NEW j \in Sensor, j # i
      PROVE  /\ Before(j) => Before(j)'
             /\ Between(j) => Between(j)'
  <2>1. ASSUME NEW s \in StreamsOf[j]
        PROVE  /\ active'[s] = active[s] /\ static_tf'[s] = static_tf[s]
               /\ camera_info'[s] = camera_info[s] /\ want'[s] = want[s]
               /\ s \in publishers' <=> s \in publishers
               /\ s \in depth_aligned' <=> s \in depth_aligned
    <3>1. s \in Stream /\ s \notin StreamsOf[i] /\ s \notin Active(i)
      BY <1>1, <1>4 DEF Active
    <3>2. QED BY <1>2, <3>1 DEF StopPublishers, Stopped
  <2>2. QED BY <2>1, Untouched
<1>5. ASSUME Before(i) PROVE Between(i)'
  <2>1. CASE NeedsUpdate(i)
    <3>1. \A s \in StreamsOf[i] : static_tf'[s] = 0 /\ s \notin publishers'
      BY <1>1, <1>2, <1>5, <2>1 DEF Before, Served, Runs, Active, StopPublishers
    <3>2. CASE ProfileChanged(i)
      BY <1>1, <3>1, <3>2 DEF Between, Bare, Stopped, Down
    <3>3. CASE ~ProfileChanged(i)
      <4>1. active' = active /\ Synced(i)
        BY <3>3 DEF ProfileChanged, Synced
      <4>2. Synced(i)' /\ i \in DepthOrColor /\ is_align_depth_changed'
        BY <1>2, <2>1, <3>3, <4>1 DEF NeedsUpdate, Synced
      <4>3. QED BY <3>1, <4>2 DEF Between, Bare
    <3>4. QED BY <3>2, <3>3
  <2>2. CASE ~NeedsUpdate(i)
    <3>1. UNCHANGED <<active, topics>>
      BY <2>2 DEF NeedsUpdate
    <3>2. Aligned(i)
      <4>1. CASE is_align_depth_changed
        <5>1. i \notin DepthOrColor
          BY <2>2, <4>1 DEF NeedsUpdate
        <5>2. QED BY <5>1 DEF Aligned
      <4>2. QED BY <1>5, <4>1 DEF Before
    <3>3. Between(i)
      BY <1>5, <2>2, <3>2 DEF Before, Between
    <3>4. QED BY <1>2, <3>1, <3>3, AllUntouched
  <2>3. QED BY <2>1, <2>2
<1>6. QED BY <1>3, <1>4, <1>5

\* An iteration of the starting loop gives its sensor the topics it needs.
LEMMA StartTopics ==
  ASSUME IInv, NEW i \in Sensor, depth_aligned \subseteq publishers,
         IF NeedsUpdate(i) /\ Wanted(i) # {}
         THEN StartPublishers(Wanted(i)) /\ active' = Started(i)
         ELSE UNCHANGED <<active, topics>>,
         UNCHANGED <<settings, is_align_depth_changed, executor>>
  PROVE  /\ depth_aligned' \subseteq publishers'
         /\ Between(i) => After(i)'
         /\ \A j \in Sensor : j # i =>
              /\ After(j) => After(j)'
              /\ Between(j) => Between(j)'
<1> USE DEF settings, topics, device
<1>1. /\ \A j \in Sensor : StreamsOf[j] \subseteq Stream
      /\ \A j \in Sensor : j # i => StreamsOf[j] \cap StreamsOf[i] = {}
  BY SensorAssumption
<1>2. /\ active \in [Stream -> Setting] /\ static_tf \in [Stream -> Nat]
      /\ camera_info \in [Stream -> Setting] /\ want \in [Stream -> Setting]
      /\ want' = want
  BY WantType DEF IInv, TypeOK
<1>3. depth_aligned' \subseteq publishers'
  BY DEF StartPublishers
<1>4. ASSUME NEW j \in Sensor, j # i
      PROVE  /\ After(j) => After(j)'
             /\ Between(j) => Between(j)'
  <2>1. ASSUME NEW s \in StreamsOf[j]
        PROVE  /\ active'[s] = active[s] /\ static_tf'[s] = static_tf[s]
               /\ camera_info'[s] = camera_info[s] /\ want'[s] = want[s]
               /\ s \in publishers' <=> s \in publishers
               /\ s \in depth_aligned' <=> s \in depth_aligned
    <3>1. s \in Stream /\ s \notin StreamsOf[i] /\ s \notin Wanted(i)
      BY <1>1, <1>4 DEF Wanted
    <3>2. CASE NeedsUpdate(i) /\ Wanted(i) # {}
      <4>1. active'[s] = active[s]
        BY <1>2, <3>1, <3>2 DEF Started
      <4>2. QED BY <1>2, <3>1, <3>2, <4>1 DEF StartPublishers
    <3>3. CASE ~(NeedsUpdate(i) /\ Wanted(i) # {})
      BY <1>2, <3>3
    <3>4. QED BY <3>2, <3>3
  <2>2. QED BY <2>1, Untouched
<1>5. ASSUME Between(i) PROVE After(i)'
  <2>1. CASE NeedsUpdate(i) /\ Wanted(i) # {}
    <3>1. Bare(i)
      BY <1>5, <2>1 DEF Between
    <3>2. \A s \in StreamsOf[i] : active'[s] = want[s]
      BY <1>1, <1>2, <2>1, <3>1, StartEffect DEF Bare, Synced, IInv
    <3>3. \A s \in StreamsOf[i] : s \notin depth_aligned /\ s \notin publishers
      BY <3>1 DEF Bare
    <3>4. Served(i)'
      BY <1>1, <1>2, <2>1, <3>1, <3>2
         DEF Served, Runs, Bare, StartPublishers, Wanted
    <3>5. Aligned(i)'
      <4>1. ASSUME NEW s \in StreamsOf[i] \cap Alignable
            PROVE  s \in depth_aligned' <=> align_enabled /\ active'[s] # Off
        BY <2>1, <3>2, <3>3 DEF StartPublishers, Wanted
      <4>2. QED BY <4>1 DEF Aligned, Runs
    <3>6. QED BY <3>4, <3>5 DEF After
  <2>2. CASE ~(NeedsUpdate(i) /\ Wanted(i) # {})
    <3>1. UNCHANGED <<active, publishers, depth_aligned, camera_info, static_tf>>
      BY <2>2
    <3>2. After(i)
      <4>1. CASE Bare(i)
        <5>1. Down(i)
          BY <2>2, <4>1 DEF Bare, NeedsUpdate, Wanted, Down, Synced
        <5>2. Served(i)
          BY <4>1, <5>1 DEF Bare, Served, Down, Runs
        <5>3. Aligned(i)
          BY <4>1, <5>1 DEF Bare, Aligned, Down, Runs
        <5>4. QED BY <5>2, <5>3 DEF After
      <4>2. QED BY <1>5, <4>1 DEF Between, After
    <3>3. QED BY <1>2, <3>1, <3>2, AllUntouched
  <2>3. QED BY <2>1, <2>2
<1>6. QED BY <1>3, <1>4, <1>5

---------------------------------------------------------------------------
\* The steps of an update.
LEMMA UpdateTopics ==
  ASSUME IInv, TopicsInv, NEW u \in Updater, UpdateSensors(u)
  PROVE  TopicsInv'
<1> USE DEF owning
<1>0. /\ pc \in [Updater -> Place] /\ at \in [Updater -> 1..NumSensors + 1]
      /\ MutexInv /\ TypeOK /\ depth_aligned \subseteq publishers
      /\ owner # "up" => ~is_running
  BY DEF IInv, TypeOK, TopicsInv
<1>1. CASE EnterUpdate(u)
  <2>1. ~Updating
    BY <1>0, <1>1 DEF EnterUpdate, MutexInv, Updating, Updater
  <2>2. /\ pc' = [pc EXCEPT ![u] = "stop"] /\ at'[u] = 1
        /\ \A w \in Updater : w # u => pc'[w] \notin {"stop", "start"}
    BY <1>0, <1>1, <2>1 DEF EnterUpdate, Updating
  <2>3. /\ UNCHANGED <<owner, is_running, overlapped, publishers, depth_aligned>>
        /\ \A i \in Sensor : Before(i) => Before(i)'
    BY <1>1, AllUntouched
       DEF EnterUpdate, device, topics, settings, flags, service, want
  <2>4. \A i \in Sensor : Resting(i) => Before(i)
    BY DEF Resting, Before
  <2>5. Updating' /\ \A i \in Sensor : ~(i < 1)
    BY <1>0, <2>2, LoopFacts, SensorAssumption DEF Updating, Sensor
  <2>6. QED BY <1>0, <2>1, <2>2, <2>3, <2>4, <2>5 DEF TopicsInv
<1>2. CASE StopSensor(u)
  <2>0. PICK k \in Sensor : at[u] = k
    BY <1>2 DEF StopSensor
  <2>1. /\ pc[u] = "stop" /\ pc' = pc /\ at'[u] = k + 1
        /\ UNCHANGED <<owner, is_running, overlapped, broadcast>>
    BY <1>0, <1>2, <2>0 DEF StopSensor, history
  <2>2. /\ depth_aligned' \subseteq publishers'
        /\ Before(k) => Between(k)'
        /\ \A j \in Sensor : j # k =>
             /\ Before(j) => Before(j)'
             /\ Between(j) => Between(j)'
    BY <1>0, <1>2, <2>0, StopTopics DEF StopSensor, flags, service
  <2>3. Updating' /\ \A w \in Updater : pc[w] \in {"stop", "start"} => w = u
    BY <1>0, <2>1, OneUpdater DEF Updating
  <2>4. /\ ~(k < k)
        /\ \A i \in Sensor : /\ i < k + 1 => i < k \/ i = k
                             /\ i # k /\ ~(i < k + 1) => ~(i < k)
    BY <2>0, SensorAssumption DEF Sensor
  <2>5. QED BY <1>0, <2>0, <2>1, <2>2, <2>3, <2>4 DEF TopicsInv
<1>3. CASE StopLoopEnds(u)
  <2>1. /\ pc[u] = "stop" /\ pc' = [pc EXCEPT ![u] = "start"]
        /\ at[u] = NumSensors + 1 /\ at'[u] = 1
        /\ UNCHANGED <<owner, is_running, overlapped, publishers, depth_aligned>>
        /\ \A i \in Sensor : Between(i) => Between(i)'
    BY <1>0, <1>3, AllUntouched
       DEF StopLoopEnds, device, topics, settings, flags, service, want, history
  <2>2. Updating' /\ \A w \in Updater : pc[w] \in {"stop", "start"} => w = u
    BY <1>0, <2>1, OneUpdater DEF Updating
  <2>3. \A i \in Sensor : i < NumSensors + 1 /\ ~(i < 1)
    BY SensorAssumption DEF Sensor
  <2>4. QED BY <1>0, <2>1, <2>2, <2>3 DEF TopicsInv
<1>4. CASE StartSensor(u)
  <2>0. PICK k \in Sensor : at[u] = k
    BY <1>4 DEF StartSensor
  <2>1. /\ pc[u] = "start" /\ pc' = pc /\ at'[u] = k + 1
        /\ UNCHANGED <<owner, is_running, overlapped, broadcast>>
    BY <1>0, <1>4, <2>0 DEF StartSensor, history
  <2>2. /\ depth_aligned' \subseteq publishers'
        /\ Between(k) => After(k)'
        /\ \A j \in Sensor : j # k =>
             /\ After(j) => After(j)'
             /\ Between(j) => Between(j)'
    BY <1>0, <1>4, <2>0, StartTopics DEF StartSensor, flags, service
  <2>3. Updating' /\ \A w \in Updater : pc[w] \in {"stop", "start"} => w = u
    BY <1>0, <2>1, OneUpdater DEF Updating
  <2>4. /\ ~(k < k)
        /\ \A i \in Sensor : /\ i < k + 1 => i < k \/ i = k
                             /\ i # k /\ ~(i < k + 1) => ~(i < k)
    BY <2>0, SensorAssumption DEF Sensor
  <2>5. QED BY <1>0, <2>0, <2>1, <2>2, <2>3, <2>4 DEF TopicsInv
<1>5. CASE StartFails(u)
  <2>1. overlapped' /\ depth_aligned' \subseteq publishers'
        /\ UNCHANGED <<owner, is_running>>
    BY <1>0, <1>5 DEF StartFails, StartPublishers
  <2>2. QED BY <1>0, <2>1 DEF TopicsInv
<1>6. CASE FinishUpdate(u)
  <2>1. /\ pc[u] = "start" /\ at[u] = NumSensors + 1 /\ broadcast' = static_tf'
        /\ pc' = [pc EXCEPT ![u] = IF u = "monitor" THEN "clear" ELSE "done"]
        /\ UNCHANGED <<owner, is_running, overlapped, publishers, depth_aligned>>
        /\ \A i \in Sensor : After(i) => After(i)'
    BY <1>0, <1>6, AllUntouched
       DEF FinishUpdate, Leave, device, topics, settings, flags, service, want, history
  <2>2. \A w \in Updater : pc'[w] \notin {"stop", "start"}
    BY <1>0, <2>1, OneUpdater
  <2>3. \A i \in Sensor : i < NumSensors + 1
    BY SensorAssumption DEF Sensor
  <2>4. \A i \in Sensor : After(i)' => Resting(i)'
    BY DEF After, Resting
  <2>5. QED BY <1>0, <2>1, <2>2, <2>3, <2>4 DEF TopicsInv
<1>7. CASE StopFails(u)
  <2>1. overlapped' /\ depth_aligned' \subseteq publishers'
        /\ UNCHANGED <<owner, is_running>>
    BY <1>0, <1>7 DEF StopFails, StopPublishers
  <2>2. QED BY <1>0, <2>1 DEF TopicsInv
<1>8. QED BY <1>1, <1>2, <1>3, <1>4, <1>5, <1>6, <1>7 DEF UpdateSensors

---------------------------------------------------------------------------
\* A step that no update can notice.
LEMMA QuietTopics ==
  ASSUME TopicsInv,
         UNCHANGED <<active, topics, broadcast, want, is_align_depth_changed,
                     is_running, overlapped>>,
         owner' # "up" => owner # "up" \/ ~is_running',
         pc'["monitor"] = "clear" => pc["monitor"] = "clear",
         \A u \in Updater :
           /\ pc'[u] \in {"stop", "start"} <=> pc[u] \in {"stop", "start"}
           /\ pc[u] \in {"stop", "start"} => pc'[u] = pc[u] /\ at'[u] = at[u],
         \/ executor' = "align"
         \/ align_enabled' = align_enabled /\ executor # "align"
         \/ align_enabled' = align_enabled /\ executor' = executor
  PROVE  TopicsInv'
<1>1. \A i \in Sensor :
        /\ Served(i) => Served(i)'
        /\ Aligned(i) => Aligned(i)'
        /\ Before(i) => Before(i)'
        /\ Between(i) => Between(i)'
        /\ After(i) => After(i)'
  BY AllUntouched
<1>2. Updating' <=> Updating
  BY DEF Updating
<1>3. \A i \in Sensor : Resting(i) => Resting(i)'
  BY <1>1 DEF Resting
<1>4. QED BY <1>1, <1>2, <1>3 DEF TopicsInv, topics

\* A step that changes a parameter or a flag: while an update is under way it
\* overlaps it.
LEMMA ChangeTopics ==
  ASSUME TopicsInv, overlapped' = (overlapped \/ Updating),
         UNCHANGED <<active, topics, broadcast, owner, is_running>>,
         Updating' => Updating,
         \A i \in Sensor : Served(i) /\ Resting(i) => Resting(i)'
  PROVE  TopicsInv'
<1>1. CASE Updating \/ overlapped
  BY <1>1 DEF TopicsInv, topics
<1>2. CASE ~Updating /\ ~overlapped
  <2>1. \A u \in Updater : pc'[u] \notin {"stop", "start"}
    BY <1>2 DEF Updating
  <2>2. QED BY <1>2, <2>1 DEF TopicsInv, topics, Resting
<1>3. QED BY <1>1, <1>2

\* Every step of every thread keeps the topics with the streams.
LEMMA TopicsStep ==
  ASSUME IInv, TopicsInv, [Next]_vars
  PROVE  TopicsInv'
<1> USE DEF settings, flags, device, history, owning, service, updaters, want
<1>0. /\ pc \in [Updater -> Place] /\ executor \in {"idle", "profile", "align", "reset"}
      /\ MutexInv
      /\ owner # "up" => ~is_running
      /\ depth_aligned \subseteq publishers
  BY DEF IInv, TypeOK, TopicsInv
<1>1. ASSUME NEW u \in Updater, UpdateSensors(u) PROVE TopicsInv'
  BY <1>1, UpdateTopics
<1>2. CASE SpawnMonitor \/ MonitorWakes \/ MonitorEnds
  <2>1. /\ UNCHANGED <<active, topics, broadcast, is_align_depth_changed, is_running,
                       overlapped, owner, align_enabled, executor, at>>
        /\ want' = want
    BY <1>2 DEF SpawnMonitor, MonitorWakes, MonitorEnds
  <2>2. \A u \in Updater :
          /\ pc'[u] \in {"stop", "start"} <=> pc[u] \in {"stop", "start"}
          /\ pc[u] \in {"stop", "start"} => pc'[u] = pc[u]
    <3>1. CASE SpawnMonitor
      <4>1. /\ pc["setup"] = "spawn" /\ pc["monitor"] = "unborn"
            /\ pc'["setup"] = "enter" /\ pc'["monitor"] = "wait"
        BY <1>0, <3>1 DEF SpawnMonitor, MutexInv, Updater
      <4>2. QED BY <4>1 DEF Updater
    <3>2. CASE MonitorWakes \/ MonitorEnds
      BY <1>0, <3>2 DEF MonitorWakes, MonitorEnds, Updater
    <3>3. QED BY <1>2, <3>1, <3>2
  <2>3. pc'["monitor"] # "clear"
    BY <1>0, <1>2 DEF SpawnMonitor, MonitorWakes, MonitorEnds, Updater
  <2>4. QED BY <2>1, <2>2, <2>3, QuietTopics
<1>3. CASE ClearFlags
  <2>1. /\ UNCHANGED <<active, topics, broadcast, is_running, owner>>
        /\ overlapped' = (overlapped \/ Updating)
    BY <1>3 DEF ClearFlags
  <2>2. pc["monitor"] = "clear" /\ (Updating' => Updating)
    BY <1>0, <1>3 DEF ClearFlags, Updating, Updater
  <2>3. \A i \in Sensor : Served(i) /\ Resting(i) => Resting(i)'
    BY <1>3, <2>2 DEF ClearFlags, Resting, Served, Aligned, Runs, topics
  <2>4. QED BY <2>1, <2>2, <2>3, ChangeTopics
<1>4. CASE RaiseFlag
  <2>1. /\ UNCHANGED <<active, topics, broadcast, is_running, owner, pc>>
        /\ overlapped' = (overlapped \/ Updating)
    BY <1>4 DEF RaiseFlag
  <2>2. pc["monitor"] # "clear"
    BY <1>0, <1>4 DEF RaiseFlag, MutexInv
  <2>3. \A i \in Sensor : Served(i) /\ Resting(i) => Resting(i)'
    BY <1>4, <2>1, <2>2 DEF RaiseFlag, Resting, Served, Aligned, Runs, topics
  <2>4. QED BY <2>1, <2>3, ChangeTopics DEF Updating
<1>5. CASE \/ \E s \in Stream, b \in BOOLEAN : WriteEnable(s, b)
           \/ \E S \in SettingParam : \E f \in [S -> Setting] : WriteSetting(S, f)
  <2>1. /\ UNCHANGED <<active, topics, broadcast, is_running, owner, pc,
                       is_align_depth_changed, align_enabled>>
        /\ overlapped' = (overlapped \/ Updating) /\ executor = "idle"
    BY <1>5 DEF WriteEnable, WriteSetting
  <2>2. \A i \in Sensor : Served(i) /\ Resting(i) => Resting(i)'
    BY <2>1 DEF Resting, Served, Aligned, Runs, topics
  <2>3. QED BY <2>1, <2>2, ChangeTopics DEF Updating
<1>6. CASE WriteAlign \/ HWReset \/ HWResetStopFails \/ HWResetEnds
             \/ JoinMonitor \/ Destroyed \/ UNCHANGED vars
  <2>1. /\ UNCHANGED <<active, topics, broadcast, is_align_depth_changed, is_running,
                       overlapped, pc, at>>
        /\ want' = want
        /\ owner' # "up" => owner # "up"
    BY <1>6
       DEF WriteAlign, HWReset, HWResetStopFails, HWResetEnds, JoinMonitor,
           Destroyed, vars
  <2>2. \/ executor' = "align"
        \/ align_enabled' = align_enabled /\ executor # "align"
        \/ align_enabled' = align_enabled /\ executor' = executor
    BY <1>6
       DEF WriteAlign, HWReset, HWResetStopFails, HWResetEnds, JoinMonitor,
           Destroyed, vars
  <2>3. QED BY <2>1, <2>2, QuietTopics
<1>7. CASE HWResetStops \/ Destroy \/ DestroyStops \/ DestroyStopFails
  <2>1. /\ overlapped' \/ ~is_running'
        /\ UNCHANGED topics
        /\ owner' # "up" => ~is_running'
    BY <1>0, <1>7 DEF HWResetStops, Destroy, DestroyStops, DestroyStopFails
  <2>2. QED BY <1>0, <2>1 DEF TopicsInv, topics
<1>8. QED
  BY <1>1, <1>2, <1>3, <1>4, <1>5, <1>6, <1>7
     DEF Next, Monitor, Callback, Request, Destructor

LEMMA TopicsInvariance == Spec => [](IInv /\ TopicsInv)
  BY InitTopics, TopicsStep, InvariantHolds, PTL DEF Spec

\* At rest the topics are those of the streams that run, the camera_info is that
\* of the settings they run with, and the aligned depth of the depth and color
\* sensors that asked for, unless something changed in the middle of an update or
\* a start or a stop failed.
THEOREM TopicsFollowStreams == Spec => []TopicsAtRest
<1>1. ASSUME IInv, TopicsInv, AtRest, ~overlapped
      PROVE  LET running == {s \in Stream : active[s] # Off}
                 followed == UNION {StreamsOf[i] : i \in DepthOrColor}
             IN  /\ publishers = running
                 /\ depth_aligned \subseteq running
                 /\ depth_aligned \cap followed =
                      IF align_enabled THEN running \cap Alignable \cap followed
                                       ELSE {}
                 /\ \A s \in running \cap VideoStream : camera_info[s] = active[s]
  <2> DEFINE running == {s \in Stream : active[s] # Off}
             followed == UNION {StreamsOf[i] : i \in DepthOrColor}
  <2>1. \A i \in Sensor : Resting(i)
    BY <1>1 DEF AtRest, TopicsInv, Updating, Updater
  <2>2. \A i \in Sensor : Served(i) /\ Aligned(i) /\ executor # "align"
    BY <1>1, <2>1 DEF AtRest, Resting
  <2>3. \A s \in Stream : /\ s \in publishers <=> active[s] # Off
                          /\ s \in VideoStream /\ active[s] # Off =>
                               camera_info[s] = active[s]
    BY <2>2, SensorAssumption DEF Served, Runs
  <2>4. \A s \in followed \cap Alignable :
          s \in depth_aligned <=> align_enabled /\ active[s] # Off
    BY <2>2, SensorAssumption DEF Aligned, Runs
  <2>5. /\ publishers \subseteq Stream /\ depth_aligned \subseteq Alignable
        /\ Alignable \subseteq Stream /\ depth_aligned \subseteq publishers
    BY <1>1, SensorAssumption DEF IInv, TypeOK, TopicsInv
  <2>6. publishers = running /\ depth_aligned \subseteq running
    BY <2>3, <2>5
  <2>7. depth_aligned \cap followed =
          IF align_enabled THEN running \cap Alignable \cap followed ELSE {}
    <3>1. \A s : s \in depth_aligned \cap followed <=>
                  align_enabled /\ s \in running \cap Alignable \cap followed
      BY <2>4, <2>5
    <3>2. QED BY <3>1
  <2>8. \A s \in running \cap VideoStream : camera_info[s] = active[s]
    BY <2>3
  <2>9. QED BY <2>6, <2>7, <2>8
<1>2. IInv /\ TopicsInv => TopicsAtRest
  BY <1>1 DEF TopicsAtRest
<1>3. QED BY <1>2, TopicsInvariance, PTL

\* At rest the transforms sent are those of the streams that run, once each,
\* unless something changed in the middle of an update or a start or a stop failed.
THEOREM TransformsFollowStreams == Spec => []TransformsAtRest
<1>1. ASSUME IInv, TopicsInv, AtRest, ~overlapped
      PROVE  broadcast = [s \in Stream |-> IF active[s] # Off THEN 1 ELSE 0]
  <2>1. broadcast = static_tf /\ \A i \in Sensor : Resting(i)
    BY <1>1 DEF AtRest, TopicsInv, Updating, Updater
  <2>2. \A s \in Stream : broadcast[s] = IF active[s] # Off THEN 1 ELSE 0
    BY <2>1, SensorAssumption DEF Resting, Served, Runs
  <2>3. broadcast \in [Stream -> Nat]
    BY <1>1 DEF IInv, TypeOK
  <2>4. QED BY <2>2, <2>3
<1>2. IInv /\ TopicsInv => TransformsAtRest
  BY <1>1 DEF TransformsAtRest
<1>3. QED BY <1>2, TopicsInvariance, PTL
===========================================================================
