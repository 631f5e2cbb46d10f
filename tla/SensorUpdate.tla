--------------------------- MODULE SensorUpdate ---------------------------
(***************************************************************************)
(* How a RealSense node reconciles the streams that run with the streams   *)
(* its parameters ask for.  Four threads meet here:                        *)
(*                                                                         *)
(*  - the setup thread, which starts the monitor thread and then runs      *)
(*    updateSensors() itself, under _update_sensor_mutex alone;            *)
(*  - the monitor thread, which waits for a change under                   *)
(*    _profile_changes_mutex and runs updateSensors() while it holds it;   *)
(*  - the executor, whose parameter callbacks write the wanted setting     *)
(*    without a lock and only then take _profile_changes_mutex to raise a  *)
(*    flag, and which also serves ~/hw_reset;                              *)
(*  - the thread that destroys the node.                                   *)
(*                                                                         *)
(* updateSensors() is two loops over the sensors, a stopping one and a     *)
(* starting one, and each iteration reads the parameters anew: one step of *)
(* the model is one iteration of one loop.                                 *)
(***************************************************************************)
EXTENDS Naturals

CONSTANTS
  NumSensors,      \* the sensors are 1..NumSensors, in the device's order
  Stream,          \* the streams of the device
  StreamsOf,       \* the streams of each sensor
  DepthOrColor,    \* the sensors that are a depth or a color sensor
  SettingParam,    \* for each parameter of a resolution, a format or a rate,
                   \* the streams it is about
  VideoStream,     \* the streams with a camera_info
  Alignable,       \* the streams depth may be aligned to: those with images but
                   \* depth itself and the second of a pair, on any sensor
  Config,          \* the settings of a running stream (resolution, rate, format)
  Off,             \* the setting of a stream that does not run
  MaxWrites,       \* bound: parameter changes
  MaxFailures,     \* bound: failures of sensor->start(), stop() and close()
  MaxResets        \* bound: calls of ~/hw_reset

Sensor == 1..NumSensors

ASSUME SensorAssumption ==
  /\ NumSensors \in Nat
  /\ StreamsOf \in [Sensor -> SUBSET Stream]
  /\ \A i, j \in Sensor : i # j => StreamsOf[i] \cap StreamsOf[j] = {}
  /\ \A s \in Stream : \E i \in Sensor : s \in StreamsOf[i]
  /\ DepthOrColor \subseteq Sensor
  /\ SettingParam \subseteq SUBSET Stream
  /\ VideoStream \subseteq Stream
  /\ Alignable \subseteq VideoStream
ASSUME ConfigAssumption == Off \notin Config
ASSUME BoundAssumption ==
  MaxWrites \in Nat /\ MaxFailures \in Nat /\ MaxResets \in Nat

Setting == Config \cup {Off}
Updater == {"setup", "monitor"}   \* the threads that run updateSensors()

VARIABLES
  enabled,         \* the parameter enable_<stream> of each stream
  setting,         \* the setting its other parameters describe, Off if no
                   \* profile of the device has that resolution, format and rate
  align_enabled,   \* the parameter align_depth.enable
  active,          \* the setting each stream of the device runs with
  stuck,           \* history: the sensors whose last stop failed
  publishers,      \* the streams that have their image or imu publishers
  depth_aligned,   \* the streams that have aligned-depth publishers
  camera_info,     \* the setting each camera_info was computed for
  static_tf,       \* how many entries _static_tf_msgs has for each stream
  broadcast,       \* static_tf as last sent by the static broadcaster
  is_profile_changed, is_align_depth_changed, is_running,
  profile_changes_mutex, update_sensor_mutex,   \* the holder, or "free"
  pc,              \* where each updater is
  at,              \* the sensor each updater's loop is at
  executor,        \* where the executor is
  reset_at,        \* the sensor ~/hw_reset is at
  owner,           \* where the destroying thread is
  owner_at,        \* the sensor the destructor is at
  dirty,           \* history: since the last update began, a start or a stop
                   \* failed, a reset stopped a sensor or a setting changed
  overlapped,      \* history: a parameter or a flag changed in the middle of
                   \* an update, a start or a stop failed or a reset was made
  writes, failures, resets

device   == <<active, stuck>>
topics   == <<publishers, depth_aligned, camera_info, static_tf>>
settings == <<enabled, setting, align_enabled>>
flags    == <<is_profile_changed, is_align_depth_changed>>
mutexes  == <<profile_changes_mutex, update_sensor_mutex>>
updaters == <<pc, at>>
service  == <<executor, reset_at>>
owning   == <<is_running, owner, owner_at>>
history  == <<dirty, overlapped, writes, failures, resets>>
vars == <<device, topics, broadcast, settings, flags, mutexes, updaters,
          service, owning, history>>

---------------------------------------------------------------------------
(* What an iteration of either loop of updateSensors() looks at.           *)

\* The setting the parameters of each stream ask for.
want == [s \in Stream |-> IF enabled[s] THEN setting[s] ELSE Off]

Wanted(i) == {s \in StreamsOf[i] : want[s] # Off}
Active(i) == {s \in StreamsOf[i] : active[s] # Off}

\* getUpdatedProfiles: the active profiles are not the wanted ones.
ProfileChanged(i) == \E s \in StreamsOf[i] : want[s] # active[s]

NeedsUpdate(i) ==
  ProfileChanged(i) \/ (i \in DepthOrColor /\ is_align_depth_changed)

\* RosSensor::stop, which also leaves a stopped sensor as it is.  It catches what
\* sensor::stop() and close() throw, and the streams may then still be active
\* when it returns.
Stopped(i) == [s \in Stream |-> IF s \in StreamsOf[i] THEN Off ELSE active[s]]

\* RosSensor::start, which does nothing while a stream of the sensor runs.
CanStart(i) == Active(i) = {}
\* Variant: without the early return for a sensor that runs.
StartedAnyway(i) ==
  [s \in Stream |-> IF s \in StreamsOf[i] THEN want[s] ELSE active[s]]
Started(i) ==
  IF CanStart(i)
  THEN [s \in Stream |-> IF s \in StreamsOf[i] THEN want[s] ELSE active[s]]
  ELSE active

\* Variant: forgets the aligned depth.
StopPublishersNotAligned(S) ==
  /\ publishers' = publishers \ S
  /\ static_tf' = [s \in Stream |-> IF s \in S /\ static_tf[s] > 0
                                    THEN static_tf[s] - 1 ELSE static_tf[s]]
  /\ UNCHANGED <<depth_aligned, camera_info>>

\* Variant: erases a transform without looking whether there is one.
StopPublishersNotFound(S) ==
  /\ publishers' = publishers \ S
  /\ depth_aligned' = depth_aligned \ S
  /\ static_tf' = [s \in Stream |-> IF s \in S THEN static_tf[s] - 1
                                               ELSE static_tf[s]]
  /\ UNCHANGED camera_info

StopPublishers(S) ==
  /\ publishers' = publishers \ S
  /\ depth_aligned' = depth_aligned \ S
  /\ static_tf' = [s \in Stream |-> IF s \in S /\ static_tf[s] > 0
                                    THEN static_tf[s] - 1 ELSE static_tf[s]]
  /\ UNCHANGED camera_info

StartPublishers(S) ==
  /\ publishers' = publishers \cup S
  /\ depth_aligned' = IF align_enabled THEN depth_aligned \cup (S \cap Alignable)
                                       ELSE depth_aligned
  /\ camera_info' = [s \in Stream |-> IF s \in S \cap VideoStream
                                      THEN want[s] ELSE camera_info[s]]
  /\ static_tf' = [s \in Stream |-> IF s \in S THEN static_tf[s] + 1
                                               ELSE static_tf[s]]

Updating == \E u \in Updater : pc[u] \in {"stop", "start"}

---------------------------------------------------------------------------
\* A parameter launched with another value than its default runs its callback
\* when it is declared (align_depth.enable is off by default), before the
\* monitor thread exists: the flags may be up when setup() gets here.
Init ==
  /\ enabled \in [Stream -> BOOLEAN] /\ setting \in [Stream -> Setting]
  /\ align_enabled \in BOOLEAN
  /\ active = [s \in Stream |-> Off] /\ stuck = {}
  /\ publishers = {} /\ depth_aligned = {}
  /\ camera_info = [s \in Stream |-> Off]
  /\ static_tf = [s \in Stream |-> 0]
  /\ broadcast = [s \in Stream |-> 0]
  /\ is_profile_changed \in BOOLEAN
  /\ is_align_depth_changed = align_enabled
  /\ is_running = TRUE
  /\ profile_changes_mutex = "free" /\ update_sensor_mutex = "free"
  /\ pc = [u \in Updater |-> IF u = "setup" THEN "spawn" ELSE "unborn"]
  /\ at = [u \in Updater |-> 1]
  /\ executor = "idle" /\ reset_at = 1
  /\ owner = "up" /\ owner_at = 1
  /\ dirty = FALSE /\ overlapped = FALSE
  /\ writes = 0 /\ failures = 0 /\ resets = 0

---------------------------------------------------------------------------
(* The setup and the monitor thread.                                       *)

\* setup() starts the monitor thread and goes on to its own updateSensors().
SpawnMonitor ==
  /\ pc["setup"] = "spawn"
  /\ pc' = [u \in Updater |-> IF u = "setup" THEN "enter" ELSE "wait"]
  /\ UNCHANGED <<device, topics, broadcast, settings, flags, mutexes, at,
                 service, owning, history>>

\* Variant: the monitor gives the mutex back before it updates.
MonitorWakesUnlocked ==
  /\ pc["monitor"] = "wait"
  /\ profile_changes_mutex = "free"
  /\ is_running /\ (is_profile_changed \/ is_align_depth_changed)
  /\ pc' = [pc EXCEPT !["monitor"] = "enter"]
  /\ UNCHANGED <<device, topics, broadcast, settings, flags, mutexes, at,
                 service, owning, history>>

\* The monitor leaves wait_for, holding the mutex again: it was notified or
\* ten seconds have passed.  It runs an update if there is something to do.
MonitorWakes ==
  /\ pc["monitor"] = "wait"
  /\ profile_changes_mutex = "free"
  /\ is_running /\ (is_profile_changed \/ is_align_depth_changed)
  /\ profile_changes_mutex' = "monitor"
  /\ pc' = [pc EXCEPT !["monitor"] = "enter"]
  /\ UNCHANGED <<device, topics, broadcast, settings, flags,
                 update_sensor_mutex, at, service, owning, history>>

\* Variant: a wait for a change alone.
MonitorEndsOnChange ==
  /\ pc["monitor"] = "wait"
  /\ profile_changes_mutex = "free"
  /\ ~is_running /\ (is_profile_changed \/ is_align_depth_changed)
  /\ pc' = [pc EXCEPT !["monitor"] = "done"]
  /\ UNCHANGED <<device, topics, broadcast, settings, flags, mutexes, at,
                 service, owning, history>>

MonitorEnds ==
  /\ pc["monitor"] = "wait"
  /\ profile_changes_mutex = "free"
  /\ ~is_running
  /\ pc' = [pc EXCEPT !["monitor"] = "done"]
  /\ UNCHANGED <<device, topics, broadcast, settings, flags, mutexes, at,
                 service, owning, history>>

\* updateSensors takes _update_sensor_mutex.
EnterUpdate(u) ==
  /\ pc[u] = "enter"
  /\ update_sensor_mutex = "free"
  /\ update_sensor_mutex' = u
  /\ pc' = [pc EXCEPT ![u] = "stop"]
  /\ at' = [at EXCEPT ![u] = 1]
  /\ dirty' = FALSE
  /\ UNCHANGED <<device, topics, broadcast, settings, flags,
                 profile_changes_mutex, service, owning, overlapped, writes,
                 failures, resets>>

\* One iteration of stopRequiredSensors.
StopSensor(u) ==
  /\ pc[u] = "stop" /\ at[u] \in Sensor
  /\ LET i == at[u]
     IN  /\ active' = IF ProfileChanged(i) THEN Stopped(i) ELSE active
         /\ stuck' = IF ProfileChanged(i) THEN stuck \ {i} ELSE stuck
         /\ IF NeedsUpdate(i) THEN StopPublishers(Active(i)) ELSE UNCHANGED topics
  /\ at' = [at EXCEPT ![u] = @ + 1]
  /\ UNCHANGED <<broadcast, settings, flags, mutexes, pc, service, owning,
                 history>>

\* The same, but the sensor does not stop.  Nobody learns of it: the publishers
\* and transforms are taken away and the update goes on.
StopFails(u) ==
  /\ pc[u] = "stop" /\ at[u] \in Sensor
  /\ failures < MaxFailures
  /\ LET i == at[u]
     IN  /\ ProfileChanged(i) /\ Active(i) # {}
         /\ stuck' = stuck \cup {i}
         /\ StopPublishers(Active(i))
  /\ at' = [at EXCEPT ![u] = @ + 1]
  /\ failures' = failures + 1
  /\ dirty' = TRUE /\ overlapped' = TRUE
  /\ UNCHANGED <<active, broadcast, settings, flags, mutexes, pc, service,
                 owning, writes, resets>>

StopLoopEnds(u) ==
  /\ pc[u] = "stop" /\ at[u] = NumSensors + 1
  /\ pc' = [pc EXCEPT ![u] = "start"]
  /\ at' = [at EXCEPT ![u] = 1]
  /\ UNCHANGED <<device, topics, broadcast, settings, flags, mutexes, service,
                 owning, history>>

\* One iteration of startUpdatedSensors.
StartSensor(u) ==
  /\ pc[u] = "start" /\ at[u] \in Sensor
  /\ LET i == at[u]
     IN  IF NeedsUpdate(i) /\ Wanted(i) # {}
         THEN /\ StartPublishers(Wanted(i))
              /\ active' = Started(i)
         ELSE UNCHANGED <<active, topics>>
  /\ at' = [at EXCEPT ![u] = @ + 1]
  /\ UNCHANGED <<stuck, broadcast, settings, flags, mutexes, pc, service, owning,
                 history>>

\* Where an updater goes when updateSensors() returns, and when it throws:
\* the monitor catches the exception and goes on as if nothing had happened.
Leave(u, ending) ==
  /\ pc' = [pc EXCEPT ![u] = IF u = "monitor" THEN "clear" ELSE ending]
  /\ update_sensor_mutex' = "free"

\* Variant: the exception leaves the mutex locked.
StartFailsLocked(u) ==
  /\ pc[u] = "start" /\ at[u] \in Sensor
  /\ failures < MaxFailures
  /\ LET i == at[u]
     IN  /\ ProfileChanged(i) /\ Wanted(i) # {} /\ CanStart(i)
         /\ StartPublishers(Wanted(i))
         /\ active' \in {active, Started(i)}
  /\ pc' = [pc EXCEPT ![u] = IF u = "monitor" THEN "clear" ELSE "failed"]
  /\ failures' = failures + 1
  /\ dirty' = TRUE /\ overlapped' = TRUE
  /\ UNCHANGED <<stuck, broadcast, settings, flags, mutexes, at, service,
                 owning, writes, resets>>

\* sensor->start() throws, before or after it has opened the streams, which
\* makes them active: the publishers are there, the transforms are appended,
\* the sensors after this one are not looked at.
StartFails(u) ==
  /\ pc[u] = "start" /\ at[u] \in Sensor
  /\ failures < MaxFailures
  /\ LET i == at[u]
     IN  /\ ProfileChanged(i) /\ Wanted(i) # {} /\ CanStart(i)
         /\ StartPublishers(Wanted(i))
         /\ active' \in {active, Started(i)}
  /\ Leave(u, "failed")
  /\ failures' = failures + 1
  /\ dirty' = TRUE /\ overlapped' = TRUE
  /\ UNCHANGED <<stuck, broadcast, settings, flags, profile_changes_mutex, at,
                 service, owning, writes, resets>>

\* Variant: the transforms are not sent again.
FinishUpdateUnsent(u) ==
  /\ pc[u] = "start" /\ at[u] = NumSensors + 1
  /\ Leave(u, "done")
  /\ UNCHANGED <<device, topics, broadcast, settings, flags,
                 profile_changes_mutex, at, service, owning, history>>

\* After the last sensor: publishStaticTransforms, and updateSensors returns.
FinishUpdate(u) ==
  /\ pc[u] = "start" /\ at[u] = NumSensors + 1
  /\ broadcast' = static_tf
  /\ Leave(u, "done")
  /\ UNCHANGED <<device, topics, settings, flags, profile_changes_mutex, at,
                 service, owning, history>>

\* The monitor lowers both flags, whether the update succeeded or not, and
\* waits again, which releases the mutex.
ClearFlags ==
  /\ pc["monitor"] = "clear"
  /\ is_profile_changed' = FALSE /\ is_align_depth_changed' = FALSE
  /\ profile_changes_mutex' = "free"
  /\ pc' = [pc EXCEPT !["monitor"] = "wait"]
  /\ overlapped' = (overlapped \/ Updating)
  /\ UNCHANGED <<device, topics, broadcast, settings, update_sensor_mutex, at,
                 service, owning, dirty, writes, failures, resets>>

---------------------------------------------------------------------------
(* The executor.                                                           *)

\* enable_<stream> is set: the callback stores the value, with no lock, before
\* it asks for the mutex.
WriteEnable(s, b) ==
  /\ executor = "idle" /\ writes < MaxWrites
  /\ enabled' = [enabled EXCEPT ![s] = b]
  /\ executor' = "profile"
  /\ overlapped' = (overlapped \/ Updating)
  /\ writes' = writes + 1
  /\ UNCHANGED <<device, topics, broadcast, setting, align_enabled, flags,
                 mutexes, updaters, reset_at, owning, dirty, failures, resets>>

\* A resolution, a format or a rate is set: the callback stores it and no more.
\* It takes effect at the next update, whatever that one is made for.
WriteSetting(S, f) ==
  /\ executor = "idle" /\ writes < MaxWrites
  /\ setting' = [s \in Stream |-> IF s \in S THEN f[s] ELSE setting[s]]
  /\ dirty' = TRUE
  /\ overlapped' = (overlapped \/ Updating)
  /\ writes' = writes + 1
  /\ UNCHANGED <<device, topics, broadcast, enabled, align_enabled, flags,
                 mutexes, updaters, service, owning, failures, resets>>

\* align_depth.enable changes.
WriteAlign ==
  /\ executor = "idle" /\ writes < MaxWrites
  /\ align_enabled' = ~align_enabled
  /\ executor' = "align"
  /\ writes' = writes + 1
  /\ UNCHANGED <<device, topics, broadcast, enabled, setting, flags, mutexes,
                 updaters, reset_at, owning, dirty, overlapped, failures,
                 resets>>

\* Variant: the flag is raised without the mutex.
RaiseFlagUnlocked ==
  /\ executor \in {"profile", "align"}
  /\ is_profile_changed' = (is_profile_changed \/ executor = "profile")
  /\ is_align_depth_changed' = (is_align_depth_changed \/ executor = "align")
  /\ executor' = "idle"
  /\ overlapped' = (overlapped \/ Updating)
  /\ UNCHANGED <<device, topics, broadcast, settings, mutexes, updaters,
                 reset_at, owning, dirty, writes, failures, resets>>

\* The callback has the mutex, raises its flag and notifies the monitor.
RaiseFlag ==
  /\ executor \in {"profile", "align"}
  /\ profile_changes_mutex = "free"
  /\ is_profile_changed' = (is_profile_changed \/ executor = "profile")
  /\ is_align_depth_changed' = (is_align_depth_changed \/ executor = "align")
  /\ executor' = "idle"
  /\ overlapped' = (overlapped \/ Updating)
  /\ UNCHANGED <<device, topics, broadcast, settings, mutexes, updaters,
                 reset_at, owning, dirty, writes, failures, resets>>

\* ~/hw_reset, which setup() advertises after its own update.
HWReset ==
  /\ executor = "idle" /\ resets < MaxResets
  /\ pc["setup"] = "done"
  /\ executor' = "reset" /\ reset_at' = 1
  /\ resets' = resets + 1
  /\ UNCHANGED <<device, topics, broadcast, settings, flags, mutexes, updaters,
                 owning, dirty, overlapped, writes, failures>>

\* handleHWReset stops the sensors one by one, holding no mutex.
HWResetStops ==
  /\ executor = "reset" /\ reset_at \in Sensor
  /\ active' = Stopped(reset_at)
  /\ stuck' = stuck \ {reset_at}
  /\ reset_at' = reset_at + 1
  /\ dirty' = TRUE /\ overlapped' = TRUE
  /\ UNCHANGED <<topics, broadcast, settings, flags, mutexes, updaters,
                 executor, owning, writes, failures, resets>>

HWResetStopFails ==
  /\ executor = "reset" /\ reset_at \in Sensor
  /\ failures < MaxFailures /\ Active(reset_at) # {}
  /\ stuck' = stuck \cup {reset_at}
  /\ reset_at' = reset_at + 1
  /\ failures' = failures + 1
  /\ UNCHANGED <<active, topics, broadcast, settings, flags, mutexes, updaters,
                 executor, owning, dirty, overlapped, writes, resets>>

HWResetEnds ==
  /\ executor = "reset" /\ reset_at = NumSensors + 1
  /\ executor' = "idle"
  /\ UNCHANGED <<device, topics, broadcast, settings, flags, mutexes, updaters,
                 reset_at, owning, history>>

---------------------------------------------------------------------------
(* ~BaseRealSenseNode, on the thread that owns the node: setup() is over.  *)

Destroy ==
  /\ owner = "up" /\ pc["setup"] \in {"done", "failed"}
  /\ is_running' = FALSE
  /\ owner' = "join"
  /\ UNCHANGED <<device, topics, broadcast, settings, flags, mutexes, updaters,
                 service, owner_at, history>>

\* Variant: the monitor is not joined.
JoinMonitorNot ==
  /\ owner = "join"
  /\ owner' = "stop"
  /\ UNCHANGED <<device, topics, broadcast, settings, flags, mutexes, updaters,
                 service, is_running, owner_at, history>>

JoinMonitor ==
  /\ owner = "join" /\ pc["monitor"] = "done"
  /\ owner' = "stop"
  /\ UNCHANGED <<device, topics, broadcast, settings, flags, mutexes, updaters,
                 service, is_running, owner_at, history>>

\* A sensor is stopped by ~BaseRealSenseNode or, after it, by ~RosSensor.
DestroyStops ==
  /\ owner = "stop" /\ owner_at \in Sensor
  /\ active' = Stopped(owner_at)
  /\ stuck' = stuck \ {owner_at}
  /\ owner_at' = owner_at + 1
  /\ UNCHANGED <<topics, broadcast, settings, flags, mutexes, updaters,
                 service, is_running, owner, history>>

\* Both stops of the sensor fail.
DestroyStopFails ==
  /\ owner = "stop" /\ owner_at \in Sensor
  /\ failures < MaxFailures /\ Active(owner_at) # {}
  /\ stuck' = stuck \cup {owner_at}
  /\ owner_at' = owner_at + 1
  /\ failures' = failures + 1
  /\ UNCHANGED <<active, topics, broadcast, settings, flags, mutexes, updaters,
                 service, is_running, owner, dirty, overlapped, writes, resets>>

Destroyed ==
  /\ owner = "stop" /\ owner_at = NumSensors + 1
  /\ owner' = "down"
  /\ UNCHANGED <<device, topics, broadcast, settings, flags, mutexes, updaters,
                 service, is_running, owner_at, history>>

---------------------------------------------------------------------------
UpdateSensors(u) ==
  \/ EnterUpdate(u) \/ StopSensor(u) \/ StopFails(u) \/ StopLoopEnds(u)
  \/ StartSensor(u) \/ StartFails(u) \/ FinishUpdate(u)

Monitor == MonitorWakes \/ MonitorEnds \/ ClearFlags

Callback == RaiseFlag \/ HWResetStops \/ HWResetStopFails \/ HWResetEnds

Request ==
  /\ owner # "down"
  /\ \/ \E s \in Stream, b \in BOOLEAN : WriteEnable(s, b)
     \/ \E S \in SettingParam : \E f \in [S -> Setting] : WriteSetting(S, f)
     \/ WriteAlign
     \/ HWReset

Destructor == JoinMonitor \/ DestroyStops \/ DestroyStopFails \/ Destroyed

Next ==
  \/ SpawnMonitor
  \/ \E u \in Updater : UpdateSensors(u)
  \/ Monitor
  \/ Callback
  \/ Request
  \/ Destroy
  \/ Destructor

\* Every thread that can run does: the mutexes are held for a bounded time,
\* and the monitor's wait ends at a notification or after ten seconds.
\* Nobody has to change a parameter, ask for a reset or destroy the node.
Fairness ==
  /\ WF_vars(SpawnMonitor)
  /\ \A u \in Updater : WF_vars(UpdateSensors(u))
  /\ WF_vars(Monitor)
  /\ WF_vars(Callback)
  /\ WF_vars(Destructor)

Spec == Init /\ [][Next]_vars
FairSpec == Spec /\ Fairness

---------------------------------------------------------------------------
(* Properties.                                                             *)

Place == {"spawn", "unborn", "wait", "enter", "stop", "start", "clear", "done",
          "failed"}

TypeOK ==
  /\ enabled \in [Stream -> BOOLEAN] /\ setting \in [Stream -> Setting]
  /\ active \in [Stream -> Setting] /\ stuck \subseteq Sensor
  /\ align_enabled \in BOOLEAN
  /\ publishers \subseteq Stream /\ depth_aligned \subseteq Alignable
  /\ camera_info \in [Stream -> Setting]
  /\ static_tf \in [Stream -> Nat] /\ broadcast \in [Stream -> Nat]
  /\ is_profile_changed \in BOOLEAN /\ is_align_depth_changed \in BOOLEAN
  /\ is_running \in BOOLEAN
  /\ profile_changes_mutex \in {"free", "monitor"}
  /\ update_sensor_mutex \in Updater \cup {"free"}
  /\ pc \in [Updater -> Place]
  /\ at \in [Updater -> 1..NumSensors + 1]
  /\ executor \in {"idle", "profile", "align", "reset"}
  /\ reset_at \in 1..NumSensors + 1
  /\ owner \in {"up", "join", "stop", "down"}
  /\ owner_at \in 1..NumSensors + 1
  /\ dirty \in BOOLEAN /\ overlapped \in BOOLEAN
  /\ writes \in Nat /\ failures \in Nat /\ resets \in Nat

\* Nothing is under way and nothing is announced.
AtRest ==
  /\ is_running
  /\ pc["setup"] \in {"done", "failed"} /\ pc["monitor"] = "wait"
  /\ ~is_profile_changed /\ ~is_align_depth_changed
  /\ executor = "idle"

\* No parameter change is lost: at rest every stream runs with the setting its
\* parameters ask for, however the callbacks, the setup thread and the monitor
\* interleaved, unless since the last update began a start or a stop failed or a
\* reset stopped a sensor (the code has no retry), or a resolution, format or
\* rate was changed and no stream re-enabled.
ReconciledAtRest == AtRest /\ ~dirty => active = want

\* A stream that was disabled does not run once the node is at rest, however many
\* starts and earlier stops failed, sensors were reset or settings changed
\* meanwhile, unless the very last stop of its sensor failed: RosSensor::stop()
\* keeps that to itself and nothing retries.
DisabledStops ==
  AtRest => \A i \in Sensor \ stuck :
              \A s \in StreamsOf[i] : active[s] # Off => enabled[s]

\* As long as no parameter changed in the middle of an update and no start or
\* stop failed, at rest the topics are those of the streams that run: their
\* publishers, a camera_info of the setting the stream runs with, and, on a
\* depth or a color sensor, the aligned depth that align_depth.enable asks for.
\* A change of that parameter passes the other sensors by: their streams keep
\* the aligned depth they were started with, but no longer than they run.
TopicsAtRest ==
  AtRest /\ ~overlapped =>
    LET running == {s \in Stream : active[s] # Off}
        followed == UNION {StreamsOf[i] : i \in DepthOrColor}
    IN  /\ publishers = running
        /\ depth_aligned \subseteq running
        /\ depth_aligned \cap followed =
             IF align_enabled THEN running \cap Alignable \cap followed ELSE {}
        /\ \A s \in running \cap VideoStream : camera_info[s] = active[s]

\* As long as no parameter changed in the middle of an update and no start or
\* stop failed, at rest the broadcast transforms hold one entry for each stream
\* that runs, no other.
TransformsAtRest ==
  AtRest /\ ~overlapped =>
    broadcast = [s \in Stream |-> IF active[s] # Off THEN 1 ELSE 0]

\* Every stream that runs has its publishers when the node is at rest.
StreamsHaveTopics ==
  AtRest /\ ~dirty => \A s \in Stream : active[s] # Off => s \in publishers

\* The destructor leaves no stream running: no update starts one after the
\* destructor has stopped its sensor.  Only a sensor whose stop fails runs on.
DestroyedIsStopped ==
  owner = "down" => \A i \in Sensor \ stuck :
                      \A s \in StreamsOf[i] : active[s] = Off

\* What updateSensors promises, whoever runs it.
Control == INSTANCE StreamControl WITH want <- want, active <- active
ImplementsControl == Control!Spec

\* Once the parameters no longer change, every stream ends up, for good, with
\* the setting its parameters ask for, unless since the last update began a
\* start or a stop failed, a sensor was reset or a setting changed, or the node
\* is being destroyed.
Converges == <>[](~is_running \/ dirty \/ active = want)

\* The destructor ends: the monitor sees is_running lowered and can be joined.
DestructorEnds == owner = "join" ~> owner = "down"

---------------------------------------------------------------------------
(* The inductive invariant behind ReconciledAtRest and DestroyedIsStopped. *)

Synced(i) == \A s \in StreamsOf[i] : active[s] = want[s]
Down(i)   == \A s \in StreamsOf[i] : active[s] = Off

\* A stream was enabled or disabled and the flag is not up yet.
Pending == executor = "profile"

\* No stream of the sensor runs that is disabled, or it could not be stopped.
Allowed(i) == i \in stuck \/ \A s \in StreamsOf[i] : active[s] # Off => enabled[s]

\* Who holds which mutex, and which places of the threads go together.
MutexInv ==
  /\ pc["setup"] \in {"spawn", "enter", "stop", "start", "done", "failed"}
  /\ pc["monitor"] \in {"unborn", "wait", "enter", "stop", "start", "clear", "done"}
  /\ profile_changes_mutex = "monitor" <=>
       pc["monitor"] \in {"enter", "stop", "start", "clear"}
  /\ \A u \in Updater : update_sensor_mutex = u <=> pc[u] \in {"stop", "start"}
  /\ pc["setup"] = "spawn" <=> pc["monitor"] = "unborn"

\* A change the update of u has not seen will be seen by a later one: its
\* callback still has to raise the flag, or, for the update of setup(), which
\* does not hold _profile_changes_mutex, the flag is up and will be noticed.
Announced(u) ==
  Pending \/ (u = "setup" /\ is_profile_changed /\ pc["monitor"] # "clear")
Excused(u) == dirty \/ Announced(u)

\* How far the update of u has got.
ProgressInv ==
  \A u \in Updater : pc[u] \in {"stop", "start"} /\ ~Excused(u) =>
    \A i \in Sensor :
      /\ pc[u] = "stop" /\ i < at[u] => Synced(i) \/ Down(i)
      /\ pc[u] = "start" => Synced(i) \/ Down(i)
      /\ pc[u] = "start" /\ i < at[u] => Synced(i)

\* Between two updates, every change is either applied or announced.
Settled ==
  /\ pc["setup"] \in {"done", "failed"}
  /\ pc["monitor"] \in {"wait", "enter", "clear"}
  /\ ~Pending
  /\ ~is_profile_changed \/ pc["monitor"] = "clear"
SettledInv == Settled /\ ~dirty => \A i \in Sensor : Synced(i)

\* The stopping loop stops every sensor with a disabled stream, if it can,
\* whatever becomes of the starting loop; a change it has not seen is announced.
AllowedInv ==
  /\ \A u \in Updater : pc[u] \in {"stop", "start"} /\ ~Announced(u) =>
       \A i \in Sensor : pc[u] = "start" \/ i < at[u] => Allowed(i)
  /\ Settled => \A i \in Sensor : Allowed(i)

\* How far the destructor has got.
DestroyInv ==
  /\ owner # "up" => pc["setup"] \in {"done", "failed"}
  /\ owner \in {"up", "join"} => owner_at = 1
  /\ owner \in {"stop", "down"} =>
       /\ pc["monitor"] = "done"
       /\ \A i \in Sensor : i < owner_at => Down(i) \/ i \in stuck
  /\ owner = "down" => owner_at = NumSensors + 1

IInv ==
  TypeOK /\ MutexInv /\ ProgressInv /\ SettledInv /\ AllowedInv /\ DestroyInv
===========================================================================
