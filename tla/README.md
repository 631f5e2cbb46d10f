# A TLA+ model of the RealSense ROS 2 driver

This directory specifies, model-checks and proves properties of `realsense2_camera`,
the ROS 2 driver in `../src`: the control of the driver (threads, locks, flags, queues,
order of operations, error paths), not its pixels, formats or geometry.

## 1. The system

| Part | State it keeps | Operations | Talks to |
|---|---|---|---|
| `RealSenseNodeFactory` (`realsense_node_factory.cpp`) | `_device`, `_realSenseNode`, `_serial_no`, `_initial_reset`, `_is_alive`, the query thread | query loop, `changeDeviceCallback`, `startDevice`, `stopDevice`, `closeDevice`, lifecycle transitions | librealsense's context (events on its own thread), the executor, creates and destroys the node |
| `BaseRealSenseNode`: setup and sensor update (`rs_node_setup.cpp`, `base_realsense_node.cpp`) | the flags `_is_profile_changed`, `_is_align_depth_changed`, `_is_running`; two mutexes; publisher maps; `_camera_info`; `_static_tf_msgs` | `setup`, `monitoringProfileChanges`, `updateSensors`, `handleHWReset`, the destructor | sensors, parameter callbacks, ROS publishers |
| `RosSensor` (`ros_sensor.cpp`) | the active streams (in librealsense), options, the auto exposure region | `start`, `stop`, `getUpdatedProfiles`, sequence id callback | profile managers, `Parameters` |
| `ProfilesManager` (`profile_manager.cpp`) | enabled flags, resolution, rate, format, quality of service of each stream | parameter functions, `addWantedProfiles`, default profiles | `Parameters`, the update of the sensors |
| `Parameters` (`dynamic_params.cpp`) | the functions of the parameters, the queue `_update_functions_v`, the list `self_set_parameters` | on-set callback, `pushUpdateFunctions`, `setRosParamValue`, the update thread | rclcpp's parameter server |
| Time base (`frameSystemTimeSec`) | `_ros_time_base`, `_camera_time_base`, previous time per stream | stamp of a frame, detection of a hardware clock reset | every frame callback |
| Frame path (`frame_callback`, asyncer, RGBD) | the images, camera infos and publishers per stream | publishing frames, framesets, RGBD pairs | filters, publishers |
| IMU path (`imu_callback_sync`, `SyncedImuPublisher`) | the history of samples, the publisher of the topic | uniting accel and gyro, pausing and resuming | frame path |
| Transforms (`tfs.cpp`) | `_static_tf_msgs`, the dynamic transform thread | append, erase, send, start and stop of the thread | sensor update |
| Calibration action and services (`actions.cpp`) | one detached thread per goal | accept, cancel, execute | the device, the action server |
| Safety services, GPU processing, diagnostics, image publisher wrappers, utilities | little or none | wrappers of librealsense or rclcpp calls | |

What is hard in this code:

* **Interleavings.** Setup's thread, the monitor thread, the executor's parameter
  callbacks, `~/hw_reset`, librealsense's event thread and the destructor meet on a
  few flags and members; some of them take no lock at all.
* **Values read twice.** `updateSensors()` stops sensors in one loop and starts them in
  another; each reads the parameters again.
* **Partial failures.** A sensor that does not start, or does not stop and nobody is
  told, a device that goes away while a node is being made for it, a request for several
  parameters one of which fails.
* **Late actions.** A revert queued for one request and carried out after the next; a
  device event that arrives in any lifecycle state.
* **Ends.** Destructors that join threads which wait on condition variables.

What makes each part correct: the streams that run are those the parameters ask for once
things are quiet, with exactly their topics and transforms; the parameter server shows
what the node uses; the factory ends up with a node on the camera that is there, and keeps
to it until it is configured anew; every destructor ends and leaves nothing running.

`PROJECT.json` lists these parts under `components`, and under `hazards` each place where
the code is exposed to one of the difficulties, with the property that covers it.

## 2. The modules

| Module | Models | Checked by | Theorems in |
|---|---|---|---|
| `StreamControl` | what `updateSensors()` promises about the streams, without threads | as a property of `SensorUpdate` | `SensorUpdateProofs` |
| `SensorUpdate` | setup, monitor, parameter callbacks, `~/hw_reset`, destructor | `MCSensorUpdate` | `SensorUpdateProofs` |
| `Parameters` | the class `Parameters`: callback, queue, update thread, marks | `MCParameters` | `ParametersProofs` |
| `NodeFactory` | `RealSenseNodeFactory`: discovery, reconnection, lifecycle | `MCNodeFactory` | `NodeFactoryProofs` |
| `TimeBase` | `frameSystemTimeSec` and the frame callbacks that call it | `MCTimeBase` | `TimeBaseProofs` |
| `ImuSync` | `imu_callback`, `imu_callback_sync`, the topic imu and its transforms | `MCImuSync` | `ImuSyncProofs` |
| `FramePath` | `frame_callback`, `publishFrame`, `publishRGBD`, the camera infos | `MCFramePath` | `FramePathProofs` |
| `Profiles` | the profile managers: default settings, parameters, wanted profiles | `MCProfiles` | `ProfilesProofs` |
| `Background` | the thread of the dynamic transforms, the calibration action | `MCBackground` | `BackgroundProofs` |

Definitions have the names of the code where TLA+ allows it. A definition after a comment
*Variant* is a plausible bug in the definition that follows it, which is named in
`PROJECT.json` under `mutants`: with it the property fails. No specification uses it.

*History variables* record what a property must know and the program does not keep.
Several are excuses (`overlapped`, `overlaps`, `stuck`, `overtaken`, `crossed`, `refused`,
`inherited`, `disturbed`, `missed`, `switched`, `turned`, `sizes`): each names a race or a
failure the code does lose, so that the property says exactly what holds otherwise, and
nothing about the case itself. Several hazards of `PROJECT.json` are such cases; their
notes say so, and section 5 lists them.

### SensorUpdate

A *stream* has a setting it runs with (`active`) or `Off`. The parameters are `enabled`
(`enable_<stream>`) and `setting`, the profile that resolution, rate and format select, or
`Off` if the device has no such profile. `want` is what `addWantedProfiles` would return.

The threads are the setup thread (`pc["setup"]`), the monitor (`pc["monitor"]`), the
executor (`executor`) and the thread that destroys the node (`owner`). One step is one
iteration of one of the two loops of `updateSensors()` (`StopSensor`, `StartSensor`): this
is where another thread's write can be seen half way. The two mutexes are variables that
name their holder. The wait of the monitor is one step, `MonitorWakes`: the condition
variable is waited for with a timeout of ten seconds, so a notification that is missed
only delays it.

The executor's callbacks take two steps: they write the value with no lock (`WriteEnable`,
`WriteAlign`) and then need `_profile_changes_mutex` to raise the flag (`RaiseFlag`).
`WriteSetting` is one step: it raises no flag. `StartFails` is `sensor->start()` that
throws, before or after `open()` made the streams active, and the way the exception takes.

`RosSensor::stop()` catches what the sensor throws and returns as if it had stopped. So
each place that stops a sensor has a second outcome, in which its streams run on and
everything else goes on: in an update (`StopFails`), in `~/hw_reset` (`HWResetStopFails`)
and in the destructor (`DestroyStopFails`, which stands for both its stop and that of
`~RosSensor` after it). `stuck` has the sensors whose last stop failed.

The flag of the alignment is looked at for depth and color sensors only (`DepthOrColor`).
A stream of another sensor, as a safety camera's, gets aligned depth topics when it starts
while the alignment is on, and keeps them until it stops; `TopicsAtRest` says just that.

The history variables are `dirty` (since the last update began, a start or a stop failed,
a reset stopped a sensor, or a resolution was changed that only a re-enabled stream takes)
and `overlapped` (a parameter changed in the middle of an update, or one of these failures
happened).

Abstractions: `publish_tf` is on; the executor is single-threaded, as in the driver's
launch files; `start()` and `stop()` of one sensor are one step each; a build without
`ACCELERATE_GPU_WITH_GLSL`; changing `enable_rgbd` sets the same flag as `WriteEnable`;
the races on the containers themselves are not modelled, only the order of the accesses.

### Profiles

The inside of what `SensorUpdate` calls a setting. `mode` holds `_width`, `_height` and
`_fps` of each type of stream (the infrared streams share one, a motion stream is a type
of its own), `_formats` the formats. `getDefaultProfiles`, `getFallbackProfiles` and
`DefaultProfile` are operators over the device's list of profiles; `Init` is the
registration of the parameters from them. `SetProfile` writes the resolution and then
`WriteFPS` the rate; neither raises a flag, since a profile takes effect when its stream
is enabled the next time. Only `Enable`, the function of `enable_<stream>`, goes on to
raise the flag (`update_sensor_func`). The monitor's update (`BeginUpdate` and the steps
after it) compares one profile after the other with the settings, so that it may meet a
resolution without its rate (`overlapped`). A value is accepted if *any* stream of the
sensor has it, as in the code.

Left out: the quality of service, whose parameters only replace a string (how an unknown
one is set back is in `Parameters`), and the description texts. `MCProfiles` takes every
list of one or two video profiles (four streams, two modes, one format with two values),
every list of three in one format, and every list of up to three motion profiles, with any
of them a default (of four, with none): enough for a default that shares its type with
another stream, a stream without the chosen mode, and a tie between two rates.

### Parameters

`shown` is rclcpp's parameter server, `used` and `gain` what the node and the device use.
A request is a function from some parameters to values (`SetParameters`), in one step,
because rclcpp holds a mutex over the callback and the change. The update thread takes a
queued update (`TakeUpdate`), marks the name (`Mark`) and sets the parameter (`SelfSet`);
requests come between any two of these. `overtaken` is a history variable: the parameters
last set while an update of theirs was pending, or by a request that failed.
`SelfSetUndefined` is the `pop_back()` of an empty list, after which anything may happen:
the process is taken to be gone. Parameters are either *checked* (a profile, format, rate
or quality of service: reverted if unknown) or `Gain`, an option of the device shown again
when the sequence id changes; its exposure is alike and left out. The destructor's removal
of the parameters is left out: it comes after the join.

### NodeFactory

The three threads that run `startDevice()` and `getDevice()` without a lock: the query
thread, the callback thread and the executor (lifecycle transitions). `startDevice()` is
two steps, since the construction of a node takes seconds: `StartDevice` (the old node is
destroyed, the handle is read) and its outcome (`StartSucceeds`, `BackendError`,
`OtherError`). A camera has a *generation*, the number of times it was connected: a handle
is good for one generation, as with librealsense. `Builds` selects a build with or without
`USE_LIFECYCLE_NODE`. The history variables `crossed`, `missed` and `refused` name the
races and failures that the code does not handle, so that `Recovers` says exactly what it
does handle. A transition that throws ends in `finalized`, as rclcpp_lifecycle's error
processing does by default; so does `OnShutdown`, which may come from any of the three
other states, while `OnCleanup` goes from inactive to unconfigured. Both are `CloseDevice`
and, once the query thread has ended, `DeviceClosed`.

`OnConfigure` is `init()`, which reads `serial_no` and `initial_reset` from the parameters
again: anyone may have set or cleared them since. So the process keeps to one camera from
one configuration to the next, not for ever, and `OneCamera` is about the starts of that
time (`started`) and the serial number read at its beginning (`requested`). The callback
may have taken a device after `on_cleanup`, by the serial number of before; a configuration
that finds one held goes on with it (`inherited`), which the property excepts.

Left out: `wait_for_device_timeout` (the process exits), rosbag playback, the end of the
process, the selection by port and type (as by serial number).

### TimeBase

Time is counted in whole units. A stream's frames are delivered in order (`flying`), those
of different streams in any order; the syncer behind `_asyncer` holds video frames while a
filter is enabled (`held`). A frame's *epoch* counts the restarts of the hardware clock;
it is history, as are `taken` (when and from which frame the base was taken) and
`frame_before`. The whole of `frameSystemTimeSec` holds `_time_base_mutex` and is one step
(`Stamp`); `imu_callback` and `imu_callback_sync` stamp the same motion frame in two steps,
between which other streams come. A negative difference is the stamp `Undefined`, since
`millisecondsToNanoseconds` converts it to an unsigned integer. `StampAccurate` leaves such
stamps out: the code gives a frame older than the base a stamp that means nothing.

Left out: the drift between the two clocks, and the frames of a frameset other than the
first, whose time and stream `frameSystemTimeSec` uses. The time between two restarts of
the clock, more than an hour in the hardware, is taken to be longer than any frame waits.

### ImuSync

The topic imu. librealsense calls back for the samples of each motion stream in order and
for the two streams concurrently: a sample takes two steps, `imu_callback` (its own topic)
and `imu_callback_sync`, which is one step, since it holds `_imu_callback_mutex`.
`FillImuData_Copy` and `FillImuData_LinearInterpolation` are operators from a history and
a sample to a history and messages; the loop of the second over the history is the
recursive function in `Interpolated`. The node only ever calls the first, as
`imu_callback_sync` switches on an argument that nobody passes; the second is checked by
itself, folded over the samples the node heard (`InterpolationExact`). The function of
`unite_imu_method` takes two steps: it writes the method and then clears the history under
the mutex. The update of the motion sensor has its steps (stop with its publishers and
transforms, or a stop that fails, start of the publishers, transforms, open, or failure),
because the method may change between any two: the transforms of the topic's frame are
appended with the method of one moment and erased with that of another.

The end of `startPublishers` (`Unite`) makes the topic whenever both motion streams have
their flags and there is a method, whichever sensor it runs for. `StartVideoPublishers` is
that function for a video sensor, at any moment of an update at which it may be such a
sensor's turn: it makes the topic for a method set while the motion sensor ran, or puts a
new publisher in the place of the old one. `method_at_start` is the method at the last of
these ends. The starting loop compares the parameters again (`StartPublishers`), so that
streams may be started over some that run: publishers and transforms are made anew,
`RosSensor::start()` returns at once, and `overlaps` counts it.

`_synced_imu_publisher` is assigned by the monitor with no lock that `imu_callback_sync`
would hold. The model replaces it between two calls; the data race on the pointer itself
is undefined behaviour and not modelled. The stop of the sensors by `~/hw_reset` is in
`SensorUpdate` only.

Left out: the pause mode of `SyncedImuPublisher`, which needs `Enable(true)`, called by
nothing (`hold_back_imu_for_frames` is declared and read, and used nowhere), and
`multiple_message_callback`, which no sensor is started with.

### FramePath

From a frame to the topics. While `enable_sync` or a filter is on, framesets come one at a
time from the asyncer (`BeginFrameset`, one `LoopFrame` for each filtered frame,
`LoopEnds`, `OriginalDepth`, `publishRGBD`, `EndFrameset`); otherwise single frames, from
the threads of the sensors. A call of `publishFrame` is one step, and between any two the
executor changes a parameter, a subscriber comes or goes, or the monitor updates
publishers and streams: `frame_callback` takes none of their locks. A frame is its
profile: its stream, whose intrinsics it has, its size, and whether it was aligned or
colorized. Three filters change the profile and are modelled: rotation, alignment,
colorizer. The order of the frames in the filtered set is left open (`SetToSeqs`).

A size stands for the resolution and the intrinsics that go with it: `raw`, or rotated by
-90, 90 or 180 degrees (`left`, `right`, `half`), the values that
`src/realsense2_camera/launch/rs_launch.py:86` names. `SetAngle` is the filter's option.
`Width` gives the width of each, and leaves open which are equal: those of `raw` and
`half` are in the run, as they always are in the code.

What the model keeps because it can go wrong:
the images for the rgbd topic do not own their pixels, so after the callback they are
`Dangling`; a camera info is only corrected if its *width* is not the frame's, so that a
rotation by 180 degrees leaves the intrinsics of before; and it is corrected with
the profile of the frame, which for aligned depth is called depth though its intrinsics
are those of color (`FixedCameraInfo`), without the baseline of the right infrared camera;
the depth image is published by the loop *and* after it when there is nothing to align it
to; the flags behind the rgbd topic are never lowered when a stream stops (`seen`).

Left out: point clouds, labeled points, occupancy, metadata, the extrinsics topics, the
stamps (in `TimeBase`); the first infrared stream, which goes with the second.

### Background

`SetRate` is the callback of `tf_publish_rate`, which starts the thread of the dynamic
transforms or, for the rate 0, waits for its end on the executor (`StopDynamicTf`); the
destructor waits for the same thread. `JoinedTwice` and the thread started after the
destructor's test are undefined behaviour or `std::terminate`: the process may crash. The
calibration of a goal runs on a detached thread; its goal has the states and transitions
of rclcpp_action, which refuses those it does not know. librealsense reports the progress
in any steps and ends the calibration, by its timeout at the latest. Every goal is
accepted, so that calibrations may overlap: the run has two goals.

Left out: what the calibration computes, and the services that read and write the
calibration configuration, each one call of librealsense.

## 3. The runs

| Run | Instance | Shows |
|---|---|---|
| `SensorUpdate` | a stereo module and a safety camera, three streams, two writes, no failures | `TypeOK`, `ReconciledAtRest`, `TopicsAtRest`, `TransformsAtRest`, and that the threads implement `StreamControl` |
| `SensorUpdateFaults` | the infrared pair, whose resolution is one parameter, two writes, two starts or stops that fail, one reset | the inductive invariant `IInv`, and `DisabledStops` and `DestroyedIsStopped` under failures |
| `SensorUpdateLive` | one sensor, two writes, one start or stop that fails, fairness | `Converges`, `DestructorEnds` |
| `StartupTopics` | one sensor, no writes | a stream may run without publishers after setup (finding) |
| `Parameters` | one checked parameter and the gain, two valid values, one unknown, one mistyped, three requests, two sequence ids | `TypeOK`, `ShownUnlessOvertaken`, `Reverted` |
| `NodeFactory` | two cameras, both builds, two mishaps, three transitions, four of these in all, fairness | `TypeOK`, `NodeHasDevice`, `OneCamera`, `Recovers` |
| `TimeBase` | a video and a motion stream, four units of time, two clock resets, one frame in the syncer | `TypeOK`, `StampAccurate`, `MovesOnReset`, `BaseForward` |
| `ImuSync` | five samples, one change of the method, one start or stop that fails or start over streams that run | `TypeOK`, `LastAccelAttached`, `InterpolationExact`, `ImuAtRest`, `FreshAccel` |
| `LinearInterpolation` | as `ImuSync`, with four samples and no failure | the node copies where it should interpolate (finding) |
| `FramePath` | three streams, three topics whose subscribers come and go, a rotation by 90 or 180 degrees, three changes | `TypeOK`, `DepthOnce`, `RgbdWhole`, `InfoOfFrame`, `AlignedInfo` |
| `Profiles` | the lists above, two parameters set | `TypeOK`, `ActiveBySettings`, `DefaultsOpen`, `OneRate` |
| `Background` | two goals with two reports each, two changes of the rate, fairness | `TypeOK`, `DynamicTfAtRest`, `SilentAfterJoin`, `CancelHonoured`, `WaitsEnd` |

**Why the bounds are enough.** Two writes are what the races of `SensorUpdate` need: one
to start an update and one to fall into the middle of it (an update is three or more steps
per sensor, and every placement of the second write is explored). Two sensors are needed
for a write between the iterations; two streams in one sensor for a sensor that is changed
because of its other stream. The safety camera is a sensor whose aligned depth no change
of the alignment reaches. Two failures let a stop fail and the next stop make it good, a
stop fail after a start did, or a sensor of a destroyed node run on. Three requests let
one queue a revert, one take its mark and one come late. Two mishaps let a camera go and
come back, or go while a reset is under way; three transitions a configuration, a cleanup
and another configuration, with another serial number. Together they are four at most,
which leaves each of these sequences room for the mishap it is about. Four units of time
hold a frame before each of two resets and one after, delivered late on one stream and at
once on the other. Five samples hold an accel, two gyros, an accel and one more: a whole
interval of the interpolation and the beginning of the next. One change of the method sets
or clears it around the update of a video sensor; one start over streams that run shows
that those may be started twice, or one failure what it leaves (`ImuAtRest` excepts what
follows, so a second one would add nothing to it). Three changes let a callback be
disturbed at a start, a frameset be published, and a second one be disturbed after it; the
launch with everything on makes all three available to it. The two angles are one that
changes the width and one that does not. Two settings let one ask for an update and one
fall into it. Two changes of the rate start the thread and stop it, or start it beside the
destructor; a thread that was stopped leaves its variables as they were before it was
started. Two goals let one be canceled while the other succeeds, each with a report before
the complete one. The proofs remove the bounds for the properties they cover.

`CHECK_DEADLOCK FALSE` everywhere: the node may be destroyed, the parameters no longer
change, and the system really stops.

**Fairness.** `SensorUpdate`: each thread that can run does. Weak fairness is enough for
the mutexes because each is held for a bounded number of steps and the waiting ends with
an event that stays enabled; the monitor's wait has a timeout. No fairness on requests,
failures, resets or the destruction. `Parameters`: the update thread runs (its wait ends
within a second). `NodeFactory`: the threads run, sleeps end, librealsense reports events,
and a camera that was told to reset disappears and comes back; nobody has to plug or
unplug anything or make a transition. `Background`: the threads run, the wait of the
transform thread ends after a period, and a calibration comes to its end (librealsense
has a timeout); nobody has to set a rate, cancel a goal or destroy the node. The other
modules state no liveness and no fairness.

## 4. The proofs

All theorems hold for every value of the constants that fits the assumptions of the
module. Those assumptions are of three kinds: bounds are natural numbers (the theorems hold
for any, so they are not about small runs), a constant that stands for "nothing" is none
of the values it is told from (`ConfigAssumption`, `ValueAssumption`, `DeviceAssumption`,
`NoneAssumption`), and, where a component is about a device, what every device has:
`SensorAssumption` (the sensors have disjoint streams, which together are all streams),
`ParamAssumption` (finitely many parameters; the gain is not one of the checked ones),
`StreamAssumption`, `OptionalAssumption`, `ListAssumption` (a sensor has some profiles, all
of motion streams or none; those of motion streams have no resolution). `WidthAssumption`
and `AngleAssumption` are types only: any sizes may be as wide as any others, and the
theorems of `FramePath` say themselves (`Distinct`) what needs that they are not.

Where an argument goes by induction over a number (how many samples were heard, how many
turns a loop made), it uses that a set of natural numbers has a least member (`Least`,
from the library's `WFMin`), for the set of those numbers the claim fails for: the
library's induction theorems take the claim as an operator, and the provers cannot
instantiate one.

**SensorUpdateProofs**: `TypeCorrect` (`TypeOK`), `InvariantHolds` (`IInv`),
`NoChangeIsLost` (`ReconciledAtRest`), `DisabledStreamsStop` (`DisabledStops`),
`DestructorStops` (`DestroyedIsStopped`) and `ControlImplemented` (`ImplementsControl`,
the refinement of `StreamControl`).

`ReconciledAtRest` is not inductive: it speaks of the rest only. `IInv` adds what holds on
the way there:

* `MutexInv`: which thread holds which mutex is determined by the threads' places;
* `ProgressInv`: during an update nobody excuses, the sensors the stopping loop has passed
  are stopped or as wanted, and those the starting loop has passed are as wanted. The
  update is excused by a change whose callback still has to raise the flag, or, for
  setup's update, which does not hold `_profile_changes_mutex`, by a raised flag that the
  monitor has not consumed;
* `SettledInv`: between two updates with no flag up, every sensor is as wanted;
* `AllowedInv`: the same for disabled streams only, which needs no excuse for failed
  starts, because the stopping loop runs before any start can fail. A stop that fails
  excuses its own sensor, until that sensor is stopped again (`stuck`);
* `DestroyInv`: how far the destructor has got, with the same excuse; once the monitor is
  joined no update runs.

The point of the argument is `RaiseFlag`: a callback can raise its flag only while the
monitor does not hold the mutex, so a flag raised for a change that an update missed
cannot be cleared at the end of that same update. Without the mutex the proof fails at
that step, and the mutant `RaiseFlagUnlocked` violates the property in the runs.

Two theorems build on it: `TopicsFollowStreams` (`TopicsAtRest`) and
`TransformsFollowStreams` (`TransformsAtRest`). `TopicsInv` says of each sensor where it is
in an update: before the stopping loop its topics are *served* (exactly those of the
streams that run), between the loops the sensor is *bare* (no topics, and either down or
to be started for the alignment) or needs no update, after the starting loop it is served
again. It holds as long as `overlapped` does not: a write between the loops is what makes
the two loops disagree. On a sensor that is neither depth nor color, *served* asks of the
aligned depth only that it is of streams that run. Nothing is assumed about the sensors
that streams to be aligned to belong to.

**ParametersProofs**: `TypeCorrect`, `ServerShowsUsed` (`ShownUnlessOvertaken`). `MarkInv`:
the only mark is that of the update being carried out; `ValueInv`: what the thread holds
is that update's value; `CheckedInv`: a parameter not overtaken is shown as it is used, or
every pending revert of it carries the used value; `GainInv`: the same for the gain,
whose refresh reads the option late: the last pending one has yet to read it, or holds the
value of the current sequence id.

**NodeFactoryProofs**: `TypeCorrect`, `KeepsToOneCamera` (`OneCamera`), `NodeKeepsDevice`
(`NodeHasDevice`). `Chosen`: a serial number that was asked for is the one sought and,
unless the configuration found a device held, the device held and all cameras started since
are of the serial number taken; it needs no excuse for threads that cross.
`OneStarts`: while no threads crossed, at most one thread makes a node, and for the device
held; `NodeIsHandle`: a node was made with a handle.

**TimeBaseProofs**: `TypeCorrect`, `StampsAreAccurate` (`StampAccurate`),
`BaseMovesOnReset` (`MovesOnReset`), `BaseGoesForward` (`BaseForward`). `SameClock` and
`Past` relate the frames that are known (on their way, remembered, or the base's) to each
other and to the clock; `Recent`: no frame on its way is older than the epoch before;
`BaseLink`, `PreviousLink` and `StampLink` tie the node's three variables to the frames
they came from. The clock can only restart when no frame of the epoch before the last is
still on its way (the assumption on the hardware above); that is used in `Recent` alone.

**ImuSyncProofs**: `TypeCorrect`, `TopicAtRest` (`ImuAtRest`), `AccelIsFresh`
(`FreshAccel`), `GyrosGetLastAccel` (`LastAccelAttached`), `InterpolationIsExact`
(`InterpolationExact`), that is every property of the module. `TopicInv` follows the
publishers and transforms through the steps of an update of the motion sensor, between any
two of which a video sensor may make the topic; `HistoryInv`: the history ends
with the accel sample that arrived last, unless that one is on its way or was missed.

* `GyrosGetLastAccel` adds `HistoryIsLast` to the property: the history is the last accel
  sample of those left and heard, and nothing else. `AttachableAppend` says what one more
  sample changes: the gyro samples before it keep their accel samples, and so (`PlaceAdd`)
  their places among the messages. Every gap keeps the pair, since it hands what the
  history holds over to `left`.
* `InterpolationIsExact` is in two parts. `Timed` is the invariant: the samples heard have
  the data of their times, and the times of the accel samples grow, although a sample
  waits between its two callbacks while others pass by. The rest holds of any such
  sequence. `LoopIs` follows one loop over all the samples: it holds back the gyro samples
  since the last accel sample (`Held`) and has given a message for each one before it
  (`Given`). `CallsFollow` shows that the calls, each of which loops over its own history
  and keeps the last sample, give the same messages: what the loop over a history leaves
  is always what the one loop has (`Keeps`), also when a history of fewer than three
  samples is not looped over. Of the variant `FillImuData_LinearInterpolationDrained`,
  which keeps nothing, this is what fails. That both recursive functions exist is shown
  first (`TurnsAre`, `CallsAre`).

**ProfilesProofs**: `TypeCorrect`, `StreamsFollowSettings` (`ActiveBySettings`),
`DefaultsAreOpened` (`DefaultsOpen`), `MotionHasOneRate` (`OneRate`), that is every
property of the module, for every list that fits `ListAssumption`. The first three parts
of the invariant `Inv` are types and that neither `active` nor `wanted_profiles` has two
profiles of a stream (`OneEach`). The others follow an update:

* `Steady`: until something overlaps it, an update compares with the settings it began
  with, and no callback has half of a mode left to write;
* `Found`: of the profiles compared so far, every enabled stream with one of its settings
  has one in `wanted_profiles`, and every profile there is wanted; a callback that has
  enabled a stream and still has to raise the flag suspends this, because the flag asks
  for another update;
* `Rested`: between updates with no flag up, what runs is what the settings select;
* `Begun`: until a parameter is set, the settings are those of the registration.

The last one reduces `DefaultsOpen` and `OneRate` to facts about the list alone. The first
needs that `getDefaultProfiles` and `validateAndGetSuitableProfile` return profiles of the
stream's own type (`FirstDefaultFound`, `LastOfTypeFound`), so that the mode and the
format the registration takes from them occur together in one profile of the stream. The
second needs `BestRate`: the fallback of a motion sensor has the lowest of the rates that
most streams share, so that every stream with that rate has a wanted profile.

**FramePathProofs**: `TypeCorrect`, `DepthPublishedOnce` (`DepthOnce`), `InfoTellsOfFrame`
(`InfoOfFrame`), `AlignedInfoIsColors` (`AlignedInfo`), `RgbdIsWhole` (`RgbdWhole`), that
is every property of the module. `DepthInv` counts the depth images at each stage: in the
loop none yet and a depth frame left to deal with, or as many as the loop publishes.
`FilteredFrames` is the lemma about the filters: whatever they add and in whatever order,
the result is finite and has a depth frame if there was one. `ImageInv`: outside an update
every stream that runs has its topic. The other three theorems rest on `Follows`:

* `FrameInv`: the frames the loop has left are those the filters would still make, unless
  the callback was disturbed;
* `InfoInv`: which stream's intrinsics each camera info can have. Depth's may be those of
  color, but never the reverse: `InfoPublished` shows that `FixedCameraInfo` gives color
  the info of color frames only, although aligned depth frames pass its check;
* `SizeInv`: frames and infos are of sizes in `sizes`, those that images may have had since
  the node started, which only grows;
* `ColorInv`: while the sizes of color in `sizes` differ in width, the info of color is of
  the images' present size, or a color frame is yet to come in the loop;
* `RgbdInv`: while the topic rgbd is wanted, each of the two images is kept, or still in
  the loop; and that topic is only there with the topic of the aligned depth.

The check of `FixedCameraInfo` compares widths and nothing else. So the width of the info
is right without conditions, and its size if no two sizes that the stream had have one
width (`Distinct`). With a rotation by 180 degrees that is no longer so: the theorems then
say nothing of the size, and the code leaves it wrong.

**BackgroundProofs**: `TypeCorrect`, `TransformsFollowRate` (`DynamicTfAtRest`),
`DestructorSilences` (`SilentAfterJoin`), `CancelsAreHonoured` (`CancelHonoured`).
`ThreadInv` gives the state of the thread object for each place of the executor and the
destructor; `CancelInv`: a calibration that was aborted has published less than the
complete progress, so it does not succeed.

**Only model-checked**: what needs fairness (`Converges`, `DestructorEnds`, `Reverted`,
`Recovers`, `WaitsEnd`), which is out of the prover's reach. Every invariant and every
action property of the passing runs has a theorem.

## 5. What the checks found

Two disagreements between the code and what it says of itself are runs of their own;
`PROJECT.json` has the lines.

1. **A stream without topics after start-up** (`StartupTopics`). `setup()` runs its own
   update without the mutex that guards the flags. With `align_depth.enable` set at
   launch, the monitor may clear the flag between the two loops of setup's update, which
   has then erased publishers it does not make again.
2. **Linear interpolation copies** (`LinearInterpolation`). With
   `unite_imu_method:=2` every gyro sample gets the last accel sample as it is.

The excuses of the other properties name behaviours of the code that no document of the
repository rules out, or that need a race to happen:

* `stuck`: a sensor whose `stop()` or `close()` throws may run on, with its publishers and
  transforms gone; nobody is told and nothing retries, until the next update that finds its
  settings changed, `~/hw_reset` or the destructor stops it again.
* A change of `align_depth.enable` passes by the streams of a sensor that is neither depth
  nor color: they keep the aligned depth they were started with.
* `overlapped`: a stream enabled between the two loops of an update gets its transforms
  appended twice and erased once, so one stays when it stops (`overlaps` in `ImuSync`: the
  same of the imu frame, with a topic imu for streams that may not both run). In
  `Profiles`, an update that meets a resolution without its rate finds no profile, and
  nothing repeats it.
* `overtaken`: a revert queued for one request overwrites the valid value of the next; a
  request takes the mark the update thread made for its own; the values of a request that
  failed half way stay in use.
* `refused`, `missed`, `crossed`: a start that fails with anything but a backend error is
  not tried again; a removal before the callback is set is not seen; two threads in
  `startDevice()` may leave the node and the device apart. With the lifecycle, a camera
  that comes back starts its node even in the state inactive. `inherited`: a device the
  callback took after `on_cleanup` is kept by the next `on_configure`, even if that reads
  another serial number.
* In `TimeBase`, a late frame from before a reset makes the reset be detected a second
  time, which is harmless to `BaseForward`; a frame overtaken when the last filter is
  disabled looks older than its successors and moves the base without a reset.
* `switched`: changing `unite_imu_method` while the sensor runs leaves the transforms of
  the imu frame listed, or missing; the topic itself comes or is replaced with the next
  update of any sensor. `missed`: the first message after a subscriber comes back is united
  with an old accel sample.
* `sizes`: after a rotation by 180 degrees is set or taken back, the camera infos keep the
  intrinsics of before, as long as their stream is not started again or has images of
  another width in between.
* `disturbed`: what one frameset publishes may be cut in two by a change in between. And
  without any race: a frameset of depth alone is published twice while the alignment is
  on; an aligned image's profile may correct the info of depth instead of color; the right
  infrared camera's info loses its baseline once it is corrected (`turned`).
* In `Profiles`, a `<stream>_profile` that only another stream of the sensor has is
  accepted, and the stream then does not run; a default mode of infra2 that differs from
  the shared one is not opened (`DefaultsOpen` excepts it).
* `crashed`: a rate set to 0 while the destructor joins the thread, or to a rate after
  the destructor's test; a calibration that outlives its node.

## 6. Not modelled, and the plan

Partly modelled components, and what they lack:

* *Frame path and filters*: point clouds, labeled points, occupancy, metadata and
  extrinsics topics; the pixels. Each is one more publisher with the life of an image's.
* *RosSensor and Parameters*: the registration of a sensor's options (generated by type
  from what the device lists), the region of interest and `setParamValue`. The latter
  looks a name up in `_param_names`, which nothing fills, so that it only changes the
  node's variable; and the function of a region's edge registers the edges again, which
  runs their functions inside one another.
* *NodeFactory*: the end of the process, `wait_for_device_timeout`, rosbag playback.
* *IMU path*: the pause mode, which is unreachable (see `ImuSync`).
* *Calibration*: the services, each one call of librealsense between two conversions.

Not modelled: safety services (each one call of librealsense, without state in the node);
GPU processing (OpenGL set-up of an optional build); image publisher wrappers;
diagnostics, with the thread for the temperature, which is declared and never started;
geometry of the transforms; utilities; the latency tool, messages, descriptions, the rviz
plugin, launch files, scripts and tests.

What would come next, in this order: the region of interest with the declaration of
parameters, in a module beside `Parameters`; publishers and frames composed step by step
(`FramePath` takes an update as one step, `SensorUpdate` has its steps but no frames).
