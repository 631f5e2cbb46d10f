-------------------------- MODULE MCSensorUpdate --------------------------
(* Small devices for SensorUpdate.                                         *)
EXTENDS SensorUpdate

CONSTANTS depth, safety, infra1, infra2

\* Every sensor is a depth or a color sensor, every stream has its parameters.
DepthOrColorSensors == Sensor
ParamEach == {{s} : s \in Stream}

\* A stereo module and a safety sensor, as on a D585S: two sensors, one of which
\* has two streams, and the other is neither a depth nor a color sensor, though
\* depth may be aligned to its stream.
TwoSensors == <<{depth, infra1}, {safety}>>
StereoOnly == {1}
AllStreams == {depth, infra1, safety}
SafetyAndInfra == {safety, infra1}

\* One sensor with two streams.
OneSensor == <<{depth, infra1}>>
StereoStreams == {depth, infra1}
InfraOnly == {infra1}

\* The infrared pair: the formats are parameters of their own, the resolution
\* is one parameter for both.
InfraSensor == <<{infra1, infra2}>>
InfraStreams == {infra1, infra2}
InfraParams == {{infra1}, {infra2}, {infra1, infra2}}
===========================================================================
