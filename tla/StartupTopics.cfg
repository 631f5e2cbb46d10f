SPECIFICATION Spec
CONSTANTS
  depth = depth
  safety = safety
  infra1 = infra1
  infra2 = infra2
  Off = Off
  NumSensors = 1
  Stream <- StereoStreams
  StreamsOf <- OneSensor
  DepthOrColor <- DepthOrColorSensors
  SettingParam <- ParamEach
  VideoStream <- StereoStreams
  Alignable <- InfraOnly
  Config = {p}
  MaxWrites = 0
  MaxFailures = 0
  MaxResets = 0
INVARIANTS StreamsHaveTopics
CHECK_DEADLOCK FALSE
