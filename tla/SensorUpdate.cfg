SPECIFICATION Spec
CONSTANTS
  depth = depth
  safety = safety
  infra1 = infra1
  infra2 = infra2
  Off = Off
  NumSensors = 2
  Stream <- AllStreams
  StreamsOf <- TwoSensors
  DepthOrColor <- StereoOnly
  SettingParam <- ParamEach
  VideoStream <- AllStreams
  Alignable <- SafetyAndInfra
  Config = {p}
  MaxWrites = 2
  MaxFailures = 0
  MaxResets = 0
INVARIANTS TypeOK ReconciledAtRest TopicsAtRest TransformsAtRest
PROPERTIES ImplementsControl
CHECK_DEADLOCK FALSE
