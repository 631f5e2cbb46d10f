SPECIFICATION Spec
CONSTANTS
  depth = depth
  safety = safety
  infra1 = infra1
  infra2 = infra2
  Off = Off
  NumSensors = 1
  Stream <- InfraStreams
  StreamsOf <- InfraSensor
  DepthOrColor <- DepthOrColorSensors
  SettingParam <- InfraParams
  VideoStream <- InfraStreams
  Alignable <- InfraOnly
  Config = {p}
  MaxWrites = 2
  MaxFailures = 2
  MaxResets = 1
INVARIANTS IInv DisabledStops DestroyedIsStopped
CHECK_DEADLOCK FALSE
