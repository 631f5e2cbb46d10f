SPECIFICATION FairSpec
CONSTANTS
  Device = {d1, d2}
  Any = Any
  None = None
  Builds = {"unmanaged", "unconfigured"}
  MaxMishaps = 2
  MaxTransitions = 3
  MaxEvents = 4
INVARIANTS TypeOK NodeHasDevice OneCamera
PROPERTIES Recovers
CHECK_DEADLOCK FALSE
