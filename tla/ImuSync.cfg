SPECIFICATION Spec
CONSTANTS
  None = None
  MaxSamples = 5
  MaxChanges = 1
  MaxMishaps = 1
INVARIANTS TypeOK LastAccelAttached InterpolationExact ImuAtRest
PROPERTIES FreshAccel
CHECK_DEADLOCK FALSE
