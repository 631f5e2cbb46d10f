SPECIFICATION Spec
CONSTANTS
  None = None
  MaxSamples = 4
  MaxChanges = 1
  MaxMishaps = 0
PROPERTIES LinearInterpolation
CHECK_DEADLOCK FALSE
