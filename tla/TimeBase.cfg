SPECIFICATION Spec
CONSTANTS
  video = video
  motion = motion
  Stream <- Streams
  Motion <- MotionStreams
  None = None
  Undefined = Undefined
  MaxDelay = 1
  MaxHeld = 1
  MaxTime = 4
  MaxResets = 2
INVARIANTS TypeOK StampAccurate
PROPERTIES MovesOnReset BaseForward
CHECK_DEADLOCK FALSE
