SPECIFICATION Spec
CONSTANTS
  None = None
  Dangling = Dangling
  Launched <- Launches
  MaxChanges = 3
  Width <- Widths
  Angles = {"right", "half"}
  Optional <- Options
INVARIANTS TypeOK DepthOnce RgbdWhole InfoOfFrame AlignedInfo
CHECK_DEADLOCK FALSE
