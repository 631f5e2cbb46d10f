SPECIFICATION Spec
CONSTANTS
  Checked = {profile}
  Gain = gain_param
  Valid = {v, w}
  Unknown = {x}
  Mistyped = mistyped
  SequenceId = {1, 2}
  MaxRequests = 3
INVARIANTS TypeOK ShownUnlessOvertaken
PROPERTIES Reverted
CHECK_DEADLOCK FALSE
