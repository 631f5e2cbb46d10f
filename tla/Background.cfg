SPECIFICATION Spec
CONSTANTS
  Goal = {g1, g2}
  Full = 2
  MaxChanges = 2
INVARIANTS TypeOK DynamicTfAtRest SilentAfterJoin
PROPERTIES WaitsEnd CancelHonoured
CHECK_DEADLOCK FALSE
