SPECIFICATION Spec
CONSTANTS
  None = None
  Lists <- ProfileLists
  MaxChanges = 2
INVARIANTS TypeOK ActiveBySettings DefaultsOpen OneRate
CHECK_DEADLOCK FALSE
