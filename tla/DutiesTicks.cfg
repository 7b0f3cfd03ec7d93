SPECIFICATION Spec
CONSTANTS
  NumValidators = 3
  Indices <- MCIndices
  HasKeys = TRUE
  PreparedEnd = 3
  InstantsPerInterval = 3
  Phases = {0, 1, 2}
  MaxLate = 1
  MaxRestarts = 0
  MaxSlot = 1
  MaxLateSlot = 1
  MaxView = 0
INVARIANTS
  IntervalDutiesOnce
CHECK_DEADLOCK FALSE
