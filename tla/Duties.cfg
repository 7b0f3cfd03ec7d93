SPECIFICATION Spec
CONSTANTS
  NumValidators = 3
  Indices <- MCIndices
  HasKeys = TRUE
  PreparedEnd = 3
  InstantsPerInterval = 3
  Phases = {0, 1, 2}
  MaxLate = 4
  MaxRestarts = 1
  MaxSlot = 3
  MaxLateSlot = 1
  MaxView = 2
INVARIANTS
  OneMessagePerSlot
  AttestersSign
  PendingOfOneSlot
CHECK_DEADLOCK FALSE
