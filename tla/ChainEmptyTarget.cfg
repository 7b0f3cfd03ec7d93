SPECIFICATION Spec
CONSTANTS
  NumValidators = 3
  RootAt <- MCRootAtShort
  MaxSlot = 4
  MaxEmpty = 2
  Checkpoints <- AllCheckpoints
INVARIANTS
  JustifiedByQuorum
CHECK_DEADLOCK FALSE
