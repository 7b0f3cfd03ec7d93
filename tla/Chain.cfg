SPECIFICATION Spec
CONSTANTS
  NumValidators = 3
  RootAt <- MCRootAtShort
  MaxSlot = 4
  MaxEmpty = 1
  Checkpoints <- AllCheckpoints
INVARIANTS
  TypeOK
  HistoryAligned
  CheckpointsJustified
  VotesSurviveSerialization
  QuorumsCounted
PROPERTIES
  FinalityNeverReverts
  JustificationOnlyAhead
CHECK_DEADLOCK FALSE
