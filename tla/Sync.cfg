SPECIFICATION Spec
CONSTANTS
  Peers = {p, q}
  MaxSyncDepth = 4
  MaxSlot = 4
  MaxSide = 1
  MaxFailures = 1
  MaxRestarts = 1
INVARIANTS
  StoreComplete
PROPERTIES
  CatchesUp
  DutiesResume
