SPECIFICATION Spec
CONSTANTS
  Peers = {p, q}
  MaxSyncDepth = 2
  MaxSlot = 4
  MaxSide = 1
  MaxFailures = 0
  MaxRestarts = 1
PROPERTIES
  CatchesUp
