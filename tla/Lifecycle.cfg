SPECIFICATION LifecycleSpec
CONSTANTS
  Nodes = {n1, n2}
  Count = 2
  MaxRuns = 2
  MaxEntries = 2
  MaxShare = 2
  Formats = {"libp2p", "hex", "raw"}
  MaxStarts = 3
  Members = {"n1", "n2", "n3"}
  Owner <- MCOwner
  MaxAge = 4
  MaxMissed = 2
INVARIANTS
  SigningKeysRight
  OneIdentity
  FailsCleanly
  GapEndsChain
PROPERTIES
  BlocksKeepComing
CHECK_DEADLOCK FALSE
