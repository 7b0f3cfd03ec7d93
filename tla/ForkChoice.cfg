SPECIFICATION Spec
CONSTANTS
  NumValidators = 3
  GenesisRoot <- G
  Own = {0}
  OwnRoots = {3}
  Envelopes <- MCEnvelopes
  GossipVotes <- MCGossipVotes
  Aggregates <- MCAggregates
  MaxTime = 12
INVARIANTS
  TablesAgree
  HeadFollowsVotes
  VotesGrounded
  CheckpointsNewest
PROPERTIES
  StoreOnlyGrows
  SafeTargetBacked
  OwnVotesOnBranch
  ImplementsBlockTree
CHECK_DEADLOCK FALSE
