SPECIFICATION Spec
CONSTANTS
  NumValidators = 3
  GenesisRoot <- G
  Own = {0}
  OwnRoots = {3}
  Envelopes <- MCEnvelopes
  GossipVotes <- MCGossipVotes
  Aggregates <- MCAggregates
  MaxTime = 12
PROPERTIES
  OwnVotesCount
CHECK_DEADLOCK FALSE
