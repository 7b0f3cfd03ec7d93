SPECIFICATION AlgorithmsSpec
CONSTANTS
  MaxSlot = 45
  MaxBits = 10
  NumValidators = 8
  Voters = {0, 6, 7}
  Datas = {d1, d2}
  SigWidth = 2
  OddByte = {1, 6}
  MaxAggregateDamage = 2
  BitsPerByte = 3
  Uint64Width = 2
  OffsetWidth = 3
  RootWidth = 3
  PubkeyWidth = 4
  SignatureWidth = 5
  HistoricalRootsLimit = 3
  ValidatorRegistryLimit = 2
  MaxLen = 2
  Seeds = {0, 1, 3}
  Damages = {0, 5, 7}
  MaxDamage = 1
INVARIANTS
  IsqrtExact
  JustifiableByDistance
  BytesMatchSets
  AggregateFaithful
  OneEncoding
  RootsIdentify
PROPERTIES
  ImplementsBitVector
CHECK_DEADLOCK FALSE
