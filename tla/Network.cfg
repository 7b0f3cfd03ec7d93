SPECIFICATION NetworkSpec
CONSTANTS
  Genesis = "g"
  Parent <- MCParent
  Own = {"own"}
  Invalid = {"bad"}
  Contents <- MCContents
  SnappyTags = {7, 8}
  QueueLimit = 2
  MaxMessages = 3
  Roots = {r1, r2, r3, r4}
  Stored = {r1, r2, r3}
  TooLarge = {r2}
  Unencodable = {r3}
  MaxRequestBlocks = 3
  MaxRoots = 4
INVARIANTS
  AnnouncedServable
  SeenMeansSame
  AnswerFaithful
PROPERTIES
  DeliveryApplied
  QueuesDrain
  RequestEnds
CHECK_DEADLOCK FALSE
