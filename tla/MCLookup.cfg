SPECIFICATION FairSpec
CONSTANTS
  BIT_SIZE = 3
  HASH_SIZE = 8
  K_BUCKET_SIZE = 2
  ALPHA = 2
  Ids = {0, 1, 2, 4, 6, 7}
  Bootstrap = 0
  self = 2
  Shortlists <- MCShortlists
  Answers <- MCAnswers
INVARIANTS
  TypeOK
  LevelInv
  DepthBounded
  ContactsBounded
PROPERTIES
  LookupEnds
