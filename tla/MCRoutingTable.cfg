SPECIFICATION Spec
CONSTANTS
  BIT_SIZE = 3
  HASH_SIZE = 8
  K_BUCKET_SIZE = 2
  ALPHA = 2
  Ids = {0, 1, 2, 4, 5, 6, 7}
  self = 6
  Bootstrap = 0
  MaxRound = 2
INVARIANTS
  TypeOK
  TableWellFormed
  AllPeersExact
  FindNodeSound
  FindNodeEnough
PROPERTIES
  OnlyDisconnectForgets
  ImplementsPeerSet
