\* The constants of src/node/constants.ts, and six of the 32 nodes.
SPECIFICATION Spec
CONSTANTS
  BIT_SIZE = 5
  HASH_SIZE = 32
  K_BUCKET_SIZE = 3
  ALPHA = 3
  Ids = {0, 4, 5, 6, 8, 9}
  self = 5
  Bootstrap = 0
  MaxRound = 1
INVARIANT
  FindNodeReturnsClosest
