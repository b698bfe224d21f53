\* The constants of src/node/constants.ts; the walk ends at the last key.
SPECIFICATION Spec
CHECK_DEADLOCK FALSE
CONSTANTS
  BIT_SIZE = 5
  HASH_SIZE = 32
  K_BUCKET_SIZE = 3
  ALPHA = 3
  Ids = {0, 1, 2, 3, 4, 5, 6, 7, 8, 9, 10, 11, 12, 13, 14, 15, 16,
         17, 18, 19, 20, 21, 22, 23, 24, 25, 26, 27, 28, 29, 30, 31}
INVARIANTS
  IndexIsLogDistance
  OwnBucketIsNearest
