\* Three nodes of a 2-bit key space: nodes 2 and 3 compete for the one place
\* that the bootstrap node, an entry of its own bucket, has for the far half.
\* A node that waits for nothing may have nothing left to do.
SPECIFICATION FairSpec
CHECK_DEADLOCK FALSE
CONSTANTS
  BIT_SIZE = 2
  HASH_SIZE = 4
  K_BUCKET_SIZE = 2
  ALPHA = 2
  Ids = {0, 2, 3}
  Bootstrap = 0
  Talking = {{0, 2}, {0, 3}}
  MaxLinks = 2
  Doubled <- MCDoubled
  MaxFaults = 1
INVARIANTS
  TypeOK
  EntriesLive
PROPERTIES
  MeshedOrForgotten
