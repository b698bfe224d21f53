\* Three nodes of a 3-bit key space: nodes 6 and 7 compete for the one place
\* that the bootstrap node, an entry of its own bucket, has for the far half.
\* Two rounds at a time; one query is lost or node 7 is restarted.
SPECIFICATION FairSpec
CONSTANTS
  Answers <- MCAnswers
  BIT_SIZE = 3
  HASH_SIZE = 8
  K_BUCKET_SIZE = 2
  ALPHA = 2
  Ids = {0, 6, 7}
  Bootstrap = 0
  Rounds = {1, 2}
  Overlapping = {0}
  Failing = {7}
  MaxDials = 2
  MaxFaults = 1
INVARIANTS
  TypeOK
PROPERTIES
  StaysConnected
  EveryPeerDialled
  KnowEachOther
