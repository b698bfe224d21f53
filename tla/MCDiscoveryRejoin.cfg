\* The bootstrap node is the one that restarts.
SPECIFICATION FairSpec
CONSTANTS
  Answers <- MCAnswers
  BIT_SIZE = 3
  HASH_SIZE = 8
  K_BUCKET_SIZE = 2
  ALPHA = 2
  Ids = {0, 6, 7}
  Bootstrap = 0
  Rounds = {1}
  Overlapping = {}
  Failing = {0}
  MaxDials = 2
  MaxFaults = 1
PROPERTIES
  StaysConnected
