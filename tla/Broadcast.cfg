\* A flood that has died out leaves nothing to do.
SPECIFICATION FairSpec
CHECK_DEADLOCK FALSE
CONSTANTS
  Nodes = {n1, n2, n3}
  Messages = {m1}
  MaxCopies = 2
INVARIANTS
  TypeOK
  AtMostOnce
PROPERTIES
  FloodEnds
