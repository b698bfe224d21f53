SPECIFICATION Spec
CHECK_DEADLOCK FALSE
CONSTANTS
  Nodes = {n1, n2, n3}
  Messages = {m1}
  MaxCopies = 1
INVARIANT
  DirectToAddressee
