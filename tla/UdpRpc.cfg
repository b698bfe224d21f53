\* Every call ends as resolved or rejected, and then nothing need happen.
SPECIFICATION RpcFairSpec
CHECK_DEADLOCK FALSE
CONSTANTS
  Nodes = {n1, n2}
  Calls = {c1, c2}
  Keys = {k1, k2}
  Values = {v1, v2}
  Missing = Missing
INVARIANTS
  RpcTypeOK
  AnswersFit
PROPERTIES
  CallsSettle
  ImplementsRemoteCall
