\* A find that asks first a node the store does not reach.
SPECIFICATION FairSpec
CHECK_DEADLOCK FALSE
CONSTANTS
  n1 = n1
  n2 = n2
  n3 = n3
  s1 = s1
  f1 = f1
  k1 = k1
  v1 = v1
  v2 = v2
  Missing = Missing
  Nodes = {n1, n2, n3}
  Ops = {s1, f1}
  Keys = {k1}
  Values = {v1, v2}
  ALPHA = 2
  Calls <- MCCalls
  Value <- SameValue
  Hash <- MCHash
  Home <- MCHome
  Kind <- MCKind
  At <- MCAt
  Peers <- ApartPeers
PROPERTY
  FindReturnsStored
