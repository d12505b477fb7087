CONSTANTS
  s1 = s1
  s2 = s2
  p1 = p1
  p2 = p2
  u1 = u1
  l1 = l1
  l2 = l2
  g1 = g1
  g2 = g2
  g3 = g3
  g4 = g4
  b1 = b1
  b2 = b2
  None = None
  Service = {s1}
  Port = {p1, p2}
  LB = {l1, l2}
  UserLB = {}
  Deletable = {}
  UserPort = {}
  Group = {g1, g2, g3}
  Backends = {b1, b2}
  InitSpec <- OwnInit
  Edit <- PortEdit
  MaxFaults = 1
  MaxEdits = 2
SPECIFICATION FairBehaviour
CHECK_DEADLOCK FALSE
PROPERTY Converges
INVARIANT TypeOK
INVARIANT FinalizerGuards
INVARIANT AtMostOneNLB
INVARIANT NoDanglingListener
INVARIANT QuiescentInSync
