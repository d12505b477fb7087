CONSTANTS
  s1 = s1
  s2 = s2
  p1 = p1
  p2 = p2
  u1 = u1
  l1 = l1
  l2 = l2
  g1 = g1
  g2 = g2
  g3 = g3
  g4 = g4
  b1 = b1
  b2 = b2
  None = None
  Service = {s1, s2}
  Port = {p1, p2}
  LB = {u1}
  UserLB = {u1}
  Deletable = {}
  UserPort = {}
  Group = {g1, g2}
  Backends = {b1}
  InitSpec <- SharedInit
  Edit <- SharedEdit
  MaxFaults = 1
  MaxEdits = 1
SPECIFICATION Behaviour
CHECK_DEADLOCK FALSE
SYMMETRY GroupSymmetry
INVARIANT FinalizerGuards
INVARIANT QuiescentInSync
PROPERTY UserListenersKept
