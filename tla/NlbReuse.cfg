CONSTANTS
  s1 = s1
  s2 = s2
  p1 = p1
  p2 = p2
  u1 = u1
  l1 = l1
  l2 = l2
  g1 = g1
  g2 = g2
  g3 = g3
  g4 = g4
  b1 = b1
  b2 = b2
  None = None
  Service = {s1}
  Port = {p1, p2}
  LB = {u1, l1}
  UserLB = {u1}
  Deletable = {u1, l1}
  UserPort = {p2}
  Group = {g1, g2, g3, g4}
  Backends = {b1}
  InitSpec <- ReuseInit
  Edit <- ReuseEdit
  MaxFaults = 1
  MaxEdits = 2
SPECIFICATION Behaviour
CHECK_DEADLOCK FALSE
SYMMETRY GroupSymmetry
INVARIANT UserNLBKept
PROPERTY OverrideRespected
