CONSTANTS
  c1 = c1
  c2 = c2
  u1 = u1
  l1 = l1
  l2 = l2
  l3 = l3
  k1 = k1
  k2 = k2
  v1 = v1
  v2 = v2
  v3 = v3
  z1 = z1
  z2 = z2
  short = short
  None = None
  AlbConfig = {c1}
  LB = {u1, l1, l2, l3}
  UserLB = {u1}
  UserAttrs <- UserALB
  InitSpec <- AnyInit
  Edit <- AnyEdit
  Key = {k1, k2}
  VSwitch = {v1, v2, v3}
  ZoneOf <- Zones
  AlbZones = {z1, z2}
  BadLog = {short}
  Faults <- AllFaults
  MaxFaults = 2
  MaxEdits = 2
SPECIFICATION FairSpec
CHECK_DEADLOCK FALSE
INVARIANT UserALBKept
INVARIANT FinalizerGuards
INVARIANT AtMostOneALB
INVARIANT QuietInSync
PROPERTY OverrideRespected
PROPERTY Converges
