CONSTANTS
  n1 = n1
  n2 = n2
  vk = vk
  p1 = p1
  p2 = p2
  None = None
  Node = {n1, n2, vk}
  Pod = {p1, p2}
  NodeVersion <- MCNodes
  PodVersion <- MCPods
  SvcVersion <- MCServices
  Start <- MCStart
  Edit <- MCEdit
  BatchNum = 1
  EndpointSlice = FALSE
  Faults <- AllFaults
  MaxEdits = 3
  MaxFaults = 1
SPECIFICATION FairSpec
CHECK_DEADLOCK FALSE
INVARIANT TypeOK
INVARIANT QuietInSync
PROPERTY ReplacementsFirst
PROPERTY Converges
