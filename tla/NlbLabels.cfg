CONSTANTS
  n1 = n1
  n2 = n2
  vk = vk
  p1 = p1
  p2 = p2
  None = None
  Node = {n1, n2, vk}
  Pod = {p1, p2}
  NodeVersion <- MCNodes
  PodVersion <- MCPods
  SvcVersion <- MCServices
  Start <- SwapStart
  Edit <- SwapEdit
  BatchNum = 1
  EndpointSlice = FALSE
  Faults = {}
  MaxEdits = 1
  MaxFaults = 0
SPECIFICATION Spec
CHECK_DEADLOCK FALSE
INVARIANT NoReverseCompare
