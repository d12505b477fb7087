CONSTANTS
  p1 = p1
  p2 = p2
  p3 = p3
  w1 = w1
  w2 = w2
  EndPointEvent = EndPointEvent
  ServiceUpdate = ServiceUpdate
  Nobody = Nobody
  EpElement = EndPointEvent
  Pods = {p1, p2}
  Gated = {p2}
  Workers = {w1, w2}
  Elements = {EndPointEvent, ServiceUpdate}
  BatchNum = 1
  ReplaceMaxNum = 2
  RingSize = 1
  Faults <- AnyFault
  MaxFaults = 1
  MaxChanges = 3
SPECIFICATION Spec
CHECK_DEADLOCK FALSE
SYMMETRY WorkerSymmetry
INVARIANT TypeOK
INVARIANT QuietInSync
INVARIANT ChangeNotLost
