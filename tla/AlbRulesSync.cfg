CONSTANTS
  a = a
  b = b
  c = c
  x = x
  None = None
  Rule = {a, b, c, x}
  Direction <- Directions
  Dir <- Dirs
  Lists <- MixedLists
  Traffic <- AnyTraffic
  Match <- AnyMatch
  Batch = 1
  MaxFaults = 2
  MaxEdits = 2
SPECIFICATION FairBehaviour
CHECK_DEADLOCK FALSE
INVARIANT ServedThroughout
INVARIANT RoutedOldOrNew
INVARIANT QuietInSync
PROPERTY Converges
