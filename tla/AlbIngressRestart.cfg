CONSTANTS
  i1 = i1
  i2 = i2
  c1 = c1
  c2 = c2
  alb = alb
  other = other
  bare = bare
  foreign = foreign
  first = first
  again = again
  ported = ported
  moved = moved
  movedAgain = movedAgain
  left = left
  inert = inert
  paramless = paramless
  ordered = ordered
  unparsable = unparsable
  named = named
  taken = taken
  direct = direct
  None = None
  NoParams = NoParams
  Ingress = {i1, i2}
  AlbConfig = {c1, c2}
  Class = {alb, other, bare, foreign}
  Default = c1
  Alb = alb
  Ours = {alb, other, bare}
  Attr <- Attrs
  Start <- Starts
  Edit <- Forward
  Fresh = {direct}
  UserPort <- Ports
  Faults = {"call", "unnamed", "crash"}
  MaxFaults = 1
  MaxEdits = 2
SPECIFICATION Spec
CHECK_DEADLOCK FALSE
PROPERTY RulesKept
