SPECIFICATION Spec
CONSTANTS
  n1 = n1
  n2 = n2
  p1 = p1
  p2 = p2
  g1 = g1
  NoWake = NoWake
  Wakes = {g1}
  Workers = {m1}
  RuntimeWakes = {g1}
  PolicyWakes = {}
  Key <- MCKey
  OwnerEnd <- MCOwnerEnd
  Routes <- MCRoutes
INVARIANT
  UnknownHolds
