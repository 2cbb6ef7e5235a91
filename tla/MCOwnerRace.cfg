SPECIFICATION Spec
CONSTANTS
  n1 = n1
  n2 = n2
  p1 = p1
  p2 = p2
  g1 = g1
  NoWake = NoWake
  Wakes = {p1}
  Workers = {m1, m2}
  RuntimeWakes = {}
  PolicyWakes = {p1}
  Key <- MCKey
  OwnerEnd <- MCOwnerEnd
  Routes <- MCRoutes
SYMMETRY MonitorSymmetry
PROPERTY
  TerminalIsFinal
