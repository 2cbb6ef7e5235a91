SPECIFICATION Spec
CONSTANTS
  n1 = n1
  n2 = n2
  p1 = p1
  p2 = p2
  g1 = g1
  NoWake = NoWake
  Wakes = {n1, n2}
  Workers = {m1, m2}
  RuntimeWakes = {}
  PolicyWakes = {}
  Key <- MCKey
  OwnerEnd <- MCOwnerEnd
  Routes <- MCRoutes
SYMMETRY MonitorSymmetry
INVARIANTS
  TypeOK
  AtMostOnce
  EffectRemembered
  SubmittedMeansQueued
  ClosedMeansUnsent
PROPERTIES
  PauseFences
  SentBeforeExpiry
  TerminalIsFinal
  KeepsPromise
