SPECIFICATION Spec
CONSTANTS
  Nobody = Nobody
  Wakes = {w}
  Registrars = {c}
  Pollers = {m}
  Operators = {}
  Occurrences = {1, 2}
  Class <- MCClass
  Overlap = 1
  MaxCandidates = 1
  MaxAttempts = 2
  MaxDeferrals = 2
  MaxLeases = 1
  MaxPrompts = 3
  MaxCrashes = 0
  MaxTroubles = 3
INVARIANT AttemptsBounded
