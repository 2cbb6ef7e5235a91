SPECIFICATION Spec
CONSTANTS
  Nobody = Nobody
  Wakes = {w1, w2}
  Registrars = {c}
  Pollers = {m}
  Operators = {x}
  Occurrences = {1, 2}
  Class <- MCClass
  Overlap = 1
  MaxCandidates = 1
  MaxAttempts = 2
  MaxDeferrals = 2
  MaxLeases = 3
  MaxPrompts = 2
  MaxCrashes = 1
  MaxTroubles = 3
CONSTRAINT FewTroubles
SYMMETRY WakeSymmetry
INVARIANTS NoReceiptLost RecordNeverLost
PROPERTIES TerminalFences
