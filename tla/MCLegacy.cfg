SPECIFICATION LiveSpec
CONSTANTS
  Wakes = {i1}
  Workers = {m1}
  NoWake = NoWake
  Dead = Dead
  MaxAttempts = 2
  MaxDeferrals = 2
  MaxCrashes = 2
INVARIANTS
  TypeOK
  NeverLost
  AttemptsCounted
  SubmittedMeansGiven
PROPERTY
  Settles
CHECK_DEADLOCK FALSE
