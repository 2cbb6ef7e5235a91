SPECIFICATION LiveSpec
CONSTANTS
  Wakes = {i1}
  Workers = {m1}
  NoWake = NoWake
  Dead = Dead
  MaxAttempts = 2
  MaxDeferrals = 2
  MaxCrashes = 1
PROPERTY
  CancelFences
CHECK_DEADLOCK FALSE
