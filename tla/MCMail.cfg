SPECIFICATION Spec
CONSTANTS
  Nobody = Nobody
  Dispatcher = Dispatcher
  re = re
  a = a
  b = b
  Messages = {m1, m2, re}
  Threads = {a, b}
  Schedulers = {s1, s2}
  From <- MCFrom
  To <- MCTo
  MaxTries = 2
  MaxLeases = 2
  MaxActors = 3
  MaxCrashes = 1
  MaxCopies = 1
  MaxRestores = 1
  MaxTroubles = 3
CONSTRAINT FewTroubles
SYMMETRY Symmetry
INVARIANTS TypeOK NotifiedOnce CancelMeansUnsent ClaimOnce
PROPERTIES InOrder
