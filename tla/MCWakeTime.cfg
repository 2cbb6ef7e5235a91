SPECIFICATION Spec
CONSTANTS
  UtcWidthLimit = 2
  DispatchReserve = 2
  PpmScale = 10
  RateLimit = 2
  Horizon = 8
  Starts = {2}
  Anchors <- MCAnchors
  Ticks = {0, 3, 6, 8, 12, 15}
  Freq = 2
  Requests <- MCRequests
  Epochs <- MCEpochs
  UtcReadings <- MCUtcReadings
  CounterReadings <- MCCounterReadings
  Instants <- MCInstants
INVARIANTS
  TypeOK
  DueIsTrue
  MissedIsTrue
CHECK_DEADLOCK FALSE
