\* Readings over six instants, twelve days apart, judged at any moment.
SPECIFICATION Spec
CONSTANTS
  Readings = {1, 3}
  SampleSize = 2
  TickDays = 12
  Sigmas = 2
  Quiet = 2
  Window = 5
  MaxTime = 5
  MaxCuts = 1
INVARIANTS OutlierNeedsHistory SilenceForCause
CHECK_DEADLOCK FALSE
