\* Workers of both applications on one queue; any number of deaths, and of each
\* message at most one copy more.
SPECIFICATION FairSpec
CONSTANTS
  c1 = c1
  c2 = c2
  a1 = a1
  sync = sync
  cycle = cycle
  eval = eval
  evalAll = evalAll
  Nothing = nothing
  AppOf <- WorkerApps
  NameOf <- MessageNames
  Workers = {c1, c2, a1}
  Messages = {sync, cycle, eval, evalAll}
  MaxRetries = 1
  MaxRepeats = 1
INVARIANTS
  OneOwner
PROPERTIES
  NothingLost MessagesSettle
CHECK_DEADLOCK FALSE
