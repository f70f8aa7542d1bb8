\* A sync and the evaluation it asks for, a worker of each application.
SPECIFICATION Spec
CONSTANTS
  c1 = c1
  c2 = c2
  a1 = a1
  sync = sync
  cycle = cycle
  eval = eval
  evalAll = evalAll
  Nothing = nothing
  AppOf <- WorkerApps
  NameOf <- MessageNames
  Workers = {c1, a1}
  Messages = {sync, eval}
  MaxRetries = 0
  MaxRepeats = 0
INVARIANT EvaluationsWait
CHECK_DEADLOCK FALSE
