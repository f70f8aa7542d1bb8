\* One Facebook page, two messages, two workers: executions of the page overlap,
\* are retried and redelivered.
SPECIFICATION FairSpec
CONSTANTS
  s1 = s1
  Subjects = {s1}
  PlatformOf <- AllFacebook
  Ids = {i1}
  Counts = {1}
  Tasks = {t1, t2}
  DirectTasks = {}
  EnvCredential = {}
  MaxTime = 1
  MaxRetries = 1
  MaxCrashes = 1
  Concurrency = 2
  DbMayFail = FALSE
  BrokerMayFail = FALSE
  NoRow = NoRow
  NoId = NoId
PROPERTIES TasksSettle CommitsAnnounced
CHECK_DEADLOCK FALSE
