\* One YouTube channel, a message and a CLI run at once, one worker death,
\* database and broker failures.
SPECIFICATION Spec
CONSTANTS
  s1 = s1
  Subjects = {s1}
  PlatformOf <- OneYouTube
  Ids = {i1, i2}
  Counts = {1}
  Tasks = {t1, t2}
  DirectTasks = {t2}
  EnvCredential = {}
  MaxTime = 2
  MaxRetries = 0
  MaxCrashes = 1
  Concurrency = 2
  DbMayFail = TRUE
  BrokerMayFail = TRUE
  NoRow = NoRow
  NoId = NoId
SYMMETRY IdSymmetry
INVARIANTS
  SnapshotsHaveRow OkMeansPersisted RowIsLatest
  AnnouncedAfterCommit VideosBelongToSnapshot NoDataAfterRevocation OverlapSafe
PROPERTIES
  ImplementsHistory
CHECK_DEADLOCK FALSE
