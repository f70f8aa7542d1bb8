\* One sync command at a time, with a seeding and the admin API beside it.
SPECIFICATION Spec
CONSTANTS
  page = page
  channel = channel
  blank = blank
  account = account
  NoSubject = NoSubject
  NoResult = NoResult
  Subjects = {page, channel, blank, account}
  PlatformOf <- MCPlatformOf
  IdMarks <- MCIdMarks
  AnsweredAs <- MCAnsweredAs
  MaxAttempts = 2
  Metrics = 1
  SampleLimit = 3
  VideoLimit = 3
  PageSize = 2
  VideoPage = 2
  Feeds <- MCFeeds
  MayStick = TRUE
  MayGarble = TRUE
  Env = {page, channel, account}
  EnvTokens = {"facebook"}
  Enabled = {"facebook", "youtube", "tiktok"}
  Registered = {channel, blank}
  DbMayFail = TRUE
INVARIANTS EveryTargetTried ExitCodeTells SeededTargetsTried PendingForCause
  MissingIsReported InactiveForCause SampleFaithful
PROPERTIES ImplementsPromise CommandDescends CommandEnds
CHECK_DEADLOCK FALSE
