\* Two messages and a CLI run, a worker death and a database error.
SPECIFICATION Spec
CONSTANTS
  s1 = s1
  s2 = s2
  s3 = s3
  r1 = r1
  r2 = r2
  e1 = e1
  e2 = e2
  e3 = e3
  Subjects = {s1}
  Known = {s1}
  Rules = {r1}
  RuleSubject <- OneRule
  StatusRules = {}
  Cooldown <- CooldownTwo
  Statuses = {"active"}
  Evaluations = {e1, e2, e3}
  AllEvaluations = {}
  DirectEvaluations = {e3}
  About <- AboutFirst
  Concurrency = 1
  MaxTime = 2
  MaxCrashes = 1
  MaxFailures = 1
INVARIANTS
  FloodBounded
  NotificationsBounded
  AuditGap
PROPERTY ImplementsCooldown
SYMMETRY MessageSymmetry
CHECK_DEADLOCK FALSE
