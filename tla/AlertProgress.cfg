\* Two workers: an evaluation of every subject, of which two have a rule, and
\* one of a subject without a row.
SPECIFICATION FairSpec
CONSTANTS
  s1 = s1
  s2 = s2
  s3 = s3
  r1 = r1
  r2 = r2
  e1 = e1
  e2 = e2
  e3 = e3
  Subjects = {s1, s2, s3}
  Known = {s1, s2}
  Rules = {r1, r2}
  RuleSubject <- TwoSubjects
  StatusRules = {r2}
  Cooldown <- CooldownOne
  Statuses = {"active", "inactive"}
  Evaluations = {e1, e2}
  AllEvaluations = {e1}
  DirectEvaluations = {}
  About <- AboutUnknown
  Concurrency = 2
  MaxTime = 0
  MaxCrashes = 1
  MaxFailures = 1
PROPERTY EvaluationsSettle
CHECK_DEADLOCK FALSE
