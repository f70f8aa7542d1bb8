\* An alert rule that is created and confirmed.
SPECIFICATION Spec
CONSTANTS
  Requests = {r1, r2}
  Users = {user}
  Slugs = {platform}
  Rules = {rule}
  Credentials = {credential}
  Values = {old, new}
  Absent = Absent
  Operator = Operator
  Expiry = 2
  RequestTime = 1
  MaxTime = 1
SYMMETRY RequestSymmetry
INVARIANT RulesAreManaged
CHECK_DEADLOCK FALSE
