\* Requests of all kinds at once on a user, a platform, a rule and a credential.
SPECIFICATION MCSpec
CONSTANTS
  Requests = {r1, r2, r3}
  Users = {user}
  Slugs = {platform}
  Rules = {rule}
  Credentials = {credential}
  Values = {old, new}
  Absent = Absent
  Operator = Operator
  Expiry = 1
  RequestTime = 1
  MaxTime = 2
SYMMETRY RequestSymmetry
INVARIANTS AdminAccessEnds OneCreator
PROPERTY RolesByGrant
CHECK_DEADLOCK FALSE
