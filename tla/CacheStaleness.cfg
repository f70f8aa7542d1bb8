\* Requests for a subject and for a list, across the expiry of both entries.
SPECIFICATION Spec
CONSTANTS
  list = list
  subject = subject
  Requests = {r1, r2, r3}
  Entries = {list, subject}
  Lists = {list}
  ListTtl = 1
  SubjectTtl = 2
  Ttl <- EntryTtl
  FillTime = 1
  MaxTime = 3
  MaxChanges = 2
  MaxFaults = 1
SYMMETRY RequestSymmetry
INVARIANTS StalenessBounded NotFoundIsCurrent
CHECK_DEADLOCK FALSE
