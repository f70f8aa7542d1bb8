\* Requests and logins over several windows in thirds of a second, so that the
\* rounding of TTL shows, with a failure of Redis.
SPECIFICATION Spec
CONSTANTS
  key = key
  ip = ip
  Requests = {r1, r2, r3}
  Keys = {key}
  Ips = {ip}
  MinuteLength = 3
  DayLength = 6
  MinuteLimit = 1
  DayLimit = 2
  Length <- WindowLength
  Limit <- ClientLimit
  TicksPerSecond = 3
  MaxTime = 7
  MaxFaults = 1
SYMMETRY RequestSymmetry
INVARIANTS
  WindowRespected
  SlidingBound
  RejectedForCause
  RetryAfterNear
CHECK_DEADLOCK FALSE
