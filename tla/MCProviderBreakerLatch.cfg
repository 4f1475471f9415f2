SPECIFICATION Spec
CONSTANTS
  Null = Null
  m1 = m1
  m2 = m2
  Models = {m1, m2}
  MaxAttempts = 4
  Backoff <- MCBackoff
  RetryAfters = {0}
  MaxCooldown = 3
  HalfOpenLease = 1
  Ttl = 2
  Lag = 0
  Faults = {"crash"}
  MaxTime = 2
SYMMETRY TwoModels
PROPERTY HalfOpenIsALease
CHECK_DEADLOCK FALSE
