SPECIFICATION Spec
CONSTANTS
  Null = Null
  m1 = m1
  m2 = m2
  Models = {m1, m2}
  MaxAttempts = 3
  Backoff <- MCBackoff
  RetryAfters = {0}
  MaxCooldown = 3
  HalfOpenLease = 1
  Ttl = 2
  Lag = 1
  Faults = {"crash", "lost", "abort", "dbError"}
  MaxTime = 2
SYMMETRY TwoModels
INVARIANTS AccountTrialHeldOnModel
PROPERTIES TrialTakenOnlyAfterLapse LateAnswersAreFenced
CHECK_DEADLOCK FALSE
