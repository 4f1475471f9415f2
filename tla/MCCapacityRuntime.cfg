SPECIFICATION RuntimeSpec
CONSTANTS
  Extension = 3
  Interval = 2
  Delays <- MCDelays
  Margin = 0
  ReleaseTries = 2
  Lateness = 0
  QueryBound = 3
  MaxStray = 1
INVARIANTS AuthorityCovered EofAfterRelease NoLateAdmission NoOwnerOutlives
CHECK_DEADLOCK FALSE
PROPERTIES AcquireReturns AbandonedIsFreed
