CONSTANTS
    Users = {1, 2}
    Lockable = {1}
    Removers = {r1}
    Sweep = sweep
    Limit = 1
    MaxRows = 2
    StartHistory = 0
    MaxCalls = 1
    MaxMarks = 2
    MaxFaults = 1
SPECIFICATION DeletionSpec
PROPERTIES
    UnmarkedLosesNothing
    OwnGenerationOnly
    EveryMarkEnds
    HistoryEnds
CHECK_DEADLOCK FALSE
