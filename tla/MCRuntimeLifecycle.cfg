CONSTANTS
    MaxRun = 2
    StopAttempts = 1
    Probes = 1
    RestartBudget = 1
    Ports = {p1, p2}
    NoPort = NoPort
    MaxEvents = 2
    Dispatchers = 2
SPECIFICATION LifecycleSpec
INVARIANTS   PreviousSlotSuffices StopNeverStalls
SYMMETRY AnyPort
CHECK_DEADLOCK FALSE
