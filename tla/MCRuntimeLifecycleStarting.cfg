CONSTANTS
    MaxRun = 2
    StopAttempts = 1
    Probes = 1
    RestartBudget = 1
    Ports = {p1, p2}
    NoPort = NoPort
    MaxEvents = 1
    Dispatchers = 1
SPECIFICATION FairLifecycleSpec
PROPERTY StartsSettle
CHECK_DEADLOCK FALSE
