CONSTANTS
    Callers = {c1, c2}
    Stopper = stopper
    Probes = {p1}
    MaxTimers = 1
    Sockets = {b1}
    Requests = {r1}
    Exchanges = {m1}
    Events = {e1}
SPECIFICATION ShutdownSpec
INVARIANTS
    PassAfterCall
    NoPromiseStranded
    CleanExit
    
PROPERTIES
    EveryShutdownExits
CHECK_DEADLOCK FALSE
