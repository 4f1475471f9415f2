CONSTANTS
    Txs = {t1, t2}
    Requests = {31, 32, 33, 34}
    Capacities = {21, 22}
    Owners = {1}
    AttemptFence <- MCAttempt
    PolicyFence <- MCPolicy
    ScopeFences <- MCScope
    UserRow <- MCUserRow
    Starts <- MCStarts
SPECIFICATION LocksSpec
INVARIANTS
    QueuedRowsNoDeadlock
    WinnersStayWaiting
SYMMETRY Interchangeable
CHECK_DEADLOCK FALSE
