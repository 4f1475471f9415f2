SPECIFICATION Spec
CONSTANTS
  Null = Null
  r1 = r1
  r2 = r2
  r3 = r3
  a1 = a1
  a2 = a2
  b1 = b1
  Requests <- MCRequests
  Owners <- MCOwners
  Pools <- MCPools
  Capacities <- MCCapacities
  Quanta <- MCQuanta
  Home <- MCHome
  PoolOf <- MCPoolOf
  Configured <- MCConfigured
  Tie <- MCTie
  Worlds <- MCWorlds
  Attempt <- MCAttempt
  MaxDelay = 6
  MinWindow = 1
  LeaseTtl = 2
  Grace = 1
INVARIANTS
  TablesAgree DeferredGetsItsCheck
PROPERTIES
  SweepsSpareTheLiving PoolLimitAcrossCapacities ImplementsLedger FreeSlotIsGranted QueueDrains
CHECK_DEADLOCK FALSE
