SPECIFICATION RulesSpec
CONSTANTS
  Quanta <- MCQuanta
  Owners <- MCOwners
  Pools <- MCPools
  Requests <- MCRequests
  Snapshots <- MCSnapshots
  Null = Null
  a = a
  b = b
  direct = direct
  m1 = m1
  m2 = m2
  m3 = m3
INVARIANTS
  NoBorrowPastNeedyOwner KeptSlotsServed BoundedWait KeptExactly
 
CHECK_DEADLOCK FALSE
