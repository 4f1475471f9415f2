SPECIFICATION FairSpec
CONSTANTS
  Null = Null
  Attempts = {a1, a2}
  Accounts = {acc}
  Shares = {}
  Currencies = {usd}
  Liabilities = {2}
  Costs = {1}
  Limits = {3}
  Ttl = 1
  Skew = 1
  MaxListed = 2
  MonthLength = 2
  MaxTime = 2
INVARIANTS RepairsSpareTheLiving
PROPERTIES   ReservationsEnd
CHECK_DEADLOCK FALSE
