SPECIFICATION FairSpec
CONSTANTS
  Null = Null
  Attempts = {a1, a2}
  Accounts = {acc}
  Shares = {}
  Currencies = {usd}
  Liabilities = {2}
  Costs = {1}
  Limits = {3}
  Ttl = 2
  Skew = 0
  MaxListed = 1
  MonthLength = 2
  MaxTime = 2
PROPERTIES NothingUndercounted
CHECK_DEADLOCK FALSE
