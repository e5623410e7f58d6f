SPECIFICATION FairSpec
CONSTANTS
  Accounts = {a1}
  Crawlers = {c1, c2}
  Searchers = {c2}
  MaxScore = 1
  Recovered = 1
  Validated = 1
  MaxAttempts = 2
  MaxCalls = 2
  MaxDeductions = 1
  MaxFaults = 1
INVARIANTS NoneLost
PROPERTIES NoneRetired AccountReturns
CHECK_DEADLOCK FALSE
