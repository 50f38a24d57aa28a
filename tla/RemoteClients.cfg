SPECIFICATION FairSpec
CONSTANTS
  d1 = d1
  w1 = w1
  w2 = w2
  Names = {d1}
  Workers = {w1, w2}
  None = None
  Slots = 1
  MaxRetries = 1
  MaxVersion = 4
  MaxToken = 8
  Landscapes <- MCLandscapes
  Budgets <- MCBudgets
INVARIANT Inv
INVARIANT CacheFollows
INVARIANT NoLost401
PROPERTY OneClient
PROPERTY CallsEnd
CHECK_DEADLOCK FALSE
