SPECIFICATION FairSpec
CONSTANTS
  c1 = c1
  c2 = c2
  d1 = d1
  d2 = d2
  h1 = h1
  h2 = h2
  Conns = {c1, c2}
  Drs = {d1, d2}
  Handlers = {h1, h2}
  Cap = 1
  Budgets <- MCBudgets
  NoDr = NoDr
INVARIANT Inv
INVARIANT NoUpdateLost
PROPERTY WatcherIsTold
PROPERTY ConnectionsEnd
CHECK_DEADLOCK FALSE
