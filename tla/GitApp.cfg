SPECIFICATION FairSpec
CONSTANTS
  r1 = r1
  w1 = w1
  w2 = w2
  Repos = {r1}
  NoRepo = NoRepo
  Workers = {w1, w2}
  MaxFlow = 2
  MaxRow = 3
  Budgets <- MCBudgets
INVARIANT Inv
INVARIANT SingleRow
INVARIANT KeyHeld
PROPERTY DisconnectUnbinds
CHECK_DEADLOCK FALSE
