SPECIFICATION FairSpec
CONSTANTS
  s1 = s1
  s2 = s2
  n1 = n1
  w1 = w1
  w2 = w2
  Spaces = {s1, s2}
  TmsNodes = {n1}
  None = None
  Workers = {w1, w2}
  MaxJob = 2
  Budgets <- MCBudgets
INVARIANT Inv
INVARIANT OneHolder
INVARIANT ReadyIsEarned
PROPERTY ImplementsLifecycle
PROPERTY ReadyingEnds
CHECK_DEADLOCK FALSE
