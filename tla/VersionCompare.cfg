SPECIFICATION FairSpec
CONSTANTS
  t1 = t1
  t2 = t2
  a1 = a1
  a2 = a2
  v1 = v1
  v2 = v2
  Tenants = {t1, t2}
  Artifacts = {a1, a2}
  Versions = {v1, v2}
  Active = Active
  Blank = Blank
  Absent = Absent
  Rules <- MCRules
  Landscapes <- MCLandscapes
  Workers = {w1, w2}
  w1 = w1
  w2 = w2
  MaxTrigger = 3
  MaxDr = 2
  Budgets <- MCBudgets
INVARIANT Inv
INVARIANT DeliversWhatWasShown
INVARIANT ViewsAgree
PROPERTY FinishedStays
PROPERTY CollectionEnds
CHECK_DEADLOCK FALSE
