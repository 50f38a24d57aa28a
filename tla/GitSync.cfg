SPECIFICATION FairSpec
CONSTANTS
  t1 = t1
  a1 = a1
  a2 = a2
  v1 = v1
  v2 = v2
  f1 = f1
  f2 = f2
  r1 = r1
  r2 = r2
  i1 = i1
  i2 = i2
  Tenants = {t1}
  Artifacts = {a1, a2}
  Versions = {v1, v2}
  Files = {f1, f2}
  FilesOf <- MCFilesOf
  Repos = {r1, r2}
  Landscapes <- MCLandscapes
  None = None
  Instances = {i1, i2}
  MaxSync = 3
  MaxRetries = 2
  Budgets <- MCBudgets
INVARIANT Inv
INVARIANT CompletedIsPinned
PROPERTY NothingLost
PROPERTY SyncsEnd
CHECK_DEADLOCK FALSE
