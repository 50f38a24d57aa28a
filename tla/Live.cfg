SPECIFICATION FairSpec
CONSTANTS
  src = src
  t1 = t1
  t2 = t2
  a1 = a1
  a2 = a2
  r1 = r1
  r2 = r2
  r3 = r3
  w1 = w1
  w2 = w2
  alice = alice
  bob = bob
  strict = strict
  lax = lax
  Source = src
  DeliveryRules = {strict}
  FirstRule = strict
  InsertTenants = {src}
  Artifacts = {a1}
  TrContent <- MCTrContent
  NoTR = NoTR
  Users = {alice, bob}
  Creator = alice
  NoUser = NoUser
  Tracker = Tracker
  NoProc = NoProc
  Tenants = {src, t1, t2}
  RuleTargets <- MCRuleTargets
  NextNodes <- MCNextNodes
  TRs = {r1}
  ReleasedTRs = {r1}
  Workers = {w1}
  SkipApprove <- MCSkipApprove
  MaxOp = 3
  Budgets <- LiveBudgets
INVARIANT OneOpPerNode
PROPERTY SyncLockReleased
PROPERTY TrackedImportSettles
CHECK_DEADLOCK FALSE
