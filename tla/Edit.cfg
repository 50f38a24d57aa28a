SPECIFICATION Spec
CONSTANTS
  src = src
  t1 = t1
  t2 = t2
  a1 = a1
  a2 = a2
  r1 = r1
  r2 = r2
  r3 = r3
  w1 = w1
  w2 = w2
  alice = alice
  bob = bob
  strict = strict
  lax = lax
  Source = src
  DeliveryRules = {strict, lax}
  FirstRule = lax
  InsertTenants = {src}
  Artifacts = {a1, a2}
  TrContent <- MCTrContent
  NoTR = NoTR
  Users = {alice, bob}
  Creator = alice
  NoUser = NoUser
  Tracker = Tracker
  NoProc = NoProc
  Tenants = {src, t1}
  RuleTargets <- MCRuleTargets
  NextNodes <- MCOneHop
  TRs = {r1, r2, r3}
  ReleasedTRs = {r1, r3}
  Workers = {w1, w2}
  SkipApprove <- MCSkipApprove
  MaxOp = 3
  Budgets <- EditBudgets
INVARIANT IInv
INVARIANT TrCarriesArtifact
INVARIANT DeliveredOnlyApproved
SYMMETRY WorkerSymmetry
CHECK_DEADLOCK FALSE
