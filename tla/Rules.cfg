SPECIFICATION FairSpec
CONSTANTS
  n1 = n1
  n2 = n2
  n3 = n3
  t1 = t1
  t2 = t2
  t3 = t3
  beta = beta
  Tenants = {t1, t2, t3}
  Nodes = {n1, n2, n3}
  NoNode = NoNode
  Texts = {beta}
  Versions <- MCVersions
  Draft <- MCDraft
  Matching <- MCMatching
  Absent = Absent
  None = None
  Landscapes <- MCLandscapes
INVARIANT Inv
INVARIANT SavedIsChain
INVARIANT RefusedIsNoChain
PROPERTY DowngradeOnlyByRace
PROPERTY UpsertEnds
CHECK_DEADLOCK FALSE
