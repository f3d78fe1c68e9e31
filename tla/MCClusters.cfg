\* Clusters and the merge log: manual links, a legacy merge, and undo.
CONSTANTS
  o1 = o1  o2 = o2  w1 = w1  w2 = w2  l1 = l1  l2 = l2
  p1 = p1  p2 = p2  p3 = p3  r1 = r1  r2 = r2
  Outlook = {o1}
  WhatsApp = {w1}
  LinkedIn = {l1, l2}
  Known = {o1, w1, l1, l2}
  Person = {p1, p2, p3}
  None = None
  Name <- MCName
  NoName <- MCNoName
  Reported <- ClustersReported
  NameLen <- MCNameLen
  TokensOf <- MCTokensOf
  EmailMatch = {}
  BridgeMatch = {}
  PhoneMatch = {}
  GenericRole = {}
  Typed = {}
  MaxClusterSize = 3
  MaxMerges = 4
  Refresher = {}
  MaxClock = 0
SPECIFICATION ClusterSpec
SYMMETRY Symmetry3
CHECK_DEADLOCK FALSE
INVARIANTS
  NoIdentityAtMergedPerson
  MergedPersonForwardsToContact
  ClustersMatchStandingMerges
PROPERTIES
  LatestUndoIsExact
  ClosedPairsStayClosed
