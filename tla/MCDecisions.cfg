\* Evidence, review and undo: what the rules and the reviewer decide.
CONSTANTS
  o1 = o1  o2 = o2  w1 = w1  w2 = w2  l1 = l1  l2 = l2
  p1 = p1  p2 = p2  p3 = p3  r1 = r1  r2 = r2
  Outlook = {o1, o2}
  WhatsApp = {w1}
  LinkedIn = {l1}
  Known = {o1, o2, w1}
  Person = {p1, p2, p3}
  None = None
  Name <- MCName
  NoName <- MCNoName
  Reported <- DecisionsReported
  NameLen <- MCNameLen
  TokensOf <- MCTokensOf
  EmailMatch <- EmailPairs
  BridgeMatch <- BridgePairs
  PhoneMatch <- PhonePairs
  GenericRole = {o2}
  Typed = {}
  MaxClusterSize = 2
  MaxMerges = 2
  Refresher = {}
  MaxClock = 0
SPECIFICATION ClusterSpec
SYMMETRY Symmetry3
CHECK_DEADLOCK FALSE
INVARIANTS
  PairMergedAutomaticallyOnce
  ConfirmedHasStandingMerge
  OneMergePerConfirmation
PROPERTIES
  ClosedPairsStayClosed
  AutomaticMergeIsSafe
