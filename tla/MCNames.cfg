\* Names that arrive, are corrected, and decide what is merged.
CONSTANTS
  o1 = o1  o2 = o2  w1 = w1  w2 = w2  l1 = l1  l2 = l2
  p1 = p1  p2 = p2  p3 = p3  r1 = r1  r2 = r2
  Outlook = {o1, o2}
  WhatsApp = {w1}
  LinkedIn = {l1}
  Known = {o1, o2}
  Person = {p1, p2}
  None = None
  Name <- MCName
  NoName <- MCNoName
  Reported <- NamesReported
  NameLen <- MCNameLen
  TokensOf <- MCTokensOf
  EmailMatch <- EmailPairs
  BridgeMatch <- BridgePairs
  PhoneMatch = {}
  GenericRole = {}
  Typed = {"Bob"}
  MaxClusterSize = 3
  MaxMerges = 1
  Refresher = {}
  MaxClock = 0
SPECIFICATION ClusterSpec
SYMMETRY Symmetry2
CHECK_DEADLOCK FALSE
INVARIANTS
  TypeOK
PROPERTIES
  NamesReplacedByOperatorOnly
  AutomaticMergeIsSafe
