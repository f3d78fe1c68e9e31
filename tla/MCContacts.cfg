\* Hiding and briefs around merges and undos.
CONSTANTS
  o1 = o1  o2 = o2  w1 = w1  w2 = w2  l1 = l1  l2 = l2
  p1 = p1  p2 = p2  p3 = p3  r1 = r1  r2 = r2
  Outlook = {o1, o2}
  WhatsApp = {w1, w2}
  LinkedIn = {}
  Known = {o1, o2}
  Person = {p1, p2}
  None = None
  Name <- MCName
  NoName <- MCNoName
  Reported <- ContactsReported
  NameLen <- MCNameLen
  TokensOf <- MCTokensOf
  EmailMatch = {}
  BridgeMatch = {}
  PhoneMatch = {}
  GenericRole = {}
  Typed = {}
  MaxClusterSize = 3
  MaxMerges = 1
  Refresher = {r1}
  MaxClock = 2
SPECIFICATION ContactSpec
SYMMETRY Symmetry2
CHECK_DEADLOCK FALSE
PROPERTIES
  MergeOrphansNothing
  MergedContactShowsNewest
