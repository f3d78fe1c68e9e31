SPECIFICATION Spec
CONSTANTS
  Message = {m1, m2}
  NoId = {}
  Scheduled = r1
  ByHand = {}
  MaxByHand = 0
  None = None
  MaxChanges = 2
  MaxFailures = 0
PROPERTY SeedYieldsNothingNew
