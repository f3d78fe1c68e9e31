SPECIFICATION Spec
CONSTANTS
  Message = {m1, m2}
  NoId = {}
  Scheduled = r1
  ByHand = {r2}
  MaxByHand = 1
  None = None
  MaxChanges = 2
  MaxFailures = 1
SYMMETRY Alike
PROPERTIES StoreSpec CommittedRunIsComplete
