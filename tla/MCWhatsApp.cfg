SPECIFICATION Spec
CONSTANTS
  Message = {m1, m2, grp, bad}
  Group = {grp}
  Malformed = {bad}
  Runner = {r1, r2}
  None = None
  MaxFiles = 3
  MaxLines = 3
  MaxSeconds = 2
  MaxCrashes = 1
SYMMETRY Alike
INVARIANTS TypeOK NoLineForgotten
PROPERTY StoreSpec
CHECK_DEADLOCK FALSE
