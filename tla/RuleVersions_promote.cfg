SPECIFICATION Spec
CONSTANTS
  Rules = {r1, r2, r3}
  Calls = {c1, c2, c3, c4}
  Logics = {l1}
  Imports = FALSE
  None = None
PROPERTY PromoteDeactivatesOthers
CHECK_DEADLOCK FALSE
