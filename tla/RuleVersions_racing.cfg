SPECIFICATION Spec
CONSTANTS
  Rules = {r1, r2, r3}
  Calls = {c1, c2, c3, c4, c5}
  Logics = {l1, l2}
  Imports = TRUE
  None = None
SYMMETRY Symmetry
INVARIANTS TypeOK ActiveIsAudited
PROPERTIES SecondActiveIsStale
CHECK_DEADLOCK FALSE
