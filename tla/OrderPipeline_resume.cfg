SPECIFICATION SerialSpec
CONSTANTS
  Items = {i1}
  Sessions = {s1, s2, s3, s4}
  Bare = {i1}
  Facts = {f1}
  Carried = {f1}
  None = None
SYMMETRY Symmetry
PROPERTIES ResumesAtBlock
CHECK_DEADLOCK FALSE
