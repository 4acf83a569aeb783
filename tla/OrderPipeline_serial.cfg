SPECIFICATION SerialSpec
CONSTANTS
  Items = {i1, i2}
  Sessions = {s1, s2, s3}
  Bare = {i2}
  Facts = {f1}
  Carried = {f1}
  None = None
SYMMETRY Symmetry
INVARIANTS BlocksHaveThreads
PROPERTIES ItemSpec
CHECK_DEADLOCK FALSE
