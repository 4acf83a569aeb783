SPECIFICATION Spec
CONSTANTS
  Items = {i1}
  Sessions = {s1, s2, s3}
  Bare = {i1}
  Facts = {f1}
  Carried = {}
  None = None
SYMMETRY Symmetry
INVARIANTS TypeOK OneOpenTicket
PROPERTIES RaisedForBlocked OnlyStaleCallsRegress
CHECK_DEADLOCK FALSE
