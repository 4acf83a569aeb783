SPECIFICATION Spec
CONSTANTS
  Threads = {t1}
  Requests = {r1, r2, r3}
  NoThread = NoThread
  MaxCrashes = 1
SYMMETRY Symmetry
INVARIANTS TypeOK StatusIsExplained EventsAreBacked
PROPERTIES OnlyStaleReadersReopen
CHECK_DEADLOCK FALSE
