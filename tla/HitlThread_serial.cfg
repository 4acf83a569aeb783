SPECIFICATION SerialSpec
CONSTANTS
  Threads = {t1}
  Requests = {r1, r2, r3}
  NoThread = NoThread
  MaxCrashes = 1
SYMMETRY Symmetry
PROPERTIES LifecycleSpec
CHECK_DEADLOCK FALSE
