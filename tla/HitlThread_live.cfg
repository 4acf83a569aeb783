SPECIFICATION RacingFairSpec
CONSTANTS
  Threads = {t1}
  Requests = {r1, r2, r3}
  NoThread = NoThread
  MaxCrashes = 1
PROPERTIES CloseIsAnnounced HumanMessageIsDispatched
CHECK_DEADLOCK FALSE
