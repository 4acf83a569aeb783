SPECIFICATION FairSpec
CONSTANTS
  Dispatches = {d1, d2}
  Workers = {w1}
  Facts = {f1, f2}
  MaxTurns = 1
  MaxRounds = 1
  Handled = TRUE
  None = None
INVARIANTS TypeOK HistoryIsFull TurnsAreCapped
PROPERTIES LateWritesAreStale PatchesAccumulate HumanIsAnswered
CHECK_DEADLOCK FALSE
