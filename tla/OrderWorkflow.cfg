SPECIFICATION WSpec
CONSTANTS
  Items <- MCItems
  Values = {v}
  Classes = {"PURCHASE_ORDER"}
  None = None
  Concurrency = 2
  MaxAttempts = 2
INVARIANTS WTypeOK FailedIsEscalated
PROPERTIES PersistFollowsTable WorkflowEnds
CHECK_DEADLOCK FALSE
