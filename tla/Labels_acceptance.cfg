SPECIFICATION ASpec
CONSTANTS
  Inches = {12}
  MaxSymbols = 1
  MaxWarnings = 1
  NoVerdict = NoVerdict
INVARIANT CompleteItemsPass
CHECK_DEADLOCK FALSE
