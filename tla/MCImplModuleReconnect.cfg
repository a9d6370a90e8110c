CONSTANTS
  MaxConnect = 2
  MaxLoad = 1
  MaxDepth = 4
  HandlerCalls = {"connect"}
  Reentrant = TRUE
  Races = FALSE
SPECIFICATION MSpec
INVARIANTS ConnectedHasContext
CHECK_DEADLOCK FALSE
