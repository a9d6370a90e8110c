CONSTANTS
  MaxConnect = 4
  MaxLoad = 4
  MaxDepth = 8
  HandlerCalls = {"connect", "disconnect", "load", "unload"}
  Reentrant = FALSE
  Races = FALSE
SPECIFICATION MSpec
INVARIANTS MTypeOK LoadedIsLive NoMisuse ConnectedHasContext NothingLost
CHECK_DEADLOCK FALSE
