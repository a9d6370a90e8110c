CONSTANTS
  MaxReq = 4
  MaxConnect = 2
  MaxDepth = 4
  HandlerCalls = {"start", "disconnect"}
  NoMark = NoMark
  Reentry = {"disconnect"}
  Ids = {1}
  MaxSerial = 2
  Names = {"default"}
  Name = "default"
  Subjects = {0}
  Keys = {"sink"}
  MaxRev = 1
  Overlap = FALSE
SPECIFICATION MFairSpec
INVARIANTS MTypeOK CacheOfBound GoneIsForgotten ProxiesOwned SyncedCache
CHECK_DEADLOCK FALSE
PROPERTY CacheConverges
