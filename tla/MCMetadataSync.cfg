CONSTANTS
  MaxReq = 4
  MaxConnect = 1
  MaxDepth = 2
  HandlerCalls = {}
  NoMark = NoMark
  Reentry = {}
  Ids = {1, 2}
  MaxSerial = 2
  Names = {"default"}
  Name = "default"
  Subjects = {0}
  Keys = {"sink"}
  MaxRev = 1
  Overlap = FALSE
SPECIFICATION MSpec
INVARIANT SyncShowsValues
CHECK_DEADLOCK FALSE
