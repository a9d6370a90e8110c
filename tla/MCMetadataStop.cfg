CONSTANTS
  MaxReq = 4
  MaxConnect = 1
  MaxDepth = 5
  HandlerCalls = {"sync"}
  NoMark = NoMark
  Reentry = {}
  Ids = {1}
  MaxSerial = 2
  Names = {"default"}
  Name = "default"
  Subjects = {0}
  Keys = {"sink"}
  MaxRev = 1
  Overlap = FALSE
SPECIFICATION MSpec
INVARIANT StopClears
CHECK_DEADLOCK FALSE
