CONSTANTS
  MaxReq = 3
  MaxConnect = 1
  MaxDepth = 2
  HandlerCalls <- All
  NoMark = NoMark
  Ids = {1}
  MaxSerial = 2
  MaxGen = 5
  DefaultContext = TRUE
  Reentry = {}
  Interrupts = FALSE
SPECIFICATION RSpec
INVARIANT SyncedView
CHECK_DEADLOCK FALSE
