CONSTANTS
  MaxReq = 2
  MaxConnect = 2
  MaxDepth = 4
  HandlerCalls <- All
  NoMark = NoMark
  Ids = {1}
  MaxSerial = 1
  MaxGen = 4
  DefaultContext = FALSE
  Reentry = {"disconnect", "reconnect"}
  Interrupts = FALSE
SPECIFICATION RSpec
INVARIANT SyncedView
CHECK_DEADLOCK FALSE
