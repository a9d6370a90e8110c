CONSTANTS
  MaxReq = 2
  MaxConnect = 2
  MaxDepth = 4
  HandlerCalls <- All
  NoMark = NoMark
  Ids = {1}
  MaxSerial = 2
  MaxGen = 5
  DefaultContext = FALSE
  Reentry = {"disconnect"}
  Interrupts = FALSE
SPECIFICATION RFairSpec
INVARIANTS RTypeOK SessionIsolation ProxyIsOwned SyncedView
PROPERTIES ImplementsDiscovery Converges
CHECK_DEADLOCK FALSE
