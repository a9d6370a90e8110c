CONSTANTS
  MaxReq = 5
  MaxConnect = 2
  MaxDepth = 4
  HandlerCalls = {"start", "disconnect"}
  NoMark = NoMark
  Reentry = {"disconnect"}
  NItems = 2
  Nums = {2}
  MaxRev = 2
  Masks = {{"state"}, {"params"}}
  Globals = {1}
  Classes = {"node", "device", "link"}
  Changing = {"link"}
SPECIFICATION OFairSpec
INVARIANTS OTypeOK SessionIsolation ProxiesOwned EnumComplete
CHECK_DEADLOCK FALSE
PROPERTY ShownConverges
