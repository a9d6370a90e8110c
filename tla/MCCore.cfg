CONSTANTS
  MaxReq = 4
  MaxConnect = 2
  MaxDepth = 4
  HandlerCalls <- AllCalls
  NoMark = NoMark
SPECIFICATION FairSpec
INVARIANT TypeOK
INVARIANT SyncIsBarrier
INVARIANT TokenHasFrame
INVARIANT DrainHasToken
PROPERTY SyncReturns
CHECK_DEADLOCK FALSE
