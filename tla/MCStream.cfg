CONSTANTS
  Rates = {0, 1}
  MaxPending = 2
  HandlerCalls <- Iterating
  MaxStart = 2
  MaxRevision = 2
  MaxFormat = 2
  MaxBuffer = 3
  MaxDepth = 4
SPECIFICATION FairSpec
INVARIANTS TypeOK NothingStranded QueueIsNewest FormatBeforeBlock RateOfSession LevelBeforeBlock
PROPERTIES RateConverges FormatFresh InOrderUnlessNested
CHECK_DEADLOCK FALSE
