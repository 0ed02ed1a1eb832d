SPECIFICATION FairSpec
CONSTANTS
  FifoSize = 3
  Divisor = 1
  ILCR = 3
  TssAddress <- MCTssAddress
  BootStacks <- MCBootStacks
  MaxNesting = 2
  MaxInterrupts = 2
  MaxCalls = 2
  MaxReceived = 2
INVARIANTS
  LineSpeedKept
  OutputInOrder
  ReceivedOnce
  SegmentsUsable
PROPERTIES
  PutReturns
CHECK_DEADLOCK FALSE
