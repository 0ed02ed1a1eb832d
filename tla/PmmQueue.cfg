SPECIFICATION FairSpec
CONSTANTS
  AddrSpace = 64
  PageSize = 2
  MinPhysical = 4
  PhysTop = 16
  HhdmOffset = 0
  Fifo = TRUE
  PanicOnError = FALSE
  MemMaps <- MCMemMaps
  FreeRequests <- MCFreeRequests
  DoubleFrees = TRUE
  ReserveRequests <- MCReserveRequests
  ClientData <- MCClientData
INVARIANTS
  PagesAccountedFor
  ManagesUsablePages
PROPERTIES
  ClientPagesUntouched
  ReserveExact
  IsFramePool
  CallsReturn
