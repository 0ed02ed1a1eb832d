SPECIFICATION FairSpec
CONSTANTS
  AddrSpace = 64
  PageSize = 2
  MinPhysical = 4
  PhysTop = 16
  HhdmOffset = 24
  Fifo = FALSE
  PanicOnError = TRUE
  MemMaps <- MCMemMapsHhdm
  FreeRequests <- MCFreeRequestsHhdm
  DoubleFrees = FALSE
  ReserveRequests <- MCReserveRequests
  ClientData <- MCClientData
PROPERTIES
  IsFramePool
