SPECIFICATION Spec
CONSTANTS
  AddrSpace = 64
  PageSize = 2
  MinPhysical = 4
  PhysTop = 16
  HhdmOffset = 24
  Fifo = TRUE
  PanicOnError = FALSE
  MemMaps <- MCMemMaps
  FreeRequests <- MCFreeRequestsHhdmQueue
  DoubleFrees = FALSE
  ReserveRequests <- MCReserveRequests
  ClientData <- MCClientData
INVARIANTS
  FreeListIntact
