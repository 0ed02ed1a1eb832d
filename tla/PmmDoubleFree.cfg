SPECIFICATION Spec
CONSTANTS
  AddrSpace = 64
  PageSize = 2
  MinPhysical = 4
  PhysTop = 16
  HhdmOffset = 24
  Fifo = FALSE
  PanicOnError = FALSE
  MemMaps <- MCMemMaps
  FreeRequests <- MCFreeRequests
  DoubleFrees = TRUE
  ReserveRequests <- MCReserveRequests
  ClientData <- MCClientData
INVARIANTS
  DoubleFreeDetected
