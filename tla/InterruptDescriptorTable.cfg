SPECIFICATION FairSpec
CONSTANTS
  NumVectors = 3
  NumExceptions = 1
  TrapGates = TRUE
  PanicOnException = TRUE
  Custom = {h1, h2}
  HandlersRegister = TRUE
  MaxRegistrations = 2
  MaxInterrupts = 3
INVARIANTS
  TypeOK
  InterruptsDoNotNest
PROPERTIES
  RegisteredForGood
  PanicHalts
