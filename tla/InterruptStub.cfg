SPECIFICATION FairSpec
CONSTANTS
  Vectors = {3, 14, 21, 33}
  Custom = {14, 33}
  R10Values = {14, 33, 40, 300}
  MaxInterrupts = 2
INVARIANTS
  InterruptedStackUntouched
  ContextShowsInterrupt
PROPERTIES
  ReturnRestores
  HandlersReturn
