SPECIFICATION Spec
CONSTANTS
  Vectors = {33}
  Custom = {14, 33}
  R10Values = {14, 33, 300}
  MaxInterrupts = 1
INVARIANTS
  DispatchByVector
