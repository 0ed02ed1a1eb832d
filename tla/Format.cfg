SPECIFICATION Spec
CONSTANTS
  WordBits = 8
  BufferSize <- MCBufferSize
  Calls <- MCCalls
  Interrupted <- MCInterrupted
  Nested <- MCNested
  MaxCalls = 3
INVARIANTS
  StaysInBounds
  DamageIsDigits
  PrintsAsSpecified
