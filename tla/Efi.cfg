SPECIFICATION Spec
CONSTANTS
  Responses <- MCResponses
  MapResponses <- MCMapResponses
  MaxCalls = 1
INVARIANTS
  AvailabilityTrusted
  RuntimeWalked
  ReadsInsideMap
CHECK_DEADLOCK FALSE
