SPECIFICATION SynchronizationSpec
CONSTANTS
  c1 = c1
  c2 = c2
  p1 = p1
  p2 = p2
  h1 = h1
  Cpus = {c1, c2}
  Contexts = {p1, p2, h1}
  Handlers = {h1}
  CpuOf <- MCCpuOf
  Locations = {"flag", "counter", "state", "data"}
  MaxCalls = 5
INVARIANTS
  MutualExclusion
  NoLostUpdate
  RunsOnce
  InitialisedOnReturn
PROPERTIES
  LockReturnsUnlessHolderInterrupted
  CallReturnsUnlessWaitingOnItself
