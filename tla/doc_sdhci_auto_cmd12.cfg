SPECIFICATION Spec
CONSTANTS
  HighCapacity = {TRUE}
  DmaInstalled = {FALSE}
  NumBlocks = 2
  BlockLen = 2
  Addrs = {0}
  Data = {"a", "b"}
  Erased = "a"
  Contents <- Stripes
  Payloads <- ShortWrites
  MaxCount = 2
  CountLimit = 3
  DescLimit = 2
  Faults <- NoFault
  MaxCalls = 1
INVARIANTS MultiBlockCallsSucceed
