SPECIFICATION Spec
CONSTANTS
  HighCapacity = {TRUE, FALSE}
  DmaInstalled = {TRUE, FALSE}
  NumBlocks = 4
  BlockLen = 2
  Addrs = {0, 2}
  Data = {"a", "b"}
  Erased = "a"
  Contents <- Stripes
  Payloads <- Writes
  MaxCount = 4
  CountLimit = 3
  DescLimit = 2
  Faults <- AnyFault
  MaxCalls = 3
INVARIANTS TypeOK LeavesCardReady
PROPERTIES OkIsTrue ImplementsBlockDevice
