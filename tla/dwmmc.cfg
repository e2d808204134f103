SPECIFICATION Spec
CONSTANTS
  HighCapacity = {TRUE}
  DmaInstalled = {TRUE, FALSE}
  NumBlocks = 3
  BlockLen = 2
  Addrs = {0, 1}
  Data = {"a", "b"}
  Erased = "a"
  Contents <- Stripes
  Payloads <- Writes
  MaxCount = 3
  FifoDepth = 2
  Faults <- AnyFault
  MaxCalls = 2
INVARIANTS TypeOK LeavesCardReady
PROPERTIES ImplementsBlockDevice CallReturns
