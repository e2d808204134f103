SPECIFICATION Spec
CONSTANTS
  HighCapacity = {TRUE}
  DmaInstalled = {FALSE}
  NumBlocks = 3
  BlockLen = 2
  Addrs = {0}
  Data = {"a", "b"}
  Erased = "a"
  Contents <- Stripes
  Payloads <- PairWrites
  MaxCount = 2
  FifoDepth = 2
  Faults <- OnlyData
  MaxCalls = 1
PROPERTIES ErrorResetsFifo
