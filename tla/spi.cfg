SPECIFICATION Spec
CONSTANTS
  Cards <- AllCards
  ChipSelects = {TRUE, FALSE}
  NumBlocks = 3
  BlockLen = 2
  Addrs = {0, 2}
  Data = {"a", "b"}
  Contents <- Stripes
  Garbage = "garbled"
  MaxCount = 2
  Faults <- AnyFault
  InitPolls = 1
  MaxCalls = 4
INVARIANTS TypeOK LeavesCardReady
PROPERTIES ImplementsBlockDevice
