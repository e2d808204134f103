SPECIFICATION Spec
CONSTANTS
  Cards <- OnlySdhc
  ChipSelects = {TRUE}
  NumBlocks = 2
  BlockLen = 2
  Addrs = {0}
  Data = {"a"}
  Contents <- Blank
  Garbage = "garbled"
  MaxCount = 2
  Faults <- NoFault
  InitPolls = 0
  MaxCalls = 2
INVARIANT ReadBlocksReadsThem
