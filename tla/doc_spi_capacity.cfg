SPECIFICATION Spec
CONSTANTS
  Cards <- OnlySdsc2
  ChipSelects = {TRUE}
  NumBlocks = 2
  BlockLen = 2
  Addrs = {1}
  Data = {"a"}
  Contents <- Blank
  Garbage = "garbled"
  MaxCount = 2
  Faults <- NoFault
  InitPolls = 0
  MaxCalls = 2
INVARIANT SdscIsByteAddressed
