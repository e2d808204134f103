SPECIFICATION Spec
CONSTANTS
  Cards <- OnlySd2Uhs
  CardRcas = {1}
  Refusable <- OnlyUhsVoltage
  CmdFaults <- NoFault
  InitPolls = 0
  SwitchPolls = 0
  MaxInits = 1
INVARIANT CleanVoltageFallback
