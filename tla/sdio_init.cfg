SPECIFICATION FairSpec
CONSTANTS
  Cards <- AllCards
  CardRcas = {1, 2}
  Refusable <- AnyRequest
  CmdFaults <- AnyFault
  InitPolls = 1
  SwitchPolls = 1
  MaxInits = 2
INVARIANTS TypeOK AddressesTheCard SpeedIsReal WidthIsReal IdentityIsReal IInv
PROPERTIES ClockFollowsCard ImplementsBringUp InitReturns
