CONSTANTS
  Images     <- MCImages
  Bootrom    <- MCBootrom
  Cartridge  <- MCCartridge
  Starts     <- MCStarts
  CycleLimit = 110
  Base       = 60930
  Slots      = 4
SPECIFICATION BalancedSpec
CHECK_DEADLOCK FALSE
INVARIANT
  StackHolds
PROPERTIES
  ImplementsStack
  ReturnsBehindCalls
  PopsTop
