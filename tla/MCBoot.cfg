CONSTANTS
  Images     <- MCImages
  Bootrom    <- MCBootrom
  Cartridge  <- MCCartridge
  Starts     <- MCStarts
  CycleLimit = 440000
SPECIFICATION CoreSpec
CHECK_DEADLOCK FALSE
INVARIANTS
  OnlyAcceptedBoots
  HandsOver
PROPERTY
  AcceptedBoots
