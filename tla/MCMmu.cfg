CONSTANTS
  Images    <- MCImages
  Bootrom   <- MCBootrom
  Cartridge <- MCCartridge
  Addresses <- MCAddresses
  Data      = {0, 1, 255}
  MaxCells  = 2
SPECIFICATION Spec
CHECK_DEADLOCK FALSE
INVARIANTS
  TypeOK
  WritesReadBack
PROPERTY
  ImplementsStore
