CONSTANTS
  Images     <- MCImages
  Bootrom    <- MCBootrom
  Cartridge  <- MCCartridge
  Starts     <- MCStarts
  CycleLimit = 1
SPECIFICATION Spec
CHECK_DEADLOCK FALSE
INVARIANTS
  TypeOK
  FlagsValid
PROPERTIES
  LengthsAgree
  DestinationsAgree
  HandlersAgree
  StoresAgree
  EndsAtEdges
  FormsAgree
