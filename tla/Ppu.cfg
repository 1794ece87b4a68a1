\* The literals of PPU.tick: nothing is scaled down.
CONSTANTS
  SearchCycles = 40
  LinePixels   = 160
  LineCycles   = 456
  VisibleLines = 144
  FrameLines   = 153
SPECIFICATION Spec
INVARIANTS
  TypeOK
  InStep
PROPERTIES
  LinesAreWhole
  ImplementsRaster
  FramesKeepComing
