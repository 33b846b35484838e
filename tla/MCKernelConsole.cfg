SPECIFICATION MCSpec
CONSTANTS
  CRT_COLS = 2
  CRT_ROWS = 3
  BUFLEN = 3
  Glyph <- MCGlyph
  CONSBUFSIZE = 3
  SerialExists = TRUE
  KbdQueue = 2
  MaxTyped = 5
  Keys <- MCKeys
  WireLen = 2
  IntBits = 8
  WideBits = 12
  Size = 8
  WORD = 2
INVARIANTS
  Inv
  InputInv
  TextFits
  MoveInv
PROPERTIES
  LineStays
  InOrder
  GetcharReturns
  KeysRight
