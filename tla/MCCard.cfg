SPECIFICATION MCSpec
CONSTANTS
  Size = 8
  Period = 9
  Threads = {t1, t2}
  Code <- MCCode
  Ps <- MCPs
  Ws <- MCWs
  Entry = {"mode", "none"}
  JmpTimeout = 1
  SemTimeout = 1
  Base = 2
  Locs <- MCLocs
  Sample = {0, 5, 15}
  EvergreenCrtcs = 2
  ATOM_MAX_SUPPORTED_DEVICE = 3
  MAX_DISPLAY = 2
  None = None
  Boards <- MCBoards
  Cards <- MCCards
  Clocks <- MCClocks
INVARIANTS
  Inv
  AtomInv
  FaultReachesCaller
  McInv
  DetectInv
  DriverInv
PROPERTIES
  ImplementsPipe
  CallsEnd
  NumbersRight
  QuietMove
