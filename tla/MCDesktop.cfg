SPECIFICATION MCSpec
CONSTANTS
  FB_NUM = 2
  Period = 3
  HDisplay = 1
  VDisplay = 1
  Clients = {c1, c2, c3}
  Bindable = {c1, c2}
  Frames = {f1, f2, f3}
  Root = Root
  Nothing = Nothing
  NoWindow = NoWindow
  QueueLen = 3
  DstSize = 600
  Pairs = {"solid", "copy", "xv", "comp"}
INVARIANTS
  RestoredIfDisplayInterrupted
  WmInv
  GpuInv
PROPERTIES
  ProgramsGoOn
CHECK_DEADLOCK FALSE
