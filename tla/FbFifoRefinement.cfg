SPECIFICATION FairSpec
CONSTANTS
  FB_NUM = 2
  Period = 5
  HDisplay = 3
  VDisplay = 2
INVARIANTS
  Inv
  NoTearing
  NoDataRace
PROPERTIES
  FramesInOrder
  ImplementsQueue
  Progress

