SPECIFICATION ASpec
CONSTANTS
  FB_NUM = 2
  Period = 3
  HDisplay = 1
  VDisplay = 1
INVARIANT ExitRestoresConsole
CHECK_DEADLOCK FALSE
