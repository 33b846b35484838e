SPECIFICATION InputSpec
CONSTANTS
  CONSBUFSIZE = 3
  SerialExists = TRUE
  KbdQueue = 2
  MaxTyped = 6
PROPERTY ZeroMeansNone
