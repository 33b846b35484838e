SPECIFICATION MCSpec
CONSTANTS
  MaxSwing = 2
  MaxLanes = 2
  CrTries = 3
  CeTries = 1
  AuxTries = 2
  Sinks <- MCSinks
  Modes <- MCModes
  Boards <- MCBoards
  DisplayModes = {"m1", "m2"}
  NB = 3
  ReadLen = 2
  Address <- MCAddress
  WriteBuf <- MCWriteBuf
  READ_RETRIES = 3
  DdcMonitors <- MCMonitors
INVARIANTS
  Inv
  SettingInv
  PathInv
PROPERTIES
  CrIsPatient
  PathsEnd
  OnlyMeantConditions
  QuietChange
