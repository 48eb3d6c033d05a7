SPECIFICATION Spec
CONSTANTS
  NoGuest = NoGuest
  NoView = NoView
  MaxConf = 2
  SyncFails = TRUE
  MaxBreaks = 1
PROPERTY ServesAsAsked
CHECK_DEADLOCK FALSE
