SPECIFICATION Spec
CONSTANTS
  Providers = {p1, p2}
  Enrolled = p1
  MaxRev = 2
  MaxFaults = 3
  HeadsTear = TRUE
PROPERTIES ModeEndsOnlyByCore
CHECK_DEADLOCK FALSE
