SPECIFICATION Spec
CONSTANTS
  Providers = {p1, p2}
  Enrolled = p1
  MaxRev = 2
  MaxFaults = 3
  HeadsTear = FALSE
INVARIANTS TypeOK NoFalseAlarm BootNeverRacesTheLoop
PROPERTIES LostLeasesStartNothing NoActInARestore EvidenceIsTold
CHECK_DEADLOCK FALSE
