SPECIFICATION Spec
CONSTANTS
  Machines = {m1}
  NoView = NoView
  T = 2
  Lengths <- OneLength
  WriteEvery = 1
  StaleAfter = 2
  TimerEvery = 2
  AnswerTime = 1
  PassTime = 1
  CallTime = 0
  LockOpens = TRUE
  AnswersDuringCheck = TRUE
  Relists = FALSE
  StopsMayFail = FALSE
  MaxTime = 9
  MaxCrashes = 0
INVARIANT WrittenLeaseIsKept
