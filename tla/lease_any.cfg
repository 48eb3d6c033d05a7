SPECIFICATION Spec
CONSTANTS
  Machines = {m1}
  NoView = NoView
  T = 2
  Lengths <- TwoLengths
  WriteEvery = 1
  StaleAfter = 2
  TimerEvery = 2
  AnswerTime = 1
  PassTime = 2
  CallTime = 1
  LockOpens = TRUE
  AnswersDuringCheck = TRUE
  Relists = TRUE
  StopsMayFail = TRUE
  MaxTime = 3
  MaxCrashes = 1
INVARIANTS TypeOK NeverBoth NoLeaseOutlivesItsView
PROPERTIES NeverMovedBack
