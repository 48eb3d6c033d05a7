SPECIFICATION Spec
CONSTANTS
  VMIDs = {n1, n2}
  None = None
  LateClones = FALSE
  RollbacksFail = TRUE
  MaxFaults = 2
  MaxOwnerActs = 2
INVARIANTS TypeOK OneMachine WhatCoreConcludesIsSo
PROPERTIES OthersKept NeverRebuilt ReportedIsKept AbsentEnds
