SPECIFICATION Spec
CONSTANTS
  VMIDs = {n1, n2}
  None = None
  LateClones = TRUE
  RollbacksFail = FALSE
  MaxFaults = 2
  MaxOwnerActs = 0
INVARIANT OneMachine
