SPECIFICATION Spec
CONSTANTS
  VMIDs = {n1, n2}
  None = None
  LateClones = FALSE
  RollbacksFail = FALSE
  MaxFaults = 1
  MaxOwnerActs = 0
PROPERTY StartsOnlyComplete
