CONSTANTS
  j1 = j1
  j2 = j2
  j3 = j3
  Chain <- Pair
  Clients = {c1}
  MaxOps = 1
  MaxRetries = 1
  MaxCrashes = 1
SPECIFICATION Spec
INVARIANTS AbortedNeverRuns SuccessIsTrue NoneLeftBehind
PROPERTIES JobsEnd
CHECK_DEADLOCK FALSE
