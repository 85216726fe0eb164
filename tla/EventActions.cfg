CONSTANTS
  MaxExecs = 3
  MaxBatches = 3
SPECIFICATION Spec
INVARIANTS InStep CarriedThrough QuietIsFresh
PROPERTIES CancelHolds DialogCloses
CHECK_DEADLOCK FALSE
