CONSTANTS
  j1 = j1
  j2 = j2
  j3 = j3
  Chain <- Triple
  Clients = {c1}
  MaxOps = 0
  MaxRetries = 1
  MaxCrashes = 0
SPECIFICATION Spec
INVARIANTS ChainAborted
CHECK_DEADLOCK FALSE
