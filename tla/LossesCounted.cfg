CONSTANTS
  m1 = m1
  m2 = m2
  o1 = o1
  o2 = o2
  s1 = s1
  s2 = s2
  s3 = s3
  Priorities <- MCPriorities
  Cycle <- MCCycle
  Modeling = 2
  Calls = {m1, o1}
  PriorityOf <- MCPriorityOf
  Sessions = {s1, s2}
  MaxRetries = 2
  MaxLosses = 1
SPECIFICATION Spec
INVARIANT LossesCostNoAttempt
