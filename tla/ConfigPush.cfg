CONSTANTS
  c1 = c1
  d1 = d1
  d2 = d2
  Classes = {c1}
  Devices = {d1, d2}
  Members <- MCMembers
  BatchSize = 2
  MaxChanges = 2
  MaxFaults = 2
SPECIFICATION Spec
INVARIANTS NeverStranded NoChangeForgotten
PROPERTIES ConfigArrives
