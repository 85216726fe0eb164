CONSTANTS
  Jobs = {j1, j2}
  Polls = {p1, p2}
  Shown = 1
  MaxTime = 3
  MaxChanges = 2
  MaxLost = 1
SPECIFICATION Spec
INVARIANTS AnnouncedUnlessRaced ButtonAgreesWithMenu
PROPERTIES NoSecondAlert ButtonCatchesUp
CHECK_DEADLOCK FALSE
