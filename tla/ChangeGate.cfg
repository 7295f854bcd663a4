SPECIFICATION Spec
CONSTANTS
  r1 = r1
  Comparable <- OneComparable
  MaxChanges = 2
  MaxAdjudications = 2
INVARIANT GateFollowsVerdicts
CHECK_DEADLOCK FALSE
