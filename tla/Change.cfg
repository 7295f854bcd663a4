SPECIFICATION Spec
CONSTANTS
  r1 = r1
  Comparable <- OneComparable
  MaxChanges = 2
  MaxAdjudications = 2
INVARIANT TypeOK
PROPERTIES ConflictsAreKept OkReportIsThisRounds
CHECK_DEADLOCK FALSE
