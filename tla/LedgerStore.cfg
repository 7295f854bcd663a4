SPECIFICATION FairSpec
CONSTANTS
  Threads = {t1, t2, t3}
  EntityPrefixes = {REQ}
  AllocPrefixes = {TXN}
  Keys = {k1}
  Fields = {f1, f2}
  None = None
  Faults <- AllFaults
  MaxCalls = 3
  MaxFaults = 2
INVARIANTS
  TypeOK
  EventIdsIncrease
  HandedOnce
  DuplicatesBoundedByFaults
  RepliesAreLogged
PROPERTIES
  IsAtomic
  CallsEnd
CHECK_DEADLOCK FALSE
