SPECIFICATION Spec
CONSTANTS
  r1 = r1
  a1 = a1
  d1 = d1
  u1 = u1
  n1 = n1
  core = core
  stray = stray
  Requirements = {r1}
  Assumptions = {a1}
  Decisions = {d1}
  Unknowns = {u1}
  Answers = {n1}
  AreaKeys = {core}
  Critical = {core}
  StrayAreas = {stray}
  Links <- SomeLinks
  Pairs <- OnePair
  None = None
INVARIANT BlockersCanBeCleared
