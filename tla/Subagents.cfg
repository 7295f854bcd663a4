SPECIFICATION FairSubSpec
CONSTANTS
  r1 = r1
  a1 = a1
  d1 = d1
  u1 = u1
  u2 = u2
  n1 = n1
  f1 = f1
  core = core
  Requirements = {r1}
  Assumptions = {a1}
  Decisions = {d1}
  Unknowns = {u1, u2}
  Answers = {n1}
  AreaKeys = {core}
  Critical = {core}
  StrayAreas = {}
  Links <- SomeLinks
  Pairs <- OnePair
  Findings = {f1}
  Rank <- SomeRank
  None = None
  MaxWrites = 5
INVARIANTS SubTypeOK ViewsAgree
PROPERTIES CoverageKept CoverageGrowsUnblocked SettlingKeepsReady
           DegradedAreHandedOver SessionsKeepTheBoard FlagsLast SessionsEnd
CHECK_DEADLOCK FALSE
