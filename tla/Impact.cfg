SPECIFICATION FairSpec
CONSTANTS
  Nodes <- SomeNodes
  Entities <- SomeEntities
INVARIANTS TypeOK AffectedIsComponent PathsAreShortest CycleIsReported
PROPERTIES AnalysisEnds
CHECK_DEADLOCK FALSE
