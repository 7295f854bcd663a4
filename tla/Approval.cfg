SPECIFICATION Spec
CONSTANTS
  s1 = s1
  s2 = s2
  Stories <- SomeStories
  Batches <- SomeBatches
  Calls = {c1}
  Ttl = 1
  MaxEvents = 3
  MaxTime = 3
INVARIANTS TypeOK CreatedWasCovered CoveredIsNotRefused
CHECK_DEADLOCK FALSE
