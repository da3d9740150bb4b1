\* Two investigations at a time, two milliseconds, three requests in all, one query that throws.
SPECIFICATION FairSpec
CONSTANTS
  Calls = {c1, c2}
  MaxTime = 1
  MaxRequests = 3
  MaxFaults = 1
INVARIANTS
  DecisionsStand
  AnswersAreCurrent
  ErasedIsErased
PROPERTIES
  ErasureEnds
CHECK_DEADLOCK FALSE
