\* Two requests, a history of two events in pages of one, one accident.
SPECIFICATION FairSpec
CONSTANTS
  Runs = {r1, r2}
  NoRun = NoRun
  PageSize = 1
  MaxEvents = 2
  MaxAccidents = 1
INVARIANTS
  OneRunAtATime
  NothingIsSkipped
  ActiveHasAccess
PROPERTIES
  ProgressIsTrue
CHECK_DEADLOCK FALSE
