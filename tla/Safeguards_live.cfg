\* Six overlapping calls of a breaker with the thresholds of the code; one of two
\* connections watched by three scheduled scans; two events and two schedules.
SPECIFICATION AllSpec
CONSTANTS
  Scenes = {"breaker", "monitoring", "scans"}
  Calls = {c1, c2, c3, c4, c5, c6}
  failureThreshold = 5
  resetTimeout = 2
  halfOpenMaxAttempts = 3
  Never = Never
  MaxResets = 1
  acme = acme
  emca = emca
  p1 = p1
  s1 = s1
  e1 = e1
  e2 = e2
  r1 = r1
INVARIANTS
  TypesOK
PROPERTIES
  Recovers
  OutageIsFlagged
  UnrevokedIsFlagged
CHECK_DEADLOCK FALSE
