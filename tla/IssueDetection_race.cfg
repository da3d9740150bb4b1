\* Three events at two sources in two concurrent runs that race scans,
\* an access check, a person who closes an issue and a fault.  The ages and the
\* silences are played in Safeguards_live, here only before anything else (Calm).
SPECIFICATION MCSpec
CONSTANTS
  Products = {p1}
  Sources = {s1, s2}
  Events = {e1, e2, e3}
  Runs = {r1, r2}
  NoEvent = NoEvent
  Kinds = {"purchase", "expiration"}
  Watched = {"duplicate_billing", "cross_platform_conflict", "verified_paid_no_access", "verified_access_no_payment"}
  MaxReports = 1
  MaxClosed = 1
  MaxFaults = 1
  MaxIssues = 1
SYMMETRY Symmetry
CONSTRAINT Calm
INVARIANTS
  OneOpenPerUser
  CrossSourceIsFlagged
CHECK_DEADLOCK FALSE
