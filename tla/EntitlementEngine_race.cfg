\* Three events of one row, processed by up to three calls at once; the event
\* types are those that move an active row plus those that bring it there.
SPECIFICATION MCSpec
CONSTANTS
  e1 = e1
  e2 = e2
  e3 = e3
  Timeline <- MCTimeline
  Sources = {s1}
  Events = {e1, e2, e3}
  Procs = {p1, p2, p3}
  NoEvent = NoEvent
  Kinds = {"purchase", "renewal", "cancellation", "refund", "expiration", "pause"}
INVARIANTS
  HistoryIsFaithful
  ConflictHasAWinner
  StateIsTheReplay
PROPERTIES
  ImplementsLedger
CHECK_DEADLOCK FALSE
