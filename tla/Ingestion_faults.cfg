\* Two deliveries and two concurrent runs; one call throws, one request or run dies and
\* one run that is alive loses its lock, in any order.
SPECIFICATION MCSpec
CONSTANTS
  update = update
  payment = payment
  e1 = e1
  e2 = e2
  e3 = e3
  s1 = s1
  Logs = {l1, l2}
  Bodies <- MCBodies
  Contents <- MCContents
  Events = {e1, e2, e3}
  Identified = {e1, e2, e3}
  Entitled = {e1, e3}
  Sources = {s1}
  Slots = {w1, w2}
  NoEvent = NoEvent
  NoLog = NoLog
  NoSlot = NoSlot
  NoBody = NoBody
  MaxFaults = 1
  MaxCrashes = 1
  MaxLost = 1
  MaxRetries = 0
SYMMETRY Symmetry
INVARIANTS
  StatusIsTrue
PROPERTIES
  ImplementsEngine
CHECK_DEADLOCK FALSE
