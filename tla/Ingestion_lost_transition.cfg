\* One delivery, one run at a time, one death.
SPECIFICATION MCSpec
CONSTANTS
  update = update
  payment = payment
  e1 = e1
  e2 = e2
  e3 = e3
  s1 = s1
  Logs = {l1}
  Bodies <- MCBodies
  Contents <- MCContents
  Events = {e1, e2, e3}
  Identified = {e1, e2, e3}
  Entitled = {e1, e3}
  Sources = {s1}
  Slots = {w1}
  NoEvent = NoEvent
  NoLog = NoLog
  NoSlot = NoSlot
  NoBody = NoBody
  MaxFaults = 0
  MaxCrashes = 1
  MaxLost = 0
  MaxRetries = 0
INVARIANTS
  ProcessedTookEffect
CHECK_DEADLOCK FALSE
