\* One delivery, which up to two runs work on; enough accidents to use up the attempts
\* and the stalls of its job, and a retry by the admin.
SPECIFICATION MCFairSpec
CONSTANTS
  update = update
  payment = payment
  e1 = e1
  e2 = e2
  e3 = e3
  s1 = s1
  Logs = {l1}
  Bodies = {update}
  Contents <- MCUpdateOnly
  Events = {e1, e2}
  Identified = {e1}
  Entitled = {e1}
  Sources = {s1}
  Slots = {w1, w2}
  NoEvent = NoEvent
  NoLog = NoLog
  NoSlot = NoSlot
  NoBody = NoBody
  MaxFaults = 3
  MaxCrashes = 1
  MaxLost = 1
  MaxRetries = 1
PROPERTIES
  WebhooksGetThrough
CHECK_DEADLOCK FALSE
