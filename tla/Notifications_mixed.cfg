\* A channel of each kind; an issue that is detected and closed; one edit and one fault.
SPECIFICATION FairSpec
CONSTANTS
  Issues = {i1}
  Slack = {s1}
  Webhooks = {w1}
  None = None
  Changes <- McChanges
  Bodies <- McBodies
  MaxAttempts = 2
  MaxUpdates = 3
  MaxEdits = 1
  MaxFaults = 1
INVARIANTS
  NobodyIsSilenced
  DeliveriesAreTrue
PROPERTIES
  EventsArrive
CHECK_DEADLOCK FALSE
