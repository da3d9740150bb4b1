\* Two organizations, one of them perhaps set up before, a web and an app
\* store, one visit, one fault.
SPECIFICATION SetupSpec
CONSTANTS
  Slugs = {o1, o2}
  NoKey = NoKey
  WrongKey = WrongKey
  Offered = {"stripe", "apple"}
  MaxSetupFaults = 1
  MaxIssued = 2
  MaxVisits = 1
  Subs = {a}
  Worlds <- OneWorld
  None = None
  MaxUsers = 1
  MaxChanges = 0
  MaxFaults = 0
SYMMETRY Symmetry
INVARIANTS
  SetupIsSound
CHECK_DEADLOCK FALSE
