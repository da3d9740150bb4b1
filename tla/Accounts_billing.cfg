\* Two subscriptions, four changes, one failed call to Google.
SPECIFICATION BillingSpec
CONSTANTS
  Slugs = {o1}
  NoKey = NoKey
  WrongKey = WrongKey
  Offered = {"stripe"}
  MaxSetupFaults = 0
  MaxIssued = 1
  MaxVisits = 0
  Subs = {a, b}
  Worlds <- McWorlds
  None = None
  MaxUsers = 4
  MaxChanges = 4
  MaxFaults = 1
SYMMETRY Symmetry
INVARIANTS
  AccessFollowsPayment
  CustomersAreApart
  ImportIsComplete
CHECK_DEADLOCK FALSE
