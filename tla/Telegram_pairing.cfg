SPECIFICATION FairSpec
CONSTANTS
  u1 = u1
  u2 = u2
  Users = {u1, u2}
  UserId <- MCUserId
  None = None
  FirstOwners = {u1}
  o1 = o1
  Operators = {o1}
  Wizard = wizard
  CodeSpace = 2
  Ttl = 1
  MaxTime = 1
  MaxStops = 1
  MaxUpdates = 2
  MaxEvents = 4
  MaxCount = 3
  MayBlock = {u1}
  Arrivals <- MCArrivals
INVARIANTS TelegramTypeOK ApprovedMeansAllowed FileBackedByTable NothingSkipped
INVARIANTS OrderKept DeliveriesExplained AdmittedForGood
PROPERTY EventuallyHandled
CHECK_DEADLOCK FALSE
