SPECIFICATION FairSpec
CONSTANTS
  c1 = c1
  Senders = {c1}
  QueueCap = 3
  MaxFaults = 2
  MaxRetries = 2
  NoMsg = NoMsg
  Auth = Auth
INVARIANT NeverStranded
PROPERTY PlacedReturns
PROPERTY EndsLoggedIn
CHECK_DEADLOCK FALSE
