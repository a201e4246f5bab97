SPECIFICATION Spec
CONSTANTS
  one = one
  two = two
  y75 = y75
  y76 = y76
  algebra = algebra
  biology = biology
  NoEntry = NoEntry
  Clients <- MCClients
  Scopes <- OneYear
  Ids <- TwoIds
  Filters <- OneFilter
  Jobs <- SyncJobs
  MaxRuns = 2
  MaxChanges = 0
  MaxLost = 0
SYMMETRY Symmetric
CHECK_DEADLOCK FALSE
PROPERTIES
  PrunedWasWithdrawn
