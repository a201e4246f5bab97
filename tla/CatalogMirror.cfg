SPECIFICATION Spec
CONSTANTS
  one = one
  two = two
  y75 = y75
  y76 = y76
  algebra = algebra
  biology = biology
  NoEntry = NoEntry
  Clients <- MCClients
  Scopes <- OneYear
  Ids <- TwoIds
  Filters <- TwoFilters
  Jobs <- WriterJobs
  MaxRuns = 2
  MaxChanges = 1
  MaxLost = 1
SYMMETRY Symmetric
CHECK_DEADLOCK FALSE
INVARIANTS
  TypeOK
  IndexesFollowRows
  FullSyncMirrors
PROPERTIES
  PruneEvidence
