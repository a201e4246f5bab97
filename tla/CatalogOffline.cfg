SPECIFICATION Spec
CONSTANTS
  one = one
  two = two
  y75 = y75
  y76 = y76
  algebra = algebra
  biology = biology
  NoEntry = NoEntry
  Clients <- MCClients
  Scopes <- TwoYears
  Ids <- OneId
  Filters <- OneFilter
  Jobs <- ReaderJobs
  MaxRuns = 2
  MaxChanges = 1
  MaxLost = 0
SYMMETRY Symmetric
CHECK_DEADLOCK FALSE
INVARIANTS
  RowsWerePublished
  AnswersHaveEvidence
